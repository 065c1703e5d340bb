SPECIFICATION FairSpec
CONSTANTS
  Row = 3
  Col = 2
  Inner = 3
  BufferLines = 20
  X <- MCX
  Y <- MCY
INVARIANTS
  SumsExact
  HearsItself
  ListsWorking
PROPERTY
  Ends
