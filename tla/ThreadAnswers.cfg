SPECIFICATION Spec
CONSTANTS
  Row = 1
  Col = 1
  Inner = 2
  BufferLines = 20
  X <- MCX
  Y <- MCY
INVARIANT
  ProductExact
