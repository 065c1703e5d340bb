SPECIFICATION Spec
CONSTANTS
  Name = {f, g}
  Byte = {0, 1}
  Strings <- MCStrings
  Positions = {0, 3}
  InodeCount = 5
  BlockCount = 4
  DataSize = 2
  MaxDirEntries = 1
INVARIANTS ChainsSound EachBlockOnce CountersExact EntriesKept
PROPERTY ImplementsFileStore
SYMMETRY MCSymmetry
