SPECIFICATION Spec
CONSTANTS
  Name = {f, g, h, j, k}
  Byte = {0}
  Strings = {}
  Positions = {}
  InodeCount = 9
  BlockCount = 6
  DataSize = 2
  MaxDirEntries = 2
INVARIANT NamesUnique
SYMMETRY MCSymmetry
