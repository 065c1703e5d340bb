SPECIFICATION RaceSpec
CONSTANTS
  Proc = {p, q}
  Nobody = Nobody
  Name = {f, g}
  Byte = {0, 1, 2}
  Strings <- MCStrings
  Sizes = {}
  InodeCount = 4
  BlockCount = 4
  BlockSize = 1
  MaxDirEntries = 2
  Word = 8
INVARIANTS BlocksApart CountExact WritesKept
SYMMETRY MCSymmetry
