SPECIFICATION Spec
CONSTANTS
  Name = {f, g, h}
  Byte = {0, 1}
  Strings <- MCStrings
  Sizes = {0, 3}
  InodeCount = 6
  BlockCount = 4
  BlockSize = 2
  MaxDirEntries = 2
  Word = 8
CONSTRAINTS OneInMemory OneInodeLost
INVARIANTS TypeOK BlocksExclusive FreeBlocksExact DirectorySound NoOrphans
PROPERTIES BlockStays ImplementsFileStore
SYMMETRY MCSymmetry
