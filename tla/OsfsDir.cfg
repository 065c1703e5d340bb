SPECIFICATION Spec
CONSTANTS
  Names <- MCNames
  PerBlock = 2
  MaxBlocks = 5
  MaxRoom = 5
INVARIANT ListedInOrder
PROPERTIES ListingComplete ListingEnds
