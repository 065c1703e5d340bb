SPECIFICATION FairSpec
CONSTANTS
  Line <- MCLine
  Inputs <- MCInputs
  MaxMsg = 2
  Garbage = Garbage
INVARIANTS OneToken StoreExclusive QueueNeverBlocks
PROPERTIES ImplementsOneSlot AllDelivered
