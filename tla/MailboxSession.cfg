SPECIFICATION FairSpec
CONSTANTS
  Sender = {1, 2}
  Receiver = {1, 2}
  Lines = 1
  MaxMsg = 2
  MaxKills = 1
INVARIANT
  SessionDelivers
PROPERTY
  SessionEnds
CHECK_DEADLOCK FALSE
