SPECIFICATION FairSpec
CONSTANTS
  Line <- MCLineExit
  Inputs <- MCInputsExit
  MaxMsg = 2
  Garbage = Garbage
PROPERTY SenderTerminates
CHECK_DEADLOCK FALSE
