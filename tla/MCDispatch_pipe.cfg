CONSTANTS
  U32 = 4
  Jobs <- OneShotShell
SPECIFICATION FairSpec
PROPERTIES NeverUnbounded
CHECK_DEADLOCK FALSE
