CONSTANTS
  U32 = 4
  Jobs <- NoCap
SPECIFICATION Spec
INVARIANTS ZeroDisablesCap
CHECK_DEADLOCK FALSE
