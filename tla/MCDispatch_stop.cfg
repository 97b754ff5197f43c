CONSTANTS
  U32 = 4
  Jobs <- OneRetry
SPECIFICATION Spec
PROPERTIES StopAborts
CHECK_DEADLOCK FALSE
