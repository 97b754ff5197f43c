CONSTANTS
  U32 = 4
  Jobs <- EveryJob
SPECIFICATION FairSpec
INVARIANTS TypeOK HistoryInOrder OutcomeTold OneChild
PROPERTIES KeepsContract HangsOnlyUntimed
CHECK_DEADLOCK FALSE
