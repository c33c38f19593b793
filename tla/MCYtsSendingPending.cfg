CHECK_DEADLOCK FALSE
SPECIFICATION FairSpec
CONSTANTS
  Messages = {m1, m2}
  LastAtom = 3
PROPERTY PendingReported
