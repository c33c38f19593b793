CHECK_DEADLOCK FALSE
SPECIFICATION FairSpec
CONSTANTS
  Values = {on, off}
  Ids = {i1, i2}
  Objects = {q1, q2}
  None = None
  MaxChanges = 3
  MaxMessages = 3
INVARIANT ShownOrTold
PROPERTY MirrorSpec
PROPERTY PendingResolved
PROPERTY CatchesUp
