SPECIFICATION FairClientSpec
CONSTANTS
  Timers = {t1, t2, t3}
  NoTimer = NoTimer
  MaxCalls = 2
  AccountLags = TRUE
  Capabilities = {c1}
  Statuses = {s1, s2}
  NoStatus = NoStatus
  Absent = Absent
  MaxQueued = 2
INVARIANT TimerKnown
INVARIANT NoDeadConnection
INVARIANT RetryPending
INVARIANT LatestAdvertised
PROPERTY Reconnects
PROPERTY StatusShown
CHECK_DEADLOCK FALSE
