CHECK_DEADLOCK FALSE
SPECIFICATION Spec
CONSTANTS
  p1 = p1
  p2 = p2
  u1 = u1
  u2 = u2
  Peers = {p1, p2}
  Uids <- MixedUids
  Capabilities = {k1}
  InvocationIds = {i1, i2}
  Objects = {o1, o2, o3}
  None = None
  Collisions = FALSE
SYMMETRY Symmetry
INVARIANT RecordsLive
INVARIANT AnswersGoHome
INVARIANT ProxiesAskedFor
PROPERTY RegistrationKept
PROPERTY InvocationKept
