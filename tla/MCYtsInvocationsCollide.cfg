CHECK_DEADLOCK FALSE
SPECIFICATION FairSpec
CONSTANTS
  p1 = p1
  p2 = p2
  u1 = u1
  u2 = u2
  Peers = {p1, p2}
  Uids <- SharedUids
  Capabilities = {k1, k2}
  InvocationIds = {i1}
  Objects = {o1, o2}
  None = None
  Collisions = TRUE
INVARIANT ProxiesOfProfile
PROPERTY InvocationsEnd
