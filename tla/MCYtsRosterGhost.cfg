CHECK_DEADLOCK FALSE
SPECIFICATION Spec
CONSTANTS
  c1 = c1
  c2 = c2
  s1 = s1
  s2 = s2
  x = x
  y = y
  Contacts = {c1}
  Services = {s1, s2}
  Capabilities = {f1}
  Statuses = {x, y}
  NoStatus = NoStatus
  Caps <- AllCaps
  Unresolvable = {}
  Reports <- AllReports
  MaxPending <- Singles
  MaxConnections = 1
SYMMETRY Symmetry
INVARIANT NoGhost
