SPECIFICATION Spec
CONSTANTS
  s1 = s1
  s2 = s2
  q1 = q1
  q2 = q2
  a1 = a1
  a2 = a2
  p1 = p1
  p2 = p2
  root = root
  about = about
  c1 = c1
  c2 = c2
  Procs = {s1, s2}
  Reqs = {q1}
  Admins = {a1}
  Pages = {p1}
  Paths = {root, about}
  Contents = {c1}
  Root = root
  Nothing = Nothing
  Ttls = {0, 1}
  DefaultTtl = 1
  MaxTtl = 1
  NonceTtl = 2
  MaxRender = 1
  MaxEntries = 1
  Allowed <- EveryDoing
  MaxTime = 3
SYMMETRY PairSymmetry
INVARIANTS
  BoundedStaleness
  NonceOutlivesEntry
PROPERTIES
  CachesAreLossy
CHECK_DEADLOCK FALSE
