SPECIFICATION Spec
CONSTANTS
  s1 = s1
  s2 = s2
  q1 = q1
  q2 = q2
  a1 = a1
  a2 = a2
  p1 = p1
  p2 = p2
  root = root
  about = about
  c1 = c1
  c2 = c2
  Procs = {s1}
  Reqs = {q1}
  Admins = {a1}
  Pages = {p1}
  Paths = {root, about}
  Contents = {c1}
  Root = root
  Nothing = Nothing
  Ttls = {2}
  DefaultTtl = 2
  MaxTtl = 2
  NonceTtl = 3
  MaxRender = 1
  MaxEntries = 2
  Allowed <- RenamingDoings
  MaxTime = 3
SYMMETRY Symmetry
INVARIANT
  InvalidationComplete
CHECK_DEADLOCK FALSE
