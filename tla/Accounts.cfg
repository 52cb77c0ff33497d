\* Logins, password resets, administrators and first runs, in five scenes.
SPECIFICATION Spec
CONSTANTS
  l1 = l1
  l2 = l2
  m1 = m1
  m2 = m2
  c1 = c1
  c2 = c2
  t1 = t1
  t2 = t2
  t3 = t3
  u1 = u1
  u2 = u2
  admin = admin
  editor = editor
  k1 = k1
  k2 = k2
  i1 = i1
  i2 = i2
  Logins = {l1, l2}
  Mails = {m1, m2}
  Confirms = {c1, c2}
  Tokens <- MCTokens
  Limits = {1, 2}
  SessionTtl = 1
  ResetTtl = 1
  MaxSessions = 4
  MaxClock = 1
  MaxCuts = 1
  Users <- MCUsers
  Roles = {admin, editor}
  AdminRole = admin
  Calls = {k1, k2}
  Installers = {i1, i2}
  Settable = {"active", "inactive"}
SYMMETRY Symmetry
INVARIANT SessionLimitSlack
INVARIANT TokenSpentOnce
INVARIANT PasswordChangeEndsSessions
INVARIANT AdminRemains
INVARIANT InstallOnce
CHECK_DEADLOCK FALSE
