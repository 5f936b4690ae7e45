SPECIFICATION Spec
CONSTANTS
  c1 = c1
  c2 = c2
  s1 = s1
  s2 = s2
  t1 = t1
  t2 = t2
  t3 = t3
  Calls = {c1, c2}
  Sessions = {s1, s2}
  Links = {t1, t2, t3}
  Origins = {o1}
  LockThreshold = 1
  MaxPasswords = 2
  NoOrigin = NoOrigin
  NoSession = NoSession
SYMMETRY RowSymmetry
INVARIANTS
  ServedAccountsAreAllowed
  PasswordEndsThePast
  LinksWorkOnce
  FailuresBounded
  FewLiveLinks
