SPECIFICATION Spec
CONSTANTS
  c1 = c1
  c2 = c2
  s1 = s1
  s2 = s2
  t1 = t1
  t2 = t2
  t3 = t3
  Calls = {c1}
  Sessions = {s1}
  Links = {t1}
  Origins = {o1}
  LockThreshold = 2
  MaxPasswords = 1
  NoOrigin = NoOrigin
  NoSession = NoSession
INVARIANTS
  LockIsTemporary
