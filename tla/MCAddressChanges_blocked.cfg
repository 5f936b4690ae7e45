SPECIFICATION Spec
CONSTANTS
  u1 = u1
  a1 = a1
  a2 = a2
  s1 = s1
  c1 = c1
  l1 = l1
  l2 = l2
  Accounts = {u1}
  Addresses = {a1, a2}
  Sessions = {s1}
  Calls = {c1}
  Links = {l1, l2}
  Nobody = Nobody
  NoAddress = NoAddress
PROPERTIES
  RefusedMeansTaken
