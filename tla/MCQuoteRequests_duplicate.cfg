SPECIFICATION Spec
CONSTANTS
  u1 = u1
  r1 = r1
  r2 = r2
  Requests = {r1}
  Pages = {p1}
  Calls = {c1}
  Officers = {}
  Clients = {u1}
  UserOf <- MCUserOf
  MaxHistory = 1
  Nobody = Nobody
  NoRequest = NoRequest
  NoPage = NoPage
  NoCall = NoCall
SYMMETRY MCSymmetry
INVARIANTS
  DuplicateMeansSubmitted
