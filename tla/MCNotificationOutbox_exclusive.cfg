SPECIFICATION Spec
CONSTANTS
  m1 = m1
  m2 = m2
  Workers = {w1, w2}
  Items = {m1, m2}
  MaxAttempts = 2
  BatchSize = 1
  Lease = 2
  Backoff <- MCBackoff
  CreatedAt <- MCCreatedAt
  MaxLag = 1
  MaxCrashes = 1
  SlowSends = FALSE
  AckLoss = FALSE
  NoItem = NoItem
SYMMETRY RunSymmetry
INVARIANTS
  ExclusiveClaim
PROPERTIES
  DeliverySpec
