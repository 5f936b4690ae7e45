SPECIFICATION Spec
CONSTANTS
  c1 = c1
  c2 = c2
  s1 = s1
  s2 = s2
  k1 = k1
  Calls = {c1, c2}
  Sessions = {s1, s2}
  Challenges = {k1}
  MaxAttempts = 2
  CodesPerBatch = 1
  MaxSecrets = 2
  MaxBatches = 2
  LastStep = 1
  OnePage = TRUE
  NoSession = NoSession
  NoChallenge = NoChallenge
SYMMETRY RowSymmetry
INVARIANTS
  ChallengesAreBounded
  
  RecoveryCodesMatchFactor
  
  OlderSessionsEnd

  
