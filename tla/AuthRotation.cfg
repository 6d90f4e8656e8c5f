CONSTANTS
  None = None
  Users = {u1, u2}
  Requests = {r1, r2, r3}
  Lifetime = 1
  BatchSize = 2
  MaxTime = 1
  MaxFaults = 1
SPECIFICATION Spec
INVARIANTS
  RotationIInv
  SuccessorsOfRevoked
  SpentTokenRefused
  RotatedUnlessFault
  CleanupIsComplete
PROPERTIES
  TokenPromise
  CleanupEnds
