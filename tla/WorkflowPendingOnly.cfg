CONSTANTS
  None = None
  g1 = g1 g2 = g2 n1 = n1 n2 = n2 n1pad = n1pad p1 = p1 p2 = p2 e1 = e1
  Ids = {i1, i2}
  Requests = {r1, r2, r3}
  Gtins <- MCGtins
  Names <- MCNames
  Trim <- MCTrim
  Users <- MCUsers
  Claims <- MCClaims
  CreateInputs <- MCCreateInputs
  UpdateInputs <- MCUpdateInputs
  MaxFaults = 0
SPECIFICATION Spec
SYMMETRY Interchangeable
INVARIANTS
  ProvidersUpdatePendingOnly
