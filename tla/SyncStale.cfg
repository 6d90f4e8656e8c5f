CONSTANTS
  None = None
  g1 = g1 n1 = n1 n2 = n2 p1 = p1 e1 = e1
  Ids = {i1}
  Requests = {r1, r2, r3}
  Gtins = {g1}
  Names = {n1, n2}
  Trim <- MCTrim
  Users = {p1, e1}
  Claims <- MCClaims
  CreateInputs <- MCCreateInputs
  UpdateInputs <- MCUpdateInputs
  MaxFaults = 0
SPECIFICATION SyncSpec
INVARIANTS
  SettledIndexAgrees
