CONSTANTS
  None = None
  Users = {u1}
  Requests = {r1, r2, r3}
  Lifetime = 1
  BatchSize = 1
  MaxTime = 2
  MaxFaults = 0
SPECIFICATION Spec
INVARIANTS
  NoReuse
