CONSTANTS
  None = None
  Publishers = {p1}
  Retries = 2
  MaxFaults = 1
SPECIFICATION Spec
INVARIANTS
  EveryTryDials
