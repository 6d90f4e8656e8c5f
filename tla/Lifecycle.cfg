CONSTANTS
  Requests = {r1, r2}
SPECIFICATION Spec
INVARIANTS
  LifecycleIInv
  RequestsKeepTheirDatabase
  CleanExit
  StartLeavesAnIndex
PROPERTIES
  ShutdownEnds
  NobodyWaitsForever
