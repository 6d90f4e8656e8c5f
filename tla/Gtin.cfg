CONSTANTS
  Bases <- MCBases
SPECIFICATION Spec
INVARIANTS
  AcceptsExactlyGS1
  SlipsRefused
CHECK_DEADLOCK FALSE
