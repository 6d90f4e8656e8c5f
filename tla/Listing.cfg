CONSTANTS
  None = None
  Docs = {d1, d2, d3}
  Times = {1, 2, 3}
  Pages <- MCPages
  Limits <- MCLimits
  MaxPageSize = 2
SPECIFICATION Spec
SYMMETRY Interchangeable
INVARIANTS
  QuietWalkIsExact
  ArrivalsHideNothing
  DeparturesRepeatNothing
  TotalsMatchPage
