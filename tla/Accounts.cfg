CONSTANTS
  None = None
  Requests = {q1, q2}
  Starts = {p1, p2}
  RoleIds = {r1, r2, r3}
  Users = {u1, u2, u3}
  Names = {"manager", "employee", "editor"}
  Emails = {e1, e2}
  Staff = {"manager", "employee"}
  Managers = {"manager"}
  Baseline <- MCBaseline
SPECIFICATION Spec
SYMMETRY Interchangeable
CHECK_DEADLOCK FALSE
INVARIANTS
  AccountsIInv
  OneRegistrationWins
  ClaimsWereGranted
  BaselineKept
PROPERTIES
  DeletionsKeepTheRest
  DeletedRolesNotAssigned
