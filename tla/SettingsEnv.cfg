\* One service, one user who edits once and comes back once.
CONSTANTS
  Kinds = {db}
  User = {u1}
  MaxEdits = 1
  MaxVisits = 2
  MaxCalls = 1
  None = None
SPECIFICATION Spec
INVARIANTS
  RevisitedKept
CHECK_DEADLOCK FALSE
