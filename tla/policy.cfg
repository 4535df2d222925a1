SPECIFICATION PolicySpec
CONSTANTS
  Calls = {a1, a2, n1}
  OptIns = {a1, a2}
  EditIds = {e1, e2}
  MaxAsks = 3
SYMMETRY Interchangeable
INVARIANT ClosedBehind
INVARIANT AloneOnlyOptedIn
INVARIANT AloneAllowed
CHECK_DEADLOCK FALSE
