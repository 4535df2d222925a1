SPECIFICATION PolicySpec
CONSTANTS
  Calls = {a1, n1}
  OptIns = {a1}
  EditIds = {e1}
  MaxAsks = 2
INVARIANT OnlyOptedIn
CHECK_DEADLOCK FALSE
