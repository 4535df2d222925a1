SPECIFICATION EditSpec
CONSTANTS
  Texts <- MCTexts
  Lines = {0, 1}
  Columns = {0, 1, 2}
  NewTexts <- MCNewTexts
  MaxEdits = 3
INVARIANT EditTypeOK
INVARIANT PositionsExact
INVARIANT AppliedBackwards
INVARIANT RefusedRightly
CHECK_DEADLOCK FALSE
