SPECIFICATION EditSpec
CONSTANTS
  Texts <- MCTexts
  Lines = {0, 1}
  Columns = {0, 1, 2}
  NewTexts <- MCNewTexts
  MaxEdits = 2
INVARIANT AppliedInOrder
CHECK_DEADLOCK FALSE
