CONSTANTS
  Sheets <- MCSheets
  MaxEdits = 2
  Careless = FALSE
SPECIFICATION Spec
CHECK_DEADLOCK FALSE
INVARIANTS SheetUnderstood
