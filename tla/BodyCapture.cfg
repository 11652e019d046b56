SPECIFICATION Spec
CONSTANTS
  Sizes = {0, 1, 2}
  MaxBytes = 4
  PreviewLimit = 2
  RequestLimit = 3
  ResponseLimit = 2
INVARIANTS
  NothingLost
  
  BudgetKept
CHECK_DEADLOCK FALSE
