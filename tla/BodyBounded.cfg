SPECIFICATION Spec
CONSTANTS
  Sizes = {0, 1, 2}
  MaxBytes = 4
  PreviewLimit = 2
  RequestLimit = 3
  ResponseLimit = 2
INVARIANT
  CaptureBounded
CHECK_DEADLOCK FALSE
