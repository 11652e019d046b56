SPECIFICATION Spec
CONSTANTS
  Requests = {r1, r2}
  Limit <- MCLimit
  Retries = 1
  MaxGen = 1
INVARIANT ShutdownDrains
CHECK_DEADLOCK FALSE
