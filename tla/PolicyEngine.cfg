SPECIFICATION TimerSpec
CONSTANTS
  r1 = r1
  r2 = r2
  Requests <- MCRequests
  Client <- MCClient
  Plugins <- MCPlugins
  Chain <- MCChain
  Fuel = 2
  Statuses = {399, 599}
  Replies <- MCReplies
  Sensitive = {"authorization"}
  SensitiveParams = {"token"}
  Shown <- MCShown
  Uuids = {"uuid"}
INVARIANTS
  
  
  SecretsContained
PROPERTIES
  TimeoutInterrupts
  EvaluationEnds
  CallsEnd
CHECK_DEADLOCK FALSE
