SPECIFICATION Spec
CONSTANTS
  Ids = {a}
  Metas <- MCMetas
  Payloads <- MCPayloads
  MaxTotal = 1
  Days = 1
  Batch = 1
  MaxTime = 2
  MaxInserts = 2
  NoId = NoId
  Runs = {p}
  Targets = {"u", "v", "bad"}
  DbMayFail = FALSE
INVARIANT NeverSilent
CHECK_DEADLOCK FALSE
