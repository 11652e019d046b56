SPECIFICATION FairStoreSpec
CONSTANTS
  Ids = {a, b}
  Metas <- MCMetas
  Payloads <- MCPayloads
  MaxTotal = 1
  Days = 1
  Batch = 2
  MaxTime = 2
  MaxInserts = 4
INVARIANT RetentionBudget
PROPERTIES
  RetentionSpares
  
CHECK_DEADLOCK FALSE
