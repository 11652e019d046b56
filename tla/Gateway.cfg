SPECIFICATION FairSpec
CONSTANTS
  Requests = {r1, r2}
  Limit <- MCLimit
  Retries = 1
  MaxGen = 2
INVARIANTS
  TypeOK
  PermitsConserved
  AdmittedOnly
  RecordedOnce
  HandlerInv
PROPERTIES
  RequestsEnd
CHECK_DEADLOCK FALSE
