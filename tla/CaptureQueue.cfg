SPECIFICATION EnqueueSpec
CONSTANTS
  Writes = {w1, w2, w3}
  Capacity = 1
  Nobody = Nobody
INVARIANTS
  TypeOK
  DropsAccounted
  CapturesTruthful
PROPERTIES
  SinkSpec
  EnqueueEnds
  RecordsSettle
CHECK_DEADLOCK FALSE
