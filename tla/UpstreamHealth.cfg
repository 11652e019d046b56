SPECIFICATION Spec
CONSTANTS
  Requests = {r1, r2, r3}
  NumUpstreams = 2
  Threshold = 2
  Cooldown = 1
  Wrap = 3
  MaxTime = 2
SYMMETRY Symmetry
INVARIANTS
  TypeOK
  
  CooldownBound
  SoleScanComplete
