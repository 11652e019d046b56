SPECIFICATION Spec
CONSTANTS
  Requests = {r1, r2}
  NumUpstreams = 2
  Threshold = 1
  Cooldown = 1
  Wrap = 2
  MaxTime = 1
INVARIANT RejectedMeansUnhealthy
