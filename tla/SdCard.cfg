CONSTANTS
  Callers = {a, b}
  MaxCount = 2
  InitRetries = 2
  QueueLen = 2
  NULL = NULL
SPECIFICATION FairSpec
INVARIANTS BusFollowsPhase ReturnsOwnResult
PROPERTIES CallsReturn
