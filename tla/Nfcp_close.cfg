SPECIFICATION FairSpec
CONSTANTS
  Handlers = {"nfcp", "stdout"}
  LOG_QUEUE_LEN = 1
  MaxLines = 2
  Ids = {1, 2}
  Timeout = 1
  TickMod = 4
INVARIANT ZeroCloses
