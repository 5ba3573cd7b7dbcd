\* The API as scheduler.h offers it: a second task calls it at any time.
CONSTANTS
  Scheds = {s1, s2}
  Names = {n1, n2}
  Clients = {c1, c2, c3}
  Callers = {main, late}
  Main = main
  PoolSize = 2
  MaxPools = 2
  Periods <- MCOnePeriod
  NULL = NULL
SPECIFICATION Spec
SYMMETRY MCSymmetry
INVARIANTS RunsInitialisedOnly PassReachesAllClients InitAtMostOnce
PROPERTIES RegistrationsKept
