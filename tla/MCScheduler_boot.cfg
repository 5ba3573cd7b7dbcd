\* core/main.c as it is: main_task is the only caller.
CONSTANTS
  Scheds = {s1, s2}
  Names = {n1, n2}
  Clients = {c1, c2}
  Callers = {main}
  Main = main
  PoolSize = 2
  MaxPools = 1
  Periods <- MCPeriods
  NULL = NULL
SPECIFICATION FairSpec
INVARIANTS EnabledMeansReady
PROPERTIES TriggerRunsClients CallsReturn
\* With no scheduler defined nothing is left to do after sc_enable.
CHECK_DEADLOCK FALSE
