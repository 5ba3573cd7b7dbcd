CONSTANTS
  t1 = t1
  t10 = t10
  servo = servo
  sched = sched
  servo_dma = servo_dma
  Users = {servo, sched, servo_dma}
  Uses <- MCUses
  Timers = {t1, t10}
  Chans = {1, 2}
  Vector <- MCVector
  Configs = {1, 2}
  ServoConfig = 1
  Pulses = {1, 2}
  Streams = {0, 1}
  UartStream = 0
  NoStream = 99
  TxSize = 2
  Writes = {3}
  Factors <- MCFactors
  CountMod = 5
  MaxNew = 1
  MaxBytes = 3
  NULL = NULL
SPECIFICATION FairSpec
INVARIANTS TransfersWhole DecimationExact
PROPERTIES AllServed
\* A failed configuration leaves main_task suspended.
CHECK_DEADLOCK FALSE
