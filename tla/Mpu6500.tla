------------------------------- MODULE Mpu6500 -------------------------------
(***************************************************************************)
(* module/sensor/motion_mpu6500.c over spi.c: a task configures the sensor *)
(* and then waits for its interrupt, reads a sample, converts it and       *)
(* triggers a scheduler.  Both the sensor's interrupt and the end of a     *)
(* transfer are bits of the task's one notification.                       *)
(*                                                                         *)
(* The sensor is the environment.  Its interrupt pin is active low and     *)
(* held until a read (INT_PIN_CFG), a burst read returns one sample; a     *)
(* byte of a sample is the sample's number.  Of the register writes of     *)
(* mpu6500_startup three matter to the pin: the reset (the first), the     *)
(* pin's configuration (the last but one) and its enable (the last).       *)
(***************************************************************************)
EXTENDS Spi

CONSTANTS
  ReadLen,  \* bytes of a burst: the address and 14 of data
  Writes,   \* register writes of mpu6500_startup
  Samples   \* numbers of samples, reused in turn

ASSUME LengthAssumption == ReadLen \in Nat \ {0, 1} /\ Writes \in Nat \ {0, 1, 2}
ASSUME SamplesAssumption == Samples \in Nat \ {0, 1}

VARIABLES
  mpc,        \* mpu6500_task
  writes,     \* register writes begun
  pin_cs, pin_int,
  notify_value,
  out,        \* out_acc, out_temp, out_gyro
  sample, burst,  \* the sensor's newest sample, the one being read
  shifted     \* bytes of this transfer that the sensor has seen

mpuVars == <<mpc, writes, pin_cs, notify_value, out>>
sensorVars == <<pin_int, sample, burst, shifted>>
vars == <<spiVars, notifyVars, mpuVars, sensorVars>>

INT == 0  \* MPU6500_NOTIFY_INT

\* mpu6500_init: the task exists before the pin's interrupt is configured.
\* The pin has whatever level the sensor was left with.
Init ==
  /\ SpiInit
  /\ mpc = "startup" /\ writes = 0
  /\ pin_cs = TRUE
  /\ pin_int \in BOOLEAN
  /\ notify_value = {}
  /\ out = <<>>
  /\ sample = 0 /\ burst = 0 /\ shifted = 0

-----------------------------------------------------------------------------
(* The sensor                                                              *)

\* A falling edge of the pin runs mpu6500_wakeup at once: it is an interrupt.
mpu6500_wakeup(level) ==
  IF pin_int /\ ~level THEN Notify(INT) ELSE UNCHANGED notifyVars

Enabled == mpc \notin {"startup", "write"} \/ (writes = Writes /\ shifted = 2)

\* A new sample, while the previous one may not have been read yet.
sensor_ready ==
  /\ Enabled
  /\ sample' = (sample + 1) % Samples
  /\ pin_int' = FALSE
  /\ mpu6500_wakeup(FALSE)
  /\ UNCHANGED <<spiVars, mpuVars, burst, shifted>>

\* The level of the pin after the sensor has seen one more byte.
LevelAfter ==
  CASE mpc = "read" /\ shifted = 0 -> TRUE
    [] mpc = "write" /\ writes = 1 /\ shifted = 1 -> FALSE
    [] mpc = "write" /\ writes = Writes - 1 /\ shifted = 1 -> TRUE
    [] OTHER -> pin_int

\* A byte on the bus.  Chip select must be low for the sensor to see it.
sensor_byte ==
  /\ burst' = IF mpc = "read" /\ shifted = 0 THEN sample ELSE burst
  /\ shift(IF mpc = "read" THEN burst' ELSE 0)
  /\ shifted' = shifted + 1
  /\ pin_int' = LevelAfter
  /\ mpu6500_wakeup(pin_int')
  /\ UNCHANGED <<mpuVars, sample>>

-----------------------------------------------------------------------------
(* mpu6500_task                                                            *)

\* mpu6500_startup, mpu6500_write_reg: select the sensor and start a
\* transfer of two bytes.
write_reg ==
  /\ mpc = "startup"
  /\ pin_cs' = FALSE
  /\ transfer_begin(2)
  /\ writes' = writes + 1
  /\ mpc' = "write"
  /\ shifted' = 0
  /\ UNCHANGED <<notify_value, out, pin_int, sample, burst>>

\* The transfer returned; the last write is followed by the main loop.
write_reg_returns ==
  /\ mpc = "write"
  /\ transfer_wait(/\ pin_cs' = TRUE
                   /\ mpc' = IF writes = Writes THEN "wait" ELSE "startup")
  /\ current_task' => UNCHANGED <<mpc, pin_cs>>
  /\ UNCHANGED <<writes, notify_value, out, sensorVars>>

\* xTaskNotifyWait(0, UINT32_MAX, ...) ends with a notification ...
task_notified ==
  /\ mpc = "wait"
  /\ pending
  /\ notify_value' = value
  /\ value' = {} /\ pending' = FALSE
  /\ mpc' = "check"
  /\ UNCHANGED <<spiVars, writes, pin_cs, out, sensorVars>>

\* Mutant of task_timeout: the wait has no timeout.
task_timeout_never ==
  /\ mpc = "wait" /\ ~pending
  /\ UNCHANGED vars

\* ... or after MPU6500_NOTIFY_TIMEOUT, and then clears nothing.
task_timeout ==
  /\ mpc = "wait"
  /\ ~pending
  /\ notify_value' = value
  /\ mpc' = "check"
  /\ UNCHANGED <<spiVars, notifyVars, writes, pin_cs, out, sensorVars>>

\* Nothing to read.
task_continue ==
  /\ mpc = "check"
  /\ INT \notin notify_value /\ pin_int
  /\ mpc' = "wait"
  /\ UNCHANGED <<spiVars, notifyVars, writes, pin_cs, notify_value, out,
                 sensorVars>>

task_read ==
  /\ mpc = "check"
  /\ INT \in notify_value \/ ~pin_int
  /\ pin_cs' = FALSE
  /\ transfer_begin(ReadLen)
  /\ mpc' = "read"
  /\ shifted' = 0
  /\ UNCHANGED <<writes, notify_value, out, pin_int, sample, burst>>

task_read_returns ==
  /\ mpc = "read"
  /\ transfer_wait(pin_cs' = TRUE /\ mpc' = "output")
  /\ current_task' => UNCHANGED <<mpc, pin_cs>>
  /\ UNCHANGED <<writes, notify_value, out, sensorVars>>

\* The outputs are computed from bytes 1 to 14 of the buffer, and byte 0,
\* received with the address, is left out; then sc_trigger.
task_output ==
  /\ mpc = "output"
  /\ out' = SubSeq(rx_buf, 2, Len(rx_buf))
  /\ mpc' = "wait"
  /\ UNCHANGED <<spiVars, notifyVars, writes, pin_cs, notify_value, sensorVars>>

-----------------------------------------------------------------------------
Task ==
  \/ write_reg \/ write_reg_returns \/ task_notified \/ task_timeout
  \/ task_continue \/ task_read \/ task_read_returns \/ task_output

Interrupt == spi_irqhandler /\ UNCHANGED <<mpuVars, sensorVars>>

Next == sensor_ready \/ sensor_byte \/ Interrupt \/ Task

Spec == Init /\ [][Next]_vars

\* The sensor need not have a new sample.  The task's wait ends after its
\* timeout at the latest.
FairSpec ==
  /\ Spec
  /\ WF_vars(sensor_byte) /\ WF_vars(Interrupt) /\ WF_vars(Task)

-----------------------------------------------------------------------------
(* Properties                                                              *)

InTransfer == mpc \in {"write", "read"}

\* Every variable keeps its type.
TypeOK ==
  /\ SpiTypeOK
  /\ mpc \in {"startup", "write", "wait", "check", "read", "output"}
  /\ writes \in 0 .. Writes
  /\ pin_cs \in BOOLEAN /\ pin_int \in BOOLEAN
  /\ notify_value \subseteq {INT, Done}
  /\ shifted \in 0 .. ReadLen

\* The outputs a scheduler is triggered with are those of one sample, whole:
\* spi_transfer does not return before its last byte was received, whatever
\* other notifications the task gets meanwhile.
OutputsAreOneSample ==
  mpc = "wait" /\ out # <<>> =>
    /\ Len(out) = ReadLen - 1
    /\ \A i, j \in DOMAIN out : out[i] = out[j]

\* When the sensor is deselected, no byte of the transfer that returned is
\* still on its way, and no interrupt for one is enabled.
BusQuietWhenDeselected ==
  pin_cs => tx_reg = 0 /\ rx_reg = <<>> /\ ~txe_it /\ ~rxne_it

\* The end of a transfer is notified once, and the transfer consumes the
\* notification: none is left that would end the next transfer at once.
CompletionConsumed ==
  ~InTransfer \/ tx_left > 0 \/ rx_left > 0 => Done \notin value

\* The interrupt handler never has more bytes to read than the transfer has
\* left, with which it would not leave its loop.
HandlerLeavesLoop == Len(rx_reg) <= rx_left

\* Nothing of a transfer outlives it: no byte, no interrupt, no notification,
\* and no handler that does not return.
TransfersSeparate == BusQuietWhenDeselected /\ CompletionConsumed /\ HandlerLeavesLoop

\* A sample is read after the sensor has signalled it, even when the wait in
\* spi_transfer consumes the sensor's notification: then the timeout of the
\* task's own wait does it.
SamplesAreRead == ~pin_int /\ mpc = "wait" ~> pin_int

=============================================================================
