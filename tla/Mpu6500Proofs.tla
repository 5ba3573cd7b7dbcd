---------------------------- MODULE Mpu6500Proofs ----------------------------
(***************************************************************************)
(* For every depth of the SPI hardware's buffers, every length of a burst  *)
(* and any number of register writes: what the scheduler's clients get is  *)
(* one whole sample, and nothing of a transfer outlives it.  The argument  *)
(* counts the bytes of a transfer: those the task still waits for are the  *)
(* ones not yet written, on their way, or received and not yet read.       *)
(***************************************************************************)
EXTENDS Mpu6500, TLAPS

USE DepthAssumption, LengthAssumption, SamplesAssumption

-----------------------------------------------------------------------------
(* The inductive invariant                                                 *)

SampleNumbers == 0 .. (Samples - 1)

Typed ==
  /\ TypeOK
  /\ rx_reg \in Seq(SampleNumbers) /\ rx_buf \in Seq(SampleNumbers)
  /\ out \in Seq(SampleNumbers)
  /\ sample \in SampleNumbers /\ burst \in SampleNumbers
  /\ value \subseteq {INT, Done}
  /\ mpc = "startup" => writes < Writes
  /\ mpc = "write" => writes > 0

\* No byte anywhere, no interrupt enabled.
Quiet ==
  /\ tx_left = 0 /\ rx_left = 0 /\ tx_reg = 0 /\ rx_reg = <<>>
  /\ ~txe_it /\ ~rxne_it

\* Between transfers.
Idle == ~InTransfer => Quiet /\ pin_cs /\ ~current_task /\ Done \notin value

TransferLen == IF mpc = "read" THEN ReadLen ELSE 2

\* In a transfer every byte is somewhere; the completion is notified when
\* the last one has been read, and then the interrupts are disabled.
Transfer ==
  InTransfer =>
    /\ ~pin_cs /\ current_task
    /\ rx_left = tx_left + tx_reg + Len(rx_reg)
    /\ Len(rx_buf) + rx_left = TransferLen
    /\ shifted = Len(rx_buf) + Len(rx_reg)
    /\ rx_left > 0 => Done \notin value
    /\ rx_left = 0 => Quiet

\* The bytes of a burst are those of the sample it began with.
OneBurst ==
  mpc \in {"read", "output"} =>
    /\ \A i \in 1 .. Len(rx_buf) : rx_buf[i] = burst
    /\ \A i \in 1 .. Len(rx_reg) : rx_reg[i] = burst

\* The buffer is complete when the outputs are computed.
BufferComplete == mpc = "output" => Len(rx_buf) = ReadLen

WholeOutputs ==
  out # <<>> => /\ Len(out) = ReadLen - 1
                /\ \A i, j \in 1 .. Len(out) : out[i] = out[j]

IInv ==
  /\ Typed /\ Idle /\ Transfer /\ OneBurst /\ BufferComplete /\ WholeOutputs

-----------------------------------------------------------------------------
(* The invariant is inductive                                              *)

\* Sums of natural numbers.
LEMMA Sums ==
  /\ \A m, n \in Nat : m + n = 0 => m = 0 /\ n = 0
  /\ \A n \in Nat : n + 0 + 0 = n /\ 0 + n = n
  OBVIOUS

\* It holds after mpu6500_init.
LEMMA InitIInv == Init => IInv
  <1> SUFFICES ASSUME Init PROVE IInv
    OBVIOUS
  <1>1. Typed
    <2>1. /\ txe_it \in BOOLEAN /\ rxne_it \in BOOLEAN
          /\ current_task \in BOOLEAN /\ pending \in BOOLEAN
          /\ pin_cs \in BOOLEAN /\ pin_int \in BOOLEAN
      BY Zenon DEF Init, SpiInit
    <2>2. /\ rx_reg \in Seq(SampleNumbers) /\ Len(rx_reg) = 0
          /\ rx_buf \in Seq(SampleNumbers) /\ out \in Seq(SampleNumbers)
      BY DEF Init, SpiInit
    <2> QED
      BY <2>1, <2>2 DEF Init, SpiInit, Typed, TypeOK, SpiTypeOK, SampleNumbers
  <1>2. Idle /\ Transfer /\ OneBurst /\ BufferComplete /\ WholeOutputs
    BY DEF Init, SpiInit, Idle, Quiet, Transfer, OneBurst, BufferComplete,
           WholeOutputs, InTransfer
  <1> QED BY <1>1, <1>2 DEF IInv

\* The interrupt of the sensor's pin only adds its own bit.
LEMMA WakeupAddsInt ==
  ASSUME Typed, NEW level, mpu6500_wakeup(level)
  PROVE  /\ value' \in {value, value \cup {INT}} /\ pending' \in BOOLEAN
         /\ value' \subseteq {INT, Done} /\ value' \subseteq 0 .. 31
         /\ Done \in value' <=> Done \in value
  <1>1. value' \in {value, value \cup {INT}}
    BY DEF mpu6500_wakeup, Notify, notifyVars
  <1>2. pending' \in BOOLEAN
    BY DEF mpu6500_wakeup, Notify, notifyVars, Typed, TypeOK, SpiTypeOK
  <1> QED BY <1>1, <1>2 DEF Typed, INT, Done

\* A sample, at any time, is a notification and nothing else to the task.
LEMMA ReadyPreserves ==
  ASSUME IInv, sensor_ready
  PROVE  IInv'
  <1> USE DEF IInv
  <1>1. /\ UNCHANGED <<txe_it, rxne_it, tx_reg, rx_reg, tx_left, rx_left,
                       rx_buf, current_task, mpc, writes, pin_cs, notify_value,
                       out, burst, shifted>>
        /\ sample' \in SampleNumbers
    BY DEF sensor_ready, spiVars, spiHw, mpuVars, Typed, SampleNumbers
  <1>2. /\ value' \subseteq {INT, Done} /\ value' \subseteq 0 .. 31
        /\ pending' \in BOOLEAN /\ (Done \in value' <=> Done \in value)
    BY WakeupAddsInt DEF sensor_ready
  <1>3. Typed'
    <2>1. pin_int' \in BOOLEAN
      BY Zenon DEF sensor_ready
    <2> QED BY <1>1, <1>2, <2>1 DEF Typed, TypeOK, SpiTypeOK
  <1>4. Idle' /\ Transfer'
    BY <1>1, <1>2 DEF Idle, Transfer, Quiet, InTransfer, TransferLen
  <1>5. OneBurst' /\ BufferComplete' /\ WholeOutputs'
    BY <1>1 DEF OneBurst, BufferComplete, WholeOutputs
  <1> QED BY <1>3, <1>4, <1>5

\* A byte on the bus goes from the transmitter to the receiver.
LEMMA BytePreserves ==
  ASSUME IInv, sensor_byte
  PROVE  IInv'
  <1> USE DEF IInv
  <1> DEFINE byte == IF mpc = "read" THEN burst' ELSE 0
  <1>1. /\ UNCHANGED <<txe_it, rxne_it, tx_left, rx_left, rx_buf, current_task,
                       mpc, writes, pin_cs, notify_value, out, sample>>
        /\ tx_reg > 0 /\ tx_reg' = tx_reg - 1 /\ Len(rx_reg) < RxDepth
        /\ rx_reg' = Append(rx_reg, byte) /\ shifted' = shifted + 1
        /\ burst' = IF mpc = "read" /\ shifted = 0 THEN sample ELSE burst
    BY DEF sensor_byte, shift, ReadInTime, mpuVars
  <1>2. InTransfer /\ tx_reg \in 1 .. TxDepth /\ rx_left > 0
    BY <1>1 DEF Idle, Quiet, Transfer, Typed, TypeOK, SpiTypeOK
  <1>3. burst' \in SampleNumbers /\ byte \in SampleNumbers
    BY <1>1 DEF Typed, SampleNumbers
  <1> HIDE DEF byte
  <1>4. /\ rx_reg' \in Seq(SampleNumbers) /\ Len(rx_reg') = Len(rx_reg) + 1
        /\ \A i \in 1 .. Len(rx_reg) : rx_reg'[i] = rx_reg[i]
        /\ rx_reg'[Len(rx_reg) + 1] = byte /\ rx_reg' # <<>>
        /\ Len(rx_reg) \in Nat /\ Len(rx_buf) \in Nat
    BY <1>1, <1>3 DEF Typed
  <1>5. /\ value' \subseteq {INT, Done} /\ value' \subseteq 0 .. 31
        /\ pending' \in BOOLEAN /\ (Done \in value' <=> Done \in value)
    BY WakeupAddsInt DEF sensor_byte
  <1>6. pin_int' \in BOOLEAN
    <2>1. LevelAfter \in BOOLEAN
      BY DEF LevelAfter, Typed, TypeOK
    <2> QED BY <2>1 DEF sensor_byte
  <1>7. Transfer'
    <2>1. /\ rx_left' = tx_left' + tx_reg' + Len(rx_reg')
          /\ Len(rx_buf') + rx_left' = TransferLen'
          /\ shifted' = Len(rx_buf') + Len(rx_reg')
      BY <1>1, <1>2, <1>4 DEF Transfer, TransferLen, Typed, TypeOK, SpiTypeOK
    <2>2. ~pin_cs' /\ current_task' /\ rx_left' > 0 /\ Done \notin value'
      BY <1>1, <1>2, <1>5 DEF Transfer, Typed, TypeOK, SpiTypeOK
    <2> QED BY <2>1, <2>2 DEF Transfer, Typed, TypeOK, SpiTypeOK
  <1>8. Typed'
    <2>1. shifted' \in 0 .. ReadLen
      BY <1>1, <1>2, <1>4 DEF Transfer, TransferLen, Typed, TypeOK, SpiTypeOK
    <2>2. Len(rx_reg') <= RxDepth /\ tx_reg' \in 0 .. TxDepth
      BY <1>1, <1>2, <1>4
    <2> QED
      BY <1>1, <1>3, <1>4, <1>5, <1>6, <2>1, <2>2 DEF Typed, TypeOK, SpiTypeOK
  <1>9. Idle' /\ BufferComplete' /\ WholeOutputs'
    BY <1>1, <1>2 DEF Idle, InTransfer, BufferComplete, WholeOutputs
  <1>10. OneBurst'
    <2> SUFFICES ASSUME mpc = "read" PROVE OneBurst'
      BY <1>1, <1>2 DEF InTransfer, OneBurst
    <2>1. byte = burst'
      BY DEF byte
    <2>2. burst' = burst \/ (Len(rx_buf) = 0 /\ Len(rx_reg) = 0)
      BY <1>1, <1>2, <1>4 DEF Transfer
    <2> QED BY <1>1, <1>4, <2>1, <2>2 DEF OneBurst
  <1> QED BY <1>7, <1>8, <1>9, <1>10

\* The task starts a transfer of length bytes.
LEMMA BeginPreserves ==
  ASSUME IInv, write_reg \/ task_read
  PROVE  IInv'
  <1> USE DEF IInv
  <1>1. /\ current_task' = TRUE /\ rxne_it' = TRUE /\ txe_it' = TRUE
        /\ rx_reg' = <<>> /\ rx_buf' = <<>> /\ pin_cs' = FALSE /\ shifted' = 0
        /\ tx_left' = TransferLen' /\ rx_left' = TransferLen'
        /\ mpc' \in {"write", "read"}
        /\ UNCHANGED <<tx_reg, value, pending, notify_value, out, pin_int,
                       sample, burst>>
    BY DEF write_reg, task_read, transfer_begin, notifyVars, TransferLen
  <1>2. ~InTransfer /\ tx_reg = 0 /\ Done \notin value
    BY DEF write_reg, task_read, InTransfer, Idle, Quiet
  <1>3. /\ Len(rx_reg') = 0 /\ rx_reg' \in Seq(SampleNumbers)
        /\ Len(rx_buf') = 0 /\ rx_buf' \in Seq(SampleNumbers)
        /\ TransferLen' \in 1 .. ReadLen
    BY <1>1 DEF TransferLen
  <1>4. Typed'
    <2>1. /\ current_task' \in BOOLEAN /\ rxne_it' \in BOOLEAN
          /\ txe_it' \in BOOLEAN /\ pin_cs' \in BOOLEAN
      BY <1>1, Zenon
    <2>2. writes' \in 0 .. Writes /\ (mpc' = "write" => writes' > 0)
      BY DEF write_reg, task_read, Typed, TypeOK
    <2> QED BY <1>1, <1>3, <2>1, <2>2 DEF Typed, TypeOK, SpiTypeOK
  <1>5. Idle' /\ BufferComplete' /\ WholeOutputs' /\ OneBurst'
    BY <1>1, <1>3 DEF Idle, InTransfer, BufferComplete, WholeOutputs, OneBurst
  <1>6. Transfer'
    <2>1. ~pin_cs' /\ current_task' /\ Done \notin value'
      BY <1>1, <1>2, Zenon
    <2>2. tx_reg' = 0 /\ rx_left' \in Nat /\ rx_left' # 0 /\ tx_left' = rx_left'
      BY <1>1, <1>2, <1>3
    <2>3. rx_left' = tx_left' + tx_reg' + Len(rx_reg')
      BY <1>3, <2>2, Sums, Zenon
    <2>4. Len(rx_buf') + rx_left' = TransferLen'
      BY <1>1, <1>3, <2>2, Sums, Zenon
    <2>5. shifted' = Len(rx_buf') + Len(rx_reg')
      BY <1>1, <1>3
    <2> QED BY <2>1, <2>2, <2>3, <2>4, <2>5, Zenon DEF Transfer
  <1> QED BY <1>4, <1>5, <1>6

\* The task's wait in spi_transfer: it returns after the last byte, and goes
\* on after any other notification.
LEMMA ReturnPreserves ==
  ASSUME IInv, write_reg_returns \/ task_read_returns
  PROVE  IInv'
  <1> USE DEF IInv
  <1>1. /\ pending' = FALSE /\ value' = value \ {Done} /\ InTransfer
        /\ UNCHANGED <<txe_it, rxne_it, tx_reg, rx_reg, tx_left, rx_left,
                       rx_buf, writes, notify_value, out, pin_int, sample,
                       burst, shifted>>
    BY DEF write_reg_returns, task_read_returns, transfer_wait, spiHw,
           sensorVars, InTransfer
  <1>2. /\ value' \subseteq {INT, Done} /\ value' \subseteq 0 .. 31
        /\ Done \notin value' /\ pending' \in BOOLEAN
    <2>1. pending' \in BOOLEAN
      BY <1>1, Zenon
    <2> QED BY <1>1, <2>1 DEF Typed, TypeOK, SpiTypeOK
  <1>3. WholeOutputs'
    BY <1>1 DEF WholeOutputs
  <1>4. CASE Done \in value
    <2>1. Quiet /\ Len(rx_buf) = TransferLen
      BY <1>1, <1>4 DEF Transfer, Typed, TypeOK, SpiTypeOK
    <2>2. /\ current_task' = FALSE /\ pin_cs' = TRUE
          /\ \/ /\ mpc = "write"
                /\ mpc' = IF writes = Writes THEN "wait" ELSE "startup"
             \/ mpc = "read" /\ mpc' = "output"
      BY <1>4 DEF write_reg_returns, task_read_returns, transfer_wait
    <2>3. Typed'
      <3>1. current_task' \in BOOLEAN /\ pin_cs' \in BOOLEAN
        BY <2>2, Zenon
      <3> QED BY <1>1, <1>2, <2>2, <3>1 DEF Typed, TypeOK, SpiTypeOK
    <2>4. Idle' /\ Transfer'
      BY <1>1, <1>2, <2>1, <2>2 DEF Idle, Quiet, Transfer, InTransfer
    <2>5. OneBurst' /\ BufferComplete'
      BY <1>1, <2>1, <2>2 DEF OneBurst, BufferComplete, TransferLen
    <2> QED BY <1>3, <2>3, <2>4, <2>5
  <1>5. CASE Done \notin value
    <2>1. UNCHANGED <<current_task, mpc, pin_cs>>
      BY <1>1, <1>5 DEF write_reg_returns, task_read_returns, transfer_wait,
         Transfer
    <2>2. Typed'
      BY <1>1, <1>2, <2>1 DEF Typed, TypeOK, SpiTypeOK
    <2>3. Idle' /\ Transfer' /\ OneBurst' /\ BufferComplete'
      BY <1>1, <1>2, <2>1 DEF Idle, Quiet, Transfer, TransferLen, InTransfer,
         OneBurst, BufferComplete
    <2> QED BY <1>3, <2>2, <2>3
  <1> QED BY <1>4, <1>5

\* The interrupt handler reads all that was received and sends a byte.
LEMMA InterruptPreserves ==
  ASSUME IInv, Interrupt
  PROVE  IInv'
  <1> USE DEF IInv
  <1> DEFINE send == TXE /\ tx_left > 0
  <1>1. /\ UNCHANGED <<current_task, mpc, writes, pin_cs, notify_value, out,
                       pin_int, sample, burst, shifted>>
        /\ Len(rx_reg) <= rx_left
        /\ rx_buf' = rx_buf \o rx_reg /\ rx_reg' = <<>>
        /\ rx_left' = rx_left - Len(rx_reg)
        /\ tx_reg' = IF send THEN tx_reg + 1 ELSE tx_reg
        /\ tx_left' = IF send THEN tx_left - 1 ELSE tx_left
        /\ irq_done
    BY DEF Interrupt, spi_irqhandler, mpuVars, sensorVars
  <1>2. InTransfer /\ rx_left > 0 /\ current_task /\ Done \notin value
    <2>1. txe_it \/ rxne_it
      BY DEF Interrupt, spi_irqhandler
    <2>2. InTransfer
      BY <2>1 DEF Idle, Quiet
    <2>3. rx_left > 0
      BY <2>1, <2>2 DEF Transfer, Quiet, Typed, TypeOK, SpiTypeOK
    <2> QED BY <2>2, <2>3 DEF Transfer
  <1>3. /\ tx_left' \in Nat /\ rx_left' \in Nat /\ tx_reg' \in 0 .. TxDepth
        /\ Len(rx_reg) \in Nat /\ Len(rx_buf) \in Nat
        /\ tx_left' + tx_reg' = tx_left + tx_reg
    BY <1>1 DEF Typed, TypeOK, SpiTypeOK, TXE
  <1>4. /\ rx_buf' \in Seq(SampleNumbers)
        /\ Len(rx_buf') = Len(rx_buf) + Len(rx_reg)
        /\ \A i \in 1 .. Len(rx_buf) : rx_buf'[i] = rx_buf[i]
        /\ \A i \in 1 .. Len(rx_reg) : rx_buf'[Len(rx_buf) + i] = rx_reg[i]
        /\ rx_reg' \in Seq(SampleNumbers) /\ Len(rx_reg') = 0
    BY <1>1 DEF Typed
  <1> HIDE DEF send
  <1>5. /\ rx_left' = tx_left' + tx_reg'
        /\ Len(rx_buf') + rx_left' = TransferLen'
        /\ shifted' = Len(rx_buf') /\ ~pin_cs' /\ current_task'
    <2>1. ~pin_cs' /\ current_task'
      BY <1>1, <1>2 DEF Transfer
    <2>2. /\ rx_left = tx_left + tx_reg + Len(rx_reg)
          /\ Len(rx_buf) + rx_left = TransferLen
          /\ shifted = Len(rx_buf) + Len(rx_reg)
          /\ shifted' = shifted
      BY <1>1, <1>2 DEF Transfer
    <2>3. TransferLen' = TransferLen
      BY <1>1 DEF TransferLen
    <2>4. /\ tx_left \in Nat /\ tx_reg \in Nat /\ rx_left \in Nat
          /\ tx_reg' \in Nat
          /\ rx_left' = rx_left - Len(rx_reg)
      BY <1>1, <1>3 DEF Typed, TypeOK, SpiTypeOK
    <2>5. rx_left' = tx_left' + tx_reg'
      <3>1. rx_left - Len(rx_reg) = tx_left + tx_reg
        BY <1>3, <2>2, <2>4
      <3> QED BY <1>3, <2>4, <3>1
    <2>6. Len(rx_buf') + rx_left' = TransferLen' /\ shifted' = Len(rx_buf')
      BY <1>3, <1>4, <2>2, <2>3, <2>4
    <2> QED BY <2>1, <2>5, <2>6
  <1>6. CASE rx_left' = 0
    <2>1. tx_left' = 0 /\ tx_reg' = 0
      <3>1. tx_reg' \in Nat
        BY <1>3
      <3>2. tx_left' \in Nat /\ tx_left' + tx_reg' = 0
        BY <1>3, <1>5, <1>6
      <3> QED BY <3>1, <3>2, Sums, Zenon
    <2>2. /\ txe_it' = FALSE /\ rxne_it' = FALSE /\ pending' = TRUE
          /\ value' = value \cup {Done}
      BY <1>1, <1>2, <1>6, <2>1 DEF irq_done, Notify
    <2>3. Typed'
      <3>1. txe_it' \in BOOLEAN /\ rxne_it' \in BOOLEAN /\ pending' \in BOOLEAN
        BY <2>2, Zenon
      <3>2. value' \subseteq {INT, Done} /\ value' \subseteq 0 .. 31
        BY <2>2 DEF Typed, INT, Done
      <3> QED
        BY <1>1, <1>3, <1>4, <3>1, <3>2 DEF Typed, TypeOK, SpiTypeOK
    <2>4. Transfer'
      BY <1>1, <1>5, <1>4, <1>6, <2>1, <2>2 DEF Transfer, Quiet
    <2> QED BY <2>3, <2>4, <1>1, <1>2, <1>4 DEF Idle, InTransfer, OneBurst,
               BufferComplete, WholeOutputs, Typed
  <1>7. CASE rx_left' # 0
    <2>1. /\ rxne_it' = rxne_it /\ UNCHANGED <<value, pending>>
          /\ txe_it' = (txe_it /\ ~(TXE /\ tx_left = 0))
      BY <1>1, <1>7 DEF irq_done, notifyVars
    <2>2. Typed'
      <3>1. txe_it' \in BOOLEAN
        BY <2>1, Zenon
      <3> QED
        BY <1>1, <1>3, <1>4, <2>1, <3>1 DEF Typed, TypeOK, SpiTypeOK
    <2>3. Transfer'
      <3>1. /\ Done \notin value'
            /\ rx_left' = tx_left' + tx_reg' + Len(rx_reg')
            /\ shifted' = Len(rx_buf') + Len(rx_reg')
        BY <1>2, <1>3, <1>4, <1>5, <2>1
      <3> QED BY <1>5, <1>7, <3>1, Zenon DEF Transfer
    <2> QED BY <2>2, <2>3, <1>1, <1>2, <1>4 DEF Idle, InTransfer, OneBurst,
               BufferComplete, WholeOutputs, Typed
  <1> QED BY <1>6, <1>7

\* The task's main loop between transfers.
LEMMA LoopPreserves ==
  ASSUME IInv, task_notified \/ task_timeout \/ task_continue \/ task_output
  PROVE  IInv'
  <1> USE DEF IInv
  <1>1. /\ UNCHANGED <<txe_it, rxne_it, tx_reg, rx_reg, tx_left, rx_left,
                       rx_buf, current_task, writes, pin_cs, pin_int, sample,
                       burst, shifted>>
        /\ mpc \in {"wait", "check", "output"} /\ mpc' \in {"wait", "check"}
        /\ value' \subseteq value /\ notify_value' \in {notify_value, value}
    BY DEF task_notified, task_timeout, task_continue, task_output, spiVars,
           spiHw, sensorVars, notifyVars
  <1>2. pending' \in BOOLEAN
    <2>1. CASE task_notified
      BY <2>1, Zenon DEF task_notified
    <2>2. CASE task_timeout \/ task_continue \/ task_output
      BY <2>2 DEF task_timeout, task_continue, task_output, notifyVars, Typed,
         TypeOK, SpiTypeOK
    <2> QED BY <2>1, <2>2
  <1>3. WholeOutputs' /\ out' \in Seq(SampleNumbers)
    <2>1. CASE UNCHANGED out
      BY <2>1 DEF WholeOutputs, Typed
    <2>2. CASE task_output
      <3>1. /\ mpc = "output" /\ out' = SubSeq(rx_buf, 2, Len(rx_buf))
            /\ Len(rx_buf) = ReadLen /\ rx_buf \in Seq(SampleNumbers)
            /\ \A i \in 1 .. ReadLen : rx_buf[i] = burst
        BY <2>2 DEF task_output, BufferComplete, OneBurst, Typed
      <3>2. out' \in Seq(SampleNumbers) /\ Len(out') = ReadLen - 1
        BY <3>1
      <3>3. \A i \in 1 .. Len(out') : out'[i] = burst
        BY <3>1, <3>2
      <3> QED BY <3>2, <3>3 DEF WholeOutputs
    <2> QED BY <2>1, <2>2 DEF task_notified, task_timeout, task_continue
  <1>4. Typed'
    BY <1>1, <1>2, <1>3 DEF Typed, TypeOK, SpiTypeOK
  <1>5. Idle' /\ Transfer' /\ OneBurst' /\ BufferComplete'
    BY <1>1 DEF Idle, Quiet, Transfer, InTransfer, OneBurst, BufferComplete
  <1> QED BY <1>3, <1>4, <1>5

\* Every step preserves it.
LEMMA NextIInv == IInv /\ [Next]_vars => IInv'
  <1> SUFFICES ASSUME IInv, [Next]_vars PROVE IInv'
    OBVIOUS
  <1>1. CASE UNCHANGED vars
    BY <1>1 DEF vars, spiVars, spiHw, notifyVars, mpuVars, sensorVars, IInv,
       Typed, TypeOK, SpiTypeOK, Idle, Quiet, Transfer, TransferLen,
       InTransfer, OneBurst, BufferComplete, WholeOutputs
  <1> QED
    BY <1>1, ReadyPreserves, BytePreserves, BeginPreserves, ReturnPreserves,
       InterruptPreserves, LoopPreserves DEF Next, Task

-----------------------------------------------------------------------------
(* Results                                                                 *)

\* The variables of spi.c and motion_mpu6500.c keep their types.
THEOREM TypeCorrect == Spec => []TypeOK
  <1>1. IInv => TypeOK
    BY DEF IInv, Typed
  <1> QED BY <1>1, InitIInv, NextIInv, PTL DEF Spec

\* What mpu6500_task writes to its outputs before sc_trigger is one whole
\* sample, whatever notifications arrive during spi_transfer.
THEOREM OutputsCorrect == Spec => []OutputsAreOneSample
  <1>1. IInv => OutputsAreOneSample
    BY DEF IInv, Typed, WholeOutputs, OutputsAreOneSample
  <1> QED BY <1>1, InitIInv, NextIInv, PTL DEF Spec

\* When spi_transfer returns nothing of its transfer is left in the hardware
\* or in the notification, and spi_irqhandler always leaves its loop.
THEOREM TransfersCorrect == Spec => []TransfersSeparate
  <1>1. ASSUME IInv PROVE BusQuietWhenDeselected
    BY <1>1 DEF IInv, Idle, Quiet, Transfer, BusQuietWhenDeselected
  <1>2. ASSUME IInv PROVE CompletionConsumed
    BY <1>2 DEF IInv, Idle, Transfer, CompletionConsumed, Typed, TypeOK,
       SpiTypeOK
  <1>3. ASSUME IInv PROVE HandlerLeavesLoop
    BY <1>3 DEF IInv, Idle, Quiet, Transfer, HandlerLeavesLoop, Typed, TypeOK,
       SpiTypeOK
  <1>4. IInv => TransfersSeparate
    BY <1>1, <1>2, <1>3 DEF TransfersSeparate
  <1> QED BY <1>4, InitIInv, NextIInv, PTL DEF Spec
=============================================================================
