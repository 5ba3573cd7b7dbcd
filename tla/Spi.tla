--------------------------------- MODULE Spi ---------------------------------
(***************************************************************************)
(* platform/stm32/peripheral/spi.c: a transfer over SPI.  The task that    *)
(* asks for it arms the interrupts and waits for bit 24 of its own         *)
(* notification value; the interrupt handler moves the bytes and notifies  *)
(* the task after the last.  The task's notification is also used by       *)
(* others (Mpu6500).                                                       *)
(*                                                                         *)
(* A byte is written to the hardware, shifted out while one is shifted in, *)
(* and read.  What the bytes are is up to the device, the environment.     *)
(***************************************************************************)
EXTENDS Integers, Sequences

CONSTANTS
  TxDepth,  \* bytes that can be written before the first is shifted out
  RxDepth   \* bytes that can be received before the first is read

ASSUME DepthAssumption == TxDepth \in Nat \ {0} /\ RxDepth \in Nat \ {0}

VARIABLES
  txe_it, rxne_it,   \* the interrupt enables
  tx_reg, rx_reg,    \* bytes written and not yet shifted; received, not read
  tx_left, rx_left, rx_buf,  \* spi_if_t; rx_buf is what rx_ptr has passed
  current_task,      \* whether it is set
  value, pending     \* the task's notification value, a set of bits, and state

spiHw == <<txe_it, rxne_it, tx_reg, rx_reg>>
spiVars == <<spiHw, tx_left, rx_left, rx_buf, current_task>>
notifyVars == <<value, pending>>

Done == 24  \* the bit 0x01000000

SpiInit ==
  /\ txe_it = FALSE /\ rxne_it = FALSE
  /\ tx_reg = 0 /\ rx_reg = <<>>
  /\ tx_left = 0 /\ rx_left = 0 /\ rx_buf = <<>>
  /\ current_task = FALSE
  /\ value = {} /\ pending = FALSE

\* xTaskNotifyFromISR(..., eSetBits)
Notify(bit) == value' = value \cup {bit} /\ pending' = TRUE

\* An assumption about the environment: the interrupt is never held up for as
\* long as RxDepth bytes take.  The hardware does not wait for the handler; a
\* byte that finds no room would be lost, the code handles no overrun, and
\* spi_transfer would wait for that byte for ever.
ReadInTime == Len(rx_reg) < RxDepth

\* The hardware shifts a byte out and the device's byte in.
shift(byte) ==
  /\ tx_reg > 0
  /\ ReadInTime
  /\ tx_reg' = tx_reg - 1
  /\ rx_reg' = Append(rx_reg, byte)
  /\ UNCHANGED <<txe_it, rxne_it, tx_left, rx_left, rx_buf, current_task>>

\* spi_transfer up to its wait: it flushes what was received before.
transfer_begin(length) ==
  /\ current_task' = TRUE
  /\ rx_reg' = <<>>
  /\ tx_left' = length /\ rx_left' = length
  /\ rx_buf' = <<>>
  /\ rxne_it' = TRUE /\ txe_it' = TRUE
  /\ UNCHANGED <<tx_reg, notifyVars>>

\* Mutant of transfer_wait: any notification is taken for the completion.
transfer_wait_once(Returns) ==
  /\ pending
  /\ pending' = FALSE
  /\ value' = value \ {Done}
  /\ current_task' = FALSE /\ Returns
  /\ UNCHANGED <<spiHw, tx_left, rx_left, rx_buf>>

\* One turn of its loop, which goes on while bit 24 is not set; Returns is
\* what the caller does next.  (A timeout of the wait only leads to another.)
transfer_wait(Returns) ==
  /\ pending
  /\ pending' = FALSE
  /\ value' = value \ {Done}
  /\ \/ Done \in value /\ current_task' = FALSE /\ Returns
     \/ Done \notin value /\ UNCHANGED current_task
  /\ UNCHANGED <<spiHw, tx_left, rx_left, rx_buf>>

TXE == tx_reg < TxDepth
RXNE == rx_reg # <<>>

\* Mutant of irq_done: the interrupts stay enabled after the last byte.
irq_done_enabled ==
  IF tx_left' = 0 /\ rx_left' = 0
  THEN txe_it' = txe_it /\ rxne_it' = TRUE /\ Notify(Done)
  ELSE /\ rxne_it' = rxne_it
       /\ txe_it' = (txe_it /\ ~(TXE /\ tx_left = 0))
       /\ UNCHANGED notifyVars

irq_done ==
  IF tx_left' = 0 /\ rx_left' = 0
  THEN txe_it' = FALSE /\ rxne_it' = FALSE
       /\ (IF current_task THEN Notify(Done) ELSE UNCHANGED notifyVars)
  ELSE /\ rxne_it' = rxne_it
       /\ txe_it' = (txe_it /\ ~(TXE /\ tx_left = 0))
       /\ UNCHANGED notifyVars

\* spi_irqhandler reads all that was received and sends at most one byte.
\* It would not leave its loop with more bytes to read than rx_left.
spi_irqhandler ==
  /\ (rxne_it /\ RXNE) \/ (txe_it /\ TXE)
  /\ Len(rx_reg) <= rx_left
  /\ rx_buf' = rx_buf \o rx_reg
  /\ rx_left' = rx_left - Len(rx_reg)
  /\ rx_reg' = <<>>
  /\ LET send == TXE /\ tx_left > 0
     IN /\ tx_reg' = IF send THEN tx_reg + 1 ELSE tx_reg
        /\ tx_left' = IF send THEN tx_left - 1 ELSE tx_left
  /\ irq_done
  /\ UNCHANGED current_task

\* Every variable keeps its type.
SpiTypeOK ==
  /\ txe_it \in BOOLEAN /\ rxne_it \in BOOLEAN
  /\ tx_reg \in 0 .. TxDepth /\ Len(rx_reg) <= RxDepth
  /\ tx_left \in Nat /\ rx_left \in Nat
  /\ current_task \in BOOLEAN
  /\ value \subseteq 0 .. 31 /\ pending \in BOOLEAN
=============================================================================
