-------------------------------- MODULE UartTx --------------------------------
(***************************************************************************)
(* Interrupt driven transmission in platform/stm32/peripheral/uart.c.  One *)
(* task writes bytes into the ring with uart_tx_write_irq; the interrupt   *)
(* handler sends one byte each time the transmit register is empty (TXE)   *)
(* and its interrupt is enabled.  The handler preempts the writer between  *)
(* any two of its accesses.                                                *)
(*                                                                         *)
(* The handler also notifies tx_task, which only tx_wait_done sets; no     *)
(* module of the firmware calls it, so tx_task stays NULL here.            *)
(*                                                                         *)
(* Byte k is the k-th byte the writer was given; the ring holds such       *)
(* numbers, 0 where nothing was written yet.                               *)
(***************************************************************************)
EXTENDS Integers

CONSTANTS
  tx_buf_size, \* length of tx_buf
  Lengths,     \* lengths of the buffers written
  MaxWritten   \* bound: bytes written in all

ASSUME TxSizeAssumption == tx_buf_size \in Nat \ {0, 1}
ASSUME LengthAssumption == Lengths \subseteq Nat \ {0}
ASSUME TxBoundAssumption == MaxWritten \in Nat

VARIABLES
  tx_buf, tx_buf_head, tx_buf_tail,
  txeie,            \* LL_USART_IsEnabledIT_TXE
  tx_pc, left, enable_tx, tail,  \* uart_tx_write_irq and its locals
  written,          \* bytes put into the ring so far
  sent              \* history: the set of bytes the handler has sent

txRing == <<tx_buf, tx_buf_head, tx_buf_tail>>
txVars == <<tx_buf, tx_buf_head, tx_buf_tail, txeie, tx_pc, left, enable_tx, tail,
            written, sent>>

TxRing == 0 .. (tx_buf_size - 1)

TxInit ==
  /\ tx_buf = [i \in TxRing |-> 0]
  /\ tx_buf_head = 0 /\ tx_buf_tail = 0
  /\ txeie = FALSE
  /\ tx_pc = "idle" /\ left = 0 /\ enable_tx = FALSE /\ tail = 0
  /\ written = 0
  /\ sent = {}

-----------------------------------------------------------------------------
(* uart_tx_write_irq                                                       *)

uart_tx_write_irq(n) ==
  /\ tx_pc = "idle"
  /\ written + n <= MaxWritten
  /\ left' = n
  /\ enable_tx' = FALSE
  /\ tx_pc' = "put"
  /\ UNCHANGED <<txRing, txeie, tail, written, sent>>

\* The byte is stored; the handler cannot see it before the tail moves.
write_put ==
  /\ tx_pc = "put"
  /\ left > 0
  /\ tx_buf' = [tx_buf EXCEPT ![tx_buf_tail] = written + 1]
  /\ tail' = (tx_buf_tail + 1) % tx_buf_size
  /\ tx_pc' = "publish"
  /\ UNCHANGED <<tx_buf_head, tx_buf_tail, txeie, left, enable_tx, written,
                 sent>>

write_publish ==
  /\ tx_pc = "publish"
  /\ tx_buf_tail' = tail
  /\ written' = written + 1
  /\ enable_tx' = TRUE
  /\ tx_pc' = "full"
  /\ UNCHANGED <<tx_buf, tx_buf_head, txeie, left, tail, sent>>

\* while (tail == tx_buf_head): busy wait with the interrupt enabled.
write_full ==
  /\ tx_pc = "full"
  /\ tail = tx_buf_head
  /\ tx_pc' = "drain"
  /\ UNCHANGED <<txRing, txeie, left, enable_tx, tail, written, sent>>

write_drain ==
  /\ tx_pc = "drain"
  /\ txeie' = TRUE
  /\ enable_tx' = FALSE
  /\ tx_pc' = "full"
  /\ UNCHANGED <<txRing, left, tail, written, sent>>

write_next ==
  /\ tx_pc = "full"
  /\ tail # tx_buf_head
  /\ left' = left - 1
  /\ tx_pc' = "put"
  /\ UNCHANGED <<txRing, txeie, enable_tx, tail, written, sent>>

\* Mutant of write_return: the interrupt is not enabled.
write_return_disabled ==
  /\ tx_pc = "put"
  /\ left = 0
  /\ enable_tx' = FALSE
  /\ tail' = 0
  /\ tx_pc' = "idle"
  /\ UNCHANGED <<txRing, txeie, left, written, sent>>

write_return ==
  /\ tx_pc = "put"
  /\ left = 0
  /\ txeie' = (txeie \/ enable_tx)
  /\ enable_tx' = FALSE
  /\ tail' = 0
  /\ tx_pc' = "idle"
  /\ UNCHANGED <<txRing, left, written, sent>>

-----------------------------------------------------------------------------
(* uart_irqhandler, TXE                                                    *)

\* Mutant of uart_irqhandler_tx: the head is advanced before the byte is
\* fetched.
irqhandler_tx_swapped ==
  /\ txeie
  /\ sent' = sent \cup {tx_buf[(tx_buf_head + 1) % tx_buf_size]}
  /\ tx_buf_head' = (tx_buf_head + 1) % tx_buf_size
  /\ txeie' = ((tx_buf_head + 1) % tx_buf_size # tx_buf_tail)
  /\ UNCHANGED <<tx_buf, tx_buf_tail, tx_pc, left, enable_tx, tail, written>>

uart_irqhandler_tx ==
  /\ txeie
  /\ sent' = sent \cup {tx_buf[tx_buf_head]}
  /\ tx_buf_head' = (tx_buf_head + 1) % tx_buf_size
  /\ txeie' = ((tx_buf_head + 1) % tx_buf_size # tx_buf_tail)
  /\ UNCHANGED <<tx_buf, tx_buf_tail, tx_pc, left, enable_tx, tail, written>>

-----------------------------------------------------------------------------
Write ==
  \/ write_put \/ write_publish \/ write_full \/ write_drain
  \/ write_next \/ write_return

TxNext ==
  \/ \E n \in Lengths : uart_tx_write_irq(n)
  \/ Write
  \/ uart_irqhandler_tx

TxSpec == TxInit /\ [][TxNext]_txVars

-----------------------------------------------------------------------------
(* Properties                                                              *)

\* Every variable keeps its type.
TxTypeOK ==
  /\ tx_buf \in [TxRing -> 0 .. MaxWritten]
  /\ tx_buf_head \in TxRing /\ tx_buf_tail \in TxRing /\ tail \in TxRing
  /\ txeie \in BOOLEAN /\ enable_tx \in BOOLEAN
  /\ tx_pc \in {"idle", "put", "publish", "full", "drain"}
  /\ left \in Nat
  /\ written \in 0 .. MaxWritten
  /\ sent \subseteq 0 .. MaxWritten

\* First transmissions happen in the order of writing.
SentInOrder ==
  [][\A k \in sent' \ sent : \A j \in 1 .. (k - 1) : j \in sent']_txVars

\* Every byte written is sent: the interrupt is never left disabled with
\* data in the ring, whatever the handler drained while the writer ran.
WrittenIsSent == \A k \in 1 .. MaxWritten : (written >= k) ~> (k \in sent)
=============================================================================
