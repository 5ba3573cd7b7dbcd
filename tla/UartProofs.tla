------------------------------ MODULE UartProofs ------------------------------
(***************************************************************************)
(* The two directions of platform/stm32/peripheral/uart.c with interrupts, *)
(* which share no state.                                                   *)
(*                                                                         *)
(* Transmission, for every size of the ring and all lengths of the writes: *)
(* bytes go out for the first time in the order they were written,         *)
(* although the handler may run past the tail and send old bytes again.    *)
(* The argument follows the head through the ring by the age of the slot   *)
(* it points to: whatever is younger than the next byte the handler sends  *)
(* may be unsent, all that is older has been sent.                         *)
(*                                                                         *)
(* Reception, for every size of the ring, all sizes of the reads and a     *)
(* line of any length: uart_irqhandler and uart_rx_read implement          *)
(* SerialPort.  Each byte the handler stores is a byte arriving at the     *)
(* port, each byte the reader stores in dst is one taken from it, a return *)
(* is a return, and every other step leaves the port as it is.             *)
(***************************************************************************)
EXTENDS UartTx, UartRx, TLAPS

USE TxSizeAssumption, LengthAssumption, TxBoundAssumption

-----------------------------------------------------------------------------
(* Transmission: the inductive invariant                                   *)

\* The last byte that is in the ring, and the slot after it: the writer
\* stores a byte before it publishes it.
Last == IF tx_pc = "publish" THEN written + 1 ELSE written
Slot == IF tx_pc = "publish" THEN tail ELSE tx_buf_tail

\* How long ago a slot was written: 1 for the last one, tx_buf_size for the oldest.
Age(i) == IF i < Slot THEN Slot - i ELSE Slot - i + tx_buf_size

\* The locals of uart_tx_write_irq.
Locals ==
  /\ tx_pc = "put" => written + left <= MaxWritten
  /\ tx_pc = "publish" => left > 0 /\ written + left <= MaxWritten
                       /\ tail = (tx_buf_tail + 1) % tx_buf_size
  /\ tx_pc \in {"full", "drain"} => left > 0 /\ written + left <= MaxWritten + 1
                                 /\ tail = tx_buf_tail

\* The ring holds the last bytes, each in the slot of its age.
Contents ==
  \A i \in TxRing : tx_buf[i] = IF Age(i) <= Last THEN Last + 1 - Age(i) ELSE 0

\* What was sent was in the ring, and nothing was left out.
SentPrefix ==
  /\ sent \subseteq 0 .. Last
  /\ \A k \in sent : \A j \in 1 .. (k - 1) : j \in sent

\* All that is older than the byte at the head has been sent.
HeadInOrder == \A j \in 1 .. (Last - Age(tx_buf_head)) : j \in sent

\* When the writer is about to store a byte, a head that is at the tail means
\* that the ring is empty and not that it is full.
EqualMeansSent ==
  tx_pc \in {"idle", "put"} /\ tx_buf_head = tx_buf_tail =>
    \A j \in 1 .. written : j \in sent

TxIInv ==
  /\ TxTypeOK /\ Locals /\ Contents /\ SentPrefix /\ HeadInOrder
  /\ EqualMeansSent

-----------------------------------------------------------------------------
(* Facts about the ring                                                    *)

\* The next slot of the ring.
LEMMA TxNextSlot ==
  ASSUME NEW i \in TxRing
  PROVE  /\ (i + 1) % tx_buf_size = IF i = tx_buf_size - 1 THEN 0 ELSE i + 1
         /\ (i + 1) % tx_buf_size \in TxRing
  BY DEF TxRing

\* The age of a slot is one of 1 .. tx_buf_size.
LEMMA AgeRange ==
  ASSUME TxTypeOK, NEW i \in TxRing
  PROVE  Age(i) \in 1 .. tx_buf_size /\ Last \in Nat /\ Slot \in TxRing
  BY DEF TxTypeOK, TxRing, Age, Slot, Last

\* Where the handler goes: to a slot one younger, or from the youngest, which
\* is the one before the slot the writer uses next, to the oldest.
LEMMA HeadAdvances ==
  ASSUME TxTypeOK, NEW i \in TxRing
  PROVE  IF Age(i) = 1
         THEN (i + 1) % tx_buf_size = Slot /\ Age((i + 1) % tx_buf_size) = tx_buf_size
         ELSE (i + 1) % tx_buf_size # Slot /\ Age((i + 1) % tx_buf_size) = Age(i) - 1
  <1>1. PICK j \in TxRing : /\ j = (i + 1) % tx_buf_size
                          /\ j = IF i = tx_buf_size - 1 THEN 0 ELSE i + 1
    BY TxNextSlot
  <1>2. Slot \in 0 .. (tx_buf_size - 1) /\ i \in 0 .. (tx_buf_size - 1)
    BY AgeRange DEF TxRing
  <1>3. IF Age(i) = 1 THEN j = Slot /\ Age(j) = tx_buf_size
                      ELSE j # Slot /\ Age(j) = Age(i) - 1
    BY <1>1, <1>2 DEF Age
  <1> QED BY <1>1, <1>3

-----------------------------------------------------------------------------
(* The invariant is inductive                                              *)

\* It holds with an empty ring.
LEMMA TxInitIInv == TxInit => TxIInv
  <1> SUFFICES ASSUME TxInit PROVE TxIInv
    OBVIOUS
  <1>1. TxTypeOK
    <2>1. txeie \in BOOLEAN /\ enable_tx \in BOOLEAN
      BY Zenon DEF TxInit
    <2> QED BY <2>1 DEF TxInit, TxTypeOK, TxRing
  <1>2. Locals /\ Contents /\ SentPrefix /\ HeadInOrder /\ EqualMeansSent
    BY DEF TxInit, Locals, Contents, SentPrefix, HeadInOrder, EqualMeansSent,
           Last, Slot, Age, TxRing
  <1> QED BY <1>1, <1>2 DEF TxIInv

\* Every step of the writer and the handler preserves it.
LEMMA TxNextIInv == TxIInv /\ [TxNext]_txVars => TxIInv'
  <1> SUFFICES ASSUME TxIInv, [TxNext]_txVars PROVE TxIInv'
    OBVIOUS
  <1> USE DEF TxIInv
  <1>1. ASSUME NEW n \in Lengths, uart_tx_write_irq(n) PROVE TxIInv'
    <2>1. TxTypeOK' /\ Locals'
      BY <1>1 DEF uart_tx_write_irq, txRing, TxTypeOK, Locals
    <2>2. Last' = Last /\ Slot' = Slot
      BY <1>1 DEF uart_tx_write_irq, txRing, Last, Slot
    <2>3. Contents' /\ SentPrefix' /\ HeadInOrder' /\ EqualMeansSent'
      BY <1>1, <2>2 DEF uart_tx_write_irq, txRing, Contents, SentPrefix,
         HeadInOrder, EqualMeansSent, Age
    <2> QED BY <2>1, <2>3
  <1>2. CASE write_put
    <2>1. tail' = (tx_buf_tail + 1) % tx_buf_size /\ tail' \in TxRing
      BY <1>2, TxNextSlot DEF write_put, TxTypeOK
    <2>2. TxTypeOK'
      BY <1>2, <2>1 DEF write_put, TxTypeOK, Locals
    <2>3. Locals'
      BY <1>2 DEF write_put, TxTypeOK, Locals
    <2>4. /\ Last = written /\ Last' = written + 1
          /\ Slot = tx_buf_tail /\ Slot' = tail'
      BY <1>2 DEF write_put, Last, Slot
    <2>5. \A i \in TxRing : Age(i)' = IF i = tx_buf_tail THEN 1 ELSE Age(i) + 1
      BY <2>1, <2>4, TxNextSlot DEF TxTypeOK, TxRing, Age
    <2>6. \A i \in TxRing : i = tx_buf_tail <=> Age(i) = tx_buf_size
      BY <2>4 DEF TxTypeOK, TxRing, Age
    <2>7. Contents'
      <3> SUFFICES ASSUME NEW i \in TxRing
                   PROVE  tx_buf'[i] = IF Age(i)' <= Last'
                                       THEN Last' + 1 - Age(i)' ELSE 0
        BY DEF Contents
      <3>1. CASE i = tx_buf_tail
        BY <1>2, <2>4, <2>5, <3>1 DEF write_put, TxTypeOK
      <3>2. CASE i # tx_buf_tail
        BY <1>2, <2>4, <2>5, <3>2, AgeRange DEF write_put, TxTypeOK, Contents
      <3> QED BY <3>1, <3>2
    <2>8. SentPrefix'
      BY <1>2, <2>4 DEF write_put, TxTypeOK, SentPrefix
    <2>9. HeadInOrder'
      BY <1>2, <2>4, <2>5, AgeRange DEF write_put, TxTypeOK, HeadInOrder,
         EqualMeansSent
    <2>10. EqualMeansSent'
      BY <1>2 DEF write_put, EqualMeansSent
    <2> QED BY <2>2, <2>3, <2>7, <2>8, <2>9, <2>10
  <1>3. CASE write_publish
    <2>1. TxTypeOK'
      <3>1. enable_tx' \in BOOLEAN
        BY <1>3, Zenon DEF write_publish
      <3> QED BY <1>3, <3>1 DEF write_publish, TxTypeOK, Locals
    <2>2. Locals'
      BY <1>3 DEF write_publish, TxTypeOK, Locals
    <2>3. Last' = Last /\ Slot' = Slot
      BY <1>3 DEF write_publish, Last, Slot
    <2>4. Contents' /\ SentPrefix' /\ HeadInOrder' /\ EqualMeansSent'
      BY <1>3, <2>3 DEF write_publish, Contents, SentPrefix, HeadInOrder,
         EqualMeansSent, Age
    <2> QED BY <2>1, <2>2, <2>4
  <1>4. CASE write_full \/ write_drain
    <2>1. TxTypeOK'
      <3>1. enable_tx' \in BOOLEAN /\ txeie' \in BOOLEAN
        BY <1>4, Zenon DEF write_full, write_drain, TxTypeOK
      <3> QED BY <1>4, <3>1 DEF write_full, write_drain, txRing, TxTypeOK
    <2>2. Locals'
      BY <1>4 DEF write_full, write_drain, txRing, Locals
    <2>3. Last' = Last /\ Slot' = Slot
      BY <1>4 DEF write_full, write_drain, txRing, Last, Slot
    <2>4. Contents' /\ SentPrefix' /\ HeadInOrder' /\ EqualMeansSent'
      BY <1>4, <2>3 DEF write_full, write_drain, txRing, Contents,
         SentPrefix, HeadInOrder, EqualMeansSent, Age
    <2> QED BY <2>1, <2>2, <2>4
  <1>5. CASE write_next
    <2>1. TxTypeOK' /\ Locals'
      BY <1>5 DEF write_next, txRing, TxTypeOK, Locals
    <2>2. Last' = Last /\ Slot' = Slot
      BY <1>5 DEF write_next, txRing, Last, Slot
    <2>3. Contents' /\ SentPrefix' /\ HeadInOrder'
      BY <1>5, <2>2 DEF write_next, txRing, Contents, SentPrefix,
         HeadInOrder, Age
    <2>4. EqualMeansSent'
      BY <1>5 DEF write_next, txRing, Locals, EqualMeansSent
    <2> QED BY <2>1, <2>3, <2>4
  <1>6. CASE write_return
    <2>1. TxTypeOK'
      <3>1. enable_tx' \in BOOLEAN /\ txeie' \in BOOLEAN
        BY <1>6, Zenon DEF write_return
      <3> QED BY <1>6, <3>1 DEF write_return, txRing, TxTypeOK, TxRing
    <2>2. Locals'
      BY <1>6 DEF write_return, Locals
    <2>3. Last' = Last /\ Slot' = Slot
      BY <1>6 DEF write_return, txRing, Last, Slot
    <2>4. Contents' /\ SentPrefix' /\ HeadInOrder' /\ EqualMeansSent'
      BY <1>6, <2>3 DEF write_return, txRing, Contents, SentPrefix,
         HeadInOrder, EqualMeansSent, Age
    <2> QED BY <2>1, <2>2, <2>4
  <1>7. CASE uart_irqhandler_tx
    <2> DEFINE h == tx_buf_head
               b == tx_buf[tx_buf_head]
    <2>1. h \in TxRing /\ Age(h) \in 1 .. tx_buf_size /\ Last \in Nat
      BY AgeRange DEF TxTypeOK
    <2>2. b = IF Age(h) <= Last THEN Last + 1 - Age(h) ELSE 0
      BY <2>1 DEF Contents
    <2>3. sent' = sent \cup {b} /\ tx_buf_head' = (h + 1) % tx_buf_size
      BY <1>7 DEF uart_irqhandler_tx
    <2>4. /\ Last' = Last /\ Slot' = Slot
          /\ \A i \in TxRing : Age(i)' = Age(i)
      BY <1>7 DEF uart_irqhandler_tx, Last, Slot, Age
    <2>5. TxTypeOK'
      <3>1. txeie' \in BOOLEAN
        BY <1>7, Zenon DEF uart_irqhandler_tx
      <3>2. tx_buf_head' \in TxRing
        BY <2>1, <2>3, TxNextSlot
      <3> QED BY <1>7, <2>1, <3>1, <3>2 DEF uart_irqhandler_tx, TxTypeOK
    <2>6. Locals' /\ Contents'
      BY <1>7, <2>4 DEF uart_irqhandler_tx, Locals, Contents
    <2>7. SentPrefix'
      <3>1. b \in 0 .. Last /\ \A j \in 1 .. (b - 1) : j \in sent
        BY <2>1, <2>2 DEF HeadInOrder
      <3> HIDE DEF b
      <3> QED BY <2>3, <2>4, <3>1 DEF SentPrefix
    <2>8. \A j \in 1 .. (Last + 1 - Age(h)) : j \in sent'
      BY <2>1, <2>2, <2>3 DEF HeadInOrder
    <2>9. HeadInOrder'
      BY <2>1, <2>3, <2>4, <2>8, HeadAdvances, TxNextSlot DEF HeadInOrder
    <2>10. EqualMeansSent'
      BY <1>7, <2>1, <2>3, <2>4, <2>8, HeadAdvances DEF uart_irqhandler_tx,
         EqualMeansSent, Last, Slot
    <2> QED BY <2>5, <2>6, <2>7, <2>9, <2>10
  <1>8. CASE UNCHANGED txVars
    BY <1>8 DEF txVars, TxTypeOK, Locals, Contents, SentPrefix, HeadInOrder,
                EqualMeansSent, Last, Slot, Age
  <1> QED
    BY <1>1, <1>2, <1>3, <1>4, <1>5, <1>6, <1>7, <1>8 DEF TxNext, Write

-----------------------------------------------------------------------------
(* Results                                                                 *)

\* Only the handler sends, and a byte it sends for the first time comes after
\* all that were written before it.
LEMMA StepSendsInOrder ==
  TxIInv /\ [TxNext]_txVars =>
    [\A k \in sent' \ sent : \A j \in 1 .. (k - 1) : j \in sent']_txVars
  <1> SUFFICES ASSUME TxIInv, TxNext, NEW k \in sent' \ sent
               PROVE  \A j \in 1 .. (k - 1) : j \in sent'
    OBVIOUS
  <1>1. TxIInv'
    BY TxNextIInv
  <1> QED BY <1>1 DEF TxIInv, SentPrefix

\* Every variable keeps its type; with it no index leaves the ring.
THEOREM TxTypeCorrect == TxSpec => []TxTypeOK
  <1>1. TxIInv => TxTypeOK
    BY DEF TxIInv
  <1> QED BY <1>1, TxInitIInv, TxNextIInv, PTL DEF TxSpec

\* uart_irqhandler sends the bytes of uart_tx_write_irq for the first time in
\* the order of writing, for every ring and every mix of writes.
THEOREM SentInOrderCorrect == TxSpec => SentInOrder
  BY TxInitIInv, TxNextIInv, StepSendsInOrder, PTL DEF TxSpec, SentInOrder

-----------------------------------------------------------------------------
(* Reception                                                               *)

USE RxSizeAssumption, DstAssumption, FlagAssumption, RxBoundAssumption

-----------------------------------------------------------------------------
(* The inductive invariant                                                 *)

Taken == Len(delivered) + Len(dst)

\* How many slots after the tail a slot is.
Ahead(i) == IF i >= rx_buf_tail THEN i - rx_buf_tail
                                ELSE i - rx_buf_tail + rx_buf_size

\* The bytes between the tail and the head are those that arrived and were
\* not taken, in their order.
RingHoldsLine ==
  /\ Len(stream) = Taken + Ahead(rx_buf_head)
  /\ \A i \in RxRing :
       Ahead(i) < Ahead(rx_buf_head) => rx_buf[i] = Taken + 1 + Ahead(i)

\* The byte in the reader's hands is the next one of the line: the handler
\* does not write where the reader reads.
Loaded == rx_pc = "store" => c = Taken + 1 /\ rx_buf_tail # rx_buf_head

\* While a read goes on it has taken no delimiter.
NoDelimiterYet ==
  /\ \A k \in 1 .. Len(dst) : dst[k] \in 1 .. Len(stream)
  /\ HasDelimiter /\ rx_pc # "return" =>
       \A k \in 1 .. Len(dst) : ~stream[dst[k]]

RxIInv == RxTypeOK /\ RingHoldsLine /\ Loaded /\ NoDelimiterYet

-----------------------------------------------------------------------------
(* Facts about the ring                                                    *)

\* The next slot of the ring.
LEMMA RxNextSlot ==
  ASSUME NEW i \in RxRing
  PROVE  /\ (i + 1) % rx_buf_size = IF i = rx_buf_size - 1 THEN 0 ELSE i + 1
         /\ (i + 1) % rx_buf_size \in RxRing
  BY DEF RxRing

\* What the indices say is unread is the way from the tail to the head.
LEMMA FillIsAhead ==
  ASSUME RxTypeOK
  PROVE  Fill = Ahead(rx_buf_head)
  <1> DEFINE d == rx_buf_head - rx_buf_tail
  <1>1. /\ d \in Int /\ d > -rx_buf_size /\ d < rx_buf_size
        /\ rx_buf_size \in Nat /\ rx_buf_size > 0
    BY DEF RxTypeOK, RxRing
  <1>2. rx_buf_head >= rx_buf_tail <=> d >= 0
    BY DEF RxTypeOK, RxRing
  <1> HIDE DEF d
  <1>3. CASE d >= 0
    <2>1. (d + rx_buf_size) % rx_buf_size = d
      BY <1>1, <1>3
    <2> QED BY <1>2, <1>3, <2>1 DEF Fill, Ahead, d
  <1>4. CASE d < 0
    <2>1. (d + rx_buf_size) % rx_buf_size = d + rx_buf_size
      BY <1>1, <1>4
    <2> QED BY <1>1, <1>2, <1>4, <2>1 DEF Fill, Ahead, d
  <1> QED BY <1>1, <1>3, <1>4

\* A slot is ahead of the tail by less than the size, and only the tail by 0.
LEMMA AheadRange ==
  ASSUME RxTypeOK, NEW i \in RxRing
  PROVE  Ahead(i) \in 0 .. (rx_buf_size - 1) /\ (Ahead(i) = 0 <=> i = rx_buf_tail)
  <1>1. /\ i \in 0 .. (rx_buf_size - 1) /\ rx_buf_tail \in 0 .. (rx_buf_size - 1)
        /\ rx_buf_size \in Nat
    BY DEF RxTypeOK, RxRing
  <1> QED BY ONLY <1>1 DEF Ahead

\* Two slots that are equally far ahead are one.
LEMMA AheadInjective ==
  ASSUME RxTypeOK, NEW i \in RxRing, NEW j \in RxRing, Ahead(i) = Ahead(j)
  PROVE  i = j
  <1>1. /\ i \in 0 .. (rx_buf_size - 1) /\ j \in 0 .. (rx_buf_size - 1)
        /\ rx_buf_tail \in 0 .. (rx_buf_size - 1) /\ rx_buf_size \in Nat
    BY DEF RxTypeOK, RxRing
  <1>2. Ahead(i) = Ahead(j)
    OBVIOUS
  <1> QED BY ONLY <1>1, <1>2 DEF Ahead

\* The slot after one that is not the last is one further ahead.
LEMMA AheadOfNext ==
  ASSUME RxTypeOK, NEW i \in RxRing, Ahead(i) < rx_buf_size - 1
  PROVE  Ahead((i + 1) % rx_buf_size) = Ahead(i) + 1
  <1>1. PICK j \in RxRing : /\ j = (i + 1) % rx_buf_size
                          /\ j = IF i = rx_buf_size - 1 THEN 0 ELSE i + 1
    BY RxNextSlot
  <1>2. /\ i \in Nat /\ i < rx_buf_size /\ rx_buf_size \in Nat
        /\ rx_buf_tail \in Nat /\ rx_buf_tail < rx_buf_size
    BY DEF RxTypeOK, RxRing
  <1>3. CASE i = rx_buf_size - 1
    BY <1>1, <1>2, <1>3 DEF Ahead
  <1>4. CASE i # rx_buf_size - 1
    BY <1>1, <1>2, <1>4 DEF Ahead
  <1> QED BY <1>3, <1>4

-----------------------------------------------------------------------------
(* The invariant is inductive                                              *)

\* It holds with an empty ring.
LEMMA RxInitIInv == RxInit => RxIInv
  <1> SUFFICES ASSUME RxInit PROVE RxIInv
    OBVIOUS
  <1>1. RxTypeOK
    <2>1. rx_task \in BOOLEAN /\ received \in BOOLEAN
      BY Zenon DEF RxInit
    <2>2. stream \in Seq(BOOLEAN) /\ dst \in Seq(Nat) /\ delivered \in Seq(Nat)
      BY DEF RxInit
    <2> QED BY <2>1, <2>2 DEF RxInit, RxTypeOK, RxRing
  <1>2. RingHoldsLine /\ Loaded /\ NoDelimiterYet
    BY DEF RxInit, RingHoldsLine, Loaded, NoDelimiterYet, Taken, Ahead, RxRing
  <1> QED BY <1>1, <1>2 DEF RxIInv

\* The handler stores the byte behind those the reader still has to take.
LEMMA HandlerPreserves ==
  ASSUME RxIInv, NEW delim \in BOOLEAN, uart_irqhandler_rx(delim)
  PROVE  RxIInv'
  <1> USE DEF RxIInv
  <1> DEFINE h == rx_buf_head
  <1>1. h \in RxRing /\ Ahead(h) \in 0 .. (rx_buf_size - 2) /\ Taken \in Nat
    BY FillIsAhead, AheadRange DEF uart_irqhandler_rx, RxTypeOK, Taken
  <1>2. /\ stream' = Append(stream, delim) /\ stream' \in Seq(BOOLEAN)
        /\ Len(stream) \in Nat /\ Len(stream') = Len(stream) + 1
        /\ \A k \in 1 .. Len(stream) : stream'[k] = stream[k]
    BY DEF uart_irqhandler_rx, RxTypeOK
  <1>3. /\ rx_buf_head' = (h + 1) % rx_buf_size /\ rx_buf_head' \in RxRing
        /\ rx_buf' = [rx_buf EXCEPT ![h] = Len(stream) + 1]
    BY <1>1, RxNextSlot DEF uart_irqhandler_rx
  <1>4. Taken' = Taken /\ \A i \in RxRing : Ahead(i)' = Ahead(i)
    BY DEF uart_irqhandler_rx, Taken, Ahead
  <1>5. Ahead(rx_buf_head)' = Ahead(h) + 1
    <2>1. Ahead(rx_buf_head)' = Ahead((h + 1) % rx_buf_size)
      BY <1>3 DEF uart_irqhandler_rx, Ahead
    <2> QED BY <1>1, <2>1, AheadOfNext
  <1>6. RxTypeOK'
    <2>1. received' \in BOOLEAN
      BY Zenon DEF uart_irqhandler_rx
    <2> QED BY <1>2, <1>3, <2>1 DEF uart_irqhandler_rx, RxTypeOK
  <1>7. RingHoldsLine'
    <2>1. Len(stream') = Taken' + Ahead(rx_buf_head)'
      BY <1>1, <1>2, <1>4, <1>5 DEF RingHoldsLine
    <2>2. ASSUME NEW i \in RxRing, Ahead(i)' < Ahead(rx_buf_head)'
          PROVE  rx_buf'[i] = Taken' + 1 + Ahead(i)'
      <3>1. CASE i = h
        BY <1>1, <1>3, <1>4, <3>1 DEF RxTypeOK, RingHoldsLine
      <3>2. CASE i # h
        <4>1. Ahead(i) < Ahead(h)
          BY <1>1, <1>4, <1>5, <2>2, <3>2, AheadInjective, AheadRange
        <4> QED BY <1>1, <1>3, <1>4, <3>2, <4>1 DEF RxTypeOK, RingHoldsLine
      <3> QED BY <3>1, <3>2
    <2> QED BY <2>1, <2>2 DEF RingHoldsLine
  <1>8. Loaded'
    <2>1. rx_buf_head' # rx_buf_tail'
      <3>1. (h + 1) % rx_buf_size # rx_buf_tail
        BY <1>1, <1>3, AheadOfNext, AheadRange
      <3> QED BY <1>3, <3>1 DEF uart_irqhandler_rx
    <2> QED BY <1>4, <2>1 DEF uart_irqhandler_rx, Loaded
  <1>9. NoDelimiterYet'
    BY <1>2 DEF uart_irqhandler_rx, NoDelimiterYet
  <1> QED BY <1>6, <1>7, <1>8, <1>9

\* The store of a byte and the new tail.
LEMMA StorePreserves ==
  ASSUME RxIInv, read_store
  PROVE  RxIInv'
  <1> USE DEF RxIInv
  <1> DEFINE t == rx_buf_tail
  <1>1. /\ t \in RxRing /\ c = Taken + 1 /\ Taken \in Nat
        /\ Ahead(rx_buf_head) \in 1 .. (rx_buf_size - 1)
    BY AheadRange DEF read_store, RxTypeOK, Loaded, Taken
  <1>2. /\ dst' = Append(dst, c) /\ dst' \in Seq(Nat) /\ Taken' = Taken + 1
        /\ Len(dst) \in Nat /\ Len(dst') = Len(dst) + 1
        /\ \A k \in 1 .. Len(dst) : dst'[k] = dst[k]
        /\ dst'[Len(dst) + 1] = c
    BY DEF read_store, RxTypeOK, Taken
  <1>3. rx_buf_tail' = (t + 1) % rx_buf_size /\ rx_buf_tail' \in RxRing
    BY <1>1, RxNextSlot DEF read_store
  <1>4. \A i \in RxRing : i # t => Ahead(i)' = Ahead(i) - 1
    <2> SUFFICES ASSUME NEW i \in RxRing, i # t PROVE Ahead(i)' = Ahead(i) - 1
      OBVIOUS
    <2>1. /\ i \in Nat /\ i < rx_buf_size /\ rx_buf_size \in Nat
          /\ t \in Nat /\ t < rx_buf_size
          /\ rx_buf_tail' = IF t = rx_buf_size - 1 THEN 0 ELSE t + 1
      BY <1>1, <1>3, RxNextSlot DEF RxRing
    <2>2. CASE t = rx_buf_size - 1
      BY <2>1, <2>2 DEF Ahead
    <2>3. CASE t # rx_buf_size - 1
      BY <2>1, <2>3 DEF Ahead
    <2> QED BY <2>2, <2>3
  <1>5. /\ rx_buf_head \in RxRing /\ rx_buf_head # t
        /\ Ahead(rx_buf_head)' = Ahead(rx_buf_head) - 1
    <2>1. rx_buf_head \in RxRing /\ rx_buf_head # t
      BY DEF read_store, RxTypeOK, Loaded
    <2> QED BY <1>4, <2>1 DEF read_store, Ahead
  <1>6. RxTypeOK'
    BY <1>2, <1>3 DEF read_store, RxTypeOK
  <1>7. RingHoldsLine'
    <2>1. Len(stream)' = Taken' + Ahead(rx_buf_head)'
      BY <1>1, <1>2, <1>5 DEF read_store, RingHoldsLine
    <2>2. ASSUME NEW i \in RxRing, Ahead(i)' < Ahead(rx_buf_head)'
          PROVE  rx_buf'[i] = Taken' + 1 + Ahead(i)'
      <3>1. i # t
        <4> SUFFICES ASSUME i = t PROVE FALSE
          OBVIOUS
        <4>1. /\ i \in Nat /\ i < rx_buf_size /\ rx_buf_size \in Nat
              /\ rx_buf_tail' = IF i = rx_buf_size - 1 THEN 0 ELSE i + 1
          BY <1>1, <1>3, RxNextSlot DEF RxRing
        <4>2. Ahead(i)' = rx_buf_size - 1
          BY <4>1 DEF Ahead
        <4> QED BY <1>1, <1>5, <2>2, <4>2
      <3>2. Ahead(i) < Ahead(rx_buf_head) /\ Ahead(i) \in 0 .. (rx_buf_size - 1)
        BY <1>1, <1>4, <1>5, <2>2, <3>1, AheadRange
      <3> QED
        BY <1>1, <1>2, <1>4, <3>1, <3>2 DEF read_store, RingHoldsLine
    <2> QED BY <2>1, <2>2 DEF RingHoldsLine
  <1>8. Loaded'
    BY DEF read_store, Loaded
  <1>9. NoDelimiterYet'
    <2>1. c \in 1 .. Len(stream)
      BY <1>1 DEF RingHoldsLine
    <2>2. HasDelimiter /\ rx_pc' # "return" => ~stream[c]
      BY DEF read_store
    <2>3. stream' = stream /\ rx_pc # "return"
      BY DEF read_store
    <2> QED BY <1>2, <2>1, <2>2, <2>3 DEF NoDelimiterYet
  <1> QED BY <1>6, <1>7, <1>8, <1>9

\* Every step of the handler and of the reader preserves it.
LEMMA RxNextIInv == RxIInv /\ [RxNext]_rxVars => RxIInv'
  <1> SUFFICES ASSUME RxIInv, [RxNext]_rxVars PROVE RxIInv'
    OBVIOUS
  <1> USE DEF RxIInv
  <1>1. ASSUME NEW delim \in BOOLEAN, uart_irqhandler_rx(delim) PROVE RxIInv'
    BY <1>1, HandlerPreserves
  <1>2. ASSUME NEW size \in DstSizes, uart_rx_read(size) PROVE RxIInv'
    <2>1. RxTypeOK'
      <3>1. rx_task' \in BOOLEAN
        BY <1>2, Zenon DEF uart_rx_read
      <3> QED BY <1>2, <3>1 DEF uart_rx_read, rxRing, RxTypeOK
    <2>2. RingHoldsLine' /\ Loaded' /\ NoDelimiterYet'
      BY <1>2 DEF uart_rx_read, rxRing, RingHoldsLine, Loaded,
         NoDelimiterYet, Taken, Ahead
    <2> QED BY <2>1, <2>2
  <1>3. CASE read_test
    <2>1. RxTypeOK'
      BY <1>3 DEF read_test, rxRing, RxTypeOK
    <2>2. RingHoldsLine' /\ Loaded' /\ NoDelimiterYet'
      BY <1>3 DEF read_test, rxRing, RingHoldsLine, Loaded,
         NoDelimiterYet, Taken, Ahead
    <2> QED BY <2>1, <2>2
  <1>4. CASE read_notified
    <2>1. RxTypeOK'
      <3>1. received' \in BOOLEAN
        BY <1>4, Zenon DEF read_notified
      <3> QED BY <1>4, <3>1 DEF read_notified, rxRing, RxTypeOK
    <2>2. RingHoldsLine' /\ Loaded' /\ NoDelimiterYet'
      BY <1>4 DEF read_notified, rxRing, RingHoldsLine, Loaded,
         NoDelimiterYet, Taken, Ahead
    <2> QED BY <2>1, <2>2
  <1>5. CASE read_timeout
    <2>1. RxTypeOK'
      BY <1>5 DEF read_timeout, rxRing, RxTypeOK
    <2>2. RingHoldsLine' /\ Loaded' /\ NoDelimiterYet'
      BY <1>5 DEF read_timeout, rxRing, RingHoldsLine, Loaded,
         NoDelimiterYet, Taken, Ahead
    <2> QED BY <2>1, <2>2
  <1>6. CASE read_load
    <2>1. c' = Taken + 1 /\ rx_buf_tail # rx_buf_head
      <3>1. /\ rx_buf_tail \in RxRing /\ rx_buf_head \in RxRing
            /\ rx_buf_tail # rx_buf_head /\ Taken \in Nat
        BY <1>6 DEF read_load, More, RxTypeOK, Taken
      <3>2. Ahead(rx_buf_tail) = 0 /\ Ahead(rx_buf_head) > 0
        BY <3>1, AheadRange
      <3>3. rx_buf[rx_buf_tail] = Taken + 1
        BY <3>1, <3>2 DEF RingHoldsLine
      <3> QED BY <1>6, <3>1, <3>3 DEF read_load
    <2>2. RxTypeOK'
      BY <1>6, <2>1 DEF read_load, rxRing, RxTypeOK, Taken
    <2>3. RingHoldsLine' /\ Loaded' /\ NoDelimiterYet'
      BY <1>6, <2>1 DEF read_load, rxRing, RingHoldsLine, Loaded,
         NoDelimiterYet, Taken, Ahead
    <2> QED BY <2>2, <2>3
  <1>7. CASE read_store
    BY <1>7, StorePreserves
  <1>8. CASE read_exit
    <2>1. RxTypeOK'
      BY <1>8 DEF read_exit, rxRing, RxTypeOK
    <2>2. RingHoldsLine' /\ Loaded' /\ NoDelimiterYet'
      BY <1>8 DEF read_exit, rxRing, RingHoldsLine, Loaded,
         NoDelimiterYet, Taken, Ahead
    <2> QED BY <2>1, <2>2
  <1>9. CASE read_return
    <2>1. /\ delivered' \in Seq(Nat) /\ dst' = <<>> /\ dst' \in Seq(Nat)
          /\ Taken' = Taken
      BY <1>9 DEF read_return, RxTypeOK, Taken
    <2>2. RxTypeOK'
      BY <1>9, <2>1 DEF read_return, rxRing, RxTypeOK
    <2>3. RingHoldsLine' /\ Loaded' /\ NoDelimiterYet'
      BY <1>9, <2>1 DEF read_return, rxRing, RingHoldsLine, Loaded,
         NoDelimiterYet, Ahead
    <2> QED BY <2>2, <2>3
  <1>10. CASE UNCHANGED rxVars
    BY <1>10 DEF rxVars, RxTypeOK, RingHoldsLine, Loaded, NoDelimiterYet, Taken,
                 Ahead
  <1> QED
    BY <1>1, <1>2, <1>3, <1>4, <1>5, <1>6, <1>7, <1>8, <1>9, <1>10
       DEF RxNext, Step

-----------------------------------------------------------------------------
(* The driver implements the port                                          *)

\* Initial states map to initial states.
LEMMA PortInit == RxInit => Port!Init
  BY DEF RxInit, Port!Init

\* Every step maps to a step of the port or leaves it unchanged.
LEMMA PortNext == RxIInv /\ [RxNext]_rxVars => [Port!Next]_(Port!portVars)
  <1> SUFFICES ASSUME RxIInv, [RxNext]_rxVars
               PROVE  Port!Next \/ UNCHANGED <<stream, dst, delivered>>
    BY DEF Port!portVars
  <1>1. ASSUME NEW delim \in BOOLEAN, uart_irqhandler_rx(delim)
        PROVE  Port!Next
    BY <1>1 DEF uart_irqhandler_rx, Port!Next, Port!Arrive
  <1>2. CASE read_store
    <2>1. c = Taken + 1 /\ Taken < Len(stream)
      BY <1>2, AheadRange DEF RxIInv, RxTypeOK, Loaded, RingHoldsLine, read_store,
         Taken
    <2>2. HasDelimiter => \A k \in 1 .. Len(dst) : ~stream[dst[k]]
      BY <1>2 DEF RxIInv, NoDelimiterYet, read_store
    <2>3. Port!Taken = Taken
      BY DEF Port!Taken, Taken
    <2>4. Port!TakeByte
      BY <1>2, <2>1, <2>2, <2>3 DEF Port!TakeByte, read_store
    <2> QED BY <2>4 DEF Port!Next
  <1>3. CASE read_return
    BY <1>3 DEF read_return, Port!Next, Port!ReturnBuffer
  <1>4. CASE \/ \E size \in DstSizes : uart_rx_read(size)
             \/ read_test \/ read_load \/ read_exit
             \/ read_notified \/ read_timeout \/ UNCHANGED rxVars
    BY <1>4 DEF uart_rx_read, read_test, read_load, read_exit, read_notified,
                read_timeout, rxVars
  <1> QED BY <1>1, <1>2, <1>3, <1>4 DEF RxNext, Step

-----------------------------------------------------------------------------
(* Results                                                                 *)

\* Every variable keeps its type; with it no index leaves the ring.
THEOREM RxTypeCorrect == RxSpec => []RxTypeOK
  <1>1. RxIInv => RxTypeOK
    BY DEF RxIInv
  <1> QED BY <1>1, RxInitIInv, RxNextIInv, PTL DEF RxSpec

\* A reader of uart_rx_read that keeps up with the line gets what
\* interface_types.h promises, for every ring and every size of its buffers.
THEOREM PortImplemented == RxSpec => ImplementsSerialPort
  BY RxInitIInv, RxNextIInv, PortInit, PortNext, PTL
     DEF RxSpec, ImplementsSerialPort, Port!Spec
=============================================================================
