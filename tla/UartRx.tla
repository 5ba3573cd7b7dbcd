-------------------------------- MODULE UartRx --------------------------------
(***************************************************************************)
(* Reception in platform/stm32/peripheral/uart.c: the interrupt handler    *)
(* puts each byte into a ring buffer, and the one task that uses the port  *)
(* takes them out with uart_rx_read.  The handler preempts the task        *)
(* between any two of its accesses to the ring.                            *)
(*                                                                         *)
(* The k-th byte on the line is the number k; stream[k] tells whether it   *)
(* is the frame delimiter.  The ring holds such numbers, so that a byte    *)
(* that is lost, repeated or overtaken shows.                              *)
(***************************************************************************)
EXTENDS Integers, Sequences

CONSTANTS
  rx_buf_size,    \* length of rx_buf
  DstSizes,       \* dst_size arguments of uart_rx_read
  HasDelimiter,   \* IF_SERIAL_HAS_FRAME_DELIMITER is set
  MaxBytes        \* bound: bytes on the line

ASSUME RxSizeAssumption == rx_buf_size \in Nat \ {0, 1}
ASSUME DstAssumption == DstSizes \subseteq Nat \ {0}
ASSUME FlagAssumption == HasDelimiter \in BOOLEAN
ASSUME RxBoundAssumption == MaxBytes \in Nat

VARIABLES
  stream,       \* bytes that arrived: TRUE for a delimiter
  rx_buf, rx_buf_head, rx_buf_tail,
  rx_task,      \* rx_task # NULL
  received,     \* the task's notification state is "received"
  rx_pc,        \* where the task is in uart_rx_read
  dst_size, dst,\* its argument, and the bytes copied so far
  c,            \* its local c
  delivered     \* history: the bytes of all calls that returned

rxRing == <<rx_buf, rx_buf_head, rx_buf_tail>>
rxVars == <<stream, rx_buf, rx_buf_head, rx_buf_tail, rx_task, received, rx_pc,
            dst_size, dst, c, delivered>>

RxRing == 0 .. (rx_buf_size - 1)

RxInit ==
  /\ stream = <<>>
  /\ rx_buf = [i \in RxRing |-> 0]
  /\ rx_buf_head = 0 /\ rx_buf_tail = 0
  /\ rx_task = FALSE
  /\ received = FALSE
  /\ rx_pc = "idle"
  /\ dst_size = 0 /\ dst = <<>> /\ c = 0
  /\ delivered = <<>>

\* What the indices say is unread.
Fill == (rx_buf_head - rx_buf_tail + rx_buf_size) % rx_buf_size

-----------------------------------------------------------------------------
(* uart_irqhandler, RXNE                                                   *)

\* How much room the handler finds after it has stored a byte.
Remain(head) == (rx_buf_tail - head + rx_buf_size) % rx_buf_size

wakeup_delimiter_only(delim, head) == ~HasDelimiter \/ delim

Wakeup(delim, head) ==
  \/ ~HasDelimiter
  \/ delim
  \/ Remain(head) < rx_buf_size \div 4

\* The handler does not test for a full ring.  The guard on Fill assumes that
\* the reader keeps up with the line.
uart_irqhandler_rx(delim) ==
  LET head == (rx_buf_head + 1) % rx_buf_size
  IN /\ Len(stream) < MaxBytes
     /\ Fill < rx_buf_size - 1
     /\ stream' = Append(stream, delim)
     /\ rx_buf' = [rx_buf EXCEPT ![rx_buf_head] = Len(stream) + 1]
     /\ rx_buf_head' = head
     /\ received' = (received \/ (Wakeup(delim, head) /\ rx_task))
     /\ UNCHANGED <<rx_buf_tail, rx_task, rx_pc, dst_size, dst, c,
                    delivered>>

-----------------------------------------------------------------------------
(* uart_rx_read                                                            *)

\* The call: rx_task is set, then the buffer is tested.
uart_rx_read(size) ==
  /\ rx_pc = "idle"
  /\ rx_pc' = "test"
  /\ rx_task' = TRUE
  /\ dst_size' = size
  /\ UNCHANGED <<stream, rxRing, received, dst, c, delivered>>

read_test ==
  /\ rx_pc = "test"
  /\ rx_pc' = IF rx_buf_head = rx_buf_tail THEN "wait" ELSE "loop"
  /\ UNCHANGED <<stream, rxRing, rx_task, received, dst_size, dst, c,
                 delivered>>

\* xTaskNotifyWait returns with a notification, at once if one is pending.
\* (The flag's bit in the value is set and cleared but never looked at.)
read_notified ==
  /\ rx_pc = "wait"
  /\ received
  /\ received' = FALSE
  /\ rx_pc' = "loop"
  /\ UNCHANGED <<stream, rxRing, rx_task, dst_size, dst, c,
                 delivered>>

read_timeout ==
  /\ rx_pc = "wait"
  /\ ~received
  /\ rx_pc' = "loop"
  /\ UNCHANGED <<stream, rxRing, rx_task, received, dst_size, dst, c,
                 delivered>>

More == rx_buf_tail # rx_buf_head /\ Len(dst) < dst_size

\* The loop's condition and the load of the byte.
read_load ==
  /\ rx_pc = "loop"
  /\ More
  /\ c' = rx_buf[rx_buf_tail]
  /\ rx_pc' = "store"
  /\ UNCHANGED <<stream, rxRing, rx_task, received, dst_size, dst,
                 delivered>>

\* Mutant of read_store: no break after a delimiter.
read_store_no_break ==
  /\ rx_pc = "store"
  /\ dst' = Append(dst, c)
  /\ rx_buf_tail' = (rx_buf_tail + 1) % rx_buf_size
  /\ rx_pc' = "loop"
  /\ c' = 0
  /\ UNCHANGED <<stream, rx_buf, rx_buf_head, rx_task, received, dst_size,
                 delivered>>

\* The store to dst, the new tail, and the break after a delimiter.
read_store ==
  /\ rx_pc = "store"
  /\ dst' = Append(dst, c)
  /\ rx_buf_tail' = (rx_buf_tail + 1) % rx_buf_size
  /\ rx_pc' = IF HasDelimiter /\ stream[c] THEN "return" ELSE "loop"
  /\ c' = 0
  /\ UNCHANGED <<stream, rx_buf, rx_buf_head, rx_task, received, dst_size,
                 delivered>>

read_exit ==
  /\ rx_pc = "loop"
  /\ ~More
  /\ rx_pc' = "return"
  /\ UNCHANGED <<stream, rxRing, rx_task, received, dst_size, dst, c,
                 delivered>>

read_return ==
  /\ rx_pc = "return"
  /\ delivered' = delivered \o dst
  /\ dst' = <<>>
  /\ dst_size' = 0
  /\ rx_pc' = "idle"
  /\ UNCHANGED <<stream, rxRing, rx_task, received, c>>

-----------------------------------------------------------------------------
Step == read_test \/ read_load \/ read_store \/ read_exit \/ read_return

RxNext ==
  \/ \E delim \in BOOLEAN : uart_irqhandler_rx(delim)
  \/ \E size \in DstSizes : uart_rx_read(size)
  \/ Step \/ read_notified \/ read_timeout

RxSpec == RxInit /\ [][RxNext]_rxVars

-----------------------------------------------------------------------------
(* Properties                                                              *)

\* Every variable keeps its type.
RxTypeOK ==
  /\ stream \in Seq(BOOLEAN)
  /\ rx_buf \in [RxRing -> Nat]
  /\ rx_buf_head \in RxRing /\ rx_buf_tail \in RxRing
  /\ rx_task \in BOOLEAN /\ received \in BOOLEAN
  /\ rx_pc \in {"idle", "test", "wait", "loop", "store", "return"}
  /\ dst_size \in Nat /\ c \in Nat
  /\ dst \in Seq(Nat) /\ delivered \in Seq(Nat)

\* What the task got so far, this call included.
Got == delivered \o dst

\* While the reader keeps up the driver implements SerialPort: the reader
\* gets exactly the bytes of the line in their order, none lost, repeated or
\* overtaken, and a delimiter ends the read that takes it.
Port == INSTANCE SerialPort WITH line <- stream, buffer <- dst, out <- delivered
ImplementsSerialPort == Port!Spec

\* No wakeup is lost: a delimiter that has arrived is delivered, even if no
\* timeout ever expires, wherever the reader was when it arrived.
FrameDelivered ==
  \A k \in 1 .. MaxBytes :
    (HasDelimiter /\ k <= Len(stream) /\ stream[k])
      ~> \E j \in 1 .. Len(delivered) : delivered[j] = k

\* A frame too long for the ring wakes the reader before the ring is full:
\* the handler never leaves a full ring behind while the reader sleeps.
NearlyFullDrains == (Fill = rx_buf_size - 1) ~> (Fill < rx_buf_size - 1)

\* The reader is always woken: for a delimiter, and for a frame too long.
NoLostWakeup == FrameDelivered /\ NearlyFullDrains
=============================================================================
