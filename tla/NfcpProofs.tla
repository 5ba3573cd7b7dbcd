------------------------------ MODULE NfcpProofs ------------------------------
(***************************************************************************)
(* For all session ids, any timeout, any width of the tick counter and any *)
(* number of log lines: the two tasks never mix up the transmit buffer,    *)
(* the replies tell the host the truth about its session, and a session is *)
(* not closed before its timeout, also where the tick counter wraps.       *)
(***************************************************************************)
EXTENDS Nfcp, TLAPS

USE LogAssumption, IdAssumption, TickAssumption, HandlerAssumption

-------------------------------------------------------------------------------
(* The inductive invariant                                                 *)

\* log_task is in the handler of the class MGMT only while it calls it.
InHandler ==
  /\ lpc = "handler" => handler # <<>>
  /\ hpc # "out" => lpc = "handler" /\ Head(handler) = "nfcp"

\* Where the tasks hold the transmit mutex, and how often.
TaskOnce == {"abort", "reply_build", "reply_pack", "reply_send"}
LogOnce == {"build", "pack", "send"}

MutexHeld ==
  /\ tx_mutex.owner = "nfcp_task" <=> pc \in TaskOnce \cup {"reply_give"}
  /\ tx_mutex.owner = "log_task" <=> hpc \in LogOnce \cup {"give"}
  /\ tx_mutex.owner = "none" <=> tx_mutex.depth = 0
  /\ pc \in TaskOnce \/ hpc \in LogOnce => tx_mutex.depth = 1

\* Between a task's take and its send the buffer is its own.
BufferOwned ==
  /\ pc = "reply_pack" => tx_buffer = [frame |-> frame, packed |-> 0]
  /\ pc = "reply_send" => tx_buffer = [frame |-> frame, packed |-> 1]
  /\ hpc = "pack" => tx_buffer = [frame |-> LogFrame, packed |-> 0]
  /\ hpc = "send" => tx_buffer = [frame |-> LogFrame, packed |-> 1]

\* The session nfcp_task has and the one the host sees.
Replying == {"reply_take", "reply_build", "reply_pack", "reply_send"}

SessionShown ==
  /\ pc \in {"rx", "read", "check", "handle", "reply_give", "reply_refresh"} =>
       session_id = open
  /\ pc \in {"abort_take", "abort", "open"} => session_id = NONE
  /\ pc = "open" => open = NONE
  /\ pc \in Replying =>
       IF frame.kind = "version"
       THEN session_id = frame.id /\ open = NONE
       ELSE session_id = open /\ (frame.kind = "empty" => frame.id = session_id)

\* a + k in the arithmetic of the tick counter.
Plus(a, k) == IF a + k < TickMod THEN a + k ELSE a + k - TickMod

\* Until the timeout is over, the end of the session is as far ahead as the
\* last refresh put it, less the ticks since.
EndAhead ==
  /\ pc \notin {"init", "store", "refresh"} /\ age < Timeout =>
       session_end_time = Plus(now, Timeout - age)
  /\ pc \in {"init", "store"} => ret = "rx"
  /\ pc = "refresh" /\ ret = "handle" => age = Timeout

IInv ==
  /\ TypeOK /\ InHandler /\ MutexHeld /\ BufferOwned /\ SessionShown /\ EndAhead

-------------------------------------------------------------------------------
(* Facts about ticks                                                       *)

\* The sum of the code is the sum of the counter.
LEMMA PlusIsSum ==
  ASSUME NEW a \in 0 .. (TickMod - 1), NEW k \in 0 .. (TickMod - 1)
  PROVE  (a + k) % TickMod = Plus(a, k) /\ Plus(a, k) \in 0 .. (TickMod - 1)
  BY DEF Plus

\* A time that is k ticks ahead, with k less than half the range, is not over.
LEMMA AheadIsNotOver ==
  ASSUME NEW a \in 0 .. (TickMod - 1), NEW k \in 1 .. Timeout
  PROVE  Signed(a - Plus(a, k)) < 0
  <1>1. CASE a + k < TickMod
    <2>1. (a - Plus(a, k)) % TickMod = TickMod - k
      BY <1>1 DEF Plus
    <2> QED BY <2>1 DEF Signed
  <1>2. CASE a + k >= TickMod
    <2>1. (a - Plus(a, k)) % TickMod = TickMod - k
      BY <1>2 DEF Plus
    <2> QED BY <2>1 DEF Signed
  <1> QED BY <1>1, <1>2

\* Frames and packets have their types.
LEMMA FramesTyped ==
  /\ NoFrame \in Frames /\ Unused \in [frame : Frames, packed : 0 .. 2]
  /\ line \in 0 .. MaxLines => LogFrame \in Frames
  BY DEF NoFrame, Unused, LogFrame, Frame, Frames, NONE

\* What an id in a packet may be.
LEMMA PacketTyped ==
  ASSUME packet \in Packets
  PROVE  packet.id \in Ids \cup {NONE} /\ packet.kind \in Kinds
  BY DEF Packets, Kinds

\* A handler's return, and any step that leaves the log alone.
LEMMA LogKeepsTypes ==
  ASSUME LogTypeOK, UNCHANGED logVars \/ (log_return /\ handler # <<>>)
  PROVE  LogTypeOK'
  <1>1. CASE UNCHANGED logVars
    BY <1>1 DEF LogTypeOK, logVars
  <1>2. CASE log_return /\ handler # <<>>
    BY <1>2 DEF LogTypeOK, log_return
  <1> QED BY <1>1, <1>2

-------------------------------------------------------------------------------
(* The invariant is inductive                                              *)

\* It holds before the tasks run, whatever the heap held.
LEMMA InitIInv == Init => IInv
  <1> SUFFICES ASSUME Init PROVE IInv
    OBVIOUS
  <1>1. TypeOK
    <2>1. has_storage \in BOOLEAN
      BY Zenon DEF Init
    <2>2. LogTypeOK
      BY DEF Init, LogInit, LogTypeOK
    <2>3. packet \in Packets /\ frame \in Frames
          /\ tx_buffer \in [frame : Frames, packed : 0 .. 2]
      BY FramesTyped DEF Init, NoPacket, Packets, Kinds
    <2> QED BY <2>1, <2>2, <2>3 DEF Init, TypeOK
  <1>2. InHandler /\ MutexHeld /\ BufferOwned /\ SessionShown /\ EndAhead
    BY DEF Init, LogInit, InHandler, MutexHeld, TaskOnce, LogOnce, BufferOwned,
           SessionShown, Replying, EndAhead
  <1> QED BY <1>1, <1>2 DEF IInv

\* Every step of nfcp_task preserves it.
LEMMA TaskPreserves ==
  ASSUME IInv, nfcp_task \/ rx_complete
  PROVE  IInv'
  <1> USE DEF IInv, logVars, sessionVars, taskVars, txVars
  <1>1. CASE init_classes
    <2>1. TypeOK'
      <3>1. LogTypeOK'
        BY <1>1 DEF init_classes, Goto, log_register, TypeOK, LogTypeOK,
           InHandler
      <3> QED
        BY <1>1, <3>1 DEF init_classes, Goto, log_register, TypeOK
    <2>2. InHandler' /\ MutexHeld'
      BY <1>1 DEF init_classes, Goto, log_register, TypeOK, InHandler,
         MutexHeld, TaskOnce, LogOnce
    <2>3. BufferOwned'
      BY <1>1 DEF init_classes, Goto, log_register, TypeOK, MutexHeld,
         TaskOnce, LogOnce, BufferOwned, LogFrame, InHandler
    <2>4. SessionShown'
      BY <1>1 DEF init_classes, Goto, log_register, TypeOK, SessionShown,
         Replying
    <2>5. EndAhead'
      BY <1>1 DEF init_classes, Goto, log_register, TypeOK, EndAhead, Plus
    <2> QED BY <2>1, <2>2, <2>3, <2>4, <2>5
  <1>2. CASE init_store
    <2>1. TypeOK'
      <3>1. has_storage' \in BOOLEAN
        BY <1>2, Zenon DEF init_store, Goto
      <3> QED
        BY <1>2, <3>1 DEF init_store, Goto, TypeOK, LogTypeOK
    <2>2. InHandler' /\ MutexHeld'
      BY <1>2 DEF init_store, Goto, TypeOK, InHandler, MutexHeld, TaskOnce,
         LogOnce
    <2>3. BufferOwned'
      BY <1>2 DEF init_store, Goto, TypeOK, MutexHeld, TaskOnce, LogOnce,
         BufferOwned, LogFrame, InHandler
    <2>4. SessionShown'
      BY <1>2 DEF init_store, Goto, TypeOK, SessionShown, Replying
    <2>5. EndAhead'
      BY <1>2 DEF init_store, Goto, TypeOK, EndAhead, Plus
    <2> QED BY <2>1, <2>2, <2>3, <2>4, <2>5
  <1>3. CASE reset_refresh
    <2>1. TypeOK'
      <3>1. session_end_time' \in 0 .. (TickMod - 1)
        BY <1>3 DEF reset_refresh, Goto, nfcp_refresh_session, TypeOK
      <3> QED
        BY <1>3, <3>1 DEF reset_refresh, Goto, nfcp_refresh_session, TypeOK,
           LogTypeOK
    <2>2. InHandler' /\ MutexHeld'
      BY <1>3 DEF reset_refresh, Goto, nfcp_refresh_session, TypeOK,
         InHandler, MutexHeld, TaskOnce, LogOnce
    <2>3. BufferOwned'
      BY <1>3 DEF reset_refresh, Goto, nfcp_refresh_session, TypeOK,
         MutexHeld, TaskOnce, LogOnce, BufferOwned, LogFrame, InHandler
    <2>4. SessionShown'
      BY <1>3 DEF reset_refresh, Goto, nfcp_refresh_session, TypeOK,
         SessionShown, Replying
    <2>5. EndAhead'
      BY <1>3, PlusIsSum DEF reset_refresh, Goto, nfcp_refresh_session,
         TypeOK, EndAhead
    <2> QED BY <2>1, <2>2, <2>3, <2>4, <2>5
  <1>4. CASE nfcp_cls_mgmt_reset
    <2>1. TypeOK'
      BY <1>4 DEF nfcp_cls_mgmt_reset, Goto, TypeOK, LogTypeOK
    <2>2. InHandler' /\ MutexHeld'
      BY <1>4 DEF nfcp_cls_mgmt_reset, Goto, TypeOK, InHandler, MutexHeld,
         TaskOnce, LogOnce
    <2>3. BufferOwned'
      BY <1>4 DEF nfcp_cls_mgmt_reset, Goto, TypeOK, MutexHeld, TaskOnce,
         LogOnce, BufferOwned, LogFrame, InHandler
    <2>4. SessionShown'
      BY <1>4 DEF nfcp_cls_mgmt_reset, Goto, TypeOK, SessionShown, Replying
    <2>5. EndAhead'
      BY <1>4 DEF nfcp_cls_mgmt_reset, Goto, TypeOK, EndAhead, Plus
    <2> QED BY <2>1, <2>2, <2>3, <2>4, <2>5
  <1>5. CASE abort_take
    <2>1. TypeOK'
      <3>1. tx_mutex' \in [owner : {"none", "nfcp_task", "log_task"}, depth : 0 .. 2]
        BY <1>5 DEF abort_take, Goto, nfcp_tx_take, TypeOK, MutexHeld,
           TaskOnce, LogOnce
      <3> QED
        BY <1>5, <3>1 DEF abort_take, Goto, nfcp_tx_take, TypeOK, LogTypeOK
    <2>2. InHandler' /\ MutexHeld'
      BY <1>5 DEF abort_take, Goto, nfcp_tx_take, TypeOK, InHandler,
         MutexHeld, TaskOnce, LogOnce
    <2>3. BufferOwned'
      BY <1>5 DEF abort_take, Goto, nfcp_tx_take, TypeOK, MutexHeld, TaskOnce,
         LogOnce, BufferOwned, LogFrame, InHandler
    <2>4. SessionShown'
      BY <1>5 DEF abort_take, Goto, nfcp_tx_take, TypeOK, SessionShown,
         Replying
    <2>5. EndAhead'
      BY <1>5 DEF abort_take, Goto, nfcp_tx_take, TypeOK, EndAhead, Plus
    <2> QED BY <2>1, <2>2, <2>3, <2>4, <2>5
  <1>6. CASE nfcp_tx_abort
    <2>1. TypeOK'
      <3>1. tx_mutex' \in [owner : {"none", "nfcp_task", "log_task"}, depth : 0 .. 2]
        BY <1>6 DEF nfcp_tx_abort, Goto, nfcp_tx_give, TypeOK, MutexHeld,
           TaskOnce, LogOnce
      <3> QED
        BY <1>6, <3>1 DEF nfcp_tx_abort, Goto, nfcp_tx_give, TypeOK,
           LogTypeOK
    <2>2. InHandler' /\ MutexHeld'
      BY <1>6 DEF nfcp_tx_abort, Goto, nfcp_tx_give, TypeOK, InHandler,
         MutexHeld, TaskOnce, LogOnce
    <2>3. BufferOwned'
      BY <1>6 DEF nfcp_tx_abort, Goto, nfcp_tx_give, TypeOK, MutexHeld,
         TaskOnce, LogOnce, BufferOwned, LogFrame, InHandler
    <2>4. SessionShown'
      BY <1>6 DEF nfcp_tx_abort, Goto, nfcp_tx_give, TypeOK, SessionShown,
         Replying
    <2>5. EndAhead'
      BY <1>6 DEF nfcp_tx_abort, Goto, nfcp_tx_give, TypeOK, EndAhead, Plus
    <2> QED BY <2>1, <2>2, <2>3, <2>4, <2>5
  <1>7. CASE nfcp_rx_packet
    <2>1. TypeOK'
      <3>1. packet' \in Packets
        BY <1>7 DEF nfcp_rx_packet, NoPacket, Packets, Kinds
      <3> QED
        BY <1>7, <3>1 DEF nfcp_rx_packet, Goto, receiveUnchanged, TypeOK,
           LogTypeOK
    <2>2. InHandler' /\ MutexHeld'
      BY <1>7 DEF nfcp_rx_packet, Goto, receiveUnchanged, TypeOK, InHandler,
         MutexHeld, TaskOnce, LogOnce
    <2>3. BufferOwned'
      BY <1>7 DEF nfcp_rx_packet, Goto, receiveUnchanged, TypeOK, MutexHeld,
         TaskOnce, LogOnce, BufferOwned, LogFrame, InHandler
    <2>4. SessionShown'
      BY <1>7 DEF nfcp_rx_packet, Goto, receiveUnchanged, TypeOK,
         SessionShown, Replying
    <2>5. EndAhead'
      BY <1>7 DEF nfcp_rx_packet, Goto, receiveUnchanged, TypeOK, EndAhead,
         Plus
    <2> QED BY <2>1, <2>2, <2>3, <2>4, <2>5
  <1>8. CASE rx_complete
    <2>1. TypeOK'
      BY <1>8 DEF rx_complete, Goto, receiveUnchanged, TypeOK, LogTypeOK
    <2>2. InHandler' /\ MutexHeld'
      BY <1>8 DEF rx_complete, Goto, receiveUnchanged, TypeOK, InHandler,
         MutexHeld, TaskOnce, LogOnce
    <2>3. BufferOwned'
      BY <1>8 DEF rx_complete, Goto, receiveUnchanged, TypeOK, MutexHeld,
         TaskOnce, LogOnce, BufferOwned, LogFrame, InHandler
    <2>4. SessionShown'
      BY <1>8 DEF rx_complete, Goto, receiveUnchanged, TypeOK, SessionShown,
         Replying
    <2>5. EndAhead'
      BY <1>8 DEF rx_complete, Goto, receiveUnchanged, TypeOK, EndAhead, Plus
    <2> QED BY <2>1, <2>2, <2>3, <2>4, <2>5
  <1>9. CASE rx_timeout
    <2>1. TypeOK'
      BY <1>9 DEF rx_timeout, Goto, receiveUnchanged, TypeOK, LogTypeOK
    <2>2. InHandler' /\ MutexHeld'
      BY <1>9 DEF rx_timeout, Goto, receiveUnchanged, TypeOK, InHandler,
         MutexHeld, TaskOnce, LogOnce
    <2>3. BufferOwned'
      BY <1>9 DEF rx_timeout, Goto, receiveUnchanged, TypeOK, MutexHeld,
         TaskOnce, LogOnce, BufferOwned, LogFrame, InHandler
    <2>4. SessionShown'
      BY <1>9 DEF rx_timeout, Goto, receiveUnchanged, TypeOK, SessionShown,
         Replying
    <2>5. EndAhead'
      BY <1>9 DEF rx_timeout, Goto, receiveUnchanged, TypeOK, EndAhead, Plus
    <2> QED BY <2>1, <2>2, <2>3, <2>4, <2>5
  <1>10. CASE check_timeout
    <2>1. TypeOK'
      BY <1>10 DEF check_timeout, Goto, TypeOK, LogTypeOK
    <2>2. InHandler' /\ MutexHeld'
      BY <1>10 DEF check_timeout, Goto, TypeOK, InHandler, MutexHeld,
         TaskOnce, LogOnce
    <2>3. BufferOwned'
      BY <1>10 DEF check_timeout, Goto, TypeOK, MutexHeld, TaskOnce, LogOnce,
         BufferOwned, LogFrame, InHandler
    <2>4. SessionShown'
      BY <1>10 DEF check_timeout, Goto, TypeOK, SessionShown, Replying
    <2>5. EndAhead'
      <3>1. Signed(now - session_end_time) >= 0 => age = Timeout
        <4>1. age < Timeout => Signed(now - session_end_time) < 0
          <5> SUFFICES ASSUME age < Timeout
                       PROVE  Signed(now - session_end_time) < 0
            OBVIOUS
          <5>1. session_end_time = Plus(now, Timeout - age)
            BY <1>10 DEF check_timeout, EndAhead
          <5> QED BY <5>1, AheadIsNotOver DEF TypeOK
        <4>2. Signed(now - session_end_time) \in Int
          BY DEF Signed, TypeOK
        <4> QED BY <4>1, <4>2 DEF TypeOK
      <3> QED BY <1>10, <3>1 DEF check_timeout, Goto, EndAhead, Plus
    <2> QED BY <2>1, <2>2, <2>3, <2>4, <2>5
  <1>11. CASE handle_nothing
    <2>1. TypeOK'
      BY <1>11 DEF handle_nothing, handleUnchanged, Goto, TypeOK, LogTypeOK
    <2>2. InHandler' /\ MutexHeld'
      BY <1>11 DEF handle_nothing, handleUnchanged, Goto, TypeOK, InHandler,
         MutexHeld, TaskOnce, LogOnce
    <2>3. BufferOwned'
      BY <1>11 DEF handle_nothing, handleUnchanged, Goto, TypeOK, MutexHeld,
         TaskOnce, LogOnce, BufferOwned, LogFrame, InHandler
    <2>4. SessionShown'
      BY <1>11 DEF handle_nothing, handleUnchanged, Goto, TypeOK,
         SessionShown, Replying
    <2>5. EndAhead'
      BY <1>11 DEF handle_nothing, handleUnchanged, Goto, TypeOK, EndAhead,
         Plus
    <2> QED BY <2>1, <2>2, <2>3, <2>4, <2>5
  <1>12. CASE handle_invalid
    <2>1. TypeOK'
      <3>1. frame' \in Frames
        BY <1>12, PacketTyped DEF handle_invalid, handleUnchanged, Goto,
           Reply, Frame, TypeOK, Frames
      <3> QED
        BY <1>12, <3>1 DEF handle_invalid, handleUnchanged, Goto, Reply,
           Frame, TypeOK, LogTypeOK
    <2>2. InHandler' /\ MutexHeld'
      BY <1>12 DEF handle_invalid, handleUnchanged, Goto, Reply, Frame,
         TypeOK, InHandler, MutexHeld, TaskOnce, LogOnce
    <2>3. BufferOwned'
      BY <1>12 DEF handle_invalid, handleUnchanged, Goto, Reply, Frame,
         TypeOK, MutexHeld, TaskOnce, LogOnce, BufferOwned, LogFrame,
         InHandler
    <2>4. SessionShown'
      BY <1>12 DEF handle_invalid, handleUnchanged, Goto, Reply, Frame,
         TypeOK, SessionShown, Replying
    <2>5. EndAhead'
      BY <1>12 DEF handle_invalid, handleUnchanged, Goto, Reply, Frame,
         TypeOK, EndAhead, Plus
    <2> QED BY <2>1, <2>2, <2>3, <2>4, <2>5
  <1>13. CASE nfcp_cls_cap_op
    <2>1. TypeOK'
      <3>1. frame' \in Frames
        BY <1>13, PacketTyped DEF nfcp_cls_cap_op, handleUnchanged, Goto,
           Reply, Frame, TypeOK, Frames
      <3> QED
        BY <1>13, <3>1 DEF nfcp_cls_cap_op, handleUnchanged, Goto, Reply,
           Frame, TypeOK, LogTypeOK
    <2>2. InHandler' /\ MutexHeld'
      BY <1>13 DEF nfcp_cls_cap_op, handleUnchanged, Goto, Reply, Frame,
         TypeOK, InHandler, MutexHeld, TaskOnce, LogOnce
    <2>3. BufferOwned'
      BY <1>13 DEF nfcp_cls_cap_op, handleUnchanged, Goto, Reply, Frame,
         TypeOK, MutexHeld, TaskOnce, LogOnce, BufferOwned, LogFrame,
         InHandler
    <2>4. SessionShown'
      BY <1>13 DEF nfcp_cls_cap_op, handleUnchanged, Goto, Reply, Frame,
         TypeOK, SessionShown, Replying
    <2>5. EndAhead'
      BY <1>13 DEF nfcp_cls_cap_op, handleUnchanged, Goto, Reply, Frame,
         TypeOK, EndAhead, Plus
    <2> QED BY <2>1, <2>2, <2>3, <2>4, <2>5
  <1>14. CASE nfcp_cls_op_session_id
    <2>1. TypeOK'
      <3>1. frame' \in Frames
        BY <1>14, PacketTyped DEF nfcp_cls_op_session_id, handleUnchanged,
           Goto, Reply, Frame, TypeOK, Frames
      <3> QED
        BY <1>14, <3>1 DEF nfcp_cls_op_session_id, handleUnchanged, Goto,
           Reply, Frame, TypeOK, LogTypeOK
    <2>2. InHandler' /\ MutexHeld'
      BY <1>14 DEF nfcp_cls_op_session_id, handleUnchanged, Goto, Reply,
         Frame, TypeOK, InHandler, MutexHeld, TaskOnce, LogOnce
    <2>3. BufferOwned'
      BY <1>14 DEF nfcp_cls_op_session_id, handleUnchanged, Goto, Reply,
         Frame, TypeOK, MutexHeld, TaskOnce, LogOnce, BufferOwned, LogFrame,
         InHandler
    <2>4. SessionShown'
      BY <1>14 DEF nfcp_cls_op_session_id, handleUnchanged, Goto, Reply,
         Frame, TypeOK, SessionShown, Replying
    <2>5. EndAhead'
      BY <1>14 DEF nfcp_cls_op_session_id, handleUnchanged, Goto, Reply,
         Frame, TypeOK, EndAhead, Plus
    <2> QED BY <2>1, <2>2, <2>3, <2>4, <2>5
  <1>15. CASE session_open
    <2>1. TypeOK'
      <3>1. frame' \in Frames
        BY <1>15, PacketTyped DEF session_open, Goto, Reply, Frame, TypeOK,
           Frames
      <3>2. session_id' \in Ids \cup {NONE}
        BY <1>15, PacketTyped DEF session_open, Goto, Reply, Frame, TypeOK
      <3> QED
        BY <1>15, <3>1, <3>2 DEF session_open, Goto, Reply, Frame, TypeOK,
           LogTypeOK
    <2>2. InHandler' /\ MutexHeld'
      BY <1>15 DEF session_open, Goto, Reply, Frame, TypeOK, InHandler,
         MutexHeld, TaskOnce, LogOnce
    <2>3. BufferOwned'
      BY <1>15 DEF session_open, Goto, Reply, Frame, TypeOK, MutexHeld,
         TaskOnce, LogOnce, BufferOwned, LogFrame, InHandler
    <2>4. SessionShown'
      BY <1>15 DEF session_open, Goto, Reply, Frame, TypeOK, SessionShown,
         Replying
    <2>5. EndAhead'
      BY <1>15 DEF session_open, Goto, Reply, Frame, TypeOK, EndAhead, Plus
    <2> QED BY <2>1, <2>2, <2>3, <2>4, <2>5
  <1>16. CASE reply_take
    <2>1. TypeOK'
      <3>1. tx_mutex' \in [owner : {"none", "nfcp_task", "log_task"}, depth : 0 .. 2]
        BY <1>16 DEF reply_take, replyUnchanged, Goto, nfcp_tx_take, TypeOK,
           MutexHeld, TaskOnce, LogOnce
      <3> QED
        BY <1>16, <3>1 DEF reply_take, replyUnchanged, Goto, nfcp_tx_take,
           TypeOK, LogTypeOK
    <2>2. InHandler' /\ MutexHeld'
      BY <1>16 DEF reply_take, replyUnchanged, Goto, nfcp_tx_take, TypeOK,
         InHandler, MutexHeld, TaskOnce, LogOnce
    <2>3. BufferOwned'
      BY <1>16 DEF reply_take, replyUnchanged, Goto, nfcp_tx_take, TypeOK,
         MutexHeld, TaskOnce, LogOnce, BufferOwned, LogFrame, InHandler
    <2>4. SessionShown'
      BY <1>16 DEF reply_take, replyUnchanged, Goto, nfcp_tx_take, TypeOK,
         SessionShown, Replying
    <2>5. EndAhead'
      BY <1>16 DEF reply_take, replyUnchanged, Goto, nfcp_tx_take, TypeOK,
         EndAhead, Plus
    <2> QED BY <2>1, <2>2, <2>3, <2>4, <2>5
  <1>17. CASE reply_build
    <2>1. TypeOK'
      <3>1. tx_buffer' \in [frame : Frames, packed : 0 .. 2]
        BY <1>17 DEF reply_build, replyUnchanged, Goto, TypeOK, BufferOwned
      <3> QED
        BY <1>17, <3>1 DEF reply_build, replyUnchanged, Goto, TypeOK,
           LogTypeOK
    <2>2. InHandler' /\ MutexHeld'
      BY <1>17 DEF reply_build, replyUnchanged, Goto, TypeOK, InHandler,
         MutexHeld, TaskOnce, LogOnce
    <2>3. BufferOwned'
      BY <1>17 DEF reply_build, replyUnchanged, Goto, TypeOK, MutexHeld,
         TaskOnce, LogOnce, BufferOwned, LogFrame, InHandler
    <2>4. SessionShown'
      BY <1>17 DEF reply_build, replyUnchanged, Goto, TypeOK, SessionShown,
         Replying
    <2>5. EndAhead'
      BY <1>17 DEF reply_build, replyUnchanged, Goto, TypeOK, EndAhead, Plus
    <2> QED BY <2>1, <2>2, <2>3, <2>4, <2>5
  <1>18. CASE reply_pack
    <2>1. TypeOK'
      <3>1. tx_buffer' \in [frame : Frames, packed : 0 .. 2]
        BY <1>18 DEF reply_pack, replyUnchanged, Goto, Pack, TypeOK,
           BufferOwned
      <3> QED
        BY <1>18, <3>1 DEF reply_pack, replyUnchanged, Goto, Pack, TypeOK,
           LogTypeOK
    <2>2. InHandler' /\ MutexHeld'
      BY <1>18 DEF reply_pack, replyUnchanged, Goto, Pack, TypeOK, InHandler,
         MutexHeld, TaskOnce, LogOnce
    <2>3. BufferOwned'
      <3>1. tx_buffer' = [frame |-> frame, packed |-> 1]
        BY <1>18 DEF reply_pack, Pack, BufferOwned
      <3>2. hpc' \notin {"pack", "send"} /\ pc' = "reply_send" /\ frame' = frame
        BY <1>18 DEF reply_pack, replyUnchanged, Goto, MutexHeld, TaskOnce,
           LogOnce
      <3> QED BY <3>1, <3>2 DEF BufferOwned
    <2>4. SessionShown'
      BY <1>18 DEF reply_pack, replyUnchanged, Goto, Pack, TypeOK,
         SessionShown, Replying
    <2>5. EndAhead'
      BY <1>18 DEF reply_pack, replyUnchanged, Goto, Pack, TypeOK, EndAhead,
         Plus
    <2> QED BY <2>1, <2>2, <2>3, <2>4, <2>5
  <1>19. CASE reply_send
    <2>1. TypeOK'
      <3>1. tx_mutex' \in [owner : {"none", "nfcp_task", "log_task"}, depth : 0 .. 2]
        BY <1>19 DEF reply_send, Goto, nfcp_tx_take, TypeOK, MutexHeld,
           TaskOnce, LogOnce
      <3>2. tx_buffer' \in [frame : Frames, packed : 0 .. 2]
        BY <1>19, FramesTyped DEF reply_send, Goto, nfcp_tx_take
      <3>3. frame' \in Frames
        BY <1>19, FramesTyped DEF reply_send, Goto, nfcp_tx_take
      <3>4. open' \in Ids \cup {NONE}
        BY <1>19 DEF reply_send, Goto, nfcp_tx_take, TypeOK, SessionShown,
           Replying
      <3> QED
        BY <1>19, <3>1, <3>2, <3>3, <3>4 DEF reply_send, Goto, nfcp_tx_take,
           TypeOK, LogTypeOK
    <2>2. InHandler' /\ MutexHeld'
      BY <1>19 DEF reply_send, Goto, nfcp_tx_take, TypeOK, InHandler,
         MutexHeld, TaskOnce, LogOnce
    <2>3. BufferOwned'
      BY <1>19 DEF reply_send, Goto, nfcp_tx_take, TypeOK, MutexHeld,
         TaskOnce, LogOnce, BufferOwned, LogFrame, InHandler
    <2>4. SessionShown'
      BY <1>19 DEF reply_send, Goto, nfcp_tx_take, TypeOK, SessionShown,
         Replying
    <2>5. EndAhead'
      BY <1>19 DEF reply_send, Goto, nfcp_tx_take, TypeOK, EndAhead, Plus
    <2> QED BY <2>1, <2>2, <2>3, <2>4, <2>5
  <1>20. CASE reply_give
    <2>1. TypeOK'
      <3>1. tx_mutex' \in [owner : {"none", "nfcp_task", "log_task"}, depth : 0 .. 2]
        BY <1>20 DEF reply_give, replyUnchanged, Goto, nfcp_tx_give, TypeOK,
           MutexHeld, TaskOnce, LogOnce
      <3> QED
        BY <1>20, <3>1 DEF reply_give, replyUnchanged, Goto, nfcp_tx_give,
           TypeOK, LogTypeOK
    <2>2. InHandler' /\ MutexHeld'
      BY <1>20 DEF reply_give, replyUnchanged, Goto, nfcp_tx_give, TypeOK,
         InHandler, MutexHeld, TaskOnce, LogOnce
    <2>3. BufferOwned'
      BY <1>20 DEF reply_give, replyUnchanged, Goto, nfcp_tx_give, TypeOK,
         MutexHeld, TaskOnce, LogOnce, BufferOwned, LogFrame, InHandler
    <2>4. SessionShown'
      BY <1>20 DEF reply_give, replyUnchanged, Goto, nfcp_tx_give, TypeOK,
         SessionShown, Replying
    <2>5. EndAhead'
      BY <1>20 DEF reply_give, replyUnchanged, Goto, nfcp_tx_give, TypeOK,
         EndAhead, Plus
    <2> QED BY <2>1, <2>2, <2>3, <2>4, <2>5
  <1>21. CASE reply_refresh
    <2>1. TypeOK'
      <3>1. session_end_time' \in 0 .. (TickMod - 1)
        BY <1>21 DEF reply_refresh, Goto, nfcp_refresh_session, TypeOK
      <3> QED
        BY <1>21, <3>1 DEF reply_refresh, Goto, nfcp_refresh_session, TypeOK,
           LogTypeOK
    <2>2. InHandler' /\ MutexHeld'
      BY <1>21 DEF reply_refresh, Goto, nfcp_refresh_session, TypeOK,
         InHandler, MutexHeld, TaskOnce, LogOnce
    <2>3. BufferOwned'
      BY <1>21 DEF reply_refresh, Goto, nfcp_refresh_session, TypeOK,
         MutexHeld, TaskOnce, LogOnce, BufferOwned, LogFrame, InHandler
    <2>4. SessionShown'
      BY <1>21 DEF reply_refresh, Goto, nfcp_refresh_session, TypeOK,
         SessionShown, Replying
    <2>5. EndAhead'
      BY <1>21, PlusIsSum DEF reply_refresh, Goto, nfcp_refresh_session,
         TypeOK, EndAhead
    <2> QED BY <2>1, <2>2, <2>3, <2>4, <2>5
  <1> QED
    BY <1>1, <1>2, <1>3, <1>4, <1>5, <1>6, <1>7, <1>8, <1>9, <1>10, <1>11, <1>12, <1>13, <1>14, <1>15, <1>16, <1>17, <1>18, <1>19, <1>20, <1>21 DEF nfcp_task

\* Every step of log_task preserves it.
LEMMA LogPreserves ==
  ASSUME IInv, log_task
  PROVE  IInv'
  <1> USE DEF IInv, logVars, sessionVars, taskVars, txVars
  <1>1. CASE log_receive /\ UNCHANGED <<hpc, txVars>> /\ nfcpUnchanged
    <2>1. TypeOK'
      <3>1. LogTypeOK'
        BY <1>1 DEF log_receive, nfcpUnchanged, TypeOK, LogTypeOK, InHandler
      <3> QED
        BY <1>1, <3>1 DEF log_receive, nfcpUnchanged, TypeOK
    <2>2. InHandler' /\ MutexHeld'
      BY <1>1 DEF log_receive, nfcpUnchanged, TypeOK, InHandler, MutexHeld,
         TaskOnce, LogOnce
    <2>3. BufferOwned'
      BY <1>1 DEF log_receive, nfcpUnchanged, TypeOK, MutexHeld, TaskOnce,
         LogOnce, BufferOwned, LogFrame, InHandler
    <2>4. SessionShown'
      BY <1>1 DEF log_receive, nfcpUnchanged, TypeOK, SessionShown, Replying
    <2>5. EndAhead'
      BY <1>1 DEF log_receive, nfcpUnchanged, TypeOK, EndAhead, Plus
    <2> QED BY <2>1, <2>2, <2>3, <2>4, <2>5
  <1>2. CASE log_end /\ UNCHANGED <<hpc, txVars>> /\ nfcpUnchanged
    <2>1. TypeOK'
      <3>1. LogTypeOK'
        BY <1>2 DEF log_end, nfcpUnchanged, TypeOK, LogTypeOK, InHandler
      <3> QED
        BY <1>2, <3>1 DEF log_end, nfcpUnchanged, TypeOK
    <2>2. InHandler' /\ MutexHeld'
      BY <1>2 DEF log_end, nfcpUnchanged, TypeOK, InHandler, MutexHeld,
         TaskOnce, LogOnce
    <2>3. BufferOwned'
      BY <1>2 DEF log_end, nfcpUnchanged, TypeOK, MutexHeld, TaskOnce,
         LogOnce, BufferOwned, LogFrame, InHandler
    <2>4. SessionShown'
      BY <1>2 DEF log_end, nfcpUnchanged, TypeOK, SessionShown, Replying
    <2>5. EndAhead'
      BY <1>2 DEF log_end, nfcpUnchanged, TypeOK, EndAhead, Plus
    <2> QED BY <2>1, <2>2, <2>3, <2>4, <2>5
  <1>3. CASE log_enter
    <2>1. TypeOK'
      <3>1. LogTypeOK'
        BY <1>3 DEF log_enter, log_call, nfcpUnchanged, TypeOK, LogTypeOK,
           InHandler
      <3> QED
        BY <1>3, <3>1 DEF log_enter, log_call, nfcpUnchanged, TypeOK
    <2>2. InHandler' /\ MutexHeld'
      BY <1>3 DEF log_enter, log_call, nfcpUnchanged, TypeOK, InHandler,
         MutexHeld, TaskOnce, LogOnce
    <2>3. BufferOwned'
      BY <1>3 DEF log_enter, log_call, nfcpUnchanged, TypeOK, MutexHeld,
         TaskOnce, LogOnce, BufferOwned, LogFrame, InHandler
    <2>4. SessionShown'
      BY <1>3 DEF log_enter, log_call, nfcpUnchanged, TypeOK, SessionShown,
         Replying
    <2>5. EndAhead'
      BY <1>3 DEF log_enter, log_call, nfcpUnchanged, TypeOK, EndAhead, Plus
    <2> QED BY <2>1, <2>2, <2>3, <2>4, <2>5
  <1>4. CASE stdout_log_handler
    <2>1. TypeOK'
      <3>1. LogTypeOK'
        BY <1>4 DEF stdout_log_handler, log_return, nfcpUnchanged, TypeOK,
           LogTypeOK, InHandler
      <3> QED
        BY <1>4, <3>1 DEF stdout_log_handler, log_return, nfcpUnchanged,
           TypeOK
    <2>2. InHandler' /\ MutexHeld'
      BY <1>4 DEF stdout_log_handler, log_return, nfcpUnchanged, TypeOK,
         InHandler, MutexHeld, TaskOnce, LogOnce
    <2>3. BufferOwned'
      BY <1>4 DEF stdout_log_handler, log_return, nfcpUnchanged, TypeOK,
         MutexHeld, TaskOnce, LogOnce, BufferOwned, LogFrame, InHandler
    <2>4. SessionShown'
      BY <1>4 DEF stdout_log_handler, log_return, nfcpUnchanged, TypeOK,
         SessionShown, Replying
    <2>5. EndAhead'
      BY <1>4 DEF stdout_log_handler, log_return, nfcpUnchanged, TypeOK,
         EndAhead, Plus
    <2> QED BY <2>1, <2>2, <2>3, <2>4, <2>5
  <1>5. CASE handler_test
    <2>1. TypeOK'
      <3>1. LogTypeOK'
        BY <1>5, LogKeepsTypes DEF handler_test, TypeOK, InHandler
      <3> QED
        BY <1>5, <3>1 DEF handler_test, log_return, nfcpUnchanged, TypeOK
    <2>2. InHandler' /\ MutexHeld'
      BY <1>5 DEF handler_test, log_return, nfcpUnchanged, TypeOK, InHandler,
         MutexHeld, TaskOnce, LogOnce
    <2>3. BufferOwned'
      BY <1>5 DEF handler_test, log_return, nfcpUnchanged, TypeOK, MutexHeld,
         TaskOnce, LogOnce, BufferOwned, LogFrame, InHandler
    <2>4. SessionShown'
      BY <1>5 DEF handler_test, log_return, nfcpUnchanged, TypeOK,
         SessionShown, Replying
    <2>5. EndAhead'
      BY <1>5 DEF handler_test, log_return, nfcpUnchanged, TypeOK, EndAhead,
         Plus
    <2> QED BY <2>1, <2>2, <2>3, <2>4, <2>5
  <1>6. CASE handler_take
    <2>1. TypeOK'
      <3>1. tx_mutex' \in [owner : {"none", "nfcp_task", "log_task"}, depth : 0 .. 2]
        BY <1>6 DEF handler_take, nfcp_tx_take, nfcpUnchanged, TypeOK,
           MutexHeld, TaskOnce, LogOnce
      <3> QED
        BY <1>6, <3>1 DEF handler_take, nfcp_tx_take, nfcpUnchanged, TypeOK,
           LogTypeOK
    <2>2. InHandler' /\ MutexHeld'
      BY <1>6 DEF handler_take, nfcp_tx_take, nfcpUnchanged, TypeOK,
         InHandler, MutexHeld, TaskOnce, LogOnce
    <2>3. BufferOwned'
      BY <1>6 DEF handler_take, nfcp_tx_take, nfcpUnchanged, TypeOK,
         MutexHeld, TaskOnce, LogOnce, BufferOwned, LogFrame, InHandler
    <2>4. SessionShown'
      BY <1>6 DEF handler_take, nfcp_tx_take, nfcpUnchanged, TypeOK,
         SessionShown, Replying
    <2>5. EndAhead'
      BY <1>6 DEF handler_take, nfcp_tx_take, nfcpUnchanged, TypeOK, EndAhead,
         Plus
    <2> QED BY <2>1, <2>2, <2>3, <2>4, <2>5
  <1>7. CASE handler_build
    <2>1. TypeOK'
      <3>1. tx_buffer' \in [frame : Frames, packed : 0 .. 2]
        BY <1>7, FramesTyped DEF handler_build, TypeOK, LogTypeOK
      <3> QED
        BY <1>7, <3>1 DEF handler_build, nfcpUnchanged, TypeOK, LogTypeOK
    <2>2. InHandler' /\ MutexHeld'
      BY <1>7 DEF handler_build, nfcpUnchanged, TypeOK, InHandler, MutexHeld,
         TaskOnce, LogOnce
    <2>3. BufferOwned'
      BY <1>7 DEF handler_build, nfcpUnchanged, TypeOK, MutexHeld, TaskOnce,
         LogOnce, BufferOwned, LogFrame, InHandler
    <2>4. SessionShown'
      BY <1>7 DEF handler_build, nfcpUnchanged, TypeOK, SessionShown,
         Replying
    <2>5. EndAhead'
      BY <1>7 DEF handler_build, nfcpUnchanged, TypeOK, EndAhead, Plus
    <2> QED BY <2>1, <2>2, <2>3, <2>4, <2>5
  <1>8. CASE handler_pack
    <2>1. TypeOK'
      <3>1. tx_buffer' \in [frame : Frames, packed : 0 .. 2]
        BY <1>8, FramesTyped DEF handler_pack, Pack, nfcpUnchanged, TypeOK,
           BufferOwned
      <3> QED
        BY <1>8, <3>1 DEF handler_pack, Pack, nfcpUnchanged, TypeOK,
           LogTypeOK
    <2>2. InHandler' /\ MutexHeld'
      BY <1>8 DEF handler_pack, Pack, nfcpUnchanged, TypeOK, InHandler,
         MutexHeld, TaskOnce, LogOnce
    <2>3. BufferOwned'
      <3>1. pc \notin {"reply_pack", "reply_send"}
        BY <1>8 DEF handler_pack, MutexHeld, TaskOnce, LogOnce
      <3>2. hpc' = "send" /\ UNCHANGED <<pc, line>>
        BY <1>8 DEF handler_pack, nfcpUnchanged, taskVars, logVars
      <3>3. tx_buffer = [frame |-> LogFrame, packed |-> 0]
        BY <1>8 DEF handler_pack, BufferOwned
      <3>4. tx_buffer' = [frame |-> LogFrame', packed |-> 1]
        BY <1>8, <3>2, <3>3 DEF handler_pack, Pack, LogFrame
      <3> QED BY ONLY <3>1, <3>2, <3>4 DEF BufferOwned
    <2>4. SessionShown'
      BY <1>8 DEF handler_pack, Pack, nfcpUnchanged, TypeOK, SessionShown,
         Replying
    <2>5. EndAhead'
      BY <1>8 DEF handler_pack, Pack, nfcpUnchanged, TypeOK, EndAhead, Plus
    <2> QED BY <2>1, <2>2, <2>3, <2>4, <2>5
  <1>9. CASE handler_send
    <2>1. TypeOK'
      <3>1. tx_mutex' \in [owner : {"none", "nfcp_task", "log_task"}, depth : 0 .. 2]
        BY <1>9 DEF handler_send, nfcp_tx_take, nfcpUnchanged, TypeOK,
           MutexHeld, TaskOnce, LogOnce
      <3>2. tx_buffer' \in [frame : Frames, packed : 0 .. 2]
        BY <1>9, FramesTyped DEF handler_send, nfcp_tx_take, nfcpUnchanged
      <3> QED
        BY <1>9, <3>1, <3>2 DEF handler_send, nfcp_tx_take, nfcpUnchanged,
           TypeOK, LogTypeOK
    <2>2. InHandler' /\ MutexHeld'
      BY <1>9 DEF handler_send, nfcp_tx_take, nfcpUnchanged, TypeOK,
         InHandler, MutexHeld, TaskOnce, LogOnce
    <2>3. BufferOwned'
      BY <1>9 DEF handler_send, nfcp_tx_take, nfcpUnchanged, TypeOK,
         MutexHeld, TaskOnce, LogOnce, BufferOwned, LogFrame, InHandler
    <2>4. SessionShown'
      BY <1>9 DEF handler_send, nfcp_tx_take, nfcpUnchanged, TypeOK,
         SessionShown, Replying
    <2>5. EndAhead'
      BY <1>9 DEF handler_send, nfcp_tx_take, nfcpUnchanged, TypeOK, EndAhead,
         Plus
    <2> QED BY <2>1, <2>2, <2>3, <2>4, <2>5
  <1>10. CASE handler_give
    <2>1. TypeOK'
      <3>1. LogTypeOK'
        BY <1>10, LogKeepsTypes DEF handler_give, TypeOK, InHandler
      <3>2. tx_mutex' \in [owner : {"none", "nfcp_task", "log_task"}, depth : 0 .. 2]
        BY <1>10 DEF handler_give, nfcp_tx_give, log_return, nfcpUnchanged,
           TypeOK, MutexHeld, TaskOnce, LogOnce
      <3> QED
        BY <1>10, <3>1, <3>2 DEF handler_give, nfcp_tx_give, log_return,
           nfcpUnchanged, TypeOK
    <2>2. InHandler' /\ MutexHeld'
      BY <1>10 DEF handler_give, nfcp_tx_give, log_return, nfcpUnchanged,
         TypeOK, InHandler, MutexHeld, TaskOnce, LogOnce
    <2>3. BufferOwned'
      BY <1>10 DEF handler_give, nfcp_tx_give, log_return, nfcpUnchanged,
         TypeOK, MutexHeld, TaskOnce, LogOnce, BufferOwned, LogFrame,
         InHandler
    <2>4. SessionShown'
      BY <1>10 DEF handler_give, nfcp_tx_give, log_return, nfcpUnchanged,
         TypeOK, SessionShown, Replying
    <2>5. EndAhead'
      BY <1>10 DEF handler_give, nfcp_tx_give, log_return, nfcpUnchanged,
         TypeOK, EndAhead, Plus
    <2> QED BY <2>1, <2>2, <2>3, <2>4, <2>5
  <1> QED
    BY <1>1, <1>2, <1>3, <1>4, <1>5, <1>6, <1>7, <1>8, <1>9, <1>10 DEF log_task

\* And so does every other step.
LEMMA OthersPreserve ==
  ASSUME IInv, Tick \/ stdout_init \/ print \/ UNCHANGED vars
  PROVE  IInv'
  <1> USE DEF IInv, logVars, sessionVars, taskVars, txVars
  <1>1. CASE Tick
    <2>1. TypeOK'
      <3>1. now' \in 0 .. (TickMod - 1)
        BY <1>1 DEF Tick, TypeOK
      <3> QED
        BY <1>1, <3>1 DEF Tick, TypeOK, LogTypeOK
    <2>2. InHandler' /\ MutexHeld'
      BY <1>1 DEF Tick, TypeOK, InHandler, MutexHeld, TaskOnce, LogOnce
    <2>3. BufferOwned'
      BY <1>1 DEF Tick, TypeOK, MutexHeld, TaskOnce, LogOnce, BufferOwned,
         LogFrame, InHandler
    <2>4. SessionShown'
      BY <1>1 DEF Tick, TypeOK, SessionShown, Replying
    <2>5. EndAhead'
      BY <1>1 DEF Tick, TypeOK, EndAhead, Plus
    <2> QED BY <2>1, <2>2, <2>3, <2>4, <2>5
  <1>2. CASE stdout_init
    <2>1. TypeOK'
      <3>1. LogTypeOK'
        BY <1>2 DEF stdout_init, log_register, nfcpUnchanged, TypeOK,
           LogTypeOK, InHandler
      <3> QED
        BY <1>2, <3>1 DEF stdout_init, log_register, nfcpUnchanged, TypeOK
    <2>2. InHandler' /\ MutexHeld'
      BY <1>2 DEF stdout_init, log_register, nfcpUnchanged, TypeOK, InHandler,
         MutexHeld, TaskOnce, LogOnce
    <2>3. BufferOwned'
      BY <1>2 DEF stdout_init, log_register, nfcpUnchanged, TypeOK, MutexHeld,
         TaskOnce, LogOnce, BufferOwned, LogFrame, InHandler
    <2>4. SessionShown'
      BY <1>2 DEF stdout_init, log_register, nfcpUnchanged, TypeOK,
         SessionShown, Replying
    <2>5. EndAhead'
      BY <1>2 DEF stdout_init, log_register, nfcpUnchanged, TypeOK, EndAhead,
         Plus
    <2> QED BY <2>1, <2>2, <2>3, <2>4, <2>5
  <1>3. CASE print
    <2>1. TypeOK'
      <3>1. LogTypeOK'
        BY <1>3 DEF print, log_println, nfcpUnchanged, TypeOK, LogTypeOK,
           InHandler
      <3> QED
        BY <1>3, <3>1 DEF print, log_println, nfcpUnchanged, TypeOK
    <2>2. InHandler' /\ MutexHeld'
      BY <1>3 DEF print, log_println, nfcpUnchanged, TypeOK, InHandler,
         MutexHeld, TaskOnce, LogOnce
    <2>3. BufferOwned'
      BY <1>3 DEF print, log_println, nfcpUnchanged, TypeOK, MutexHeld,
         TaskOnce, LogOnce, BufferOwned, LogFrame, InHandler
    <2>4. SessionShown'
      BY <1>3 DEF print, log_println, nfcpUnchanged, TypeOK, SessionShown,
         Replying
    <2>5. EndAhead'
      BY <1>3 DEF print, log_println, nfcpUnchanged, TypeOK, EndAhead, Plus
    <2> QED BY <2>1, <2>2, <2>3, <2>4, <2>5
  <1>4. CASE UNCHANGED vars
    <2>1. TypeOK'
      BY <1>4 DEF vars, TypeOK, LogTypeOK
    <2>2. InHandler' /\ MutexHeld'
      BY <1>4 DEF vars, TypeOK, InHandler, MutexHeld, TaskOnce, LogOnce
    <2>3. BufferOwned'
      BY <1>4 DEF vars, TypeOK, MutexHeld, TaskOnce, LogOnce, BufferOwned,
         LogFrame, InHandler
    <2>4. SessionShown'
      BY <1>4 DEF vars, TypeOK, SessionShown, Replying
    <2>5. EndAhead'
      BY <1>4 DEF vars, TypeOK, EndAhead, Plus
    <2> QED BY <2>1, <2>2, <2>3, <2>4, <2>5
  <1> QED
    BY <1>1, <1>2, <1>3, <1>4 DEF vars

\* The three together.
LEMMA NextIInv == IInv /\ [Next]_vars => IInv'
  BY TaskPreserves, LogPreserves, OthersPreserve DEF Next

-------------------------------------------------------------------------------
(* Results                                                                 *)

\* Every variable of the two tasks and of the log keeps its type; in
\* particular the mutex is never taken more than twice.
THEOREM TypeCorrect == Spec => []TypeOK
  <1>1. IInv => TypeOK
    BY DEF IInv
  <1> QED BY <1>1, InitIInv, NextIInv, PTL DEF Spec

\* nfcp_task and log_task hand the serial port the frame they built, packed
\* once, although nfcp_tx_packet packs before its own take of tx_mutex.
THEOREM FramesCorrect == Spec => []FramesIntact
  <1>1. IInv => FramesIntact
    BY DEF IInv, BufferOwned, FramesIntact
  <1> QED BY <1>1, InitIInv, NextIInv, PTL DEF Spec

\* The replies of nfcp_cls_op_session_id tell the host whether its session
\* was reset, for all sequences of packets, timeouts and resets.
THEOREM RepliesCorrect == Spec => []RepliesTellSession
  <1>1. IInv => RepliesTellSession
    BY DEF IInv, SessionShown, Replying, RepliesTellSession
  <1> QED BY <1>1, InitIInv, NextIInv, PTL DEF Spec

\* nfcp_task never takes a session for silent before its timeout, for every
\* width of the tick counter and every timeout below half its range.
THEOREM TimeoutCorrect == Spec => []NotClosedEarly
  <1>1. IInv => NotClosedEarly
    BY DEF IInv, EndAhead, NotClosedEarly
  <1> QED BY <1>1, InitIInv, NextIInv, PTL DEF Spec
===============================================================================
