---------------------------------- MODULE Nfcp ---------------------------------
(***************************************************************************)
(* module/nfcp: nfcp_task receives packets over a serial port, keeps one   *)
(* session with the host, and answers calls; log_task sends log messages   *)
(* over the same port while a session is open.  Both build their packets   *)
(* in nfcp->tx_buffer under the recursive tx_mutex.                        *)
(*                                                                         *)
(* A packet received is a record with the kind nfcp_task tells apart and   *)
(* the session id it carries; a frame sent is such a record too.  Framing, *)
(* CRC and the contents of answers are left out; that the buffer is        *)
(* packed (CRC and stuffing, in place) once before it is sent is not.      *)
(* A local variable or buffer nobody reads any more is given a fixed value *)
(* again.  Allocation succeeds.  Ticks wrap at TickMod, as TickType_t      *)
(* does.                                                                   *)
(***************************************************************************)
EXTENDS Integers, Log

CONSTANTS
  Ids,       \* session ids hosts choose
  Timeout,   \* NFCP_SESSION_TIMEOUT_TICKS
  TickMod    \* 2^32

NONE == 0  \* NFCP_SESSION_ID_NONE

ASSUME IdAssumption == Ids \subseteq Nat \ {NONE} /\ Ids # {}
ASSUME TickAssumption ==
  /\ TickMod \in Nat /\ TickMod % 2 = 0
  /\ Timeout \in Nat \ {0} /\ 2 * Timeout < TickMod
ASSUME HandlerAssumption == Handlers = {"nfcp", "stdout"}

VARIABLES
  now,               \* xTaskGetTickCount()
  session_end_time,
  has_storage,       \* class_storage[NFCP_CLS_MGMT] is assigned
  session_id,
  pc, ret,           \* nfcp_task, and where nfcp_reset returns to
  packet,            \* rx_buffer
  frame,             \* the answer nfcp_task is making
  hpc,               \* nfcp_cls_mgmt_log_handler, in log_task
  tx_mutex,          \* [owner, depth]
  tx_buffer,         \* what it holds, and how often that was packed
  age,               \* history: ticks since the last refresh, up to Timeout
  open               \* history: the session the host sees open: started by
                     \* a version reply, ended by an abort sequence

sessionVars == <<session_end_time, has_storage, session_id>>
taskVars == <<pc, ret, packet, frame>>
txVars == <<tx_mutex, tx_buffer>>
vars == <<logVars, now, sessionVars, taskVars, hpc, txVars, age, open>>

Kinds == {"session", "cap", "unknown", "ignored", "none"}
Packets == {[kind |-> "session", id |-> i] : i \in Ids \cup {NONE}}
           \cup {[kind |-> k, id |-> NONE] : k \in Kinds \ {"session"}}
NoPacket == [kind |-> "none", id |-> NONE]
Frame(k, i) == [kind |-> k, id |-> i]
NoFrame == Frame("none", NONE)
Unused == [frame |-> NoFrame, packed |-> 0]
Frames == [kind : {"version", "empty", "cap", "invalid", "log", "none"},
           id : Ids \cup {NONE} \cup 1 .. MaxLines]
LogFrame == Frame("log", line)

\* Every variable keeps its type.
TypeOK ==
  /\ LogTypeOK
  /\ now \in 0 .. TickMod - 1 /\ session_end_time \in 0 .. TickMod - 1
  /\ has_storage \in BOOLEAN /\ session_id \in Ids \cup {NONE}
  /\ pc \in {"init", "store", "refresh", "reset", "abort_take", "abort",
             "rx", "read", "check", "handle", "open", "reply_take",
             "reply_build", "reply_pack", "reply_send", "reply_give",
             "reply_refresh"}
  /\ ret \in {"rx", "handle", "open"}
  /\ packet \in Packets /\ frame \in Frames
  /\ hpc \in {"out", "test", "take", "build", "pack", "send", "give"}
  /\ tx_mutex \in [owner : {"none", "nfcp_task", "log_task"}, depth : 0 .. 2]
  /\ tx_buffer \in [frame : Frames, packed : 0 .. 2]
  /\ age \in 0 .. Timeout /\ open \in Ids \cup {NONE}

\* nfcp_t and its classes' storage come uninitialised from the heap.
Init ==
  /\ LogInit
  /\ now \in 0 .. TickMod - 1 /\ session_end_time = 0
  /\ has_storage = FALSE /\ session_id \in Ids \cup {NONE}
  /\ pc = "init" /\ ret = "rx"
  /\ packet = NoPacket /\ frame = NoFrame
  /\ hpc = "out"
  /\ tx_mutex = [owner |-> "none", depth |-> 0]
  /\ tx_buffer = Unused
  /\ age = 0 /\ open = NONE

--------------------------------------------------------------------------------
(* Time and the transmit mutex                                             *)

\* A 32 bit difference cast to int32_t.
Signed(d) == IF d % TickMod < TickMod \div 2 THEN d % TickMod
                                             ELSE (d % TickMod) - TickMod

\* The tick interrupt.  nfcp_task compares times by the sign of their
\* difference: it must run within half the range of the counter (24 days)
\* after the end of a session.
Tick ==
  /\ \/ pc \in {"init", "store", "refresh"}
     \/ Signed(now - session_end_time) < TickMod \div 2 - 1
  /\ now' = (now + 1) % TickMod
  /\ age' = IF age < Timeout THEN age + 1 ELSE age
  /\ UNCHANGED <<logVars, sessionVars, taskVars, hpc, txVars, open>>

\* nfcp_tx_take and nfcp_tx_give, a recursive mutex.
nfcp_tx_take(t) ==
  /\ tx_mutex.owner \in {"none", t}
  /\ tx_mutex' = [owner |-> t, depth |-> tx_mutex.depth + 1]

nfcp_tx_give(t) ==
  tx_mutex' = [owner |-> IF tx_mutex.depth = 1 THEN "none" ELSE t,
               depth |-> tx_mutex.depth - 1]

\* nfcp_tx_packet up to its own take: the packet gets its CRC and is stuffed
\* in the buffer it is in.
Pack ==
  tx_buffer' = [tx_buffer EXCEPT !.packed = @ + 1]

--------------------------------------------------------------------------------
(* nfcp_task: start-up and nfcp_reset                                      *)

Goto(l) == pc' = l

\* The class MGMT registers its log handler; only then does nfcp_task store
\* what its init function returns.
init_classes ==
  /\ pc = "init" /\ Goto("store")
  /\ log_register("nfcp")
  /\ UNCHANGED <<log_queue, printed, lpc, line, handler>>
  /\ UNCHANGED <<now, sessionVars, ret, packet, frame, hpc, txVars, age, open>>

init_store ==
  /\ pc = "store" /\ Goto("refresh")
  /\ has_storage' = TRUE
  /\ UNCHANGED <<logVars, now, session_end_time, session_id, ret, packet, frame,
                 hpc, txVars, age, open>>

nfcp_refresh_session ==
  /\ session_end_time' = (now + Timeout) % TickMod
  /\ age' = 0

\* nfcp_reset, called from three places (ret).
reset_refresh ==
  /\ pc = "refresh" /\ Goto("reset")
  /\ nfcp_refresh_session
  /\ UNCHANGED <<logVars, now, has_storage, session_id, ret, packet, frame,
                 hpc, txVars, open>>

nfcp_cls_mgmt_reset ==
  /\ pc = "reset" /\ Goto("abort_take")
  /\ session_id' = NONE
  /\ UNCHANGED <<logVars, now, session_end_time, has_storage, ret, packet, frame,
                 hpc, txVars, age, open>>

abort_take ==
  /\ pc = "abort_take" /\ Goto("abort")
  /\ nfcp_tx_take("nfcp_task")
  /\ UNCHANGED <<logVars, now, sessionVars, ret, packet, frame, hpc, tx_buffer,
                 age, open>>

nfcp_tx_abort ==
  /\ pc = "abort" /\ Goto(ret) /\ ret' = "rx"
  /\ nfcp_tx_give("nfcp_task")
  /\ open' = NONE
  /\ UNCHANGED <<logVars, now, sessionVars, packet, frame, hpc, tx_buffer,
                 age>>

--------------------------------------------------------------------------------
(* nfcp_task: receiving                                                    *)

receiveUnchanged ==
  UNCHANGED <<logVars, now, sessionVars, ret, frame, hpc, txVars, age, open>>

\* nfcp_rx_packet: time is left to read, or the packet is given up.
nfcp_rx_packet ==
  /\ pc = "rx"
  /\ IF Signed(session_end_time - now) <= 0
       THEN Goto("check") /\ packet' = NoPacket
       ELSE Goto("read") /\ packet' = NoPacket
  /\ receiveUnchanged

\* rx_read completes a packet.  One with a wrong CRC or without a header is
\* NoPacket too.
rx_complete ==
  /\ pc = "read" /\ Goto("check")
  /\ packet' \in Packets
  /\ receiveUnchanged

\* rx_read gives up at the end of the session.
rx_timeout ==
  /\ pc = "read" /\ Goto("rx")
  /\ Signed(now - session_end_time) >= 0
  /\ UNCHANGED packet /\ receiveUnchanged

\* Mutant of check_timeout: times are compared as unsigned numbers.
check_unsigned ==
  /\ pc = "check"
  /\ IF now >= session_end_time
       THEN Goto("refresh") /\ ret' = "handle"
       ELSE Goto("handle") /\ UNCHANGED ret
  /\ UNCHANGED <<logVars, now, sessionVars, packet, frame, hpc, txVars, age, open>>

\* The session's end is noticed here; the packet is handled all the same.
check_timeout ==
  /\ pc = "check"
  /\ IF Signed(now - session_end_time) >= 0
       THEN Goto("refresh") /\ ret' = "handle"
       ELSE Goto("handle") /\ UNCHANGED ret
  /\ UNCHANGED <<logVars, now, sessionVars, packet, frame, hpc, txVars, age, open>>

--------------------------------------------------------------------------------
(* nfcp_task: handling a packet                                            *)

Reply(k) == Goto("reply_take") /\ frame' = Frame(k, packet.id)

handleUnchanged ==
  /\ pc = "handle"
  /\ UNCHANGED <<logVars, now, sessionVars, packet, hpc, txVars, age, open>>

\* No packet, or an operation of which the firmware takes no notice:
\* LOG_MESSAGE, INVALID_CLASS and INVALID_OPERATION from the host, a CAP call
\* that is too short, a SESSION_ID call of the wrong length or with id 0.
handle_nothing ==
  /\ \/ packet.kind \in {"none", "ignored"}
     \/ packet.kind = "session" /\ packet.id = NONE
  /\ Goto("rx") /\ UNCHANGED <<ret, frame>>
  /\ handleUnchanged

\* Unknown class or operation.
handle_invalid ==
  /\ packet.kind = "unknown" /\ Reply("invalid") /\ UNCHANGED ret
  /\ handleUnchanged

\* The four operations of the class CAP, which ask for no session.
nfcp_cls_cap_op ==
  /\ packet.kind = "cap" /\ Reply("cap") /\ UNCHANGED ret
  /\ handleUnchanged

\* Mutant of nfcp_cls_op_session_id: a new session takes the place of the open
\* one without a reset.
session_replaced ==
  /\ packet.kind = "session" /\ packet.id # NONE
  /\ \/ /\ session_id = packet.id
        /\ Reply("empty") /\ UNCHANGED ret
     \/ /\ session_id # packet.id
        /\ Goto("open") /\ UNCHANGED <<ret, frame>>
  /\ handleUnchanged

nfcp_cls_op_session_id ==
  /\ packet.kind = "session" /\ packet.id # NONE
  /\ \/ /\ session_id = packet.id
        /\ Reply("empty") /\ UNCHANGED ret
     \/ /\ session_id = NONE
        /\ Goto("open") /\ UNCHANGED <<ret, frame>>
     \/ /\ session_id \notin {NONE, packet.id}
        /\ Goto("refresh") /\ ret' = "open" /\ UNCHANGED frame
  /\ handleUnchanged

session_open ==
  /\ pc = "open" /\ Reply("version")
  /\ session_id' = packet.id
  /\ UNCHANGED <<logVars, now, session_end_time, has_storage, ret, packet, hpc,
                 txVars, age, open>>

--------------------------------------------------------------------------------
(* nfcp_task: answering.  nfcp_tx_packet takes the mutex a second time.     *)

replyUnchanged ==
  UNCHANGED <<logVars, now, sessionVars, ret, packet, frame, hpc, age>>

reply_take ==
  /\ pc = "reply_take" /\ Goto("reply_build")
  /\ nfcp_tx_take("nfcp_task")
  /\ UNCHANGED <<tx_buffer, open>> /\ replyUnchanged

reply_build ==
  /\ pc = "reply_build" /\ Goto("reply_pack")
  /\ tx_buffer' = [frame |-> frame, packed |-> 0]
  /\ UNCHANGED <<tx_mutex, open>> /\ replyUnchanged

reply_pack ==
  /\ pc = "reply_pack" /\ Goto("reply_send")
  /\ Pack
  /\ UNCHANGED <<tx_mutex, open>> /\ replyUnchanged

reply_send ==
  /\ pc = "reply_send" /\ Goto("reply_give")
  /\ nfcp_tx_take("nfcp_task")
  /\ open' = IF frame.kind = "version" THEN frame.id ELSE open
  /\ frame' = NoFrame /\ tx_buffer' = Unused
  /\ UNCHANGED <<logVars, now, sessionVars, ret, packet, hpc, age>>

\* Mutant of reply_give: any call that is answered refreshes the session.
give_refreshes ==
  /\ pc = "reply_give"
  /\ Goto(IF tx_mutex.depth = 2 THEN "reply_give" ELSE "reply_refresh")
  /\ nfcp_tx_give("nfcp_task")
  /\ UNCHANGED <<tx_buffer, open>> /\ replyUnchanged

\* nfcp_tx_packet's give, then its caller's.
reply_give ==
  /\ pc = "reply_give"
  /\ Goto(IF tx_mutex.depth = 2 THEN "reply_give"
          ELSE IF packet.kind = "session" THEN "reply_refresh" ELSE "rx")
  /\ nfcp_tx_give("nfcp_task")
  /\ UNCHANGED <<tx_buffer, open>> /\ replyUnchanged

reply_refresh ==
  /\ pc = "reply_refresh" /\ Goto("rx")
  /\ nfcp_refresh_session
  /\ UNCHANGED <<logVars, now, has_storage, session_id, ret, packet, frame,
                 hpc, txVars, open>>

nfcp_task ==
  \/ init_classes \/ init_store
  \/ reset_refresh \/ nfcp_cls_mgmt_reset \/ abort_take \/ nfcp_tx_abort
  \/ nfcp_rx_packet \/ rx_timeout \/ check_timeout
  \/ handle_nothing \/ handle_invalid \/ nfcp_cls_cap_op
  \/ nfcp_cls_op_session_id \/ session_open
  \/ reply_take \/ reply_build \/ reply_pack \/ reply_send
  \/ reply_give \/ reply_refresh

--------------------------------------------------------------------------------
(* log_task and its two handlers                                           *)

nfcpUnchanged == UNCHANGED <<now, sessionVars, taskVars, age, open>>

\* log_task enters nfcp_cls_mgmt_log_handler or stdout_log_handler.
log_enter ==
  /\ log_call
  /\ hpc' = IF Head(handler) = "nfcp" THEN "test" ELSE "out"
  /\ UNCHANGED txVars /\ nfcpUnchanged

\* The session is tested before the mutex is taken.  Without its storage the
\* handler reads whatever an uninitialised pointer points to.
handler_test ==
  /\ hpc = "test"
  /\ \/ /\ ~ has_storage \/ session_id # NONE
        /\ hpc' = "take" /\ UNCHANGED logVars
     \/ /\ ~ has_storage \/ session_id = NONE
        /\ hpc' = "out" /\ log_return
  /\ UNCHANGED txVars /\ nfcpUnchanged

\* Mutant of handler_take: the mutex is only taken in nfcp_tx_packet, after the
\* message was built.
handler_take_late ==
  /\ hpc = "take" /\ hpc' = "build"
  /\ UNCHANGED <<logVars, txVars>> /\ nfcpUnchanged

handler_take ==
  /\ hpc = "take" /\ hpc' = "build"
  /\ nfcp_tx_take("log_task")
  /\ UNCHANGED <<logVars, tx_buffer>> /\ nfcpUnchanged

handler_build ==
  /\ hpc = "build" /\ hpc' = "pack"
  /\ tx_buffer' = [frame |-> LogFrame, packed |-> 0]
  /\ UNCHANGED <<logVars, tx_mutex>> /\ nfcpUnchanged

handler_pack ==
  /\ hpc = "pack" /\ hpc' = "send"
  /\ Pack
  /\ UNCHANGED <<logVars, tx_mutex>> /\ nfcpUnchanged

handler_send ==
  /\ hpc = "send" /\ hpc' = "give"
  /\ nfcp_tx_take("log_task")
  /\ tx_buffer' = Unused
  /\ UNCHANGED logVars /\ nfcpUnchanged

handler_give ==
  /\ hpc = "give" /\ nfcp_tx_give("log_task")
  /\ \/ tx_mutex.depth = 2 /\ UNCHANGED <<logVars, hpc>>
     \/ tx_mutex.depth = 1 /\ hpc' = "out" /\ log_return
  /\ UNCHANGED tx_buffer /\ nfcpUnchanged

\* stdout_log_handler writes the line to a port of its own.
stdout_log_handler ==
  /\ lpc = "handler" /\ Head(handler) = "stdout"
  /\ log_return
  /\ UNCHANGED <<hpc, txVars>> /\ nfcpUnchanged

log_task ==
  \/ (log_receive \/ log_end) /\ UNCHANGED <<hpc, txVars>> /\ nfcpUnchanged
  \/ log_enter \/ stdout_log_handler
  \/ handler_test \/ handler_take \/ handler_build \/ handler_pack
  \/ handler_send \/ handler_give

--------------------------------------------------------------------------------
(* Other tasks, and the specification                                      *)

\* stdout_init, when main_task reads its line of the configuration.
stdout_init ==
  /\ ~ Registered("stdout")
  /\ log_register("stdout")
  /\ UNCHANGED <<log_queue, printed, lpc, line, handler>>
  /\ UNCHANGED <<hpc, txVars>> /\ nfcpUnchanged

print == log_println /\ UNCHANGED <<hpc, txVars>> /\ nfcpUnchanged

Next == nfcp_task \/ rx_complete \/ log_task \/ Tick \/ stdout_init \/ print

Spec == Init /\ [][Next]_vars

\* Both tasks run when they can and time goes on.  Strong fairness, for the
\* mutex: whoever waits for it is made ready each time it is given and gets it
\* in the end, as nfcp_task waits for its next packet, and log_task for its
\* next line, in between.
FairSpec == Spec /\ SF_vars(nfcp_task) /\ SF_vars(log_task) /\ WF_vars(Tick)

--------------------------------------------------------------------------------
(* Properties                                                              *)

\* What a task hands to the serial port is the packet it built, packed once:
\* the other task cannot touch tx_buffer in between, although nfcp_tx_packet
\* packs it before it takes the mutex itself.
FramesIntact ==
  /\ pc = "reply_send" => tx_buffer = [frame |-> frame, packed |-> 1]
  /\ hpc = "send" => tx_buffer = [frame |-> LogFrame, packed |-> 1]

\* What a host may take from the replies to its SESSION_ID calls: an empty one
\* says that the session of its id was not reset since it was opened, and a
\* version that no session was open any more: if there was one, an abort
\* sequence came before.  (None comes before the version if there was none,
\* which step 5 of nfcp.md:190 asks for as well; and a session that the host
\* meant to close with id 0 is still open: see ZeroCloses.)
RepliesTellSession ==
  pc = "reply_send" =>
    /\ frame.kind = "empty" => open = frame.id
    /\ frame.kind = "version" => open = NONE

\* nfcp.md:202: the client treats the link as closed if "a new MGMT/SESSION_ID
\* with session id=0, explicitly indicating a closed session" is sent.  The code
\* breaks it: nfcp_cls_op_session_id returns an error for id 0 and keeps the
\* session, until it times out.
ZeroCloses ==
  pc = "rx" /\ packet = Frame("session", NONE) => session_id = NONE

\* nfcp_task resets a session for silence only Timeout ticks after its last
\* refresh, also when the tick counter wraps in between.
NotClosedEarly == pc = "refresh" /\ ret = "handle" => age = Timeout

OpenCalls == {p \in Packets : p.kind = "session" /\ p.id # NONE}

\* A session whose host falls silent is closed, whatever else is received.
SilentSessionCloses ==
  session_id # NONE ~>
    session_id = NONE \/ (packet \in OpenCalls /\ pc = "handle")

\* A line in the queue reaches every handler registered by then: log_task is
\* never stuck in a handler, and no registration loses another.
LinesReachHandlers ==
  \A h \in Handlers, n \in 1 .. MaxLines :
    Registered(h) /\ n \in Range(log_queue) ~>
      lpc = "handler" /\ Head(handler) = h /\ line = n

================================================================================
