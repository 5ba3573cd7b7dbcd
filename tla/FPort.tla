-------------------------------- MODULE FPort --------------------------------
(***************************************************************************)
(* module/rc_io/fport.c: a task that assembles frames of a radio receiver  *)
(* from what rx_read returns, publishes the channels and flags as          *)
(* variables and triggers a scheduler.  A client of the scheduler reads    *)
(* the variables.                                                          *)
(*                                                                         *)
(* A byte has three bits: bytes are 0..Top, and the checksum of a frame is *)
(* Top as it is 0xff in the code.  The characters of byte stuffing and the *)
(* bit it flips are constants of Hdlc.  A control frame is                 *)
(*   <<ControlLen - 2, 0, channel, flags, checksum>>                       *)
(* with one channel for the eighteen (Lib has their unpacking) and the     *)
(* flags failsafe and frame lost.  The port behaves like SerialPort.  The  *)
(* line may lose a byte or add one, Faults times.                          *)
(***************************************************************************)
EXTENDS Hdlc, FiniteSets, SequencesExt

CONSTANTS
  MaxPacket,  \* FPORT_RX_MAX_PACKET_SIZE
  Channels,   \* values of the channel that are sent
  Noise,      \* bytes the line may add
  MaxFrames,  \* bound: frames sent
  Backlog,    \* bound: bytes in the port, the reader keeps up
  Faults      \* bound: bytes lost or added

Top == 7
ControlLen == 5

ASSUME PacketAssumption == MaxPacket \in Nat /\ MaxPacket > 2 * ControlLen
ASSUME BoundAssumption == {MaxFrames, Backlog, Faults} \subseteq Nat
ASSUME ByteAssumption ==
  /\ Channels \cup Noise \cup {Boundary, Escape} \cup FlowControl \subseteq 0 .. Top
  /\ \A byte \in 0 .. Top : Flip(byte) \in 0 .. Top

VARIABLES
  wire,      \* stuffed bytes of the frame being sent
  sent,      \* history: the frames sent
  faults,    \* history: bytes lost or added
  unread,    \* bytes in the port
  buf,       \* the first len bytes of buf
  pc,        \* fport_task: "read", "chn", "flags", "trigger"
  frame,     \* the frame that is being published
  f_chn, f_flags, \* the outputs; <<failsafe, signal_loss>>
  applied,   \* history: frames published
  pending,   \* the scheduler's notification
  above,     \* the scheduler's task has the higher priority
  client, seen, \* the client's run, and what it read
  published  \* history: the outputs at the last trigger

lineVars == <<wire, sent, faults>>
clientVars == <<pending, client, seen, published>>
vars == <<wire, sent, faults, unread, buf, pc, frame, f_chn, f_flags, applied,
          pending, above, client, seen, published>>

Lost == <<TRUE, TRUE>>
NoFrame == [chn |-> 0, flags |-> Lost]
Frames == [chn : Channels, flags : {<<FALSE, FALSE>>, <<TRUE, FALSE>>}]

\* fport_init
Init ==
  /\ wire = <<>> /\ sent = <<>> /\ faults = 0
  /\ unread = <<>>
  /\ buf = <<>> /\ pc = "read" /\ frame = NoFrame
  /\ f_chn = 0 /\ f_flags = Lost
  /\ applied = <<>>
  /\ pending = FALSE
  /\ above \in BOOLEAN
  /\ client = "wait" /\ seen = <<0, Lost>>
  /\ published = <<0, Lost>>

-----------------------------------------------------------------------------
(* The radio receiver and the line                                         *)

\* while (checksum > 0xff) checksum = (checksum & 0xff) + (checksum >> 8)
Folded[n \in Nat] ==
  IF n > Top THEN Folded[(n % (Top + 1)) + (n \div (Top + 1))] ELSE n

Sum(s) ==
  LET upto[i \in 0 .. Len(s)] == IF i = 0 THEN 0 ELSE upto[i - 1] + s[i]
  IN upto[Len(s)]

Bit(b) == IF b THEN 1 ELSE 0

\* What is sent for a frame, stuffed.
Encode(f) ==
  LET body == <<ControlLen - 2, 0, f.chn, Bit(f.flags[1]) + 2 * Bit(f.flags[2])>>
      raw == Append(body, Top - Folded[Sum(body)])
  IN Stuffed(raw)

send_frame(f) ==
  /\ wire = <<>> /\ Len(sent) < MaxFrames
  /\ wire' = Encode(f)
  /\ sent' = Append(sent, f)
  /\ UNCHANGED <<faults, unread, buf, pc, frame, f_chn, f_flags, applied, above,
                 clientVars>>

line_byte ==
  /\ wire # <<>> /\ Len(unread) < Backlog
  /\ unread' = Append(unread, Head(wire))
  /\ wire' = Tail(wire)
  /\ UNCHANGED <<sent, faults, buf, pc, frame, f_chn, f_flags, applied, above,
                 clientVars>>

line_lose ==
  /\ wire # <<>> /\ faults < Faults
  /\ wire' = Tail(wire)
  /\ faults' = faults + 1
  /\ UNCHANGED <<sent, unread, buf, pc, frame, f_chn, f_flags, applied, above,
                 clientVars>>

line_noise(byte) ==
  /\ faults < Faults /\ Len(unread) < Backlog
  /\ unread' = Append(unread, byte)
  /\ faults' = faults + 1
  /\ UNCHANGED <<wire, sent, buf, pc, frame, f_chn, f_flags, applied, above,
                 clientVars>>

-----------------------------------------------------------------------------
(* fport_task                                                              *)

\* The task has priority 7, a scheduler 8 plus what its sch line says: above,
\* unless that is negative.  A scheduler above runs as soon as it is triggered.
CanRun == above => ~pending /\ client = "wait"

\* Mutant of Checked: the checksum is not tested.
checked_length_only(p) == Len(p) > 0 /\ Len(p) = p[1] + 2

Checked(p) == Len(p) > 0 /\ Len(p) = p[1] + 2 /\ Folded[Sum(p)] = Top

Control(p) == p[2] = 0 /\ Len(p) = ControlLen

\* FPORT_FLAG_FAILSAFE, FPORT_FLAG_FRAME_LOST
Flags(b) == <<b % 2 = 1, (b \div 2) % 2 = 1>>

\* A boundary ends the loop; anything that is not a good control frame is
\* dropped.
process(bytes) ==
  LET p == Unstuffed(bytes)
  IN IF Last(bytes) # Boundary
     THEN buf' = bytes /\ UNCHANGED <<pc, frame>>
     ELSE /\ buf' = <<>>
          /\ IF ~Malformed(bytes) /\ Checked(p) /\ Control(p)
             THEN /\ frame' = [chn |-> p[3], flags |-> Flags(p[4])]
                  /\ pc' = "chn"
             ELSE UNCHANGED <<pc, frame>>

\* A full buffer without a boundary is started over.
Start == IF Len(buf) = MaxPacket THEN <<>> ELSE buf

\* The dst_size argument of rx_read.
Room == MaxPacket - Len(Start)

\* rx_read returns n bytes.
read_bytes(n) ==
  /\ pc = "read" /\ CanRun
  /\ n <= Len(unread) /\ n <= Room
  /\ \A k \in 1 .. (n - 1) : unread[k] # Boundary
  /\ process(Start \o SubSeq(unread, 1, n))
  /\ unread' = SubSeq(unread, n + 1, Len(unread))
  /\ UNCHANGED <<lineVars, f_chn, f_flags, applied, above, clientVars>>

\* sc_trigger
Trigger ==
  /\ pending' = TRUE
  /\ published' = <<f_chn', f_flags'>>
  /\ UNCHANGED <<client, seen>>

\* Mutants of read_nothing: the bytes so far are dropped; the scheduler is not
\* triggered.
read_nothing_drop ==
  /\ pc = "read" /\ CanRun
  /\ unread = <<>>
  /\ f_flags' = Lost
  /\ buf' = <<>>
  /\ UNCHANGED <<lineVars, unread, pc, frame, f_chn, applied, above>>
  /\ Trigger
read_nothing_silent ==
  /\ pc = "read" /\ CanRun
  /\ unread = <<>>
  /\ f_flags' = Lost
  /\ buf' = Start
  /\ UNCHANGED <<lineVars, unread, pc, frame, f_chn, applied, above, clientVars>>

\* rx_read returns 0: its 50 ms passed, or it was woken by an old
\* notification.  The bytes read so far are kept.
read_nothing ==
  /\ pc = "read" /\ CanRun
  /\ unread = <<>>
  /\ f_flags' = Lost
  /\ buf' = Start
  /\ UNCHANGED <<lineVars, unread, pc, frame, f_chn, applied, above>>
  /\ Trigger

\* Mutant of write_chn: the scheduler is triggered before the flags are
\* written.
write_chn_trigger ==
  /\ pc = "chn" /\ CanRun
  /\ f_chn' = frame.chn
  /\ pc' = "flags"
  /\ UNCHANGED <<lineVars, unread, buf, frame, f_flags, applied, above>>
  /\ pending' = TRUE
  /\ published' = <<frame.chn, frame.flags>>
  /\ UNCHANGED <<client, seen>>

\* The outputs are plain variables, written one after the other.
write_chn ==
  /\ pc = "chn" /\ CanRun
  /\ f_chn' = frame.chn
  /\ pc' = "flags"
  /\ UNCHANGED <<lineVars, unread, buf, frame, f_flags, applied, above, clientVars>>

write_flags ==
  /\ pc = "flags" /\ CanRun
  /\ f_flags' = frame.flags
  /\ applied' = Append(applied, frame)
  /\ pc' = "trigger"
  /\ UNCHANGED <<lineVars, unread, buf, frame, f_chn, above, clientVars>>

trigger ==
  /\ pc = "trigger" /\ CanRun
  /\ pc' = "read"
  /\ frame' = NoFrame
  /\ UNCHANGED <<lineVars, unread, buf, f_chn, f_flags, applied, above>>
  /\ Trigger

-----------------------------------------------------------------------------
(* The scheduler's task and a client that reads both outputs               *)

client_run ==
  \/ /\ client = "wait" /\ pending
     /\ pending' = FALSE
     /\ client' = "run"
     /\ UNCHANGED seen
  \/ /\ client = "run"
     /\ seen' = [seen EXCEPT ![1] = f_chn]
     /\ client' = "half"
     /\ UNCHANGED pending
  \/ /\ client = "half"
     /\ seen' = [seen EXCEPT ![2] = f_flags]
     /\ client' = "done"
     /\ UNCHANGED pending
  \/ /\ client = "done"
     /\ client' = "wait"
     /\ UNCHANGED <<pending, seen>>

ClientRun ==
  /\ client_run
  /\ UNCHANGED <<lineVars, unread, buf, pc, frame, f_chn, f_flags, applied, above,
                 published>>

fport_task ==
  \/ \E n \in 1 .. Backlog : read_bytes(n)
  \/ read_nothing \/ write_chn \/ write_flags \/ trigger

Line ==
  \/ \E f \in Frames : send_frame(f)
  \/ line_byte \/ line_lose
  \/ \E byte \in Noise : line_noise(byte)

Next == Line \/ fport_task \/ ClientRun

Spec == Init /\ [][Next]_vars

\* Both tasks are scheduled; a read with a timeout returns.
FairSpec == Spec /\ WF_vars(fport_task) /\ WF_vars(ClientRun)

-----------------------------------------------------------------------------
(* Properties                                                              *)

\* Every variable keeps its type; the packet stays within its buffer.
TypeOK ==
  /\ unread \in Seq(0 .. Top) /\ Len(unread) <= Backlog
  /\ buf \in Seq(0 .. Top) /\ Len(buf) <= MaxPacket
  /\ f_chn \in 0 .. Top /\ f_flags \in BOOLEAN \X BOOLEAN
  /\ pc \in {"read", "chn", "flags", "trigger"}
  /\ client \in {"wait", "run", "half", "done"}

\* When a byte is lost or added, what fport_task publishes are still frames
\* that were sent, each at most once and in their order: fragments that merge
\* because a boundary was lost, a read that returned in the middle or a
\* buffer that was started over make no frame.  (Enough noise does.)
PublishedWereSent ==
  \E at \in [DOMAIN applied -> DOMAIN sent] :
    /\ \A i, j \in DOMAIN applied : i < j => at[i] < at[j]
    /\ \A i \in DOMAIN applied : applied[i] = sent[at[i]]

\* The receiver is in step again one frame after a fault: with all bytes of
\* the line read, each fault has cost two frames at most, and reads that
\* return nothing have cost none.
FaultsCostTwoFrames ==
  wire = <<>> /\ unread = <<>> /\ pc = "read" =>
    Len(applied) + 2 * faults >= Len(sent)

\* A client of a scheduler whose priority is above the task's (any that is
\* not given a negative one), and that only
\* this task triggers, reads channel and flags of one and the same update,
\* although they are written and read one by one and without a lock.
ClientSeesOneUpdate == above /\ client = "done" => seen = published

\* When the line falls silent the clients get to know: they read a lost
\* signal, and keep reading it.  (Every behaviour falls silent here, after
\* MaxFrames frames or before.)
SilenceReachesClient == <>[](seen[2] = Lost)
=============================================================================
