------------------------------ MODULE HdlcLoops ------------------------------
(***************************************************************************)
(* lib/hdlc.c: the loops of hdlc_frame_stuff and hdlc_frame_unstuff, which *)
(* work in place.  One step is one round of a loop.  rd, wr, len and       *)
(* out_len are the variables of the code; indices count from 0.  A packet  *)
(* is stuffed and unstuffed by the receiver, or anything is unstuffed.     *)
(***************************************************************************)
EXTENDS Hdlc

CONSTANTS
  Bytes,    \* the bytes of packets
  MaxBytes  \* bound: bytes of a packet

ASSUME BytesAssumption == Bytes \subseteq Nat /\ MaxBytes \in Nat

VARIABLES
  loop,     \* the loop that runs, or what it returned
  origin,   \* what the caller of the first function gave it
  given,    \* the argument of the call, its first len bytes
  bytes,    \* buf
  rd, wr, len, out_len

hdlcVars == <<loop, origin, given, bytes, rd, wr, len, out_len>>

Packets == UNION {[1 .. n -> Bytes] : n \in 0 .. MaxBytes}

Set(s, i, byte) == [s EXCEPT ![i + 1] = byte]

HdlcInit ==
  /\ loop = "idle"
  /\ origin = <<>> /\ given = <<>> /\ bytes = <<>>
  /\ rd = 0 /\ wr = 0 /\ len = 0 /\ out_len = 0

-----------------------------------------------------------------------------
(* hdlc_frame_stuff                                                        *)

\* The buffer has room for a packet of twice the length and the boundary.
call_stuff(s) ==
  /\ loop = "idle"
  /\ loop' = "count"
  /\ origin' = s /\ given' = s /\ len' = Len(s)
  /\ bytes' = s \o [i \in 1 .. Len(s) + 1 |-> 0]
  /\ rd' = 0 /\ out_len' = 0
  /\ UNCHANGED wr

stuff_count ==
  /\ loop = "count" /\ rd < len
  /\ out_len' = out_len + IF Special(bytes[rd + 1]) THEN 2 ELSE 1
  /\ rd' = rd + 1
  /\ UNCHANGED <<loop, origin, given, bytes, wr, len>>

\* The buffer is filled from its end.
stuff_boundary ==
  /\ loop = "count" /\ rd = len
  /\ loop' = "stuff"
  /\ out_len' = out_len + 1
  /\ wr' = out_len' - 1
  /\ bytes' = Set(bytes, wr', Boundary)
  /\ rd' = len - 1
  /\ UNCHANGED <<origin, given, len>>

\* Mutant of stuff_byte: the escape character is put behind the byte.
stuff_byte_swapped ==
  LET c == bytes[rd + 1]
  IN /\ loop = "stuff" /\ rd >= 0
     /\ rd' = rd - 1
     /\ \/ /\ Special(c)
           /\ bytes' = Set(Set(bytes, wr - 1, Escape), wr - 2, Flip(c))
           /\ wr' = wr - 2
        \/ /\ ~Special(c)
           /\ bytes' = Set(bytes, wr - 1, c)
           /\ wr' = wr - 1
     /\ UNCHANGED <<loop, origin, given, len, out_len>>

stuff_byte ==
  LET c == bytes[rd + 1]
  IN /\ loop = "stuff" /\ rd >= 0
     /\ rd' = rd - 1
     /\ \/ /\ Special(c)
           /\ bytes' = Set(Set(bytes, wr - 1, Flip(c)), wr - 2, Escape)
           /\ wr' = wr - 2
        \/ /\ ~Special(c)
           /\ bytes' = Set(bytes, wr - 1, c)
           /\ wr' = wr - 1
     /\ UNCHANGED <<loop, origin, given, len, out_len>>

stuff_return ==
  /\ loop = "stuff" /\ rd < 0
  /\ loop' = "stuffed"
  /\ UNCHANGED <<origin, given, bytes, rd, wr, len, out_len>>

-----------------------------------------------------------------------------
(* hdlc_frame_unstuff                                                      *)

\* What comes before the loop, for the first size bytes of s.
enter_unstuff(s, size) ==
  /\ loop' = "unstuff"
  /\ given' = SubSeq(s, 1, size)
  /\ len' = IF size > 0 /\ s[size] = Boundary THEN size - 1 ELSE size
  /\ bytes' = s
  /\ rd' = 0 /\ wr' = 0
  /\ UNCHANGED out_len

call_unstuff(s) == loop = "idle" /\ origin' = <<>> /\ enter_unstuff(s, Len(s))

\* The receiver takes the frame that was stuffed.
deliver == loop = "stuffed" /\ enter_unstuff(bytes, out_len) /\ UNCHANGED origin

unstuff_escape ==
  /\ loop = "unstuff" /\ rd + 1 < len /\ bytes[rd + 1] = Escape
  /\ bytes' = Set(bytes, wr, Flip(bytes[rd + 2]))
  /\ rd' = rd + 2 /\ wr' = wr + 1
  /\ UNCHANGED <<loop, origin, given, len, out_len>>

unstuff_normal ==
  /\ loop = "unstuff" /\ rd < len /\ bytes[rd + 1] \notin {Boundary, Escape}
  /\ bytes' = Set(bytes, wr, bytes[rd + 1])
  /\ rd' = rd + 1 /\ wr' = wr + 1
  /\ UNCHANGED <<loop, origin, given, len, out_len>>

\* A boundary in the frame, or an escape character at its end.
unstuff_error ==
  /\ loop = "unstuff" /\ rd < len
  /\ bytes[rd + 1] = Boundary \/ (bytes[rd + 1] = Escape /\ rd + 1 = len)
  /\ loop' = "bad frame"
  /\ rd' = rd + 1
  /\ UNCHANGED <<origin, given, bytes, wr, len, out_len>>

unstuff_return ==
  /\ loop = "unstuff" /\ rd = len
  /\ loop' = "unstuffed"
  /\ UNCHANGED <<origin, given, bytes, rd, wr, len, out_len>>

-----------------------------------------------------------------------------
\* The caller goes on.
hdlc_return ==
  /\ loop \in {"unstuffed", "bad frame"}
  /\ loop' = "idle"
  /\ origin' = <<>> /\ given' = <<>> /\ bytes' = <<>>
  /\ rd' = 0 /\ wr' = 0 /\ len' = 0 /\ out_len' = 0

HdlcNext ==
  \/ \E s \in Packets : call_stuff(s) \/ call_unstuff(s)
  \/ stuff_count \/ stuff_boundary \/ stuff_byte \/ stuff_return
  \/ deliver
  \/ unstuff_escape \/ unstuff_normal \/ unstuff_error \/ unstuff_return
  \/ hdlc_return

HdlcSpec == HdlcInit /\ [][HdlcNext]_hdlcVars

-----------------------------------------------------------------------------
(* Properties                                                              *)

\* The indices stay within the buffer, and no byte becomes negative.
HdlcTypeOK ==
  /\ loop \in {"idle", "count", "stuff", "stuffed", "unstuff", "unstuffed",
               "bad frame"}
  /\ origin \in Seq(Nat) /\ given \in Seq(Nat) /\ bytes \in Seq(Nat)
  /\ rd \in -1 .. Len(bytes) /\ {wr, len, out_len} \subseteq 0 .. Len(bytes)

\* The loops of hdlc.c compute the functions that the models of its callers
\* use, and refuse exactly the malformed frames: working in place they never
\* overwrite what they have still to read.
LoopsComputeHdlc ==
  /\ loop = "stuffed" => SubSeq(bytes, 1, out_len) = Stuffed(given)
  /\ loop \in {"unstuffed", "bad frame"} => (loop = "bad frame" <=> Malformed(given))
  /\ loop = "unstuffed" => SubSeq(bytes, 1, wr) = Unstuffed(given)

\* A packet that hdlc_frame_stuff made a frame of is what hdlc_frame_unstuff
\* returns at the other end, and only the last byte of a frame is a boundary.
RoundTrip ==
  /\ loop = "unstuffed" /\ origin # <<>> => SubSeq(bytes, 1, wr) = origin
  /\ loop = "bad frame" => origin = <<>>
  /\ loop = "stuffed" => \A i \in 1 .. out_len : bytes[i] = Boundary <=> i = out_len

\* The loops compute the functions, and these are inverse to each other.
HdlcCorrect == LoopsComputeHdlc /\ RoundTrip
=============================================================================
