--------------------------------- MODULE Hdlc ---------------------------------
(***************************************************************************)
(* lib/hdlc.c: what byte stuffing returns for a packet, and unstuffing for *)
(* what was received.  The functions work in place; HdlcLoops has their    *)
(* loops and shows that they compute this.                                 *)
(***************************************************************************)
EXTENDS Integers, Sequences

CONSTANTS Boundary, Escape, EscapeBits, FlowControl

\* The code's ^ HDLC_ESCAPE_BITS: one bit is flipped.
Flip(byte) == IF (byte \div EscapeBits) % 2 = 1 THEN byte - EscapeBits
                                                ELSE byte + EscapeBits

\* Mutant of Special: the escape character is sent as it is.
Special_noescape(byte) == byte \in {Boundary} \cup FlowControl

Special(byte) == byte \in {Boundary, Escape} \cup FlowControl

\* None of the characters becomes a boundary when it is escaped.
ASSUME HdlcAssumption ==
  /\ {Boundary, Escape} \cup FlowControl \subseteq Nat
  /\ EscapeBits \in Nat \ {0}
  /\ Boundary # Escape
  /\ \A byte \in {Boundary, Escape} \cup FlowControl : Flip(byte) # Boundary

Unit(byte) == IF Special(byte) THEN <<Escape, Flip(byte)>> ELSE <<byte>>

\* What the first bytes of a packet become.
StuffedTo(s) ==
  LET of[i \in 0 .. Len(s)] == IF i = 0 THEN <<>> ELSE of[i - 1] \o Unit(s[i])
  IN of

\* hdlc_frame_stuff
Stuffed(s) == Append(StuffedTo(s)[Len(s)], Boundary)

Truncated(s) == IF s # <<>> /\ s[Len(s)] = Boundary
                THEN SubSeq(s, 1, Len(s) - 1) ELSE s

\* The bytes that follow an escape character, which is not itself escaped.
EscapedIn(s) ==
  LET esc[i \in 1 .. Len(s)] == i > 1 /\ s[i - 1] = Escape /\ ~esc[i - 1] IN esc
Escaped(s, i) == EscapedIn(s)[i]

Starts(s, i) == s[i] = Escape /\ ~Escaped(s, i)

\* hdlc_frame_unstuff returns -1.
Malformed(s) ==
  LET t == Truncated(s)
  IN \/ \E i \in 1 .. Len(t) : t[i] = Boundary /\ ~Escaped(t, i)
     \/ t # <<>> /\ Starts(t, Len(t))

\* What the first bytes of a frame become.
UnstuffedTo(t) ==
  LET of[i \in 0 .. Len(t)] ==
        IF i = 0 THEN <<>>
        ELSE of[i - 1] \o IF Starts(t, i) THEN <<>>
                          ELSE IF Escaped(t, i) THEN <<Flip(t[i])>> ELSE <<t[i]>>
  IN of

\* hdlc_frame_unstuff
Unstuffed(s) == UnstuffedTo(Truncated(s))[Len(Truncated(s))]
=============================================================================
