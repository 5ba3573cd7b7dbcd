------------------------------ MODULE SerialPort ------------------------------
(***************************************************************************)
(* What core/interface_types.h promises to a task that reads a serial port *)
(* (if_serial_t.rx_read, IF_SERIAL_HAS_FRAME_DELIMITER): the bytes of the  *)
(* line in their order, cut into buffers of which only the last byte may   *)
(* be the frame delimiter.  Bytes are numbered from 1.                     *)
(***************************************************************************)
EXTENDS Integers, Sequences

CONSTANT HasDelimiter

VARIABLES
  line,   \* what arrived so far: TRUE for a delimiter
  buffer, \* bytes of the read in progress
  out     \* bytes of the reads that returned

portVars == <<line, buffer, out>>

Taken == Len(out) + Len(buffer)

Init == line = <<>> /\ buffer = <<>> /\ out = <<>>

Arrive(delim) ==
  /\ line' = Append(line, delim)
  /\ UNCHANGED <<buffer, out>>

\* The read in progress takes the next byte, unless it has a delimiter.
TakeByte ==
  /\ Taken < Len(line)
  /\ HasDelimiter => \A k \in 1 .. Len(buffer) : ~line[buffer[k]]
  /\ buffer' = Append(buffer, Taken + 1)
  /\ UNCHANGED <<line, out>>

ReturnBuffer ==
  /\ out' = out \o buffer
  /\ buffer' = <<>>
  /\ UNCHANGED line

Next == (\E delim \in BOOLEAN : Arrive(delim)) \/ TakeByte \/ ReturnBuffer

Spec == Init /\ [][Next]_portVars
=============================================================================
