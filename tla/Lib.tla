--------------------------------- MODULE Lib ---------------------------------
(***************************************************************************)
(* The loops over bytes that the modules share: those of HdlcLoops,        *)
(* strops_split_argv, which splits a line in place, strops_argv_dup, crc16 *)
(* and sdcard_crc7 between a sender and a receiver, and the unpacking of   *)
(* the channels of a control frame in fport_task.  A call takes its input  *)
(* from a small set; one step is one round of a loop.  The variables are   *)
(* those of HdlcLoops: one function is called at a time.  rd, wr and len   *)
(* are the indices of the code, which count from 0.                        *)
(***************************************************************************)
EXTENDS HdlcLoops, FiniteSets, FiniteSetsExt, SequencesExt, Bitwise

CONSTANTS
  Words,      \* the texts of words on a line: sequences over {"a", " "}
  MaxWords,   \* bound: words on a line
  Messages,   \* check -> the messages it protects
  MaxFlips    \* check -> bound: bits changed on the way

ASSUME LibAssumption ==
  /\ MaxWords \in Nat
  /\ Words \subseteq Seq({"a", " "})

VARIABLES
  acc,     \* the variable crc
  argv     \* the pointers found so far, as indices of a buffer

vars == <<loop, origin, given, bytes, rd, wr, len, out_len, acc, argv>>

-----------------------------------------------------------------------------
(* strops_split_argv and strops_argv_dup, lib/strops.c *)

\* A word on a line: quoted, or not empty and without blanks.
Written == [text : Words, quoted : BOOLEAN, blanks : 0 .. 2]
Sound(w) == w.quoted \/ (w.text # <<>> /\ ~Contains(w.text, " "))

Lines ==
  {l \in UNION {[1 .. n -> Written] : n \in 0 .. MaxWords} :
     /\ \A i \in 1 .. Len(l) : Sound(l[i])
     /\ \A i \in 2 .. Len(l) : l[i - 1].quoted \/ l[i].blanks > 0}

Blanks(n) == [i \in 1 .. n |-> " "]
Rendered(w) == Blanks(w.blanks) \o IF w.quoted THEN <<"\"">> \o w.text \o <<"\"">>
                                               ELSE w.text
Text(l) == FlattenSeq([i \in 1 .. Len(l) |-> Rendered(l[i])])

\* A line as f_gets returns it: the last one of a file has no newline.
call_split(l, trailing, newline) ==
  /\ loop' = "outer"
  /\ origin' = [i \in 1 .. Len(l) |-> l[i].text]
  /\ given' = Text(l) \o Blanks(trailing) \o newline \o <<"NUL">>
  /\ bytes' = given'
  /\ rd' = 0 /\ wr' = 0 /\ argv' = <<>>
  /\ UNCHANGED <<len, out_len, acc>>

\* The character at in_ptr.
In == bytes[rd + 1]

\* while (*in_ptr == ' '), also when the outer loop begins with a blank
split_blank ==
  /\ loop \in {"outer", "start"} /\ In = " "
  /\ loop' = "start" /\ rd' = rd + 1
  /\ UNCHANGED <<origin, given, bytes, wr, len, out_len, acc, argv>>

\* An argument starts, quoted or not.
split_start ==
  /\ loop \in {"outer", "start"} /\ In \notin {" ", "\n", "NUL"}
  /\ argv' = Append(argv, wr)
  /\ \/ In = "\"" /\ loop' = "quoted" /\ rd' = rd + 1
     \/ In # "\"" /\ loop' = "plain" /\ rd' = rd
  /\ UNCHANGED <<origin, given, bytes, wr, len, out_len, acc>>

Ends(word) == IF word = "quoted" THEN {"\"", "NUL"} ELSE {" ", "\n", "NUL"}

split_copy ==
  /\ loop \in {"quoted", "plain"} /\ In \notin Ends(loop)
  /\ bytes' = Set(bytes, wr, In)
  /\ rd' = rd + 1 /\ wr' = wr + 1
  /\ UNCHANGED <<loop, origin, given, len, out_len, acc, argv>>

\* Mutant of split_end: the separator is left for the outer loop.
split_end_stay ==
  /\ loop \in {"quoted", "plain"} /\ In \in Ends(loop)
  /\ loop' = "outer"
  /\ rd' = rd + IF loop = "quoted" /\ In # "NUL" THEN 1 ELSE 0
  /\ bytes' = Set(bytes, wr, "NUL")
  /\ wr' = wr + 1
  /\ UNCHANGED <<origin, given, len, out_len, acc, argv>>

\* The separator is skipped before the terminator is written.
split_end ==
  /\ loop \in {"quoted", "plain"} /\ In \in Ends(loop)
  /\ loop' = "outer"
  /\ rd' = rd + IF In = "NUL" THEN 0 ELSE 1
  /\ bytes' = Set(bytes, wr, "NUL")
  /\ wr' = wr + 1
  /\ UNCHANGED <<origin, given, len, out_len, acc, argv>>

split_return ==
  /\ loop \in {"outer", "start"} /\ In \in {"\n", "NUL"}
  /\ loop' = "split"
  /\ UNCHANGED <<origin, given, bytes, rd, wr, len, out_len, acc, argv>>

\* The string at pointer p of a buffer.
Word(s, p) ==
  LET end == Min({i \in p + 1 .. Len(s) : s[i] = "NUL"}) IN SubSeq(s, p + 1, end - 1)
Strings == [i \in 1 .. Len(argv) |-> Word(bytes, argv[i])]

Sizes == [i \in 1 .. Len(argv) |-> Len(Strings[i]) + 1]
Offset(i) == MapThenSumSet(LAMBDA k : Sizes[k], 1 .. i - 1)

\* The copy lives on the heap: the next line goes to the same line buffer.
\* (A per line keeps its words from the third on; here all are copied.)
argv_dup ==
  /\ loop = "split"
  /\ loop' = "copied"
  /\ bytes' = FlattenSeq([i \in 1 .. Len(argv) |-> Append(Strings[i], "NUL")])
  /\ argv' = [i \in 1 .. Len(argv) |-> Offset(i)]
  /\ UNCHANGED <<origin, given, rd, wr, len, out_len, acc>>

-----------------------------------------------------------------------------
(* Checksums: lib/crc.c and module/mgmt/sdcard.c *)

Poly == 4129  \* CRC16_POLY_CCITT, 0x1021

crc16_bit(crc) == IF crc \div 32768 = 1 THEN ((2 * crc) % 65536) ^^ Poly ELSE 2 * crc

crc7_bit(crc) == 2 * IF (crc \div 128) % 2 = 1 THEN crc ^^ 137 ELSE crc

\* The inner loops: eight rounds for one byte of the message.
Bit(check, crc) == IF check = "crc16" THEN crc16_bit(crc) ELSE crc7_bit(crc)
Eight(check, crc) ==
  LET r[n \in 0 .. 8] == IF n = 0 THEN crc ELSE Bit(check, r[n - 1]) IN r[8]

\* Mutant of NextByte: the byte is added at the low end.
NextByte_low(check, crc, byte) == Eight(check, crc ^^ byte)

NextByte(check, crc, byte) ==
  Eight(check, crc ^^ IF check = "crc16" THEN 256 * byte ELSE byte)

\* What is appended to a message: high byte first, or the 7 bits and a one.
Trailer(check, crc) == IF check = "crc16" THEN <<crc \div 256, crc % 256>>
                                          ELSE <<crc | 1>>

\* bytes is protected by a checksum that starts at 0.
call_checksum(check, s) ==
  /\ loop' = "send"
  /\ origin' = check /\ given' = s /\ bytes' = s
  /\ rd' = 0 /\ len' = Len(s) /\ acc' = 0
  /\ UNCHANGED <<wr, argv, out_len>>

checksum_byte ==
  /\ loop \in {"send", "check"} /\ rd < len
  /\ acc' = NextByte(origin, acc, bytes[rd + 1])
  /\ rd' = rd + 1
  /\ UNCHANGED <<loop, origin, given, bytes, wr, len, argv, out_len>>

\* Sets of at most n of the bits of a frame.
Errors(n, size) == {{}} \cup {Range(f) : f \in [1 .. n -> 0 .. 8 * size - 1]}

Garbled(s, bits) ==
  [i \in 1 .. Len(s) |->
     s[i] ^^ MapThenSumSet(LAMBDA b : 2 ^ (b % 8), {b \in bits : b \div 8 = i - 1})]

\* The frame is sent, and reaches the receiver with some of its bits changed.
transmit ==
  LET frame == bytes \o Trailer(origin, acc)
  IN /\ loop = "send" /\ rd = len
     /\ \E bits \in Errors(MaxFlips[origin], Len(frame)) : bytes' = Garbled(frame, bits)
     /\ given' = frame
     /\ loop' = "check"
     /\ rd' = 0 /\ acc' = 0
     /\ UNCHANGED <<origin, wr, len, argv, out_len>>

\* The receiver compares what follows the message with its own checksum.
compare ==
  /\ loop = "check" /\ rd = len
  /\ loop' = IF SubSeq(bytes, len + 1, Len(bytes)) = Trailer(origin, acc)
           THEN "accepted" ELSE "rejected"
  /\ UNCHANGED <<origin, given, bytes, rd, wr, len, out_len, acc, argv>>

-----------------------------------------------------------------------------
(* fport_task: sixteen channels of 11 bits in the bytes 2 to 23 of a frame *)

\* The first byte of each channel and the shift of that byte.
Fields == << <<2, 0>>, <<3, 3>>, <<4, 6>>, <<6, 1>>, <<7, 4>>, <<8, 7>>,
             <<10, 2>>, <<11, 5>>, <<13, 0>>, <<14, 3>>, <<15, 6>>, <<17, 1>>,
             <<18, 4>>, <<19, 7>>, <<21, 2>>, <<22, 5>> >>

\* Mutant of f_chn: the second byte always completes a channel.
f_chn_two(frame, field) ==
  LET byte == field[1]  shift == field[2]
  IN (frame[byte] \div 2 ^ shift + frame[byte + 1] * 2 ^ (8 - shift)) % 2048

\* The terms do not share bits: | is +.  The third is for shifts above 5.
f_chn(frame, field) ==
  LET byte == field[1]  shift == field[2]
      third == IF shift > 5 THEN frame[byte + 2] * 2 ^ (16 - shift) ELSE 0
  IN (frame[byte] \div 2 ^ shift + frame[byte + 1] * 2 ^ (8 - shift) + third) % 2048

\* A control frame in which the transmitter set one bit; bytes gets the channels.
unpack(bit) ==
  LET frame == [i \in 2 .. 23 |-> IF bit \div 8 = i - 2 THEN 2 ^ (bit % 8) ELSE 0]
  IN /\ loop' = "unpacked"
     /\ origin' = bit
     /\ bytes' = [c \in 1 .. 16 |-> f_chn(frame, Fields[c])]
     /\ UNCHANGED <<given, rd, wr, len, out_len, acc, argv>>

-----------------------------------------------------------------------------
Init ==
  /\ HdlcInit
  /\ argv = <<>> /\ acc = 0

Calls ==
  /\ loop = "idle"
  /\ \/ \E l \in Lines, trailing \in 0 .. 1, newline \in {<<>>, <<"\n">>} :
          call_split(l, trailing, newline)
     \/ \E check \in DOMAIN Messages : \E s \in Messages[check] : call_checksum(check, s)
     \/ \E bit \in 0 .. 175 : unpack(bit)

\* The caller goes on.
Return ==
  /\ loop \in {"copied", "accepted", "rejected", "unpacked"}
  /\ loop' = "idle"
  /\ origin' = <<>> /\ given' = <<>> /\ bytes' = <<>> /\ argv' = <<>>
  /\ rd' = 0 /\ wr' = 0 /\ len' = 0 /\ acc' = 0
  /\ UNCHANGED out_len

Next ==
  \/ Calls
  \/ split_blank \/ split_start \/ split_copy \/ split_end \/ split_return \/ argv_dup
  \/ checksum_byte \/ transmit \/ compare
  \/ Return
  \/ HdlcNext /\ UNCHANGED <<acc, argv>>

Spec == Init /\ [][Next]_vars

-----------------------------------------------------------------------------
\* The indices stay within the buffer, and no byte leaves its 8 bits.
TypeOK ==
  /\ loop # "copied" => /\ rd \in -1 .. Len(bytes)
                        /\ {wr, len} \subseteq 0 .. Len(bytes)
  /\ acc \in 0 .. 65535
  /\ loop \in {"send", "check"} =>
       \A i \in 1 .. Len(bytes) : bytes[i] \in 0 .. 255
  /\ loop \in {"send", "check"} /\ origin = "crc7" => acc \in 0 .. 255

\* The words that a configuration line was written from are what the modules
\* get, quoted blanks, empty words and the end of the file included, and
\* strops_argv_dup keeps them.
WordsSplit == loop \in {"split", "copied"} => Strings = origin

\* nfcp_rx_packet, the reading of a block and the reading of the card's
\* registers accept a frame if, and only if, none of its bits was changed, up
\* to the number of changed bits their checksums are to find.
CrcRejects ==
  /\ loop = "accepted" => bytes = given
  /\ loop = "rejected" => bytes # given

\* The channels of a control frame share out the 176 bits without gap or
\* overlap, lowest bit first: a bit reaches one place of one channel.
ChannelsUnpacked ==
  loop = "unpacked" =>
    \A c \in 0 .. 15 : bytes[c + 1] = IF origin \div 11 = c THEN 2 ^ (origin % 11) ELSE 0
=============================================================================
