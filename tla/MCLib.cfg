\* The characters are those of hdlc.h; Bytes has the special ones, what two of
\* them become, and a plain one.
SPECIFICATION MCSpec
CONSTANTS
  Boundary = 126
  Escape = 125
  EscapeBits = 32
  FlowControl = {23, 25}
  Bytes = {126, 125, 23, 93, 1}
  MaxBytes = 4
  Words <- MCWords
  MaxWords = 2
  Messages <- MCMessages
  MaxFlips <- MCMaxFlips
  W = 3
  H = 3
INVARIANTS HdlcCorrect WordsSplit CrcRejects ChannelsUnpacked ReturnsTimeOfCall
