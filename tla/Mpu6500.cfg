CONSTANTS
  TxDepth = 2
  RxDepth = 3
  ReadLen = 5
  Writes = 4
  Samples = 3
SPECIFICATION FairSpec
INVARIANTS OutputsAreOneSample TransfersSeparate
PROPERTIES SamplesAreRead
