\* A receive ring of 8 is the smallest in which "nearly full" is not full; one
\* byte more than that wraps both indices around.
CONSTANTS
  rx_buf_size = 8
  DstSizes = {2, 8}
  HasDelimiter = TRUE
  MaxBytes = 9
  tx_buf_size = 3
  Lengths = {1, 2, 4}
  MaxWritten = 8
SPECIFICATION FairSpec
PROPERTIES ImplementsSerialPort NoLostWakeup SentInOrder WrittenIsSent
\* The line falls silent after MaxBytes bytes and a read without a timeout
\* then waits for good; the writer is done after MaxWritten bytes.
CHECK_DEADLOCK FALSE
