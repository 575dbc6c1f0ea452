\* Two processes with two workers each, over two message sizes; an endpoint
\* takes one send at a time.
CONSTANTS
  Size = 2
  tx_thread_num = 2
  SizeCount = 2
  SKIP = 1
  TOTAL = 2
  TxQueue = 1
  AddrWord = 256
  epAddr <- MCepAddr
  None = None
SPECIFICATION FairSpec
INVARIANTS Wired OneBall QuietAtReset
PROPERTIES Termination
