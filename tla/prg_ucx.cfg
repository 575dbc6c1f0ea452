\* Two processes whose two workers share one progress thread, over two
\* message sizes; an endpoint takes one send at a time.
CONSTANTS
  Size = 2
  tx_thread_num = 2
  rx_thread_num = 1
  SizeCount = 2
  SKIP = 1
  TOTAL = 2
  prefilled_work = 0
  TxQueue = 1
  AddrWord = 256
  epAddr <- MCepAddr
  None = None
  MaxWorkers = 6
SPECIFICATION FairSpec
INVARIANTS Wired HandlerFirst FairShare TokensConserved
PROPERTIES Termination
