\* Two processes whose two workers share one progress thread; an endpoint
\* takes one send at a time.  No prefilled work.
CONSTANTS
  Size = 2
  tx_thread_num = 2
  rx_thread_num = 1
  SizeCount = 1
  SKIP = 1
  TOTAL = 2
  prefilled_work = 0
  TxQueue = 1
  AddrWord = 256
  epAddr <- MCepAddr
  None = None
  MaxWorkers = 6
SPECIFICATION Spec
INVARIANT IndexReset
