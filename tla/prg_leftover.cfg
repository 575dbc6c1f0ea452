\* Prefilled work over two message sizes: messages of the first are still under
\* way when the second starts.  One worker and one progress thread each.
CONSTANTS
  Size = 2
  tx_thread_num = 1
  rx_thread_num = 1
  SizeCount = 2
  SKIP = 1
  TOTAL = 2
  prefilled_work = 1
  NUM_PREPOST_RECV = 3
  numToPoll = 2
SPECIFICATION FairSpec
INVARIANTS TokensConserved RecvBudget
PROPERTIES Termination
