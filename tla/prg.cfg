\* Two processes whose two workers share one progress thread, two message
\* sizes, no prefilled work.
CONSTANTS
  Size = 2
  tx_thread_num = 2
  rx_thread_num = 1
  SizeCount = 2
  SKIP = 1
  TOTAL = 2
  prefilled_work = 0
  NUM_PREPOST_RECV = 4
  numToPoll = 2
SPECIFICATION Spec
INVARIANTS LoopsAligned ResetIsolated ReportsThisSize QuietAtReset FairShare ReceiversReady FreeSafe
