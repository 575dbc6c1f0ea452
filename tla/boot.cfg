\* Four processes in two pairs, two workers that share one progress thread,
\* over verbs and over libfabric; the numbers of every other process are
\* printed as negative ints over verbs.  Three barriers: the driver of one size
\* has four, and only the first, a middle and the last one matter.
CONSTANTS
  Size = 4
  tx_thread_num = 2
  rx_thread_num = 1
  DriverBarriers = 3
  Word = 4
  ctxNum <- MCctxNum
  None = None
SPECIFICATION FairSpec
INVARIANTS Wired ConnectedWhileSending
PROPERTIES Termination
