\* Four processes in two pairs, one worker each, two message sizes.
CONSTANTS
  Size = 4
  tx_thread_num = 1
  SizeCount = 2
  SKIP = 1
  TOTAL = 2
  RX_QUEUE_LEN = 5
  numToPoll = 2
SPECIFICATION FairSpec
INVARIANTS PollsOne RecvQueueBound QuietAtFree
PROPERTIES Termination
