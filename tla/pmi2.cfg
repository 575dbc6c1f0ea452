\* Two processes of two threads; names and values of up to three characters, of
\* which two are allowed, and texts of up to eight.
CONSTANTS
  Size = 2
  ThreadNum = 2
  Jobs <- TestJobs
  None = None
  ValueBound = 3
  TextBound = 8
  PMI2_MAX_KEYLEN = 1
  PMI2_MAX_VALLEN = 2
  CommandRoom = 16
SPECIFICATION FairSpec
INVARIANTS Matched GetAfterFence CommandRoundTrip
PROPERTIES AllReturn FenceImplementsBarrier
