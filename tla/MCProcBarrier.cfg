\* Three processes of two threads, two consecutive barriers.
CONSTANTS
  NumProcs = 3
  TeamSize = 2
  Calls = 2
SPECIFICATION FairSpec
INVARIANTS 
PROPERTIES ImplementsBarrier
