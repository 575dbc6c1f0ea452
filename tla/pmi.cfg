\* Two processes with any two of the programs, with a PM that may refuse them
\* or die at any point, or without one.
CONSTANTS
  Size = 2
  Programs <- AllPrograms
  Crashes = TRUE
  None = None
SPECIFICATION FairSpec
INVARIANTS InStep GetAfterBarrier
PROPERTIES CallsReturn ImplementsBarrier
