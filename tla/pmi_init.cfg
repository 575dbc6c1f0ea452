\* The PM may die during PMI_Init.
CONSTANTS
  Size = 2
  Programs <- OnlyExchange
  Crashes = TRUE
  None = None
SPECIFICATION Spec
INVARIANTS InitHonest
