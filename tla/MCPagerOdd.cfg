\* The size of the direct map passes 0.
SPECIFICATION Spec
CONSTANTS
  PAGE = 2
  ENTRIES = 2
  Limits = {16}
  Requests <- OddMemory
\* bsp() returns, or hangs without page tables.
CHECK_DEADLOCK FALSE
PROPERTIES
  HhdmReturns
