\* All maps, up to four blocks: from ample memory to exhaustion and rebasing.
SPECIFICATION Spec
CONSTANTS
  U32 = 32
  U64 = 64
  PAGE_SIZE = 2
  CAP = 9
  LOWMEM = 4
  AVAILABLE = 5
  RESERVED = 2
  BOOTSTRAP = 3
  BOOTSTRAP_ALLOC = 4
  InitMaps <- MCMaps
  Sizes = {0, 1, 4, 16, 31}
  MaxAllocs = 4
\* bsp() returns to the assembly that enters the kernel.
CHECK_DEADLOCK FALSE
INVARIANTS
  TypeOK
  BlocksApart
  BlocksInAvailable
  FittingServed
  HandOffExact
  HandOffSorted
  StaysInArray
