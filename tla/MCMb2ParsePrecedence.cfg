\* An entry inside another one.
SPECIFICATION Spec
CONSTANTS
  U32 = 32
  U64 = 64
  PAGE_SIZE = 2
  CAP = 7
  LOWMEM = 4
  AVAILABLE = 5
  RESERVED = 2
  BOOTSTRAP = 3
  BOOTSTRAP_ALLOC = 4
  IMAGE_SIZE = 3
  TypeCode <- MCTypeCode
  InitTags <- Hole
\* parse_mb2i() returns.
CHECK_DEADLOCK FALSE
INVARIANTS
  Precedence
