\* The bootstrapper in the middle of an entry.
SPECIFICATION Spec
CONSTANTS
  U32 = 32
  U64 = 64
  PAGE_SIZE = 2
  CAP = 7
  LOWMEM = 4
  AVAILABLE = 5
  RESERVED = 2
  BOOTSTRAP = 3
  BOOTSTRAP_ALLOC = 4
  IMAGE_SIZE = 3
  TypeCode <- MCTypeCode
  InitTags <- Middle
\* parse_mb2i() returns.
CHECK_DEADLOCK FALSE
INVARIANTS
  ModulesExcluded
