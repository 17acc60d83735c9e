\* Every arrangement of three entries and the bootstrapper, and a PC.
SPECIFICATION Spec
CONSTANTS
  U32 = 32
  U64 = 64
  PAGE_SIZE = 2
  CAP = 7
  LOWMEM = 4
  AVAILABLE = 5
  RESERVED = 2
  BOOTSTRAP = 3
  BOOTSTRAP_ALLOC = 4
  IMAGE_SIZE = 1
  TypeCode <- MCTypeCode
  InitTags <- MCTags
\* parse_mb2i() returns.
CHECK_DEADLOCK FALSE
INVARIANTS
  TypeOK
  SortedSoFar
  PublishedExact
  BootstrapperReserved
  PublishedSorted
  StaggeredPrecedence
  MemSizeCovers
  OneSlotIsEnough
PROPERTIES
  Terminates
