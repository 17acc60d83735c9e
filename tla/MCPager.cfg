\* The calls of bsp() in any order, with and without enough memory.
SPECIFICATION Spec
CONSTANTS
  PAGE = 2
  ENTRIES = 2
  Limits = {0, 1, 5, 7, 16}
  Requests <- AsBspAsks
\* bsp() returns, or hangs without page tables.
CHECK_DEADLOCK FALSE
INVARIANTS
  TablesFormTree
  MappedAsAsked
  NeverWild
PROPERTIES
  ImplementsAbsPager
  Returns
