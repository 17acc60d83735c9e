------------------------------ MODULE MemoryMap ------------------------------
(***************************************************************************)
(* The Arctan memory map: an array of CAP entries [base, len, type], of    *)
(* which the first n are in use, and the operations the bootstrapper does  *)
(* on such an array.  Mb2Parse builds the map from the firmware's memory   *)
(* map, Watermark takes its memory from it and marks what it took, and     *)
(* the kernel receives it.                                                 *)
(*                                                                         *)
(* Entries are 0-based, as in the C code.  The widths of size_t and        *)
(* uint64_t are the constants U32 and U64 (the number of values), so that  *)
(* a small instance still wraps and truncates where the code does.         *)
(***************************************************************************)
EXTENDS Integers

CONSTANTS
  U32,              \* values of a uint32_t, and of size_t on the -m32 target
  U64,              \* values of a uint64_t
  PAGE_SIZE,
  CAP,              \* length of the C array arc_mmap (512)
  LOWMEM,           \* 0x100000, below which the allocator takes nothing
  AVAILABLE, RESERVED, BOOTSTRAP, BOOTSTRAP_ALLOC   \* ARC_MEMORY_* codes

ASSUME WidthAssumption ==
  /\ U32 \in Nat /\ U64 \in Nat /\ PAGE_SIZE \in Nat /\ LOWMEM \in Nat
  /\ 1 <= PAGE_SIZE /\ PAGE_SIZE <= LOWMEM /\ LOWMEM < U32 /\ U32 <= U64

ASSUME CapAssumption == CAP \in Nat /\ CAP >= 2

\* The codes come from the kernel's arctan.h.  The code relies on an
\* available entry yielding to a bootstrap one, nothing more.
ASSUME TypeCodeAssumption ==
  /\ {AVAILABLE, RESERVED, BOOTSTRAP, BOOTSTRAP_ALLOC} \subseteq 0..(U32 - 1)
  /\ BOOTSTRAP < AVAILABLE /\ RESERVED # AVAILABLE
  /\ BOOTSTRAP_ALLOC \notin {AVAILABLE, BOOTSTRAP, RESERVED}

-----------------------------------------------------------------------------

W32(x) == x % U32
W64(x) == x % U64

Slots  == 0..(CAP - 1)
Entry  == [base : 0..(U64 - 1), len : 0..(U64 - 1), type : 0..(U32 - 1)]
EntryArray == [Slots -> Entry]

NoEntry == [base |-> 0, len |-> 0, type |-> 0]

\* Mutant: the part of a page at the end is dropped.
AlignDown(v) == LET s == W32(v) IN s - (s % PAGE_SIZE)

\* v rounded up to a page, and ALIGN(v, PAGE_SIZE) as 32-bit code computes it.
RoundUp(v) == LET s == v + PAGE_SIZE - 1 IN s - (s % PAGE_SIZE)
Align(v)   == LET s == W32(v + PAGE_SIZE - 1) IN s - (s % PAGE_SIZE)

\* nmemcpy(&m[k + 1], &m[k], n * sizeof entry): n entries move one slot up.
\* Slots past the array are memory of something else, not modelled here.
ShiftUp(m, k, n) ==
  [x \in Slots |-> IF x \in (k + 1)..(k + n) THEN m[x - 1] ELSE m[x]]

\* memcpy(&m[k], &m[k + 1], n * sizeof entry): n entries move one slot down.
ShiftDown(m, k, n) ==
  [x \in Slots |-> IF x \in k..(k + n - 1) /\ x + 1 \in Slots THEN m[x + 1] ELSE m[x]]

-----------------------------------------------------------------------------
(* What a map says about addresses.                                        *)

Within(e, a) == e.base <= a /\ a < e.base + e.len

\* The types that the first n entries of m give to the address a.
TypesAt(m, n, a) == {m[i].type : i \in {x \in 0..(n - 1) : Within(m[x], a)}}

\* In ascending order, no two entries overlapping, every end representable.
SortedDisjoint(m, n) ==
  /\ \A i \in 0..(n - 1) : m[i].base + m[i].len < U64
  /\ \A i, j \in 0..(n - 1) : i < j => m[i].base + m[i].len <= m[j].base
=============================================================================
