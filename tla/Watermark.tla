------------------------------ MODULE Watermark ------------------------------
(***************************************************************************)
(* The watermark allocator of mm/watermark.c, driven the way bsp() drives  *)
(* it: watermark_update_mmap() once to pick the entry to allocate from,    *)
(* then any number of calls of alloc() (page tables, .bss of the kernel),  *)
(* then watermark_update_mmap() again to mark what was taken in the map    *)
(* that the kernel receives.                                               *)
(***************************************************************************)
EXTENDS MemoryMap, Sequences

CONSTANTS
  InitMaps,    \* the maps parse_mb2i() may have published, [entries, len]
  Sizes,       \* the sizes requested of alloc()
  MaxAllocs    \* bound on the number of blocks handed out

ASSUME InitMapsAssumption ==
  \A m \in InitMaps :
    /\ m \in [entries : EntryArray, len : 1..CAP]
    /\ SortedDisjoint(m.entries, m.len)

ASSUME RequestAssumption == Sizes \subseteq 0..(U32 - 1) /\ MaxAllocs \in Nat

VARIABLES
  mmap,            \* the array at Arc_KernelMeta.arc_mmap.base
  mmap_len,        \* Arc_KernelMeta.arc_mmap.len
  current_entry,   \* index of the entry allocated from, -1 before the first
  watermark_off,   \* bytes of it taken so far
  overrun,         \* a write went past the array
  phase,           \* where bsp() is: "start", "alloc", "done" or "wild"
  blocks,          \* history: the blocks handed out, in order
  map0,            \* history: the map published by the parser
  fits             \* history: the entry was large enough for every request

vars == <<mmap, mmap_len, current_entry, watermark_off, overrun, phase,
          blocks, map0, fits>>

-----------------------------------------------------------------------------
(* watermark_get_new_base()                                                *)

\* Mutant: the type is not looked at.
EligibleAnyType(m, n) ==
  {i \in 0..(n - 1) : LOWMEM <= m[i].base /\ m[i].base < U32 - 1}

Eligible(m, n) ==
  {i \in 0..(n - 1) : /\ m[i].type = AVAILABLE
                      /\ LOWMEM <= m[i].base /\ m[i].base < U32 - 1}

\* The first of the longest eligible entries, or none.
Largest(m, n) ==
  {i \in Eligible(m, n) :
     \A k \in Eligible(m, n) : \/ m[k].len < m[i].len
                               \/ m[k].len = m[i].len /\ i <= k}

\* The entry left behind is marked whether or not there is another.
Retire(m, i) == [m EXCEPT ![i].type = BOOTSTRAP_ALLOC]

-----------------------------------------------------------------------------
(* alloc()                                                                 *)

\* Mutant: the end of the entry is truncated to 32 bits.
OverflowsTruncated(size) ==
  W32(watermark_off + Align(size))
     > W32(mmap[current_entry].base + mmap[current_entry].len)

\* The bound the code checks: an offset against the end address of the entry.
Overflows(size) ==
  W32(watermark_off + Align(size))
     > W64(mmap[current_entry].base + mmap[current_entry].len)

\* Whether a request ends within the entry and below 4 GiB.
StillFits(size) ==
  LET e    == map0.entries[current_entry]
      mark == watermark_off + RoundUp(size)
  IN  mark <= e.len /\ e.base + mark < U32

\* Mutant: the mark is not a 32-bit value.
HandOutWide(i, off, size) ==
  /\ blocks' = Append(blocks, [base |-> W32(mmap[i].base + off), len |-> size])
  /\ watermark_off' = off + Align(size)
  /\ fits' = (fits /\ StillFits(size))

\* Return a pointer into entry i at offset off and raise the mark.  The
\* pointer has 32 bits, the caller uses all the size bytes it asked for.
HandOut(i, off, size) ==
  /\ blocks' = Append(blocks, [base |-> W32(mmap[i].base + off), len |-> size])
  /\ watermark_off' = W32(off + Align(size))
  /\ fits' = (fits /\ StillFits(size))

Request(size) == phase = "alloc" /\ Len(blocks) < MaxAllocs /\ size \in Sizes

AllocHere(size) ==
  /\ Request(size) /\ current_entry # -1
  /\ ~ Overflows(size)
  /\ HandOut(current_entry, watermark_off, size)
  /\ UNCHANGED <<mmap, mmap_len, current_entry, overrun, phase, map0>>

AllocRebased(size) ==
  /\ Request(size) /\ current_entry # -1
  /\ Overflows(size)
  /\ \E i \in Largest(mmap, mmap_len) :
       /\ mmap' = Retire(mmap, current_entry)
       /\ current_entry' = i
       /\ HandOut(i, 0, size)
  /\ UNCHANGED <<mmap_len, overrun, phase, map0>>

AllocNull(size) ==
  /\ Request(size) /\ current_entry # -1
  /\ Overflows(size)
  /\ Largest(mmap, mmap_len) = {}
  /\ mmap' = Retire(mmap, current_entry)
  /\ UNCHANGED <<mmap_len, current_entry, watermark_off, overrun, phase,
                 blocks, map0, fits>>

\* Without an entry alloc() reads mmap[-1]: NULL or any pointer may come back.
AllocWild(size) ==
  /\ Request(size) /\ current_entry = -1
  /\ phase' \in {"alloc", "wild"}
  /\ UNCHANGED <<mmap, mmap_len, current_entry, watermark_off, overrun,
                 blocks, map0, fits>>

-----------------------------------------------------------------------------
(* watermark_update_mmap()                                                 *)

\* The first call.  bsp() ignores its result.
FirstBase ==
  /\ phase = "start"
  /\ phase' = "alloc"
  /\ \/ /\ Largest(mmap, mmap_len) = {}
        /\ UNCHANGED <<current_entry, watermark_off>>
     \/ /\ current_entry' \in Largest(mmap, mmap_len)
        /\ watermark_off' = 0
  /\ UNCHANGED <<mmap, mmap_len, overrun, blocks, map0, fits>>

\* Mutant: every entry is moved, the last one to a slot that is not used.
MovedAll(n) == n

\* The number of entries moved up, whichever of them is split.
Moved(n) == n - 1

\* Mutants: the copy keeps its base; the entry keeps its length.
SplitKeepsBase(m, n, c, off) ==
  LET s == ShiftUp(m, c, Moved(n))
  IN  [s EXCEPT ![c + 1].len = W64(@ - off),
                ![c].len = off, ![c].type = BOOTSTRAP_ALLOC]
SplitKeepsLen(m, n, c, off) ==
  LET s == ShiftUp(m, c, Moved(n))
  IN  [s EXCEPT ![c + 1].base = W64(@ + off), ![c + 1].len = W64(@ - off),
                ![c].type = BOOTSTRAP_ALLOC]

\* The entries from c move up, then the entry and its copy are cut at off.
Split(m, n, c, off) ==
  LET s == ShiftUp(m, c, Moved(n))
      cut == IF c + 1 \in Slots
             THEN [s EXCEPT ![c + 1].base = W64(@ + off),
                            ![c + 1].len  = W64(@ - off)]
             ELSE s
  IN  [cut EXCEPT ![c].len = off, ![c].type = BOOTSTRAP_ALLOC]

\* The second call.  With nothing to move nmemcpy() runs through all memory.
HandOff ==
  /\ phase = "alloc" /\ current_entry # -1
  /\ IF Moved(mmap_len) = 0
     THEN phase' = "wild" /\ UNCHANGED <<mmap, mmap_len, overrun>>
     ELSE /\ phase' = "done"
          /\ mmap' = Split(mmap, mmap_len, current_entry, watermark_off)
          /\ mmap_len' = mmap_len + 1
          /\ overrun' = (current_entry + Moved(mmap_len) >= CAP)
  /\ UNCHANGED <<current_entry, watermark_off, blocks, map0, fits>>

\* The second call when the first found no entry: it looks again, in vain.
HandOffUnset ==
  /\ phase = "alloc" /\ current_entry = -1
  /\ phase' = "done"
  /\ UNCHANGED <<mmap, mmap_len, current_entry, watermark_off, overrun,
                 blocks, map0, fits>>

-----------------------------------------------------------------------------

Init ==
  /\ map0 \in InitMaps
  /\ mmap = map0.entries /\ mmap_len = map0.len
  /\ current_entry = -1 /\ watermark_off = 0
  /\ overrun = FALSE /\ phase = "start"
  /\ blocks = <<>> /\ fits = TRUE

Alloc(size) ==
  \/ AllocHere(size)
  \/ AllocRebased(size)
  \/ AllocNull(size)
  \/ AllocWild(size)

Next ==
  \/ FirstBase
  \/ \E size \in Sizes : Alloc(size)
  \/ HandOff
  \/ HandOffUnset

Spec == Init /\ [][Next]_vars
-----------------------------------------------------------------------------
(* Properties                                                              *)

\* Every variable holds a value of its C type; the marks stay in the array.
TypeOK ==
  /\ mmap \in EntryArray /\ mmap_len \in 1..(CAP + 1)
  /\ current_entry \in {-1} \cup Slots
  /\ watermark_off \in 0..(U32 - 1)
  /\ overrun \in BOOLEAN /\ fits \in BOOLEAN
  /\ phase \in {"start", "alloc", "done", "wild"}
  /\ blocks \in Seq([base : 0..(U32 - 1), len : 0..(U32 - 1)])
  /\ map0 \in InitMaps

Apart(b, c) == b.base + b.len <= c.base \/ c.base + c.len <= b.base

\* While the entry is large enough, alloc() never hands out a byte twice.
BlocksApart ==
  fits => \A j, k \in 1..Len(blocks) : j < k => Apart(blocks[j], blocks[k])

\* While the entry is large enough, every block lies above 1 MiB inside one
\* entry that the parser published as available.
BlocksInAvailable ==
  fits => \A k \in 1..Len(blocks) : \E i \in 0..(map0.len - 1) :
            LET e == map0.entries[i]
            IN  /\ e.type = AVAILABLE /\ LOWMEM <= blocks[k].base
                /\ e.base <= blocks[k].base
                /\ blocks[k].base + blocks[k].len <= e.base + e.len

\* A request that ends within the entry is never turned away by alloc()'s
\* test, which compares an offset with an address and wraps at 32 bits.
FittingServed ==
  phase = "alloc" /\ current_entry # -1 /\ fits =>
    \A size \in Sizes : StillFits(size) => ~ Overflows(size)

\* The hand-off the code is good for: enough memory, an entry to allocate
\* from that is not the first of the map, room for one entry more.
GoodHandOff ==
  phase = "done" /\ fits /\ current_entry >= 1 /\ map0.len < CAP

Taken(a) == \E k \in 1..Len(blocks) :
              blocks[k].base <= a /\ a < blocks[k].base + RoundUp(blocks[k].len)

\* At the hand-off the map says BOOTSTRAP_ALLOC of exactly the pages handed
\* out, and of every other address what the parser's map said.
HandOffExact ==
  GoodHandOff =>
    \A a \in 0..(U64 - 1) :
      TypesAt(mmap, mmap_len, a) =
        IF Taken(a) THEN {BOOTSTRAP_ALLOC} ELSE TypesAt(map0.entries, map0.len, a)

\* At the hand-off the map is again in ascending order without overlaps.
HandOffSorted == GoodHandOff => SortedDisjoint(mmap, mmap_len)

UsableBank ==
  \E i \in 0..(map0.len - 1) :
     LET e == map0.entries[i]
     IN  e.type = AVAILABLE /\ LOWMEM <= e.base /\ e.base < U32 - 1

\* Nothing outside of the array is touched: the split of a map that fills at
\* most half of it stays inside, and if some available entry begins in
\* [1 MiB, 4 GiB - 1) and is not alone in the map, alloc() never goes through
\* mmap[-1] and the copy of the split, which counts down, never passes 0.
StaysInArray ==
  /\ 2 * map0.len <= CAP + 1 => ~ overrun
  /\ UsableBank /\ map0.len > 1 => phase # "wild"
=============================================================================
