--------------------------- MODULE WatermarkProofs ---------------------------
(***************************************************************************)
(* Theorems about the watermark allocator, for every width, page size,     *)
(* array length, set of published maps and set of requests that the        *)
(* assumptions of MemoryMap and Watermark allow.                           *)
(***************************************************************************)
EXTENDS Watermark, LeastElement

USE WidthAssumption, CapAssumption

\* Arithmetic on size_t stays in the range of size_t.
LEMMA W32Range == \A x \in Int : W32(x) \in 0..(U32 - 1)
  BY DEF W32

\* The same of uint64_t.
LEMMA W64Range == \A x \in Int : W64(x) \in 0..(U64 - 1)
  BY DEF W64

\* A number that fits is kept.
LEMMA W32Id == \A x \in 0..(U32 - 1) : W32(x) = x
  BY DEF W32

\* The same of 64 bits.
LEMMA W64Id == \A x \in 0..(U64 - 1) : W64(x) = x
  BY DEF W64

\* ALIGN() gives a size_t whatever the request.
LEMMA AlignRange == \A v \in Nat : Align(v) \in 0..(U32 - 1)
  BY W32Range DEF Align

-----------------------------------------------------------------------------
(* Type correctness                                                        *)

Block == [base : 0..(U32 - 1), len : 0..(U32 - 1)]

\* The length reaches CAP + 1 by the split at the hand-off only.
TypeInv == TypeOK /\ (phase # "done" => mmap_len \in 1..CAP)

\* Marking an entry leaves an array of entries.
LEMMA RetireType ==
  ASSUME NEW m \in EntryArray, NEW j \in {-1} \cup Slots
  PROVE  Retire(m, j) \in EntryArray
  <1>1. BOOTSTRAP_ALLOC \in 0..(U32 - 1)
    BY TypeCodeAssumption
  <1>2. ASSUME NEW x \in Slots PROVE [m[x] EXCEPT !.type = BOOTSTRAP_ALLOC] \in Entry
    BY <1>1, <1>2 DEF EntryArray, Entry
  <1> QED
    BY <1>2 DEF Retire, EntryArray

\* Entries that move up are entries.
LEMMA ShiftUpType ==
  ASSUME NEW m \in EntryArray, NEW k \in Int, NEW n \in Int,
         k >= 0
  PROVE  ShiftUp(m, k, n) \in EntryArray
  <1>1. ASSUME NEW x \in Slots, x \in (k + 1)..(k + n) PROVE x - 1 \in Slots
    BY <1>1 DEF Slots
  <1> QED
    BY <1>1 DEF ShiftUp, EntryArray

\* The two parts of a split entry are entries.
LEMMA SplitType ==
  ASSUME NEW m \in EntryArray, NEW n \in Nat, NEW c \in Slots,
         NEW off \in 0..(U32 - 1)
  PROVE  Split(m, n, c, off) \in EntryArray
  <1> DEFINE s   == ShiftUp(m, c, Moved(n))
             cut == IF c + 1 \in Slots
                    THEN [s EXCEPT ![c + 1].base = W64(@ + off),
                                   ![c + 1].len  = W64(@ - off)]
                    ELSE s
  <1>1. s \in EntryArray
    BY ShiftUpType DEF Slots, Moved
  <1>2. cut \in EntryArray
    <2>1. CASE c + 1 \in Slots
      <3>1. /\ W64(s[c + 1].base + off) \in 0..(U64 - 1)
            /\ W64(s[c + 1].len - off) \in 0..(U64 - 1)
        BY <1>1, <2>1, W64Range DEF EntryArray, Entry
      <3> QED
        BY <1>1, <2>1, <3>1 DEF EntryArray, Entry
    <2> QED
      BY <1>1, <2>1
  <1>3. off \in 0..(U64 - 1) /\ BOOTSTRAP_ALLOC \in 0..(U32 - 1)
    BY TypeCodeAssumption
  <1> HIDE DEF cut
  <1>4. [cut EXCEPT ![c].len = off, ![c].type = BOOTSTRAP_ALLOC] \in EntryArray
    BY <1>2, <1>3 DEF EntryArray, Entry
  <1> QED
    BY <1>4 DEF Split, cut

\* The index that watermark_get_new_base() settles on is in the array.
LEMMA LargestInArray ==
  ASSUME NEW m, NEW n \in 1..CAP, NEW j \in Largest(m, n)
  PROVE  j \in Slots
  BY DEF Largest, Eligible, Slots

\* A block handed out from an entry of the array is well formed.
LEMMA HandOutType ==
  ASSUME TypeOK, NEW j \in Slots, NEW off \in 0..(U32 - 1),
         NEW size \in Sizes, HandOut(j, off, size)
  PROVE  /\ watermark_off' \in 0..(U32 - 1)
         /\ blocks' \in Seq(Block)
         /\ fits' \in BOOLEAN
  <1>1. size \in 0..(U32 - 1)
    BY RequestAssumption
  <1>2. mmap[j].base \in Nat
    BY DEF TypeOK, EntryArray, Entry
  <1>3. Align(size) \in 0..(U32 - 1)
    BY <1>1, AlignRange
  <1>4. W32(mmap[j].base + off) \in 0..(U32 - 1) /\ W32(off + Align(size)) \in 0..(U32 - 1)
    BY <1>2, <1>3, W32Range
  <1>5. fits' \in BOOLEAN
    BY DEF HandOut, TypeOK
  <1>6. [base |-> W32(mmap[j].base + off), len |-> size] \in Block
    BY <1>1, <1>4 DEF Block
  <1>7. blocks \in Seq(Block)
    BY DEF TypeOK, Block
  <1> QED
    BY <1>4, <1>5, <1>6, <1>7 DEF HandOut

\* Every variable keeps to its C type and the marks stay inside the array,
\* whatever is requested and however the entry runs out.
THEOREM TypeCorrect == Spec => []TypeInv
  <1>1. Init => TypeInv
    <2> SUFFICES ASSUME Init PROVE TypeInv
      OBVIOUS
    <2>1. map0.entries \in EntryArray /\ map0.len \in 1..CAP
      BY InitMapsAssumption DEF Init
    <2>2. blocks \in Seq(Block)
      BY DEF Init
    <2>3. /\ mmap \in EntryArray /\ mmap_len \in 1..(CAP + 1)
          /\ phase # "done" => mmap_len \in 1..CAP
      BY <2>1 DEF Init
    <2>4. /\ current_entry \in {-1} \cup Slots
          /\ watermark_off \in 0..(U32 - 1)
          /\ phase \in {"start", "alloc", "done", "wild"}
          /\ map0 \in InitMaps
      BY DEF Init
    <2>5. overrun \in BOOLEAN /\ fits \in BOOLEAN
      BY Zenon DEF Init
    <2> QED
      BY <2>2, <2>3, <2>4, <2>5 DEF TypeInv, TypeOK, Block
  <1>2. TypeInv /\ [Next]_vars => TypeInv'
    <2> SUFFICES ASSUME TypeInv, [Next]_vars PROVE TypeInv'
      OBVIOUS
    <2> USE DEF TypeInv
    <2>1. CASE FirstBase
      BY <2>1, LargestInArray DEF FirstBase, TypeOK
    <2>2. ASSUME NEW size \in Sizes, AllocHere(size) PROVE TypeInv'
      BY <2>2, HandOutType DEF AllocHere, TypeOK, Request, Block
    <2>3. ASSUME NEW size \in Sizes, AllocRebased(size) PROVE TypeInv'
      <3>1. PICK j \in Largest(mmap, mmap_len) :
              /\ mmap' = Retire(mmap, current_entry)
              /\ current_entry' = j
              /\ HandOut(j, 0, size)
        BY <2>3 DEF AllocRebased
      <3>2. j \in Slots
        BY <2>3, LargestInArray DEF AllocRebased, Request, TypeOK
      <3>3. mmap' \in EntryArray
        BY <3>1, RetireType DEF TypeOK
      <3>4. /\ watermark_off' \in 0..(U32 - 1)
            /\ blocks' \in Seq(Block)
            /\ fits' \in BOOLEAN
        BY <3>1, <3>2, HandOutType
      <3> QED
        BY <2>3, <3>1, <3>2, <3>3, <3>4 DEF AllocRebased, TypeOK, Request, Block
    <2>4. ASSUME NEW size \in Sizes, AllocNull(size) PROVE TypeInv'
      BY <2>4, RetireType DEF AllocNull, TypeOK, Request
    <2>5. ASSUME NEW size \in Sizes, AllocWild(size) PROVE TypeInv'
      BY <2>5 DEF AllocWild, TypeOK, Request
    <2>6. CASE HandOff
      <3>1. CASE Moved(mmap_len) = 0
        BY <2>6, <3>1 DEF HandOff, TypeOK
      <3>2. CASE Moved(mmap_len) # 0
        <4>1. mmap' \in EntryArray
          BY <2>6, <3>2, SplitType DEF HandOff, TypeOK
        <4> QED
          BY <2>6, <3>2, <4>1 DEF HandOff, TypeOK
      <3> QED
        BY <3>1, <3>2
    <2>7. CASE HandOffUnset
      BY <2>7 DEF HandOffUnset, TypeOK
    <2>8. CASE UNCHANGED vars
      BY <2>8 DEF vars, TypeOK
    <2> QED
      BY <2>1, <2>2, <2>3, <2>4, <2>5, <2>6, <2>7, <2>8 DEF Next, Alloc
  <1> QED
    BY <1>1, <1>2, PTL DEF Spec

-----------------------------------------------------------------------------
(* Where the blocks lie.  While requests fit, the blocks are laid out one   *)
(* after the other from the base of the entry up to the mark.               *)

\* Until the hand-off the array differs from the published one in types only.
SameRanges ==
  phase \in {"start", "alloc"} =>
    /\ mmap_len = map0.len
    /\ \A k \in 0..(map0.len - 1) : /\ mmap[k].base = map0.entries[k].base
                                    /\ mmap[k].len  = map0.entries[k].len

\* Nothing happens before the first call, and nothing without an entry.
FirstThings ==
  /\ phase = "start" => current_entry = -1 /\ mmap = map0.entries
  /\ current_entry = -1 => blocks = <<>>
  /\ current_entry \in {-1} \cup 0..(map0.len - 1)

End(b) == b.base + RoundUp(b.len)

\* In ascending order from lo, none beyond hi.
Stacked(bs, lo, hi) ==
  /\ \A k \in 1..Len(bs) : lo <= bs[k].base /\ End(bs[k]) <= hi
  /\ \A j, k \in 1..Len(bs) : j < k => End(bs[j]) <= bs[k].base

\* The mark stays inside the entry and below 4 GiB, the blocks below the mark.
BelowMark ==
  current_entry # -1 /\ fits =>
    LET e == map0.entries[current_entry]
    IN  /\ e.type = AVAILABLE /\ LOWMEM <= e.base
        /\ watermark_off <= e.len /\ e.base + watermark_off < U32
        /\ Stacked(blocks, e.base, e.base + watermark_off)

\* The split of a map that fills at most half of the array.
NoOverrun == overrun => phase = "done" /\ 2 * map0.len > CAP + 1

LayoutInv == SameRanges /\ FirstThings /\ BelowMark /\ NoOverrun

\* What the parser published.
LEMMA PublishedMap ==
  ASSUME TypeOK
  PROVE  /\ map0.entries \in EntryArray /\ map0.len \in 1..CAP
         /\ \A k \in 0..(map0.len - 1) :
              /\ k \in Slots
              /\ map0.entries[k].base \in 0..(U64 - 1)
              /\ map0.entries[k].len \in 0..(U64 - 1)
              /\ map0.entries[k].base + map0.entries[k].len < U64
  <1>1. /\ map0.entries \in EntryArray /\ map0.len \in 1..CAP
        /\ SortedDisjoint(map0.entries, map0.len)
    BY InitMapsAssumption DEF TypeOK
  <1>2. ASSUME NEW k \in 0..(map0.len - 1)
        PROVE  k \in Slots /\ map0.entries[k] \in Entry
    BY <1>1 DEF Slots, EntryArray
  <1> QED
    BY <1>1, <1>2 DEF SortedDisjoint, Entry

\* Rounding up to a page never lowers a size, and adds less than a page.
LEMMA RoundUpBounds ==
  \A v \in Nat : RoundUp(v) \in Nat /\ v <= RoundUp(v) /\ RoundUp(v) < v + PAGE_SIZE
  <1> SUFFICES ASSUME NEW v \in Nat
               PROVE  RoundUp(v) \in Nat /\ v <= RoundUp(v) /\ RoundUp(v) < v + PAGE_SIZE
    OBVIOUS
  <1> DEFINE s == v + PAGE_SIZE - 1
  <1>1. s \in Nat /\ s % PAGE_SIZE \in 0..(PAGE_SIZE - 1)
    OBVIOUS
  <1> QED
    BY <1>1 DEF RoundUp

\* Below the last page of the 32-bit range, ALIGN() does not wrap.
LEMMA AlignIsRoundUp ==
  \A v \in Nat : RoundUp(v) + PAGE_SIZE <= U32 => Align(v) = RoundUp(v)
  <1> SUFFICES ASSUME NEW v \in Nat, RoundUp(v) + PAGE_SIZE <= U32
               PROVE  Align(v) = RoundUp(v)
    OBVIOUS
  <1>1. v + PAGE_SIZE - 1 \in 0..(U32 - 1)
    BY RoundUpBounds
  <1> QED
    BY <1>1, W32Id DEF Align, RoundUp

\* What a request that fits does to the mark, and where its block begins.
LEMMA FittingRequest ==
  ASSUME TypeInv, LayoutInv, phase = "alloc", current_entry # -1, fits,
         NEW size \in Sizes, StillFits(size)
  PROVE  LET e == map0.entries[current_entry]
         IN  /\ W32(watermark_off + Align(size)) = watermark_off + RoundUp(size)
             /\ W32(mmap[current_entry].base + watermark_off) = e.base + watermark_off
             /\ watermark_off + RoundUp(size) <= e.len
             /\ e.base + watermark_off + RoundUp(size) < U32
             /\ ~ Overflows(size)
  <1> DEFINE e == map0.entries[current_entry]
  <1>1. size \in Nat /\ RoundUp(size) \in Nat
    BY RequestAssumption, RoundUpBounds
  <1>2. /\ current_entry \in 0..(map0.len - 1)
        /\ e.base \in Nat /\ e.len \in Nat /\ e.base + e.len < U64
    BY PublishedMap DEF LayoutInv, FirstThings, TypeInv
  <1>3. mmap[current_entry].base = e.base /\ mmap[current_entry].len = e.len
    BY <1>2 DEF LayoutInv, SameRanges
  <1>4. watermark_off \in Nat
    BY DEF TypeInv, TypeOK
  <1>5. PAGE_SIZE <= e.base
    BY <1>2 DEF LayoutInv, BelowMark
  <1>6. /\ watermark_off + RoundUp(size) <= e.len
        /\ e.base + (watermark_off + RoundUp(size)) < U32
    BY DEF StillFits
  <1> HIDE DEF e
  <1>7. Align(size) = RoundUp(size)
    BY <1>1, <1>2, <1>4, <1>5, <1>6, AlignIsRoundUp
  <1>8. W32(watermark_off + Align(size)) = watermark_off + RoundUp(size)
    BY <1>1, <1>2, <1>4, <1>5, <1>6, <1>7, W32Id
  <1>9. W32(mmap[current_entry].base + watermark_off) = e.base + watermark_off
    BY <1>1, <1>2, <1>3, <1>4, <1>6, W32Id
  <1>10. W64(mmap[current_entry].base + mmap[current_entry].len) = e.base + e.len
    BY <1>2, <1>3, W64Id
  <1>11. ~ Overflows(size)
    BY <1>1, <1>2, <1>4, <1>6, <1>8, <1>10 DEF Overflows
  <1> QED
    BY <1>1, <1>2, <1>4, <1>6, <1>8, <1>9, <1>11 DEF e

\* A block put at the top of a stack makes a stack.
LEMMA StackedAppend ==
  ASSUME NEW bs \in Seq(Block), NEW lo \in Nat, NEW hi \in Nat, lo <= hi,
         Stacked(bs, lo, hi), NEW b \in Block, b.base = hi
  PROVE  Stacked(Append(bs, b), lo, hi + RoundUp(b.len))
  <1> DEFINE cs == Append(bs, b)
  <1>1. /\ Len(cs) = Len(bs) + 1 /\ Len(bs) \in Nat
        /\ \A k \in 1..Len(bs) : cs[k] = bs[k] /\ cs[k] \in Block
        /\ cs[Len(bs) + 1] = b
    OBVIOUS
  <1> HIDE DEF cs
  <1>2. \A x \in Block : x.base \in Nat /\ RoundUp(x.len) \in Nat /\ End(x) \in Nat
    <2> TAKE x \in Block
    <2>1. x.base \in Nat /\ x.len \in Nat
      BY DEF Block
    <2>2. RoundUp(x.len) \in Nat
      BY <2>1, RoundUpBounds
    <2> QED
      BY <2>1, <2>2 DEF End
  <1>3. End(b) = hi + RoundUp(b.len) /\ RoundUp(b.len) \in Nat
    BY <1>2 DEF End
  <1>4. \A k \in 1..Len(bs) : lo <= cs[k].base /\ End(cs[k]) <= hi /\ End(cs[k]) \in Nat
    BY <1>1, <1>2 DEF Stacked
  <1>5. \A j, k \in 1..Len(bs) : j < k => End(cs[j]) <= cs[k].base
    BY <1>1 DEF Stacked
  <1>6. ASSUME NEW k \in 1..Len(cs)
        PROVE  lo <= cs[k].base /\ End(cs[k]) <= hi + RoundUp(b.len)
    <2>1. CASE k \in 1..Len(bs)
      BY <2>1, <1>3, <1>4
    <2>2. CASE k = Len(bs) + 1
      BY <2>2, <1>1, <1>3
    <2> QED
      BY <1>1, <2>1, <2>2
  <1>7. ASSUME NEW j \in 1..Len(cs), NEW k \in 1..Len(cs), j < k
        PROVE  End(cs[j]) <= cs[k].base
    <2>1. CASE k \in 1..Len(bs)
      BY <2>1, <1>1, <1>5, <1>7
    <2>2. CASE k = Len(bs) + 1
      BY <2>2, <1>1, <1>4, <1>7
    <2> QED
      BY <1>1, <2>1, <2>2
  <1> QED
    BY <1>6, <1>7 DEF Stacked, cs

\* The layout holds before the first call.
LEMMA LayoutInit == Init => LayoutInv
  <1> SUFFICES ASSUME Init PROVE LayoutInv
    OBVIOUS
  <1>1. SameRanges /\ FirstThings
    BY DEF Init, SameRanges, FirstThings
  <1>2. BelowMark
    BY DEF Init, BelowMark
  <1>3. NoOverrun
    BY Zenon DEF Init, NoOverrun
  <1> QED
    BY <1>1, <1>2, <1>3 DEF LayoutInv

\* The first watermark_update_mmap() starts a stack at an eligible entry.
LEMMA LayoutFirstBase ==
  ASSUME TypeInv, LayoutInv, FirstBase PROVE LayoutInv'
  <1>1. phase = "start" /\ current_entry = -1 /\ mmap = map0.entries
        /\ mmap_len = map0.len /\ blocks = <<>>
    BY DEF FirstBase, LayoutInv, FirstThings, SameRanges
  <1>2. SameRanges' /\ NoOverrun'
    BY <1>1 DEF FirstBase, SameRanges, NoOverrun, LayoutInv
  <1>3. CASE UNCHANGED <<current_entry, watermark_off>>
    <2>1. FirstThings' /\ BelowMark'
      BY <1>1, <1>3 DEF FirstBase, FirstThings, BelowMark
    <2> QED
      BY <1>2, <2>1 DEF LayoutInv
  <1>4. CASE current_entry' \in Largest(mmap, mmap_len) /\ watermark_off' = 0
    <2> DEFINE e == map0.entries[current_entry']
    <2>1. /\ current_entry' \in 0..(map0.len - 1)
          /\ e.type = AVAILABLE /\ LOWMEM <= e.base /\ e.base < U32 - 1
      BY <1>1, <1>4 DEF Largest, Eligible
    <2>2. e.base \in Nat /\ e.len \in Nat
      BY <2>1, PublishedMap DEF TypeInv
    <2>3. Stacked(<<>>, e.base, e.base)
      BY DEF Stacked
    <2>4. UNCHANGED <<mmap, map0, blocks, fits>> /\ phase' = "alloc"
      BY DEF FirstBase
    <2>5. FirstThings'
      BY <1>1, <2>1, <2>4 DEF FirstThings
    <2>6. BelowMark'
      BY <1>1, <1>4, <2>1, <2>2, <2>3, <2>4 DEF BelowMark
    <2> QED
      BY <1>2, <2>5, <2>6 DEF LayoutInv
  <1> QED
    BY <1>3, <1>4 DEF FirstBase

\* alloc() from the current entry puts a block on top of the stack.
LEMMA LayoutAllocHere ==
  ASSUME TypeInv, LayoutInv, NEW size \in Sizes, AllocHere(size)
  PROVE  LayoutInv'
  <1>1. /\ phase = "alloc" /\ current_entry # -1
        /\ HandOut(current_entry, watermark_off, size)
        /\ UNCHANGED <<mmap, mmap_len, current_entry, overrun, phase, map0>>
    BY DEF AllocHere, Request
  <1>2. SameRanges' /\ FirstThings' /\ NoOverrun'
    BY <1>1 DEF LayoutInv, SameRanges, FirstThings, NoOverrun
  <1>3. BelowMark'
    <2> SUFFICES ASSUME fits' PROVE BelowMark'
      BY DEF BelowMark
    <2> DEFINE e == map0.entries[current_entry]
               b == [base |-> e.base + watermark_off, len |-> size]
    <2>1. fits /\ StillFits(size)
      BY <1>1 DEF HandOut
    <2>2. /\ watermark_off' = watermark_off + RoundUp(size)
          /\ blocks' = Append(blocks, b)
          /\ watermark_off + RoundUp(size) <= e.len
          /\ e.base + watermark_off + RoundUp(size) < U32
      BY <1>1, <2>1, FittingRequest DEF HandOut
    <2>3. size \in 0..(U32 - 1) /\ RoundUp(size) \in Nat /\ watermark_off \in Nat
      BY RequestAssumption, RoundUpBounds DEF TypeInv, TypeOK
    <2>4. e.base \in Nat /\ e.len \in Nat
      BY <1>1, PublishedMap DEF TypeInv, LayoutInv, FirstThings
    <2>5. /\ e.type = AVAILABLE /\ LOWMEM <= e.base
          /\ Stacked(blocks, e.base, e.base + watermark_off)
      BY <1>1, <2>1 DEF LayoutInv, BelowMark
    <2> HIDE DEF e
    <2>6. b \in Block
      BY <2>2, <2>3, <2>4 DEF Block
    <2>7. blocks \in Seq(Block)
      BY DEF TypeInv, TypeOK, Block
    <2>8. Stacked(blocks', e.base, e.base + watermark_off + RoundUp(size))
      BY <2>2, <2>3, <2>4, <2>5, <2>6, <2>7, StackedAppend
    <2>9. e.base + watermark_off' = e.base + watermark_off + RoundUp(size)
      BY <2>2, <2>3, <2>4
    <2>10. map0'.entries[current_entry'] = e
      BY <1>1 DEF e
    <2> QED
      BY <2>2, <2>3, <2>4, <2>5, <2>8, <2>9, <2>10 DEF BelowMark
  <1> QED
    BY <1>2, <1>3 DEF LayoutInv

\* A rebase is never the answer to a request that fits.
LEMMA LayoutAllocRebased ==
  ASSUME TypeInv, LayoutInv, NEW size \in Sizes, AllocRebased(size)
  PROVE  LayoutInv'
  <1>1. /\ phase = "alloc" /\ current_entry # -1 /\ Overflows(size)
        /\ UNCHANGED <<mmap_len, overrun, phase, map0>>
    BY DEF AllocRebased, Request
  <1>2. PICK j \in Largest(mmap, mmap_len) :
          /\ mmap' = Retire(mmap, current_entry)
          /\ current_entry' = j
          /\ HandOut(j, 0, size)
    BY DEF AllocRebased
  <1>3. mmap_len = map0.len /\ mmap \in EntryArray /\ mmap_len \in 1..CAP
    BY <1>1 DEF LayoutInv, SameRanges, TypeInv, TypeOK
  <1>4. j \in 0..(map0.len - 1)
    BY <1>2, <1>3 DEF Largest, Eligible
  <1>5. ~ fits'
    BY <1>1, <1>2, FittingRequest DEF HandOut
  <1>6. \A k \in Slots : mmap'[k].base = mmap[k].base /\ mmap'[k].len = mmap[k].len
    BY <1>2, <1>3 DEF Retire, EntryArray, Entry
  <1>7. SameRanges'
    BY <1>1, <1>3, <1>6 DEF LayoutInv, SameRanges, Slots
  <1>8. FirstThings'
    BY <1>1, <1>2, <1>4 DEF LayoutInv, FirstThings
  <1>9. BelowMark' /\ NoOverrun'
    BY <1>1, <1>5 DEF LayoutInv, BelowMark, NoOverrun
  <1> QED
    BY <1>7, <1>8, <1>9 DEF LayoutInv

\* A refusal changes the type of an entry, and no range.
LEMMA LayoutAllocNull ==
  ASSUME TypeInv, LayoutInv, NEW size \in Sizes, AllocNull(size)
  PROVE  LayoutInv'
  <1>1. /\ phase = "alloc" /\ mmap' = Retire(mmap, current_entry)
        /\ UNCHANGED <<mmap_len, current_entry, watermark_off, overrun, phase,
                       blocks, map0, fits>>
    BY DEF AllocNull, Request
  <1>2. mmap_len = map0.len /\ mmap \in EntryArray /\ mmap_len \in 1..CAP
    BY <1>1 DEF LayoutInv, SameRanges, TypeInv, TypeOK
  <1>3. \A k \in Slots : mmap'[k].base = mmap[k].base /\ mmap'[k].len = mmap[k].len
    BY <1>1, <1>2 DEF Retire, EntryArray, Entry
  <1>4. SameRanges'
    BY <1>1, <1>2, <1>3 DEF LayoutInv, SameRanges, Slots
  <1>5. FirstThings' /\ BelowMark' /\ NoOverrun'
    BY <1>1 DEF LayoutInv, FirstThings, BelowMark, NoOverrun
  <1> QED
    BY <1>4, <1>5 DEF LayoutInv

\* The split at the hand-off leaves the array only if the map fills more than
\* half of it.
LEMMA LayoutHandOff ==
  ASSUME TypeInv, LayoutInv, HandOff PROVE LayoutInv'
  <1>1. /\ phase = "alloc" /\ phase' \in {"done", "wild"}
        /\ UNCHANGED <<current_entry, watermark_off, blocks, map0, fits>>
    BY DEF HandOff
  <1>2. SameRanges' /\ FirstThings' /\ BelowMark'
    BY <1>1 DEF LayoutInv, SameRanges, FirstThings, BelowMark
  <1>3. NoOverrun'
    <2>1. CASE Moved(mmap_len) = 0
      BY <1>1, <2>1 DEF HandOff, LayoutInv, NoOverrun
    <2>2. CASE Moved(mmap_len) # 0
      <3>1. /\ current_entry \in 0..(map0.len - 1) /\ mmap_len = map0.len
            /\ map0.len \in 1..CAP
        BY <1>1, PublishedMap DEF HandOff, LayoutInv, FirstThings, SameRanges, TypeInv
      <3>2. phase' = "done" /\ overrun' = (current_entry + Moved(mmap_len) >= CAP)
        BY <2>2 DEF HandOff
      <3>3. current_entry + Moved(mmap_len) >= CAP => 2 * map0.len > CAP + 1
        BY <3>1 DEF Moved
      <3>4. UNCHANGED map0
        BY <1>1
      <3> QED
        BY <3>2, <3>3, <3>4, Zenon DEF NoOverrun
    <2> QED
      BY <2>1, <2>2
  <1> QED
    BY <1>2, <1>3 DEF LayoutInv

\* The layout holds in every reachable state.
THEOREM LayoutCorrect == Spec => []LayoutInv
  <1>1. TypeInv /\ LayoutInv /\ [Next]_vars => LayoutInv'
    <2> SUFFICES ASSUME TypeInv, LayoutInv, [Next]_vars PROVE LayoutInv'
      OBVIOUS
    <2>1. CASE FirstBase
      BY <2>1, LayoutFirstBase
    <2>2. ASSUME NEW size \in Sizes, AllocHere(size) PROVE LayoutInv'
      BY <2>2, LayoutAllocHere
    <2>3. ASSUME NEW size \in Sizes, AllocRebased(size) PROVE LayoutInv'
      BY <2>3, LayoutAllocRebased
    <2>4. ASSUME NEW size \in Sizes, AllocNull(size) PROVE LayoutInv'
      BY <2>4, LayoutAllocNull
    <2>5. ASSUME NEW size \in Sizes, AllocWild(size) PROVE LayoutInv'
      BY <2>5 DEF AllocWild, Request, LayoutInv, SameRanges, FirstThings,
                  BelowMark, NoOverrun
    <2>6. CASE HandOff
      BY <2>6, LayoutHandOff
    <2>7. CASE HandOffUnset
      BY <2>7 DEF HandOffUnset, LayoutInv, SameRanges, FirstThings,
                  BelowMark, NoOverrun
    <2>8. CASE UNCHANGED vars
      BY <2>8 DEF vars, LayoutInv, SameRanges, FirstThings, BelowMark, NoOverrun
    <2> QED
      BY <2>1, <2>2, <2>3, <2>4, <2>5, <2>6, <2>7, <2>8 DEF Next, Alloc
  <1> QED
    BY <1>1, LayoutInit, TypeCorrect, PTL DEF Spec

-----------------------------------------------------------------------------
(* The properties                                                          *)

\* A block is a record of naturals, and ends before the rest of its last page.
LEMMA BlockBounds ==
  ASSUME TypeOK, NEW k \in 1..Len(blocks)
  PROVE  /\ blocks[k].base \in Nat /\ blocks[k].len \in Nat
         /\ End(blocks[k]) \in Nat
         /\ blocks[k].base + blocks[k].len <= End(blocks[k])
  <1>1. blocks \in Seq(Block)
    BY DEF TypeOK, Block
  <1>2. blocks[k] \in Block
    BY <1>1
  <1>3. blocks[k].base \in Nat /\ blocks[k].len \in Nat
    BY <1>2 DEF Block
  <1>4. RoundUp(blocks[k].len) \in Nat /\ blocks[k].len <= RoundUp(blocks[k].len)
    BY <1>3, RoundUpBounds
  <1> QED
    BY <1>3, <1>4 DEF End

\* While requests fit, no byte is handed out twice.
THEOREM BlocksAreApart == Spec => []BlocksApart
  <1>1. TypeInv /\ LayoutInv => BlocksApart
    <2> SUFFICES ASSUME TypeInv, LayoutInv, fits,
                        NEW j \in 1..Len(blocks), NEW k \in 1..Len(blocks), j < k
                 PROVE  Apart(blocks[j], blocks[k])
      BY DEF BlocksApart
    <2>1. current_entry # -1
      BY DEF LayoutInv, FirstThings
    <2>2. End(blocks[j]) <= blocks[k].base
      BY <2>1 DEF LayoutInv, BelowMark, Stacked
    <2>3. /\ blocks[j].base \in Nat /\ blocks[j].len \in Nat
          /\ blocks[k].base \in Nat /\ End(blocks[j]) \in Nat
          /\ blocks[j].base + blocks[j].len <= End(blocks[j])
      BY BlockBounds DEF TypeInv
    <2> QED
      BY <2>2, <2>3 DEF Apart
  <1> QED
    BY <1>1, TypeCorrect, LayoutCorrect, PTL

\* While requests fit, blocks come from one published available entry, above
\* 1 MiB.
THEOREM BlocksAreAvailable == Spec => []BlocksInAvailable
  <1>1. TypeInv /\ LayoutInv => BlocksInAvailable
    <2> SUFFICES ASSUME TypeInv, LayoutInv, fits, NEW k \in 1..Len(blocks)
                 PROVE  \E i \in 0..(map0.len - 1) :
                          LET e == map0.entries[i]
                          IN  /\ e.type = AVAILABLE /\ LOWMEM <= blocks[k].base
                              /\ e.base <= blocks[k].base
                              /\ blocks[k].base + blocks[k].len <= e.base + e.len
      BY DEF BlocksInAvailable
    <2> DEFINE e == map0.entries[current_entry]
    <2>1. current_entry # -1 /\ current_entry \in 0..(map0.len - 1)
      BY DEF LayoutInv, FirstThings
    <2>2. /\ e.type = AVAILABLE /\ LOWMEM <= e.base /\ watermark_off <= e.len
          /\ e.base <= blocks[k].base /\ End(blocks[k]) <= e.base + watermark_off
      BY <2>1 DEF LayoutInv, BelowMark, Stacked
    <2>3. /\ blocks[k].base \in Nat /\ blocks[k].len \in Nat /\ watermark_off \in Nat
          /\ End(blocks[k]) \in Nat /\ blocks[k].base + blocks[k].len <= End(blocks[k])
      BY BlockBounds DEF TypeInv, TypeOK
    <2>4. e.base \in Nat /\ e.len \in Nat
      BY <2>1, PublishedMap DEF TypeInv
    <2> HIDE DEF e
    <2>5. /\ LOWMEM <= blocks[k].base
          /\ blocks[k].base + blocks[k].len <= e.base + e.len
      BY SMTT(30), <2>2, <2>3, <2>4
    <2> QED
      BY <2>1, <2>2, <2>5 DEF e
  <1> QED
    BY <1>1, TypeCorrect, LayoutCorrect, PTL

\* A request that ends inside the entry is not turned away.
THEOREM FittingIsServed == Spec => []FittingServed
  <1>1. TypeInv /\ LayoutInv => FittingServed
    BY FittingRequest DEF FittingServed
  <1> QED
    BY <1>1, TypeCorrect, LayoutCorrect, PTL

\* The type invariant the runs check.
THEOREM TypesHold == Spec => []TypeOK
  <1>1. TypeInv => TypeOK
    BY DEF TypeInv
  <1> QED
    BY <1>1, TypeCorrect, PTL

-----------------------------------------------------------------------------
(* The hand-off                                                            *)

\* If an entry is eligible, watermark_get_new_base() finds one: of the longest
\* the first.
LEMMA LargestExists ==
  ASSUME NEW m \in EntryArray, NEW n \in 1..CAP, Eligible(m, n) # {}
  PROVE  Largest(m, n) # {}
  <1> DEFINE E    == Eligible(m, n)
             lens == {m[k].len : k \in E}
  <1>1. \A k \in E : k \in Nat /\ m[k].len \in Nat /\ m[k].len <= U64
    BY SMTT(30) DEF Eligible, Slots, EntryArray, Entry
  <1>2. lens \in SUBSET Nat /\ lens # {} /\ \A x \in lens : x <= U64
    BY <1>1
  <1>3. PICK l \in lens : \A x \in lens : x <= l
    <2> HIDE DEF lens
    <2> QED
      BY <1>2, GreatestNat
  <1> DEFINE first == {k \in E : m[k].len = l}
  <1>4. first \in SUBSET Nat /\ first # {}
    BY <1>1, <1>3
  <1>5. PICK j \in first : \A k \in first : j <= k
    <2> HIDE DEF first
    <2> QED
      BY <1>4, LeastNat
  <1>6. ASSUME NEW k \in E PROVE m[k].len < m[j].len \/ (m[k].len = m[j].len /\ j <= k)
    <2>1. m[k].len <= l /\ m[j].len = l /\ l \in Nat /\ m[k].len \in Nat
      BY <1>1, <1>3, <1>5
    <2> QED
      BY <2>1, <1>5
  <1>7. j \in Largest(m, n)
    BY <1>5, <1>6 DEF Largest
  <1> QED
    BY <1>7

\* While requests fit, no entry is retired.
Kept == phase \in {"start", "alloc"} /\ fits => mmap = map0.entries

\* The entry allocated from is one that can be chosen again.
StillEligible ==
  current_entry # -1 /\ fits => current_entry \in Eligible(map0.entries, map0.len)

\* The blocks leave nothing out between the base of the entry and the mark.
TakenToMark ==
  current_entry # -1 /\ fits =>
    LET lo == map0.entries[current_entry].base
    IN  \A a \in Int : Taken(a) <=> (lo <= a /\ a < lo + watermark_off)

\* What the kernel receives is the published map, split once.
SplitOnce ==
  phase = "done" /\ current_entry # -1 /\ fits =>
    /\ mmap = Split(map0.entries, map0.len, current_entry, watermark_off)
    /\ mmap_len = map0.len + 1

\* There is an entry whenever there is a usable bank.
Based ==
  /\ UsableBank /\ phase # "start" => current_entry # -1
  /\ phase = "wild" => current_entry = -1 \/ map0.len = 1

HandOffInv == Kept /\ StillEligible /\ TakenToMark /\ SplitOnce /\ Based

\* A refusal comes only after a request that did not fit: until then the entry
\* itself is still there to be chosen.
LEMMA NullAfterMisfit ==
  ASSUME TypeInv, LayoutInv, HandOffInv, NEW size \in Sizes, AllocNull(size)
  PROVE  ~ fits
  <1> SUFFICES ASSUME fits PROVE FALSE
    OBVIOUS
  <1>1. /\ phase = "alloc" /\ current_entry # -1 /\ Largest(mmap, mmap_len) = {}
    BY DEF AllocNull, Request
  <1>2. mmap = map0.entries /\ mmap_len = map0.len
    BY <1>1 DEF HandOffInv, Kept, LayoutInv, SameRanges
  <1>3. Eligible(mmap, mmap_len) # {}
    BY <1>1, <1>2 DEF HandOffInv, StillEligible
  <1>4. mmap \in EntryArray /\ mmap_len \in 1..CAP
    BY <1>1 DEF TypeInv, TypeOK
  <1> QED
    BY <1>1, <1>3, <1>4, LargestExists

\* The address lies in a page of one of the blocks.
InPages(bs, a) ==
  \E k \in 1..Len(bs) : bs[k].base <= a /\ a < bs[k].base + RoundUp(bs[k].len)

\* The pages of the blocks are the addresses from lo to hi.
PagesAre(bs, lo, hi) == \A a \in Int : InPages(bs, a) <=> (lo <= a /\ a < hi)

\* A block on top raises the taken addresses by its pages.
LEMMA TakenAppend ==
  ASSUME NEW bs \in Seq(Block), NEW lo \in Nat, NEW off \in Nat,
         NEW b \in Block, b.base = lo + off, PagesAre(bs, lo, lo + off)
  PROVE  PagesAre(Append(bs, b), lo, lo + (off + RoundUp(b.len)))
  <1> DEFINE cs == Append(bs, b)
  <1>1. /\ Len(cs) = Len(bs) + 1 /\ Len(bs) \in Nat
        /\ \A k \in 1..Len(bs) : cs[k] = bs[k]
        /\ cs[Len(bs) + 1] = b
    OBVIOUS
  <1>2. RoundUp(b.len) \in Nat
    BY RoundUpBounds DEF Block
  <1> HIDE DEF cs
  <1> SUFFICES ASSUME NEW a \in Int
               PROVE  (\E k \in 1..Len(cs) : cs[k].base <= a /\ a < cs[k].base + RoundUp(cs[k].len))
                        <=> (lo <= a /\ a < lo + (off + RoundUp(b.len)))
    BY DEF PagesAre, InPages, cs
  <1> DEFINE In(x) == x.base <= a /\ a < x.base + RoundUp(x.len)
  <1>3. (\E k \in 1..Len(cs) : In(cs[k])) <=> (\E k \in 1..Len(bs) : In(bs[k])) \/ In(b)
    <2> HIDE DEF In
    <2>1. \A k : k \in 1..Len(cs) <=> k \in 1..Len(bs) \/ k = Len(bs) + 1
      BY <1>1
    <2> QED
      BY <1>1, <2>1
  <1>4. In(b) <=> lo + off <= a /\ a < lo + off + RoundUp(b.len)
    OBVIOUS
  <1>5. (\E k \in 1..Len(bs) : In(bs[k])) <=> (lo <= a /\ a < lo + off)
    BY DEF PagesAre, InPages
  <1> HIDE DEF In
  <1>6. (\E k \in 1..Len(cs) : In(cs[k])) <=> (lo <= a /\ a < lo + (off + RoundUp(b.len)))
    BY <1>2, <1>3, <1>4, <1>5
  <1> QED
    BY <1>6 DEF In

\* Before the first call nothing is taken.
LEMMA HandOffInit == Init => HandOffInv
  <1> SUFFICES ASSUME Init PROVE HandOffInv
    OBVIOUS
  <1>1. current_entry = -1 /\ phase = "start" /\ mmap = map0.entries
    BY DEF Init
  <1> QED
    BY <1>1 DEF HandOffInv, Kept, StillEligible, TakenToMark, SplitOnce, Based

\* The first watermark_update_mmap() finds an entry if there is one.
LEMMA HandOffFirstBase ==
  ASSUME TypeInv, LayoutInv, HandOffInv, FirstBase PROVE HandOffInv'
  <1>1. /\ phase = "start" /\ phase' = "alloc" /\ current_entry = -1
        /\ mmap = map0.entries /\ mmap_len = map0.len /\ blocks = <<>>
        /\ UNCHANGED <<mmap, mmap_len, blocks, map0, fits>>
    BY DEF FirstBase, LayoutInv, FirstThings, SameRanges
  <1>2. Kept' /\ SplitOnce'
    BY <1>1 DEF Kept, SplitOnce
  <1>3. CASE Largest(mmap, mmap_len) = {} /\ current_entry' = current_entry
    <2>1. StillEligible' /\ TakenToMark'
      BY <1>1, <1>3 DEF StillEligible, TakenToMark
    <2>2. Eligible(mmap, mmap_len) = {}
      BY <1>1, <1>3, PublishedMap, LargestExists DEF TypeInv
    <2>3. ~ UsableBank'
      BY <1>1, <2>2 DEF UsableBank, Eligible
    <2>4. Based'
      BY <1>1, <2>3 DEF Based
    <2> QED
      BY <1>2, <2>1, <2>4 DEF HandOffInv
  <1>4. CASE current_entry' \in Largest(mmap, mmap_len) /\ watermark_off' = 0
    <2>1. current_entry' \in Eligible(map0.entries, map0.len)
      BY <1>1, <1>4 DEF Largest
    <2>2. current_entry' # -1 /\ current_entry' \in 0..(map0.len - 1)
      BY <2>1 DEF Eligible
    <2>3. map0.entries[current_entry'].base \in Nat
      BY <2>2, PublishedMap DEF TypeInv
    <2>4. \A a : ~ Taken(a)'
      BY <1>1 DEF Taken
    <2>5. TakenToMark'
      BY <1>1, <1>4, <2>3, <2>4 DEF TakenToMark
    <2>6. StillEligible' /\ Based'
      BY <1>1, <2>1, <2>2 DEF StillEligible, Based
    <2> QED
      BY <1>2, <2>5, <2>6 DEF HandOffInv
  <1> QED
    BY <1>3, <1>4 DEF FirstBase

\* alloc() from the current entry takes the bytes up to the new mark.
LEMMA HandOffAllocHere ==
  ASSUME TypeInv, LayoutInv, HandOffInv, NEW size \in Sizes, AllocHere(size)
  PROVE  HandOffInv'
  <1>1. /\ phase = "alloc" /\ current_entry # -1
        /\ HandOut(current_entry, watermark_off, size)
        /\ UNCHANGED <<mmap, mmap_len, current_entry, overrun, phase, map0>>
    BY DEF AllocHere, Request
  <1>2. fits' => fits /\ StillFits(size)
    BY <1>1 DEF HandOut
  <1>3. Kept' /\ StillEligible' /\ SplitOnce'
    BY <1>1, <1>2 DEF HandOffInv, Kept, StillEligible, SplitOnce
  <1>4. Based'
    <2>1. UsableBank' = UsableBank
      BY <1>1 DEF UsableBank
    <2> QED
      BY <1>1, <2>1 DEF HandOffInv, Based
  <1>5. TakenToMark'
    <2> SUFFICES ASSUME fits' PROVE TakenToMark'
      BY DEF TakenToMark
    <2> DEFINE lo == map0.entries[current_entry].base
               b  == [base |-> lo + watermark_off, len |-> size]
    <2>1. /\ watermark_off' = watermark_off + RoundUp(size)
          /\ blocks' = Append(blocks, b)
          /\ lo + watermark_off + RoundUp(size) < U32
      BY <1>1, <1>2, FittingRequest DEF HandOut
    <2>2. size \in 0..(U32 - 1) /\ RoundUp(size) \in Nat /\ watermark_off \in Nat
      BY RequestAssumption, RoundUpBounds DEF TypeInv, TypeOK
    <2>3. lo \in Nat
      BY <1>1, PublishedMap DEF TypeInv, LayoutInv, FirstThings
    <2>4. \A a \in Int : Taken(a) <=> (lo <= a /\ a < lo + watermark_off)
      BY <1>1, <1>2 DEF HandOffInv, TakenToMark
    <2>5. map0'.entries[current_entry'].base = lo
      BY <1>1
    <2> HIDE DEF lo
    <2>6. b \in Block
      BY <2>1, <2>2, <2>3 DEF Block
    <2>7. blocks \in Seq(Block)
      BY DEF TypeInv, TypeOK, Block
    <2>8. PagesAre(blocks, lo, lo + watermark_off)
      BY <2>4 DEF Taken, PagesAre, InPages
    <2>9. b.base = lo + watermark_off /\ b.len = size
      OBVIOUS
    <2> HIDE DEF b
    <2>10. PagesAre(blocks', lo, lo + (watermark_off + RoundUp(b.len)))
      BY <2>1, <2>2, <2>3, <2>6, <2>7, <2>8, <2>9, TakenAppend
    <2>11. \A a \in Int : Taken(a)' <=> (lo <= a /\ a < lo + watermark_off')
      BY <2>1, <2>9, <2>10 DEF Taken, PagesAre, InPages
    <2> QED
      BY <2>5, <2>11 DEF TakenToMark
  <1> QED
    BY <1>3, <1>4, <1>5 DEF HandOffInv

\* Only a request that does not fit makes alloc() leave its entry.
LEMMA HandOffAllocRebased ==
  ASSUME TypeInv, LayoutInv, HandOffInv, NEW size \in Sizes, AllocRebased(size)
  PROVE  HandOffInv'
  <1>1. /\ phase = "alloc" /\ current_entry # -1 /\ Overflows(size)
        /\ UNCHANGED <<mmap_len, overrun, phase, map0>>
    BY DEF AllocRebased, Request
  <1>2. PICK j \in Largest(mmap, mmap_len) : current_entry' = j /\ HandOut(j, 0, size)
    BY DEF AllocRebased
  <1>3. ~ fits'
    BY <1>1, <1>2, FittingRequest DEF HandOut
  <1>4. current_entry' # -1
    BY <1>2 DEF Largest, Eligible
  <1> QED
    BY <1>1, <1>3, <1>4 DEF HandOffInv, Kept, StillEligible, TakenToMark,
                            SplitOnce, Based

\* The second watermark_update_mmap() splits the published map.
LEMMA HandOffHandOff ==
  ASSUME TypeInv, LayoutInv, HandOffInv, HandOff PROVE HandOffInv'
  <1>1. /\ phase = "alloc" /\ current_entry # -1 /\ phase' \in {"done", "wild"}
        /\ UNCHANGED <<current_entry, watermark_off, blocks, map0, fits>>
    BY DEF HandOff
  <1>2. mmap_len = map0.len
    BY <1>1 DEF LayoutInv, SameRanges
  <1>3. UsableBank' = UsableBank /\ (\A a : Taken(a)' = Taken(a))
    BY <1>1 DEF UsableBank, Taken
  <1>4. Kept' /\ StillEligible'
    BY <1>1 DEF HandOffInv, Kept, StillEligible
  <1>5. TakenToMark'
    BY <1>1, <1>3 DEF HandOffInv, TakenToMark
  <1>6. SplitOnce' /\ Based'
    <2>1. CASE Moved(mmap_len) = 0
      <3>1. phase' = "wild" /\ map0.len = 1
        BY <1>2, <2>1, PublishedMap DEF HandOff, Moved, TypeInv
      <3> QED
        BY <1>1, <1>3, <3>1 DEF SplitOnce, Based
    <2>2. CASE Moved(mmap_len) # 0
      <3>1. /\ phase' = "done" /\ mmap_len' = mmap_len + 1
            /\ mmap' = Split(mmap, mmap_len, current_entry, watermark_off)
        BY <2>2 DEF HandOff
      <3>2. fits => mmap = map0.entries
        BY <1>1 DEF HandOffInv, Kept
      <3> QED
        BY <1>1, <1>2, <1>3, <3>1, <3>2 DEF SplitOnce, Based
    <2> QED
      BY <2>1, <2>2
  <1> QED
    BY <1>4, <1>5, <1>6 DEF HandOffInv

\* The invariant of the hand-off holds in every reachable state.
THEOREM HandOffCorrect == Spec => []HandOffInv
  <1>1. TypeInv /\ LayoutInv /\ HandOffInv /\ [Next]_vars => HandOffInv'
    <2> SUFFICES ASSUME TypeInv, LayoutInv, HandOffInv, [Next]_vars
                 PROVE  HandOffInv'
      OBVIOUS
    <2>1. CASE FirstBase
      BY <2>1, HandOffFirstBase
    <2>2. ASSUME NEW size \in Sizes, AllocHere(size) PROVE HandOffInv'
      BY <2>2, HandOffAllocHere
    <2>3. ASSUME NEW size \in Sizes, AllocRebased(size) PROVE HandOffInv'
      BY <2>3, HandOffAllocRebased
    <2>4. ASSUME NEW size \in Sizes, AllocNull(size) PROVE HandOffInv'
      <3>1. ~ fits /\ phase = "alloc" /\ current_entry # -1
            /\ UNCHANGED <<current_entry, phase, map0, fits>>
        BY <2>4, NullAfterMisfit DEF AllocNull, Request
      <3> QED
        BY <3>1 DEF HandOffInv, Kept, StillEligible, TakenToMark, SplitOnce, Based
    <2>5. ASSUME NEW size \in Sizes, AllocWild(size) PROVE HandOffInv'
      <3>1. /\ phase = "alloc" /\ current_entry = -1 /\ phase' \in {"alloc", "wild"}
            /\ UNCHANGED <<mmap, current_entry, map0, fits>>
        BY <2>5 DEF AllocWild, Request
      <3>2. UsableBank' = UsableBank
        BY <3>1 DEF UsableBank
      <3> QED
        BY <3>1, <3>2 DEF HandOffInv, Kept, StillEligible, TakenToMark, SplitOnce, Based
    <2>6. CASE HandOff
      BY <2>6, HandOffHandOff
    <2>7. CASE HandOffUnset
      <3>1. /\ phase = "alloc" /\ current_entry = -1 /\ phase' = "done"
            /\ UNCHANGED <<mmap, current_entry, map0, fits>>
        BY <2>7 DEF HandOffUnset
      <3>2. UsableBank' = UsableBank
        BY <3>1 DEF UsableBank
      <3> QED
        BY <3>1, <3>2 DEF HandOffInv, Kept, StillEligible, TakenToMark, SplitOnce, Based
    <2>8. CASE UNCHANGED vars
      <3>1. UsableBank' = UsableBank /\ (\A a : Taken(a)' = Taken(a))
        BY <2>8 DEF vars, UsableBank, Taken
      <3> QED
        BY <2>8, <3>1 DEF vars, HandOffInv, Kept, StillEligible, TakenToMark,
                          SplitOnce, Based
    <2> QED
      BY <2>1, <2>2, <2>3, <2>4, <2>5, <2>6, <2>7, <2>8 DEF Next, Alloc
  <1> QED
    BY <1>1, HandOffInit, TypeCorrect, LayoutCorrect, PTL DEF Spec

\* Half of the array is room enough for the split at the hand-off, and once there
\* is an entry to allocate from that is not alone, nothing runs through mmap[-1]
\* and the split does not run away.
THEOREM StaysInTheArray == Spec => []StaysInArray
  <1>1. TypeInv /\ LayoutInv /\ HandOffInv => StaysInArray
    <2> SUFFICES ASSUME TypeInv, LayoutInv, HandOffInv PROVE StaysInArray
      OBVIOUS
    <2>1. 2 * map0.len <= CAP + 1 => ~ overrun
      <3>1. 2 * map0.len <= CAP + 1 => ~ (2 * map0.len > CAP + 1)
        BY PublishedMap DEF TypeInv
      <3> QED
        BY <3>1 DEF LayoutInv, NoOverrun
    <2>2. UsableBank /\ map0.len > 1 => phase # "wild"
      BY DEF HandOffInv, Based
    <2> QED
      BY <2>1, <2>2 DEF StaysInArray
  <1> QED
    BY <1>1, TypeCorrect, LayoutCorrect, HandOffCorrect, PTL

-----------------------------------------------------------------------------
(* The split map                                                           *)

\* What the split leaves at every index, when the entry that is split is not
\* the first: the entries after it one slot up, itself cut in two.
LEMMA SplitShape ==
  ASSUME NEW m \in EntryArray, NEW n \in 1..(CAP - 1), NEW c \in 1..(n - 1),
         NEW off \in 0..(U32 - 1),
         m[c].base + m[c].len < U64, off <= m[c].len
  PROVE  LET s == Split(m, n, c, off)
         IN  /\ \A x \in 0..(c - 1) : s[x] = m[x]
             /\ s[c].base = m[c].base /\ s[c].len = off /\ s[c].type = BOOTSTRAP_ALLOC
             /\ s[c + 1].base = m[c].base + off /\ s[c + 1].len = m[c].len - off
             /\ s[c + 1].type = m[c].type
             /\ \A x \in (c + 2)..n : s[x] = m[x - 1]
  <1> DEFINE u   == ShiftUp(m, c, Moved(n))
             cut == [u EXCEPT ![c + 1].base = W64(@ + off),
                              ![c + 1].len  = W64(@ - off)]
             s   == [cut EXCEPT ![c].len = off, ![c].type = BOOTSTRAP_ALLOC]
  <1>1. c \in Slots /\ c + 1 \in Slots /\ Split(m, n, c, off) = s
    <2>1. c \in Slots /\ c + 1 \in Slots
      BY DEF Slots
    <2>2. Split(m, n, c, off) = s
      BY <2>1, Zenon DEF Split
    <2> QED
      BY <2>1, <2>2
  <1>2. /\ \A x \in 0..c : u[x] = m[x]
        /\ \A x \in (c + 1)..n : u[x] = m[x - 1]
    BY DEF ShiftUp, Moved, Slots
  <1>3. u \in EntryArray /\ m[c] \in Entry
    <2>1. Moved(n) \in Int /\ c \in Int /\ c >= 0
      BY DEF Moved
    <2>2. u \in EntryArray
      BY <2>1, ShiftUpType
    <2> QED
      BY <1>1, <2>2 DEF EntryArray
  <1>4. u[c + 1] = m[c]
    BY <1>2
  <1> HIDE DEF u
  <1>5. W64(m[c].base + off) = m[c].base + off /\ W64(m[c].len - off) = m[c].len - off
    BY <1>3, W64Id DEF Entry
  <1>6. /\ \A x \in Slots \ {c + 1} : cut[x] = u[x]
        /\ cut[c + 1] = [base |-> m[c].base + off, len |-> m[c].len - off, type |-> m[c].type]
    BY <1>1, <1>3, <1>4, <1>5 DEF EntryArray, Entry
  <1>7. cut \in EntryArray
    <2>1. [base |-> m[c].base + off, len |-> m[c].len - off, type |-> m[c].type] \in Entry
      BY <1>3 DEF Entry
    <2>2. DOMAIN cut = Slots /\ cut = [x \in Slots |-> cut[x]]
      BY <1>1, <1>3 DEF EntryArray
    <2>3. \A x \in Slots : cut[x] \in Entry
      BY <1>3, <1>6, <2>1 DEF EntryArray
    <2> HIDE DEF cut
    <2> QED
      BY <2>2, <2>3 DEF EntryArray
  <1> HIDE DEF cut
  <1>8. /\ \A x \in Slots \ {c} : s[x] = cut[x]
        /\ s[c].base = cut[c].base /\ s[c].len = off /\ s[c].type = BOOTSTRAP_ALLOC
    BY <1>1, <1>7 DEF EntryArray, Entry
  <1> HIDE DEF s
  <1>9. \A x \in 0..(c - 1) : s[x] = m[x]
    BY <1>2, <1>6, <1>8 DEF Slots
  <1>10. s[c].base = m[c].base
    BY <1>1, <1>2, <1>6, <1>8
  <1>11. s[c + 1] = [base |-> m[c].base + off, len |-> m[c].len - off, type |-> m[c].type]
    BY <1>1, <1>6, <1>8
  <1>12. \A x \in (c + 2)..n : s[x] = m[x - 1]
    BY <1>2, <1>6, <1>8 DEF Slots
  <1> QED
    BY <1>1, <1>8, <1>9, <1>10, <1>11, <1>12

\* A map that is split stays in order.
LEMMA SplitSorted ==
  ASSUME NEW m \in EntryArray, NEW n \in 1..(CAP - 1), NEW c \in 1..(n - 1),
         NEW off \in 0..(U32 - 1), off <= m[c].len, SortedDisjoint(m, n)
  PROVE  SortedDisjoint(Split(m, n, c, off), n + 1)
  <1> DEFINE s == Split(m, n, c, off)
             Old(x) == IF x <= c THEN x ELSE x - 1
  <1>1. \A k \in 0..(n - 1) : m[k].base \in Nat /\ m[k].len \in Nat
    BY SMTT(30) DEF EntryArray, Entry, Slots
  <1>2. /\ \A k \in 0..(n - 1) : m[k].base + m[k].len < U64
        /\ \A j, k \in 0..(n - 1) : j < k => m[j].base + m[j].len <= m[k].base
    BY DEF SortedDisjoint
  <1>3. /\ \A x \in 0..(c - 1) : s[x] = m[x]
        /\ s[c].base = m[c].base /\ s[c].len = off
        /\ s[c + 1].base = m[c].base + off /\ s[c + 1].len = m[c].len - off
        /\ \A x \in (c + 2)..n : s[x] = m[x - 1]
    BY <1>2, SplitShape
  <1> HIDE DEF s
  \* Every entry lies inside the old one it comes from.
  <1>4. ASSUME NEW x \in 0..n
        PROVE  /\ Old(x) \in 0..(n - 1)
               /\ s[x].base \in Nat /\ s[x].len \in Nat
               /\ m[Old(x)].base <= s[x].base
               /\ s[x].base + s[x].len <= m[Old(x)].base + m[Old(x)].len
    <2>1. CASE x \in 0..(c - 1)
      BY <2>1, <1>1, <1>3
    <2>2. CASE x = c
      BY <2>2, <1>1, <1>3
    <2>3. CASE x = c + 1
      BY <2>3, <1>1, <1>3
    <2>4. CASE x \in (c + 2)..n
      BY <2>4, <1>1, <1>3
    <2> QED
      BY <2>1, <2>2, <2>3, <2>4
  <1>5. ASSUME NEW x \in 0..n, NEW y \in 0..n, x < y
        PROVE  s[x].base + s[x].len <= s[y].base
    <2>1. CASE x = c /\ y = c + 1
      BY <2>1, <1>1, <1>3
    <2>2. CASE ~ (x = c /\ y = c + 1)
      <3>1. Old(x) < Old(y)
        BY <1>5, <2>2
      <3>2. m[Old(x)].base + m[Old(x)].len <= m[Old(y)].base
        BY <1>2, <1>4, <3>1
      <3>3. m[Old(x)].base \in Nat /\ m[Old(x)].len \in Nat /\ m[Old(y)].base \in Nat
        BY <1>1, <1>4
      <3> HIDE DEF Old
      <3> QED
        BY <1>4, <3>2, <3>3
    <2> QED
      BY <2>1, <2>2
  <1>6. ASSUME NEW x \in 0..n PROVE s[x].base + s[x].len < U64
    <2>1. m[Old(x)].base + m[Old(x)].len < U64 /\ m[Old(x)].base \in Nat /\ m[Old(x)].len \in Nat
      BY <1>1, <1>2, <1>4
    <2> HIDE DEF Old
    <2> QED
      BY <1>4, <2>1
  <1> QED
    BY <1>5, <1>6 DEF SortedDisjoint, s

\* A map that is split says of every address what it said before, except of
\* those below the cut.
LEMMA SplitTypes ==
  ASSUME NEW m \in EntryArray, NEW n \in 1..(CAP - 1), NEW c \in 1..(n - 1),
         NEW off \in 0..(U32 - 1), off <= m[c].len, SortedDisjoint(m, n),
         NEW a \in Int
  PROVE  TypesAt(Split(m, n, c, off), n + 1, a)
           = IF m[c].base <= a /\ a < m[c].base + off
             THEN {BOOTSTRAP_ALLOC} ELSE TypesAt(m, n, a)
  <1> DEFINE s == Split(m, n, c, off)
  <1>1. \A k \in 0..(n - 1) : m[k].base \in Nat /\ m[k].len \in Nat
    BY SMTT(30) DEF EntryArray, Entry, Slots
  <1>2. /\ \A k \in 0..(n - 1) : m[k].base + m[k].len < U64
        /\ \A j, k \in 0..(n - 1) : j < k => m[j].base + m[j].len <= m[k].base
    BY DEF SortedDisjoint
  <1>3. /\ \A x \in 0..(c - 1) : s[x] = m[x]
        /\ s[c].base = m[c].base /\ s[c].len = off /\ s[c].type = BOOTSTRAP_ALLOC
        /\ s[c + 1].base = m[c].base + off /\ s[c + 1].len = m[c].len - off
        /\ s[c + 1].type = m[c].type
        /\ \A x \in (c + 2)..n : s[x] = m[x - 1]
    BY <1>2, SplitShape
  <1>4. \A t : t \in TypesAt(s, n + 1, a) <=> \E x \in 0..n : t = s[x].type /\ Within(s[x], a)
    BY DEF TypesAt
  <1>5. \A t : t \in TypesAt(m, n, a) <=> \E x \in 0..(n - 1) : t = m[x].type /\ Within(m[x], a)
    BY DEF TypesAt
  <1> HIDE DEF s
  <1>6. Within(s[c], a) <=> m[c].base <= a /\ a < m[c].base + off
    BY <1>3 DEF Within
  <1>7. Within(s[c + 1], a) <=> Within(m[c], a) /\ ~ Within(s[c], a)
    BY <1>1, <1>3 DEF Within
  <1>8. CASE Within(s[c], a)
    <2>1. ASSUME NEW x \in 0..(n - 1), x # c PROVE ~ Within(m[x], a)
      <3>1. x < c \/ c < x
        BY <2>1
      <3>2. m[x].base + m[x].len <= m[c].base \/ m[c].base + m[c].len <= m[x].base
        BY <1>2, <3>1
      <3>3. m[c].base <= a /\ a < m[c].base + m[c].len
        BY <1>1, <1>6, <1>8
      <3> QED
        BY <1>1, <3>2, <3>3 DEF Within
    <2>2. ASSUME NEW x \in 0..n, x # c PROVE ~ Within(s[x], a)
      <3>1. CASE x \in 0..(c - 1)
        BY <3>1, <2>1, <1>3
      <3>2. CASE x = c + 1
        BY <3>2, <1>7, <1>8
      <3>3. CASE x \in (c + 2)..n
        <4>1. x - 1 \in 0..(n - 1) /\ x - 1 # c /\ s[x] = m[x - 1]
          BY <1>3, <3>3
        <4> QED
          BY <2>1, <4>1
      <3> QED
        BY <2>2, <3>1, <3>2, <3>3
    <2>3. \A t : t \in TypesAt(s, n + 1, a) <=> t = BOOTSTRAP_ALLOC
      <3>1. c \in 0..n
        OBVIOUS
      <3> QED
        BY <1>3, <1>4, <1>8, <2>2, <3>1
    <2> QED
      BY <1>6, <1>8, <2>3 DEF s
  <1>9. CASE ~ Within(s[c], a)
    <2>1. \A t : t \in TypesAt(s, n + 1, a) <=> t \in TypesAt(m, n, a)
      <3> TAKE t
      <3>1. ASSUME NEW x \in 0..n, t = s[x].type, Within(s[x], a)
            PROVE  \E y \in 0..(n - 1) : t = m[y].type /\ Within(m[y], a)
        <4>1. CASE x \in 0..(c - 1)
          BY <4>1, <3>1, <1>3
        <4>2. CASE x = c
          BY <4>2, <3>1, <1>9
        <4>3. CASE x = c + 1
          BY <4>3, <3>1, <1>3, <1>7
        <4>4. CASE x \in (c + 2)..n
          <5>1. x - 1 \in 0..(n - 1) /\ s[x] = m[x - 1]
            BY <1>3, <4>4
          <5> QED
            BY <3>1, <5>1
        <4> QED
          BY <3>1, <4>1, <4>2, <4>3, <4>4
      <3>2. ASSUME NEW y \in 0..(n - 1), t = m[y].type, Within(m[y], a)
            PROVE  \E x \in 0..n : t = s[x].type /\ Within(s[x], a)
        <4>1. CASE y \in 0..(c - 1)
          BY <4>1, <3>2, <1>3
        <4>2. CASE y = c
          BY <4>2, <3>2, <1>3, <1>7, <1>9
        <4>3. CASE y \in (c + 1)..(n - 1)
          <5>1. y + 1 \in 0..n /\ s[y + 1] = m[y]
            <6>1. y + 1 \in (c + 2)..n /\ (y + 1) - 1 = y
              BY <4>3
            <6> QED
              BY <1>3, <6>1
          <5> QED
            BY <3>2, <5>1
        <4> QED
          BY <3>2, <4>1, <4>2, <4>3
      <3> QED
        BY <1>4, <1>5, <3>1, <3>2
    <2> QED
      BY <1>6, <1>9, <2>1 DEF s
  <1> QED
    BY <1>8, <1>9

\* What a good hand-off leaves, in the terms of the lemmas on the split.
LEMMA GoodSplit ==
  ASSUME TypeInv, LayoutInv, HandOffInv, GoodHandOff
  PROVE  /\ map0.entries \in EntryArray /\ map0.len \in 1..(CAP - 1)
         /\ current_entry \in 1..(map0.len - 1)
         /\ watermark_off \in 0..(U32 - 1)
         /\ watermark_off <= map0.entries[current_entry].len
         /\ SortedDisjoint(map0.entries, map0.len)
         /\ mmap = Split(map0.entries, map0.len, current_entry, watermark_off)
         /\ mmap_len = map0.len + 1
         /\ \A a \in Int : Taken(a) <=>
              /\ map0.entries[current_entry].base <= a
              /\ a < map0.entries[current_entry].base + watermark_off
  <1>1. phase = "done" /\ fits /\ current_entry >= 1 /\ map0.len < CAP /\ current_entry # -1
    BY DEF GoodHandOff, TypeInv, TypeOK
  <1>2. map0.entries \in EntryArray /\ map0.len \in 1..(CAP - 1)
    BY <1>1, PublishedMap DEF TypeInv
  <1>3. current_entry \in 1..(map0.len - 1)
    BY <1>1, <1>2 DEF LayoutInv, FirstThings
  <1>4. watermark_off \in 0..(U32 - 1) /\ watermark_off <= map0.entries[current_entry].len
    BY <1>1 DEF LayoutInv, BelowMark, TypeInv, TypeOK
  <1>5. SortedDisjoint(map0.entries, map0.len)
    BY InitMapsAssumption DEF TypeInv, TypeOK
  <1>6. /\ mmap = Split(map0.entries, map0.len, current_entry, watermark_off)
        /\ mmap_len = map0.len + 1
    BY <1>1 DEF HandOffInv, SplitOnce
  <1>7. \A a \in Int : Taken(a) <=>
              /\ map0.entries[current_entry].base <= a
              /\ a < map0.entries[current_entry].base + watermark_off
    BY <1>1 DEF HandOffInv, TakenToMark
  <1> QED
    BY <1>2, <1>3, <1>4, <1>5, <1>6, <1>7

\* At the hand-off the map is in order.
THEOREM HandOffIsSorted == Spec => []HandOffSorted
  <1>1. TypeInv /\ LayoutInv /\ HandOffInv => HandOffSorted
    BY GoodSplit, SplitSorted DEF HandOffSorted
  <1> QED
    BY <1>1, TypeCorrect, LayoutCorrect, HandOffCorrect, PTL

\* At the hand-off the map marks the pages handed out and nothing else.
THEOREM HandOffIsExact == Spec => []HandOffExact
  <1>1. TypeInv /\ LayoutInv /\ HandOffInv => HandOffExact
    <2> SUFFICES ASSUME TypeInv, LayoutInv, HandOffInv, GoodHandOff,
                        NEW a \in 0..(U64 - 1)
                 PROVE  TypesAt(mmap, mmap_len, a) =
                          IF Taken(a) THEN {BOOTSTRAP_ALLOC}
                          ELSE TypesAt(map0.entries, map0.len, a)
      BY DEF HandOffExact
    <2>1. Taken(a) <=> /\ map0.entries[current_entry].base <= a
                       /\ a < map0.entries[current_entry].base + watermark_off
      BY GoodSplit
    <2>2. TypesAt(mmap, mmap_len, a)
           = IF /\ map0.entries[current_entry].base <= a
                /\ a < map0.entries[current_entry].base + watermark_off
             THEN {BOOTSTRAP_ALLOC} ELSE TypesAt(map0.entries, map0.len, a)
      BY GoodSplit, SplitTypes
    <2> QED
      BY <2>1, <2>2
  <1> QED
    BY <1>1, TypeCorrect, LayoutCorrect, HandOffCorrect, PTL
=============================================================================
