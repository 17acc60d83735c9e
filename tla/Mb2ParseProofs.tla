---------------------------- MODULE Mb2ParseProofs ----------------------------
(***************************************************************************)
(* Theorems about the tag parser, for every width, page size, length of    *)
(* the array, image and set of tag sequences that the assumptions of       *)
(* MemoryMap and Mb2Parse allow.                                           *)
(***************************************************************************)
EXTENDS Mb2Parse, LeastElement

USE WidthAssumption, CapAssumption

\* Arithmetic on uint32_t stays in its range.
LEMMA W32Range == \A x \in Int : W32(x) \in 0..(U32 - 1)
  BY DEF W32

\* The same of uint64_t.
LEMMA W64Range == \A x \in Int : W64(x) \in 0..(U64 - 1)
  BY DEF W64

\* A number that fits is kept.
LEMMA W32Id == \A x \in 0..(U32 - 1) : W32(x) = x
  BY DEF W32

\* The same of 64 bits.
LEMMA W64Id == \A x \in 0..(U64 - 1) : W64(x) = x
  BY DEF W64

\* ALIGN() gives a uint32_t.
LEMMA AlignRange == \A v \in Nat : Align(v) \in 0..(U32 - 1)
  <1> SUFFICES ASSUME NEW v \in Nat PROVE Align(v) \in 0..(U32 - 1)
    OBVIOUS
  <1>1. PICK s \in 0..(U32 - 1) : s = W32(v + PAGE_SIZE - 1)
    BY W32Range
  <1>2. s % PAGE_SIZE \in 0..s
    OBVIOUS
  <1> QED
    BY <1>1, <1>2 DEF Align

\* ALIGN() never goes down while it does not wrap.
LEMMA AlignAbove ==
  ASSUME NEW v \in Nat, v + PAGE_SIZE <= U32
  PROVE  v <= Align(v)
  <1>1. W32(v + PAGE_SIZE - 1) = v + PAGE_SIZE - 1
    BY W32Id
  <1>2. (v + PAGE_SIZE - 1) % PAGE_SIZE \in 0..(PAGE_SIZE - 1)
    OBVIOUS
  <1> QED
    BY <1>1, <1>2 DEF Align

-----------------------------------------------------------------------------
(* The tags                                                                *)

\* What is read of a tag has the type of its field.
LEMMA TagTypes ==
  ASSUME tags \in InitTags, NEW p \in 1..Len(tags)
  PROVE  /\ tags[p].kind = "mmap" => tags[p].entries \in Seq(FirmwareEntry)
         /\ tags[p].kind = "module" => /\ tags[p].start \in 0..(U32 - 1)
                                       /\ tags[p].end \in 0..(U32 - 1)
         /\ tags[p].kind = "load_base_addr" => tags[p].addr \in 0..(U32 - 1)
  <1>1. tags \in Seq(AnyTag)
    BY InitTagsAssumption
  <1>2. tags[p] \in AnyTag
    BY <1>1
  <1> QED
    BY <1>2 DEF AnyTag

\* mb2_MMType2Type() gives a uint32_t whatever the firmware's type.
LEMMA CodeRange == \A t : MMType2Type(t) \in 0..(U32 - 1)
  BY TypeCodesAssumption DEF MMType2Type

\* An entry of the firmware becomes an entry of the array.
LEMMA FromFirmwareType ==
  ASSUME NEW e \in FirmwareEntry
  PROVE  /\ FromFirmware(e) \in Entry
         /\ FromFirmware(e).base = e.base /\ FromFirmware(e).len = e.len
         /\ FromFirmware(e).type = MMType2Type(e.type)
  BY CodeRange DEF FromFirmware, FirmwareEntry, Entry

-----------------------------------------------------------------------------
(* Type correctness                                                        *)

\* The first entry that e goes before is one of the array's.
LEMMA PlaceIs ==
  ASSUME NEW m \in EntryArray, NEW j \in Slots, NEW e \in Entry,
         NEW k, k = Place(m, j, e)
  PROVE  /\ k \in 0..j
         /\ k = j \/ e.base <= m[k].base
         /\ \A x \in 0..(k - 1) : m[x].base < e.base
  <1> DEFINE T == {x \in 0..j : x = j \/ e.base <= m[x].base}
  <1>1. PICK x \in T : \A y \in T : x <= y
    <2>1. j \in T /\ T \in SUBSET Nat
      BY DEF Slots
    <2> HIDE DEF T
    <2> QED
      BY <2>1, LeastNat
  <1>2. ASSUME NEW y \in 0..(x - 1) PROVE m[y].base < e.base
    <2>1. y \notin T /\ y \in 0..j /\ y \in Slots
      BY <1>1 DEF Slots
    <2>2. m[y].base \in Int /\ e.base \in Int
      BY <2>1 DEF EntryArray, Entry
    <2> QED
      BY <2>1, <2>2
  <1>3. /\ x \in 0..j
        /\ x = j \/ e.base <= m[x].base
        /\ \A y \in 0..(x - 1) : m[y].base < e.base
    BY <1>1, <1>2
  <1> QED
    BY <1>3 DEF Place

\* Entries that move up are entries.
LEMMA ShiftUpType ==
  ASSUME NEW m \in EntryArray, NEW k \in Nat, NEW n \in Int
  PROVE  ShiftUp(m, k, n) \in EntryArray
  <1>1. ASSUME NEW x \in Slots, x \in (k + 1)..(k + n) PROVE x - 1 \in Slots
    BY <1>1 DEF Slots
  <1> QED
    BY <1>1 DEF ShiftUp, EntryArray

\* The same of entries that move down.
LEMMA ShiftDownType ==
  ASSUME NEW m \in EntryArray, NEW k \in Nat, NEW n \in Int
  PROVE  ShiftDown(m, k, n) \in EntryArray
  BY DEF ShiftDown, EntryArray

\* An array with one more entry is an array of entries.
LEMMA InsertType ==
  ASSUME NEW m \in EntryArray, NEW j \in Slots, NEW e \in Entry
  PROVE  Insert(m, j, e) \in EntryArray
  <1>1. Place(m, j, e) \in 0..j
    BY PlaceIs
  <1>2. Place(m, j, e) \in Nat /\ j - Place(m, j, e) \in Int
    BY <1>1 DEF Slots
  <1>3. ShiftUp(m, Place(m, j, e), j - Place(m, j, e)) \in EntryArray
    BY <1>2, ShiftUpType
  <1> QED
    BY <1>3 DEF Insert, EntryArray

\* An entry of the array with another length.
LEMMA SetLenIs ==
  ASSUME NEW m \in EntryArray, NEW k \in Slots, NEW v,
         NEW r, r = [m EXCEPT ![k].len = v]
  PROVE  r = [m EXCEPT ![k] = [base |-> m[k].base, len |-> v, type |-> m[k].type]]
  <1> DEFINE e == m[k]
  <1>1. e \in Entry /\ DOMAIN m = Slots
    BY DEF EntryArray
  <1>2. r = [m EXCEPT ![k] = [e EXCEPT !.len = v]]
    BY <1>1
  <1> HIDE DEF e
  <1>3. [e EXCEPT !.len = v] = [base |-> e.base, len |-> v, type |-> e.type]
    BY <1>1 DEF Entry
  <1> QED
    BY <1>2, <1>3 DEF e

\* With another type.
LEMMA SetTypeIs ==
  ASSUME NEW m \in EntryArray, NEW k \in Slots, NEW v,
         NEW r, r = [m EXCEPT ![k].type = v]
  PROVE  r = [m EXCEPT ![k] = [base |-> m[k].base, len |-> m[k].len, type |-> v]]
  <1> DEFINE e == m[k]
  <1>1. e \in Entry /\ DOMAIN m = Slots
    BY DEF EntryArray
  <1>2. r = [m EXCEPT ![k] = [e EXCEPT !.type = v]]
    BY <1>1
  <1> HIDE DEF e
  <1>3. [e EXCEPT !.type = v] = [base |-> e.base, len |-> e.len, type |-> v]
    BY <1>1 DEF Entry
  <1> QED
    BY <1>2, <1>3 DEF e

\* With another base.
LEMMA SetBaseIs ==
  ASSUME NEW m \in EntryArray, NEW k \in Slots, NEW v,
         NEW r, r = [m EXCEPT ![k].base = v]
  PROVE  r = [m EXCEPT ![k] = [base |-> v, len |-> m[k].len, type |-> m[k].type]]
  <1> DEFINE e == m[k]
  <1>1. e \in Entry /\ DOMAIN m = Slots
    BY DEF EntryArray
  <1>2. r = [m EXCEPT ![k] = [e EXCEPT !.base = v]]
    BY <1>1
  <1> HIDE DEF e
  <1>3. [e EXCEPT !.base = v] = [base |-> v, len |-> e.len, type |-> e.type]
    BY <1>1 DEF Entry
  <1> QED
    BY <1>2, <1>3 DEF e

\* A field of an entry in the array takes what fits it.
LEMMA SetField ==
  ASSUME NEW m \in EntryArray, NEW k \in Slots, NEW e \in Entry
  PROVE  [m EXCEPT ![k] = e] \in EntryArray
  BY DEF EntryArray

\* An array and the number of entries in use.
Pair == [m : EntryArray, n : Nat]

\* Removing an entry leaves an array of entries.
LEMMA RemoveNextType ==
  ASSUME NEW s \in Pair, NEW k \in Nat, k + 1 < s.n, s.n <= CAP
  PROVE  /\ RemoveNext(s, k) \in Pair
         /\ RemoveNext(s, k).n = s.n - 1
         /\ k = s.n - 2 => RemoveNext(s, k).m[k + 1].type = 0
  <1>1. k + 1 \in Slots /\ s.m \in EntryArray /\ s.n \in Nat
    BY DEF Slots, Pair
  <1>2. NoEntry \in Entry
    BY DEF NoEntry, Entry
  <1>3. ShiftDown(s.m, k + 1, s.n - k - 2) \in EntryArray
    BY SMTT(30), <1>1, ShiftDownType
  <1>4. [s.m EXCEPT ![k + 1] = NoEntry] \in EntryArray
    BY <1>1, <1>2 DEF EntryArray
  <1>5. [s.m EXCEPT ![k + 1] = NoEntry][k + 1].type = 0
    BY <1>1 DEF EntryArray, NoEntry
  <1> QED
    BY <1>1, <1>3, <1>4, <1>5 DEF RemoveNext, Pair

\* A change of the array of a pair is no more than that: of a length,
LEMMA PairLen ==
  ASSUME NEW s \in Pair, NEW k \in Slots, NEW v \in 0..(U64 - 1),
         NEW r, r = [s EXCEPT !.m[k].len = v]
  PROVE  /\ r = [m |-> [s.m EXCEPT ![k] = [base |-> s.m[k].base, len |-> v, type |-> s.m[k].type]],
                n |-> s.n]
         /\ r \in Pair /\ r.n = s.n
  <1>1. PICK z : z = [s.m EXCEPT ![k].len = v]
    OBVIOUS
  <1>2. r = [m |-> z, n |-> s.n]
    BY <1>1 DEF Pair
  <1>3. s.m \in EntryArray /\ s.n \in Nat
    BY DEF Pair
  <1>4. z = [s.m EXCEPT ![k] = [base |-> s.m[k].base, len |-> v, type |-> s.m[k].type]]
    BY <1>1, <1>3, SetLenIs
  <1>5. [base |-> s.m[k].base, len |-> v, type |-> s.m[k].type] \in Entry
    BY <1>3 DEF EntryArray, Entry
  <1>6. z \in EntryArray
    BY <1>3, <1>4, <1>5, SetField
  <1> QED
    BY <1>2, <1>3, <1>4, <1>6 DEF Pair

\* of a type,
LEMMA PairType ==
  ASSUME NEW s \in Pair, NEW k \in Slots, NEW v \in 0..(U32 - 1),
         NEW r, r = [s EXCEPT !.m[k].type = v]
  PROVE  /\ r = [m |-> [s.m EXCEPT ![k] = [base |-> s.m[k].base, len |-> s.m[k].len, type |-> v]],
                n |-> s.n]
         /\ r \in Pair /\ r.n = s.n
  <1>1. PICK z : z = [s.m EXCEPT ![k].type = v]
    OBVIOUS
  <1>2. r = [m |-> z, n |-> s.n]
    BY <1>1 DEF Pair
  <1>3. s.m \in EntryArray /\ s.n \in Nat
    BY DEF Pair
  <1>4. z = [s.m EXCEPT ![k] = [base |-> s.m[k].base, len |-> s.m[k].len, type |-> v]]
    BY SMTT(30), <1>1, <1>3, SetTypeIs
  <1>5. [base |-> s.m[k].base, len |-> s.m[k].len, type |-> v] \in Entry
    BY <1>3 DEF EntryArray, Entry
  <1>6. z \in EntryArray
    BY <1>3, <1>4, <1>5, SetField
  <1> QED
    BY <1>2, <1>3, <1>4, <1>6 DEF Pair

\* of a base.
LEMMA PairBase ==
  ASSUME NEW s \in Pair, NEW k \in Slots, NEW v \in 0..(U64 - 1),
         NEW r, r = [s EXCEPT !.m[k].base = v]
  PROVE  /\ r = [m |-> [s.m EXCEPT ![k] = [base |-> v, len |-> s.m[k].len, type |-> s.m[k].type]],
                n |-> s.n]
         /\ r \in Pair /\ r.n = s.n
  <1>1. PICK z : z = [s.m EXCEPT ![k].base = v]
    OBVIOUS
  <1>2. r = [m |-> z, n |-> s.n]
    BY <1>1 DEF Pair
  <1>3. s.m \in EntryArray /\ s.n \in Nat
    BY DEF Pair
  <1>4. z = [s.m EXCEPT ![k] = [base |-> v, len |-> s.m[k].len, type |-> s.m[k].type]]
    BY <1>1, <1>3, SetBaseIs
  <1>5. [base |-> v, len |-> s.m[k].len, type |-> s.m[k].type] \in Entry
    BY <1>3 DEF EntryArray, Entry
  <1>6. z \in EntryArray
    BY <1>3, <1>4, <1>5, SetField
  <1> QED
    BY <1>2, <1>3, <1>4, <1>6 DEF Pair

\* The loop looks at entry k of s, and s fits into the array.
At2(s, k) == s \in Pair /\ k \in Nat /\ k + 1 < s.n /\ s.n <= CAP

\* A merge removes the next entry or leaves all.
LEMMA MergeType ==
  ASSUME NEW s, NEW k, At2(s, k)
  PROVE  /\ Merge(s, k) \in Pair
         /\ Merge(s, k).n \in {s.n - 1, s.n}
         /\ Merge(s, k).n = k + 1 => Merge(s, k).m[k + 1].type = 0
  <1> USE DEF At2
  <1>1. k \in Slots /\ k + 1 \in Slots /\ s.m \in EntryArray /\ s.n \in Nat
    BY DEF Slots, Pair
  <1>2. PICK v \in 0..(U64 - 1) : v = W64(s.m[k].len + s.m[k + 1].len)
    <2>1. s.m[k].len + s.m[k + 1].len \in Int
      BY <1>1 DEF EntryArray, Entry
    <2> QED
      BY <2>1, W64Range
  <1> DEFINE t == [s EXCEPT !.m[k].len = v]
  <1>3. t \in Pair /\ t.n = s.n
    BY <1>1, PairLen
  <1> HIDE DEF t
  <1>4. /\ RemoveNext(t, k) \in Pair
        /\ RemoveNext(t, k).n = s.n - 1
        /\ k = s.n - 2 => RemoveNext(t, k).m[k + 1].type = 0
    BY <1>3, RemoveNextType
  <1>5. Merge(s, k) = IF s.m[k].type = s.m[k + 1].type THEN RemoveNext(t, k) ELSE s
    BY <1>1, <1>2 DEF Merge, t
  <1>6. s.n # k + 1 /\ (s.n - 1 = k + 1 => k = s.n - 2)
    BY <1>1
  <1> QED
    BY <1>4, <1>5, <1>6

\* So does the choice between two types.
LEMMA PreferType ==
  ASSUME NEW s \in Pair, NEW k \in Nat, NEW delta \in Nat,
         k + 1 <= s.n, k + 1 < CAP, s.n <= CAP,
         s.n = k + 1 => s.m[k + 1].type = 0
  PROVE  /\ Prefer(s, k, delta) \in Pair
         /\ Prefer(s, k, delta).n \in (k + 1)..s.n
  <1>1. k \in Slots /\ k + 1 \in Slots /\ s.m \in EntryArray /\ s.n \in Nat
    BY DEF Slots, Pair
  <1>2. PICK v \in 0..(U64 - 1) : v = W64(s.m[k + 1].base + delta)
    <2>1. s.m[k + 1].base + delta \in Int
      BY <1>1 DEF EntryArray, Entry
    <2> QED
      BY <2>1, W64Range
  <1>3. PICK w \in 0..(U64 - 1) : w = W64(s.m[k + 1].len - delta)
    <2>1. s.m[k + 1].len - delta \in Int
      BY <1>1 DEF EntryArray, Entry
    <2> QED
      BY <2>1, W64Range
  <1>4. PICK x \in 0..(U64 - 1) : x = W64(s.m[k].len - delta)
    <2>1. s.m[k].len - delta \in Int
      BY <1>1 DEF EntryArray, Entry
    <2> QED
      BY <2>1, W64Range
  <1> DEFINE cut == [s EXCEPT !.m[k + 1].base = v, !.m[k + 1].len = w]
             less == [s EXCEPT !.m[k].len = x]
  <1>5. cut \in Pair /\ cut.n = s.n
    <2>1. PICK c : c = [s EXCEPT !.m[k + 1].base = v]
      OBVIOUS
    <2>2. c \in Pair /\ c.n = s.n
      BY <1>1, <2>1, PairBase
    <2>3. PICK d : d = [c EXCEPT !.m[k + 1].len = w]
      OBVIOUS
    <2>4. d \in Pair /\ d.n = s.n
      BY <1>1, <2>2, <2>3, PairLen
    <2>5. cut = d
      BY <2>1, <2>3
    <2> QED
      BY <2>4, <2>5
  <1>6. less \in Pair /\ less.n = s.n
    BY <1>1, PairLen
  <1>7. Prefer(s, k, delta) =
          IF s.m[k].type < s.m[k + 1].type
          THEN IF cut.m[k + 1].len = 0 THEN RemoveNext(cut, k) ELSE cut
          ELSE less
    BY <1>1, <1>2, <1>3, <1>4 DEF Prefer, Pair, EntryArray, Entry
  <1> HIDE DEF cut, less
  <1>8. CASE s.m[k].type < s.m[k + 1].type
    <2>1. s.n # k + 1
      <3>1. s.m[k].type \in Nat
        BY <1>1 DEF EntryArray, Entry
      <3> QED
        BY <1>8, <3>1
    <2>2. RemoveNext(cut, k) \in Pair /\ RemoveNext(cut, k).n = s.n - 1
      BY <1>1, <1>5, <2>1, RemoveNextType
    <2> QED
      BY <1>1, <1>5, <1>7, <1>8, <2>1, <2>2
  <1>9. CASE ~ (s.m[k].type < s.m[k + 1].type)
    BY <1>1, <1>6, <1>7, <1>9
  <1> QED
    BY <1>8, <1>9

\* Resolving an overlap keeps entry k and adds none.
LEMMA OverlapType ==
  ASSUME NEW s, NEW k, At2(s, k)
  PROVE  Overlap(s, k) \in Pair /\ Overlap(s, k).n \in (k + 1)..s.n
  <1> USE DEF At2
  <1>1. k \in Slots /\ k + 1 \in Slots /\ s.m \in EntryArray /\ s.n \in Nat
    BY DEF Slots, Pair
  <1> DEFINE gap == W32(Smaller(Ceil(s.m[k]) - s.m[k + 1].base, s.m[k + 1].len))
  <1>2. gap \in Nat
    <2>1. s.m[k].base + s.m[k].len \in Int /\ s.m[k + 1].base \in Int /\ s.m[k + 1].len \in Int
      BY <1>1 DEF EntryArray, Entry
    <2>2. Ceil(s.m[k]) \in Int
      BY <2>1, W64Range DEF Ceil
    <2>3. Smaller(Ceil(s.m[k]) - s.m[k + 1].base, s.m[k + 1].len) \in Int
      BY <2>1, <2>2 DEF Smaller
    <2> QED
      BY <2>3, W32Range
  <1>3. Overlap(s, k) = IF s.m[k + 1].base < Ceil(s.m[k])
                        THEN Prefer(Merge(s, k), k, gap) ELSE s
    BY DEF Overlap
  <1> HIDE DEF gap
  <1>4. /\ Merge(s, k) \in Pair
        /\ Merge(s, k).n \in {s.n - 1, s.n}
        /\ Merge(s, k).n = k + 1 => Merge(s, k).m[k + 1].type = 0
    BY MergeType
  <1>5. k + 1 <= Merge(s, k).n /\ Merge(s, k).n <= s.n /\ k + 1 < CAP
    BY <1>1, <1>4
  <1>6. /\ Prefer(Merge(s, k), k, gap) \in Pair
        /\ Prefer(Merge(s, k), k, gap).n \in (k + 1)..Merge(s, k).n
    BY <1>1, <1>2, <1>4, <1>5, PreferType
  <1> QED
    BY <1>1, <1>3, <1>4, <1>5, <1>6

\* What a split makes of the array.
LEMMA SplitAtIs ==
  ASSUME NEW s \in Pair, NEW k \in Slots, k + 1 \in Slots, k <= s.n,
         NEW delta \in 0..(U64 - 1)
  PROVE  SplitAt(s, k, delta) =
           [m |-> [x \in Slots |->
                     IF x = k THEN [base |-> s.m[k].base, len |-> delta, type |-> BOOTSTRAP]
                     ELSE IF x = k + 1
                     THEN [base |-> W64(ShiftUp(s.m, k, s.n - k)[k + 1].base + delta),
                           len  |-> W64(ShiftUp(s.m, k, s.n - k)[k + 1].len - delta),
                           type |-> ShiftUp(s.m, k, s.n - k)[k + 1].type]
                     ELSE ShiftUp(s.m, k, s.n - k)[x]],
            n |-> s.n + 1]
  <1>1. s.m \in EntryArray /\ s.n \in Nat /\ k \in Nat
    BY DEF Pair, Slots
  <1> DEFINE up == ShiftUp(s.m, k, s.n - k)
             v == W64(up[k + 1].len - delta)
             w == W64(up[k + 1].base + delta)
  <1>2. up \in EntryArray /\ up[k + 1] \in Entry
    BY <1>1, ShiftUpType DEF EntryArray
  <1>3. up[k] = s.m[k] /\ up[k + 1].len - delta \in Int /\ up[k + 1].base + delta \in Int
    BY <1>1, <1>2 DEF ShiftUp, Entry
  <1>4. SplitAt(s, k, delta) =
          [m |-> [up EXCEPT ![k + 1].len = v, ![k + 1].base = w, ![k].len = delta,
                            ![k].type = BOOTSTRAP],
           n |-> s.n + 1]
    BY <1>2 DEF SplitAt, EntryArray, Entry
  <1> HIDE DEF up
  <1>9. v \in 0..(U64 - 1) /\ w \in 0..(U64 - 1)
    BY <1>3, W64Range
  <1> HIDE DEF v, w
  <1>5. [up EXCEPT ![k + 1].len = v, ![k + 1].base = w, ![k].len = delta,
                            ![k].type = BOOTSTRAP]
           = [x \in Slots |->
                IF x = k THEN [base |-> up[k].base, len |-> delta, type |-> BOOTSTRAP]
                ELSE IF x = k + 1 THEN [base |-> w, len |-> v, type |-> up[k + 1].type]
                ELSE up[x]]
    <2>1. k # k + 1 /\ up[k] \in Entry /\ up[k + 1] \in Entry
      BY <1>2 DEF Slots, EntryArray
    <2>2. PICK r1 : r1 = [up EXCEPT ![k + 1].len = v]
      OBVIOUS
    <2>3. PICK r2 : r2 = [r1 EXCEPT ![k + 1].base = w]
      OBVIOUS
    <2>4. PICK r3 : r3 = [r2 EXCEPT ![k].len = delta]
      OBVIOUS
    <2>0. PICK t \in 0..(U32 - 1) : t = BOOTSTRAP
      BY TypeCodeAssumption
    <2>5. PICK r : r = [r3 EXCEPT ![k].type = t]
      OBVIOUS
    <2>6. PICK e1 : e1 = [base |-> up[k + 1].base, len |-> v, type |-> up[k + 1].type]
      OBVIOUS
    <2>7. e1 \in Entry /\ e1.len = v /\ e1.type = up[k + 1].type
      BY <1>9, <2>1, <2>6 DEF Entry
    <2>8. r1 = [up EXCEPT ![k + 1] = e1]
      BY <1>2, <2>2, <2>6, SetLenIs
    <2>9. r1 \in EntryArray /\ r1[k + 1] = e1
      BY <1>2, <2>7, <2>8, SetField DEF EntryArray
    <2>10. PICK e2 : e2 = [base |-> w, len |-> v, type |-> up[k + 1].type]
      OBVIOUS
    <2>11. e2 \in Entry
      BY <1>9, <2>1, <2>10 DEF Entry
    <2>12. r2 = [r1 EXCEPT ![k + 1] = e2]
      <3>1. r2 = [r1 EXCEPT ![k + 1] = [base |-> w, len |-> r1[k + 1].len,
                                        type |-> r1[k + 1].type]]
        BY <2>3, <2>9, SetBaseIs
      <3> QED
        BY <2>7, <2>9, <2>10, <3>1
    <2>13. r2 \in EntryArray /\ r2[k] = up[k]
      BY <1>2, <2>1, <2>8, <2>9, <2>11, <2>12, SetField DEF EntryArray
    <2>14. PICK e3 : e3 = [base |-> up[k].base, len |-> delta, type |-> up[k].type]
      OBVIOUS
    <2>15. e3 \in Entry /\ e3.base = up[k].base /\ e3.len = delta
      BY <2>1, <2>14 DEF Entry
    <2>16. r3 = [r2 EXCEPT ![k] = e3]
      <3>1. r3 = [r2 EXCEPT ![k] = [base |-> r2[k].base, len |-> delta, type |-> r2[k].type]]
        BY <2>4, <2>13, SetLenIs
      <3> QED
        BY SMTT(30), <2>13, <2>14, <3>1
    <2>17. r3 \in EntryArray /\ r3[k] = e3
      BY <2>13, <2>15, <2>16, SetField DEF EntryArray
    <2>18. PICK e4 : e4 = [base |-> up[k].base, len |-> delta, type |-> t]
      OBVIOUS
    <2>19. r = [r3 EXCEPT ![k] = e4]
      <3>1. r = [r3 EXCEPT ![k] = [r3[k] EXCEPT !.type = t]]
        BY <2>5
      <3>2. [e3 EXCEPT !.type = t] = e4
        BY <2>15, <2>18 DEF Entry
      <3> QED
        BY <2>17, <3>1, <3>2
    <2>20. r = [x \in Slots |-> IF x = k THEN e4 ELSE IF x = k + 1 THEN e2 ELSE up[x]]
      BY <1>2, <2>1, <2>8, <2>12, <2>16, <2>19 DEF EntryArray
    <2> QED
      BY <2>0, <2>2, <2>3, <2>4, <2>5, <2>10, <2>18, <2>20
  <1> QED
    BY ZenonT(30), <1>3, <1>4, <1>5 DEF up, v, w

\* A split adds one entry.
LEMMA SplitAtType ==
  ASSUME NEW s \in Pair, NEW k \in Slots, NEW delta \in 0..(U64 - 1),
         k + 1 \in Slots, k <= s.n
  PROVE  SplitAt(s, k, delta) \in Pair /\ SplitAt(s, k, delta).n = s.n + 1
  <1>1. s.m \in EntryArray /\ s.n \in Nat /\ k \in Nat
    BY DEF Pair, Slots
  <1> DEFINE up == ShiftUp(s.m, k, s.n - k)
             v == W64(up[k + 1].len - delta)
             w == W64(up[k + 1].base + delta)
  <1>2. up \in EntryArray
    BY <1>1, ShiftUpType
  <1>3. s.m[k] \in Entry /\ up[k + 1] \in Entry
    BY <1>1, <1>2 DEF EntryArray
  <1>4. v \in 0..(U64 - 1) /\ w \in 0..(U64 - 1)
    <2>1. up[k + 1].len - delta \in Int /\ up[k + 1].base + delta \in Int
      BY <1>3 DEF Entry
    <2> QED
      BY <2>1, W64Range
  <1>5. BOOTSTRAP \in 0..(U32 - 1)
    BY TypeCodeAssumption
  <1>6. SplitAt(s, k, delta) =
           [m |-> [x \in Slots |->
                     IF x = k THEN [base |-> s.m[k].base, len |-> delta, type |-> BOOTSTRAP]
                     ELSE IF x = k + 1
                     THEN [base |-> w, len |-> v, type |-> up[k + 1].type]
                     ELSE up[x]],
            n |-> s.n + 1]
    BY SplitAtIs
  <1> HIDE DEF up, v, w
  <1>7. /\ [base |-> s.m[k].base, len |-> delta, type |-> BOOTSTRAP] \in Entry
        /\ [base |-> w, len |-> v, type |-> up[k + 1].type] \in Entry
    BY <1>3, <1>4, <1>5 DEF Entry
  <1> QED
    BY <1>1, <1>2, <1>6, <1>7 DEF Pair, EntryArray

\* Marking what the bootstrapper occupies adds one entry at most.
LEMMA ReserveType ==
  ASSUME NEW s \in Pair, NEW k \in Slots, k + 1 \in Slots, k <= s.n,
         end \in 0..(U32 - 1), begin \in 0..(U32 - 1)
  PROVE  Reserve(s, k) \in Pair /\ Reserve(s, k).n \in {s.n, s.n + 1}
  <1>1. s.m \in EntryArray /\ s.n \in Nat /\ BOOTSTRAP \in 0..(U32 - 1)
    BY TypeCodeAssumption DEF Pair
  <1>2. s.m[k].base \in 0..(U64 - 1)
    BY <1>1 DEF EntryArray, Entry
  <1>3. CASE begin <= s.m[k].base /\ s.m[k].base < end
    <2>1. end - s.m[k].base \in 0..(U64 - 1)
      BY <1>2, <1>3
    <2>2. /\ SplitAt(s, k, end - s.m[k].base) \in Pair
          /\ SplitAt(s, k, end - s.m[k].base).n = s.n + 1
      BY <2>1, SplitAtType
    <2>3. /\ [s EXCEPT !.m[k].type = BOOTSTRAP] \in Pair
          /\ [s EXCEPT !.m[k].type = BOOTSTRAP].n = s.n
      BY <1>1, PairType
    <2> QED
      BY <2>2, <2>3 DEF Reserve
  <1>4. CASE ~ (begin <= s.m[k].base /\ s.m[k].base < end)
    BY <1>4 DEF Reserve
  <1> QED
    BY <1>3, <1>4

MetaRecord ==
  [kernel_elf : Nat, initramfs_base : Nat, initramfs_size : Nat,
   image_base : Nat, image_size : Nat, term : Nat, rsdp : Nat,
   mmap_len : 0..CAP, mem_size : 0..(U64 - 1)]

\* In the loops over the memory map a tag of that kind is at hand; the loop
\* that inserts never leaves the array, and the other always has an entry.
TypeInv ==
  /\ TypeOK
  /\ meta \in MetaRecord
  /\ pc = "sort" =>
       /\ pos <= Len(tags) /\ tags[pos].kind = "mmap"
       /\ entries = Len(tags[pos].entries) /\ i <= CAP
  /\ pc = "resolve" =>
       /\ pos <= Len(tags) /\ tags[pos].kind = "mmap"
       /\ entries \in 1..CAP

\* A module is remembered in fields of the metadata.
LEMMA NamedType ==
  ASSUME meta \in MetaRecord, NEW t, t.start \in Nat, t.end \in Nat
  PROVE  /\ Named(t) \in MetaRecord
         /\ Named(t).mmap_len = meta.mmap_len /\ Named(t).mem_size = meta.mem_size
  <1>1. t.end - t.start \in Int
    OBVIOUS
  <1>2. PICK v \in Nat : v = W32(t.end - t.start)
    BY <1>1, W32Range
  <1>3. PICK w \in Nat : w = t.start
    OBVIOUS
  <1>4. [meta EXCEPT !.kernel_elf = w] \in MetaRecord
    BY DEF MetaRecord
  <1>5. PICK r : r = [meta EXCEPT !.initramfs_base = w]
    OBVIOUS
  <1>6. r \in MetaRecord /\ r.mmap_len = meta.mmap_len /\ r.mem_size = meta.mem_size
    BY <1>5 DEF MetaRecord
  <1>7. PICK q : q = [r EXCEPT !.initramfs_size = v]
    OBVIOUS
  <1>8. q \in MetaRecord /\ q.mmap_len = meta.mmap_len /\ q.mem_size = meta.mem_size
    BY <1>6, <1>7 DEF MetaRecord
  <1>9. /\ [meta EXCEPT !.kernel_elf = w].mmap_len = meta.mmap_len
        /\ [meta EXCEPT !.kernel_elf = w].mem_size = meta.mem_size
    BY DEF MetaRecord
  <1>10. CASE t.name = "kernel"
    BY <1>3, <1>4, <1>9, <1>10 DEF Named
  <1>11. CASE t.name = "initramfs"
    <2>1. Named(t) = q
      BY <1>2, <1>3, <1>5, <1>7, <1>11 DEF Named
    <2> QED
      BY <1>8, <2>1
  <1>12. CASE t.name # "kernel" /\ t.name # "initramfs"
    BY <1>12 DEF Named
  <1> QED
    BY <1>10, <1>11, <1>12

\* The record of metadata with a field replaced that is not about the map,
LEMMA MetaSet ==
  ASSUME NEW q \in MetaRecord, NEW v \in Nat, NEW r,
         \/ r = [q EXCEPT !.term = v] \/ r = [q EXCEPT !.rsdp = v]
         \/ r = [q EXCEPT !.image_base = v] \/ r = [q EXCEPT !.image_size = v]
  PROVE  r \in MetaRecord /\ r.mmap_len = q.mmap_len /\ r.mem_size = q.mem_size
  <1>1. CASE r = [q EXCEPT !.term = v]
    BY <1>1 DEF MetaRecord
  <1>2. CASE r = [q EXCEPT !.rsdp = v]
    BY <1>2 DEF MetaRecord
  <1>3. CASE r = [q EXCEPT !.image_base = v]
    BY <1>3 DEF MetaRecord
  <1>4. CASE r = [q EXCEPT !.image_size = v]
    BY <1>4 DEF MetaRecord
  <1> QED
    BY <1>1, <1>2, <1>3, <1>4

\* with the published length,
LEMMA MetaLen ==
  ASSUME NEW q \in MetaRecord, NEW v \in 0..CAP, NEW r, r = [q EXCEPT !.mmap_len = v]
  PROVE  r \in MetaRecord /\ r.mmap_len = v
  BY DEF MetaRecord

\* with the size of the memory.
LEMMA MetaSize ==
  ASSUME NEW q \in MetaRecord, NEW v \in 0..(U64 - 1), NEW r, r = [q EXCEPT !.mem_size = v]
  PROVE  r \in MetaRecord /\ r.mmap_len = q.mmap_len /\ r.mem_size = v
  BY DEF MetaRecord

\* Every variable keeps to its C type, for every set of tag sequences.
THEOREM TypeCorrect == Spec => []TypeInv
  <1>1. Init => TypeInv
    <2> SUFFICES ASSUME Init PROVE TypeInv
      OBVIOUS
    <2>1. Len(tags) \in Nat
      BY InitTagsAssumption DEF Init
    <2>2. arc_mmap \in EntryArray
      BY DEF Init, EntryArray, Entry, NoEntry
    <2>3. meta \in MetaRecord /\ meta.mmap_len = 0 /\ meta.mem_size = 0
      BY DEF Init, MetaRecord
    <2> QED
      BY <2>1, <2>2, <2>3 DEF Init, TypeInv, TypeOK
  <1>2. TypeInv /\ [Next]_vars => TypeInv'
    <2> SUFFICES ASSUME TypeInv, [Next]_vars PROVE TypeInv'
      OBVIOUS
    <2> USE DEF TypeInv
    <2>1. /\ TypeOK /\ meta \in MetaRecord /\ tags \in InitTags /\ Len(tags) \in Nat
          /\ pos \in 1..(Len(tags) + 1)
      BY InitTagsAssumption DEF TypeOK
    <2>2. CASE Start
      BY <2>1, <2>2 DEF Start, TypeOK, input, mapvars
    <2>3. CASE FirstModule
      <3>1. /\ tags[pos].start \in 0..(U32 - 1) /\ tags[pos].end \in 0..(U32 - 1)
            /\ pos \in 1..Len(tags) /\ pc = "first"
        BY <2>1, <2>3, TagTypes DEF FirstModule, At
      <3>2. Align(tags[pos].end) \in 0..(U32 - 1)
        BY <3>1, AlignRange
      <3>3. end' \in 0..(U32 - 1)
        BY <2>1, <2>3, <3>2 DEF FirstModule, Raise, TypeOK
      <3>4. /\ Named(tags[pos]) \in MetaRecord
            /\ Named(tags[pos]).mmap_len = meta.mmap_len
            /\ Named(tags[pos]).mem_size = meta.mem_size
        BY <2>1, <3>1, NamedType
      <3> QED
        BY <2>1, <2>3, <3>1, <3>3, <3>4 DEF FirstModule, TypeOK, mapvars
    <2>4. CASE FirstBaseAddr
      <3>1. /\ tags[pos].addr \in 0..(U32 - 1)
            /\ pos \in 1..Len(tags) /\ pc = "first"
        BY <2>1, <2>4, TagTypes DEF FirstBaseAddr, At
      <3>2. RoundUp(IMAGE_SIZE) \in Nat
        <4>1. PICK x \in Nat : x = IMAGE_SIZE + PAGE_SIZE - 1
          BY ImageSizeAssumption
        <4>2. x % PAGE_SIZE \in 0..x
          OBVIOUS
        <4> QED
          BY <4>1, <4>2 DEF RoundUp
      <3>3. /\ meta' \in MetaRecord
            /\ meta'.mmap_len = meta.mmap_len
            /\ meta'.mem_size = meta.mem_size
        <4>1. PICK r : r = [meta EXCEPT !.image_base = tags[pos].addr]
          OBVIOUS
        <4>2. /\ r \in MetaRecord /\ r.mmap_len = meta.mmap_len
              /\ r.mem_size = meta.mem_size
          BY <2>1, <3>1, <4>1, MetaSet
        <4>3. meta' = [r EXCEPT !.image_size = RoundUp(IMAGE_SIZE)]
          BY <2>4, <4>1 DEF FirstBaseAddr
        <4> QED
          BY <3>2, <4>2, <4>3, MetaSet
      <3> QED
        <4>1. /\ tags' = tags /\ pos' = pos + 1 /\ pc' = pc /\ begin' = tags[pos].addr
              /\ end' = end /\ UNCHANGED mapvars
          BY <2>4 DEF FirstBaseAddr
        <4>2. TypeOK'
          BY <2>1, <3>1, <3>3, <4>1 DEF TypeOK, mapvars
        <4> QED
          BY <3>1, <3>3, <4>1, <4>2
    <2>5. CASE FirstFramebuffer
      <3>1. /\ meta' \in MetaRecord
            /\ meta'.mmap_len = meta.mmap_len
            /\ meta'.mem_size = meta.mem_size
        <4>1. meta' = [meta EXCEPT !.term = pos] /\ pos \in Nat
          BY <2>1, <2>5 DEF FirstFramebuffer
        <4> QED
          BY <2>1, <4>1, MetaSet
      <3> QED
        BY SMTT(30), <2>1, <2>5, <3>1 DEF FirstFramebuffer, At, TypeOK, input, mapvars
    <2>6. CASE FirstOther
      BY <2>1, <2>6 DEF FirstOther, At, TypeOK, input, mapvars
    <2>7. CASE FirstDone
      BY <2>1, <2>7 DEF FirstDone, TypeOK, input, mapvars
    <2>8. CASE SecondMMap
      <3>1. pos \in 1..Len(tags) /\ tags[pos].kind = "mmap"
        BY <2>1, <2>8 DEF SecondMMap, At
      <3>2. tags[pos].entries \in Seq(FirmwareEntry)
        BY <2>1, <3>1, TagTypes
      <3>3. Len(tags[pos].entries) \in Nat
        BY <3>2
      <3> QED
        BY <2>1, <2>8, <3>1, <3>3 DEF SecondMMap, TypeOK, input
    <2>9. CASE InsertEntry
      <3>1. CASE i < CAP
        <4>1. /\ i \in Slots /\ i + 1 \in 1..Len(tags[pos].entries)
              /\ tags[pos].entries \in Seq(FirmwareEntry)
          BY <2>1, <2>9, <3>1, TagTypes DEF InsertEntry, TypeOK, Slots
        <4>2. tags[pos].entries[i + 1] \in FirmwareEntry
          BY <4>1
        <4>3. FromFirmware(tags[pos].entries[i + 1]) \in Entry
          BY <4>2, FromFirmwareType
        <4>4. arc_mmap' \in EntryArray
          BY <2>1, <2>9, <3>1, <4>1, <4>3, InsertType DEF InsertEntry, TypeOK
        <4> QED
          BY <2>1, <2>9, <3>1, <4>4 DEF InsertEntry, TypeOK, input
      <3>2. CASE ~ (i < CAP)
        BY <2>1, <2>9, <3>2 DEF InsertEntry, TypeOK, input
      <3> QED
        BY <3>1, <3>2
    <2>10. CASE SortDone
      BY <2>1, <2>10 DEF SortDone, TypeOK, input
    <2>11. CASE ResolveEntry
      <3> DEFINE s == [m |-> arc_mmap, n |-> entries]
                 o == Overlap(s, i)
                 r == Reserve(o, i)
      <3>1. At2(s, i) /\ i \in Slots /\ i + 1 \in Slots
        BY <2>1, <2>11 DEF ResolveEntry, TypeOK, At2, Pair, Slots
      <3>2. o \in Pair /\ o.n \in (i + 1)..entries
        BY <3>1, OverlapType
      <3>3. r \in Pair /\ r.n \in {o.n, o.n + 1}
        <4>1. begin \in 0..(U32 - 1) /\ end \in 0..(U32 - 1) /\ i <= o.n
          BY <2>1, <3>1, <3>2 DEF TypeOK, Slots
        <4> HIDE DEF o
        <4> QED
          BY <3>1, <3>2, <4>1, ReserveType
      <3>4. IF r.n <= CAP
            THEN arc_mmap' = r.m /\ entries' = r.n /\ i' = i + 1 /\ pc' = pc
            ELSE pc' = "wild" /\ UNCHANGED mapvars
        BY <2>11 DEF ResolveEntry
      <3>5. pc = "resolve" /\ UNCHANGED <<input, pos, meta>>
        BY <2>11 DEF ResolveEntry
      <3> HIDE DEF s, o, r
      <3>6. CASE r.n <= CAP
        <4>1. r.m \in EntryArray /\ r.n \in 1..CAP /\ i + 1 \in 0..r.n /\ i \in Nat
          BY <3>1, <3>2, <3>3, <3>6 DEF Pair, Slots
        <4> QED
          BY <2>1, <3>4, <3>5, <3>6, <4>1 DEF TypeOK, input
      <3>7. CASE ~ (r.n <= CAP)
        BY <2>1, <3>4, <3>5, <3>7 DEF TypeOK, input, mapvars
      <3> QED
        BY <3>6, <3>7
    <2>12. CASE Publish
      <3>1. /\ pos \in 1..Len(tags) /\ pc = "resolve" /\ entries \in 1..CAP
            /\ entries - 1 \in Slots /\ arc_mmap \in EntryArray
        <4>1. pc = "resolve"
          BY <2>12 DEF Publish
        <4>2. pos <= Len(tags) /\ entries \in 1..CAP /\ arc_mmap \in EntryArray
          BY <2>1, <4>1 DEF TypeOK
        <4> QED
          BY <2>1, <4>1, <4>2 DEF Slots
      <3>2. Ceil(arc_mmap[entries - 1]) \in 0..(U64 - 1)
        <4>1. arc_mmap[entries - 1].base + arc_mmap[entries - 1].len \in Int
          BY <3>1 DEF EntryArray, Entry
        <4> QED
          BY <4>1, W64Range DEF Ceil
      <3>3. /\ meta' \in MetaRecord
            /\ meta'.mmap_len = entries
            /\ meta'.mem_size = Ceil(arc_mmap[entries - 1])
        <4>1. PICK r : r = [meta EXCEPT !.mmap_len = entries]
          OBVIOUS
        <4>2. r \in MetaRecord /\ r.mmap_len = entries
          BY <2>1, <3>1, <4>1, MetaLen
        <4>3. meta' = [r EXCEPT !.mem_size = Ceil(arc_mmap[entries - 1])]
          BY <2>12, <4>1 DEF Publish
        <4> QED
          BY <3>2, <4>2, <4>3, MetaSize
      <3> QED
        <4>1. /\ pc' = "second" /\ pos' = pos + 1 /\ tags' = tags /\ begin' = begin
              /\ end' = end /\ arc_mmap' = arc_mmap /\ entries' = entries /\ i' = i
          BY <2>12 DEF Publish, input, mapvars
        <4>2. meta'.mmap_len \in 0..CAP /\ meta'.mem_size \in 0..(U64 - 1)
          BY <3>1, <3>2, <3>3
        <4> QED
          BY <2>1, <3>1, <3>3, <4>1, <4>2 DEF TypeOK
    <2>13. CASE SecondAcpi
      <3>1. /\ meta' \in MetaRecord
            /\ meta'.mmap_len = meta.mmap_len
            /\ meta'.mem_size = meta.mem_size
        <4>1. meta' = [meta EXCEPT !.rsdp = pos] /\ pos \in Nat
          BY <2>1, <2>13 DEF SecondAcpi
        <4> QED
          BY <2>1, <4>1, MetaSet
      <3> QED
        BY SMTT(30), <2>1, <2>13, <3>1 DEF SecondAcpi, At, TypeOK, input, mapvars
    <2>14. CASE SecondOther
      BY <2>1, <2>14 DEF SecondOther, At, TypeOK, input, mapvars
    <2>15. CASE SecondDone
      BY <2>1, <2>15 DEF SecondDone, TypeOK, input, mapvars
    <2>16. CASE UNCHANGED vars
      BY <2>1, <2>16 DEF vars, TypeOK
    <2> QED
      BY <2>2, <2>3, <2>4, <2>5, <2>6, <2>7, <2>8, <2>9, <2>10, <2>11, <2>12,
         <2>13, <2>14, <2>15, <2>16 DEF Next
  <1> QED
    BY <1>1, <1>2, PTL DEF Spec

\* Every variable keeps to its C type, an unknown memory type too, and the
\* published length to the array.
THEOREM TypesHold == Spec => []TypeOK
  BY TypeCorrect, PTL DEF TypeInv

-----------------------------------------------------------------------------
(* Where the bootstrapper begins, and the end of the modules               *)

Covered(p) ==
  tags[p].kind = "module" /\ tags[p].end + PAGE_SIZE <= U32 => tags[p].end <= end

IsBase(p) == tags[p].kind = "load_base_addr"

\* The begin is one of the first n tags' load bases, or 0 if there is none.
Based(n) ==
  \/ begin = 0 /\ \A p \in 1..n : ~ IsBase(p)
  \/ \E p \in 1..n : IsBase(p) /\ begin = tags[p].addr

\* The end is above the modules seen so far, and after the first pass above
\* all; the begin comes from the tags seen so far, and then from all.
ModulesInv ==
  /\ pc = "start" => pos = 1 /\ begin = 0
  /\ pc = "first" => Based(pos - 1) /\ \A p \in 1..(pos - 1) : Covered(p)
  /\ pc \notin {"start", "first", "failed"} =>
       Based(Len(tags)) /\ \A p \in 1..Len(tags) : Covered(p)

\* Whatever the order of the tags, after the first pass every module ends at
\* or below the end that the memory map is cut at, and the cut begins at a
\* load base.
THEOREM ModulesStayCovered == Spec => []ModulesInv
  <1>1. Init => ModulesInv
    BY DEF Init, ModulesInv
  <1>2. TypeInv /\ ModulesInv /\ [Next]_vars => ModulesInv'
    <2> SUFFICES ASSUME TypeInv, ModulesInv, [Next]_vars PROVE ModulesInv'
      OBVIOUS
    <2>1. Len(tags) \in Nat /\ pos \in 1..(Len(tags) + 1) /\ tags \in InitTags /\ end \in Nat
      BY InitTagsAssumption DEF TypeInv, TypeOK
    <2>2. CASE Start
      <3>1. /\ pc = "start" /\ pc' \in {"failed", "first"} /\ pos' = pos
            /\ tags' = tags /\ begin' = begin
        BY <2>2 DEF Start, input
      <3>2. pos' = 1 /\ begin' = 0
        BY <3>1 DEF ModulesInv
      <3> QED
        BY <3>1, <3>2 DEF ModulesInv, Based
    <2>0. ASSUME pc = "first", pos \in 1..Len(tags), ~ IsBase(pos), pos' = pos + 1,
                 tags' = tags, begin' = begin
          PROVE  Based(pos - 1)'
      <3>1. Based(pos - 1)
        BY <2>0 DEF ModulesInv
      <3>2. pos' - 1 = pos
        BY <2>0
      <3>3. \A p \in 1..pos : p = pos \/ p \in 1..(pos - 1)
        BY <2>1
      <3>4. \A p \in 1..(pos - 1) : p \in 1..pos
        BY <2>1
      <3>5. CASE begin = 0 /\ \A p \in 1..(pos - 1) : ~ IsBase(p)
        BY <2>0, <3>2, <3>3, <3>5 DEF Based, IsBase
      <3>6. CASE \E p \in 1..(pos - 1) : IsBase(p) /\ begin = tags[p].addr
        BY <2>0, <3>2, <3>4, <3>6 DEF Based, IsBase
      <3> QED
        BY <3>1, <3>5, <3>6 DEF Based
    <2>3. CASE FirstModule
      <3>1. /\ pc = "first" /\ pc' = "first" /\ pos' = pos + 1 /\ tags' = tags
            /\ pos \in 1..Len(tags) /\ tags[pos].kind = "module" /\ begin' = begin
        BY <2>1, <2>3 DEF FirstModule, At
      <3>2. tags[pos].end \in Nat
        BY <2>1, <3>1, TagTypes
      <3>3. Align(tags[pos].end) \in Nat
        BY <3>2, AlignRange
      <3>4. end' \in Nat /\ end <= end' /\ Align(tags[pos].end) <= end'
        BY <2>1, <2>3, <3>3 DEF FirstModule, Raise
      <3>5. ASSUME NEW p \in 1..(pos' - 1) PROVE Covered(p)'
        <4>1. CASE p = pos
          BY <3>1, <3>2, <3>3, <3>4, <4>1, AlignAbove DEF Covered
        <4>2. CASE p # pos
          <5>1. p \in 1..(pos - 1) /\ p \in 1..Len(tags)
            BY <2>1, <3>1, <3>5, <4>2
          <5>2. tags[p].kind = "module" => tags[p].end \in Nat
            BY <2>1, <5>1, TagTypes
          <5> QED
            BY <2>1, <3>1, <3>4, <5>1, <5>2 DEF Covered, ModulesInv
        <4> QED
          BY <4>1, <4>2
      <3>6. Based(pos - 1)'
        BY <2>0, <3>1 DEF IsBase
      <3> QED
        BY <3>1, <3>5, <3>6 DEF ModulesInv
    <2>4. CASE FirstBaseAddr
      <3>1. /\ pc = "first" /\ pc' = "first" /\ pos' = pos + 1 /\ tags' = tags
            /\ end' = end /\ pos \in 1..Len(tags) /\ begin' = tags[pos].addr
            /\ tags[pos].kind = "load_base_addr"
        BY <2>1, <2>4 DEF FirstBaseAddr, At
      <3>2. Based(pos - 1)'
        BY <2>1, <3>1 DEF Based, IsBase
      <3> QED
        BY <2>1, <3>1, <3>2 DEF ModulesInv, Covered
    <2>5. CASE FirstFramebuffer
      <3>1. /\ pc = "first" /\ pc' = "first" /\ pos' = pos + 1 /\ tags' = tags
            /\ end' = end /\ tags[pos].kind \notin {"module", "load_base_addr"}
            /\ begin' = begin /\ pos \in 1..Len(tags)
        BY <2>1, <2>5 DEF FirstFramebuffer, At, input
      <3>2. Based(pos - 1)'
        BY <2>0, <3>1 DEF IsBase
      <3> QED
        BY <2>1, <3>1, <3>2 DEF ModulesInv, Covered
    <2>6. CASE FirstOther
      <3>1. /\ pc = "first" /\ pc' = "first" /\ pos' = pos + 1 /\ tags' = tags
            /\ end' = end /\ tags[pos].kind \notin {"module", "load_base_addr"}
            /\ begin' = begin /\ pos \in 1..Len(tags)
        BY <2>1, <2>6 DEF FirstOther, At, input
      <3>2. Based(pos - 1)'
        BY <2>0, <3>1 DEF IsBase
      <3> QED
        BY <2>1, <3>1, <3>2 DEF ModulesInv, Covered
    <2>7. CASE FirstDone
      <3>1. /\ pc = "first" /\ pc' = "second" /\ pos - 1 = Len(tags) /\ UNCHANGED input
        BY <2>1, <2>7 DEF FirstDone
      <3> QED
        BY <3>1 DEF ModulesInv, Covered, Based, IsBase, input
    <2>8. CASE /\ pc \notin {"start", "first", "failed"}
               /\ pc' \notin {"start", "first"} /\ UNCHANGED input
      BY <2>1, <2>8 DEF ModulesInv, Covered, Based, IsBase, input
    <2>9. CASE SecondMMap \/ SecondAcpi \/ SecondOther
      BY <2>8, <2>9 DEF SecondMMap, SecondAcpi, SecondOther, At
    <2>10. CASE InsertEntry \/ SortDone \/ ResolveEntry
      BY <2>8, <2>10 DEF InsertEntry, SortDone, ResolveEntry
    <2>11. CASE Publish \/ SecondDone
      BY <2>8, <2>11 DEF Publish, SecondDone
    <2>12. CASE UNCHANGED vars
      BY <2>12 DEF vars, ModulesInv, Covered, Based, IsBase
    <2> QED
      BY <2>2, <2>3, <2>4, <2>5, <2>6, <2>7, <2>9, <2>10, <2>11, <2>12 DEF Next
  <1> QED
    BY <1>1, <1>2, TypeCorrect, PTL DEF Spec

-----------------------------------------------------------------------------
(* Sorting                                                                 *)

\* The first n entries of m, in ascending order, are the first n of fw, each
\* of them once: g says which.
IsArrangement(m, n, fw, g) ==
  /\ g \in [0..(n - 1) -> 1..n]
  /\ \A x, y \in 0..(n - 1) : g[x] = g[y] => x = y
  /\ \A z \in 1..n : \E x \in 0..(n - 1) : g[x] = z
  /\ \A x \in 0..(n - 1) : m[x] = FromFirmware(fw[g[x]])

Ascending(m, n) == \A k, l \in 0..(n - 1) : k < l => m[k].base <= m[l].base

SortedSelection(m, n, fw) ==
  /\ Ascending(m, n)
  /\ \E g : IsArrangement(m, n, fw, g)

\* What an insertion makes of the array.
LEMMA InsertIs ==
  ASSUME NEW m \in EntryArray, NEW j \in Slots, NEW e \in Entry,
         NEW k, k = Place(m, j, e), NEW r, r = Insert(m, j, e)
  PROVE  /\ r \in EntryArray
         /\ \A x \in 0..(k - 1) : r[x] = m[x]
         /\ r[k] = e
         /\ \A x \in (k + 1)..j : r[x] = m[x - 1]
  <1>1. k \in 0..j /\ r \in EntryArray
    BY PlaceIs, InsertType
  <1>2. r = [ShiftUp(m, k, j - k) EXCEPT ![k] = e]
    BY DEF Insert
  <1>3. \A x \in Slots : r[x] = IF x = k THEN e ELSE
                                IF x \in (k + 1)..j THEN m[x - 1] ELSE m[x]
    BY <1>1, <1>2 DEF ShiftUp, Slots
  <1> QED
    BY <1>1, <1>3 DEF Slots

\* Inserting the next entry into a sorted selection gives a sorted selection.
LEMMA InsertSorts ==
  ASSUME NEW m \in EntryArray, NEW j \in Slots, NEW fw \in Seq(FirmwareEntry),
         j + 1 <= Len(fw), SortedSelection(m, j, fw)
  PROVE  SortedSelection(Insert(m, j, FromFirmware(fw[j + 1])), j + 1, fw)
  <1> DEFINE e == FromFirmware(fw[j + 1])
             k == Place(m, j, e)
             r == Insert(m, j, e)
  <1>1. e \in Entry /\ j \in Nat
    <2>1. j + 1 \in 1..Len(fw) /\ j \in Nat
      BY DEF Slots
    <2>2. fw[j + 1] \in FirmwareEntry
      BY <2>1
    <2> QED
      BY <2>1, <2>2, FromFirmwareType
  <1> HIDE DEF e
  <1>2. /\ k \in 0..j
        /\ k = j \/ e.base <= m[k].base
        /\ \A x \in 0..(k - 1) : m[x].base < e.base
    BY <1>1, PlaceIs
  <1>3. /\ r \in EntryArray
        /\ \A x \in 0..(k - 1) : r[x] = m[x]
        /\ r[k] = e
        /\ \A x \in (k + 1)..j : r[x] = m[x - 1]
    BY <1>1, InsertIs
  <1>4. PICK g : IsArrangement(m, j, fw, g)
    BY DEF SortedSelection
  <1> HIDE DEF k, r
  <1>5. \A x \in Slots : m[x].base \in Nat
    BY DEF EntryArray, Entry
  <1>6. Ascending(r, j + 1)
    <2> SUFFICES ASSUME NEW x \in 0..j, NEW y \in 0..j, x < y
                 PROVE  r[x].base <= r[y].base
      BY <1>1 DEF Ascending
    <2>1. /\ \A u, v \in 0..(j - 1) : u <= v => m[u].base <= m[v].base
          /\ \A u \in 0..(j - 1) : m[u].base \in Nat
      <3>1. \A u, v \in 0..(j - 1) : u < v => m[u].base <= m[v].base
        BY DEF SortedSelection, Ascending
      <3>2. \A u \in 0..(j - 1) : m[u].base \in Nat
        BY <1>1, <1>5 DEF Slots
      <3> QED
        BY <3>1, <3>2
    <2>2. e.base \in Nat
      BY <1>1 DEF Entry
    <2>3. CASE y < k
      <3>1. r[x] = m[x] /\ r[y] = m[y] /\ x \in 0..(j - 1) /\ y \in 0..(j - 1)
        BY <1>1, <1>2, <1>3, <2>3
      <3> QED
        BY <2>1, <3>1
    <2>4. CASE y = k
      <3>1. r[x] = m[x] /\ r[y] = e /\ x \in 0..(j - 1) /\ m[x].base < e.base
        BY <1>1, <1>2, <1>3, <2>4
      <3> QED
        BY <2>1, <2>2, <3>1
    <2>5. CASE y > k /\ x < k
      <3>1. r[x] = m[x] /\ r[y] = m[y - 1] /\ x \in 0..(j - 1) /\ y - 1 \in 0..(j - 1)
        BY <1>1, <1>2, <1>3, <2>5
      <3> QED
        BY <2>1, <2>5, <3>1
    <2>6. CASE y > k /\ x = k
      <3>1. r[x] = e /\ r[y] = m[y - 1] /\ k \in 0..(j - 1) /\ y - 1 \in 0..(j - 1)
        BY <1>1, <1>2, <1>3, <2>6
      <3>2. e.base <= m[k].base /\ m[k].base <= m[y - 1].base
        BY <1>2, <2>1, <2>6, <3>1
      <3> QED
        BY <2>1, <2>2, <3>1, <3>2
    <2>7. CASE y > k /\ x > k
      <3>1. r[x] = m[x - 1] /\ r[y] = m[y - 1] /\ x - 1 \in 0..(j - 1) /\ y - 1 \in 0..(j - 1)
        BY <1>1, <1>2, <1>3, <2>7
      <3> QED
        BY <2>1, <3>1
    <2> QED
      BY <1>2, <2>3, <2>4, <2>5, <2>6, <2>7
  <1>7. \E h : IsArrangement(r, j + 1, fw, h)
    <2> DEFINE h == [x \in 0..j |-> IF x < k THEN g[x]
                                    ELSE IF x = k THEN j + 1 ELSE g[x - 1]]
    <2>1. /\ g \in [0..(j - 1) -> 1..j]
          /\ \A x, y \in 0..(j - 1) : g[x] = g[y] => x = y
          /\ \A z \in 1..j : \E x \in 0..(j - 1) : g[x] = z
          /\ \A x \in 0..(j - 1) : m[x] = FromFirmware(fw[g[x]])
      BY <1>4 DEF IsArrangement
    <2>2. ASSUME NEW x \in 0..j
          PROVE  /\ x < k => x \in 0..(j - 1) /\ h[x] = g[x] /\ h[x] \in 1..j
                 /\ x = k => h[x] = j + 1
                 /\ x > k => x - 1 \in 0..(j - 1) /\ h[x] = g[x - 1] /\ h[x] \in 1..j
      BY <1>1, <1>2, <2>1
    <2> HIDE DEF h
    <2>3. h \in [0..j -> 1..(j + 1)]
      <3>1. \A x \in 0..j : h[x] \in 1..(j + 1)
        BY <1>1, <1>2, <2>2
      <3> QED
        BY <3>1 DEF h
    <2>4. ASSUME NEW x \in 0..j, NEW y \in 0..j, h[x] = h[y] PROVE x = y
      <3> DEFINE before(u) == IF u < k THEN u ELSE u - 1
      <3>1. \A u \in 0..j : u # k => /\ before(u) \in 0..(j - 1)
                                    /\ h[u] = g[before(u)] /\ h[u] # j + 1
        BY <1>1, <1>2, <2>2
      <3>2. (x = k \/ y = k) => x = y
        BY <1>1, <2>2, <2>4, <3>1
      <3>3. x # k /\ y # k => before(x) = before(y)
        <4> HIDE DEF before
        <4> QED
          BY <2>1, <2>4, <3>1
      <3>4. \A u, v \in 0..j : u # k /\ v # k /\ before(u) = before(v) => u = v
        BY <1>2
      <3> QED
        BY <3>2, <3>3, <3>4
    <2>5. ASSUME NEW z \in 1..(j + 1) PROVE \E x \in 0..j : h[x] = z
      <3>1. CASE z = j + 1
        BY <1>2, <2>2, <3>1
      <3>2. CASE z # j + 1
        <4>1. PICK x \in 0..(j - 1) : g[x] = z
          BY <1>1, <2>1, <3>2
        <4>2. CASE x < k
          BY <1>1, <2>2, <4>1, <4>2
        <4>3. CASE ~ (x < k)
          <5>1. x + 1 \in 0..j /\ x + 1 > k /\ (x + 1) - 1 = x
            BY <1>1, <1>2, <4>3
          <5> QED
            BY <2>2, <4>1, <5>1
        <4> QED
          BY <4>2, <4>3
      <3> QED
        BY <3>1, <3>2
    <2>6. ASSUME NEW x \in 0..j PROVE r[x] = FromFirmware(fw[h[x]])
      <3>1. CASE x < k
        BY <1>1, <1>2, <1>3, <2>1, <2>2, <3>1
      <3>2. CASE x = k
        BY <1>3, <2>2, <3>2 DEF e
      <3>3. CASE x > k
        <4>1. x - 1 \in 0..(j - 1) /\ h[x] = g[x - 1] /\ x \in (k + 1)..j
          BY <1>1, <1>2, <2>2, <3>3
        <4>2. r[x] = m[x - 1]
          BY <1>3, <4>1
        <4> QED
          BY <2>1, <4>1, <4>2
      <3> QED
        BY <1>2, <3>1, <3>2, <3>3
    <2>7. (j + 1) - 1 = j
      BY <1>1
    <2> QED
      BY <2>3, <2>4, <2>5, <2>6, <2>7 DEF IsArrangement
  <1> QED
    BY <1>6, <1>7 DEF SortedSelection, r, e

\* Without an entry there is nothing to select.
LEMMA EmptySelection == \A m, fw : SortedSelection(m, 0, fw)
  <1> SUFFICES ASSUME NEW m, NEW fw PROVE SortedSelection(m, 0, fw)
    OBVIOUS
  <1>1. 0..(0 - 1) = {} /\ 1..0 = {}
    OBVIOUS
  <1>2. IsArrangement(m, 0, fw, [x \in {} |-> 0])
    BY <1>1 DEF IsArrangement
  <1> QED
    BY <1>1, <1>2 DEF SortedSelection, Ascending

\* Where an entry is in the array, and where among what the firmware reported.
SlotsOf(m, n, e)     == {k \in 0..(n - 1) : m[k] = e}
ReportsOf(fw, n, e) == {k \in 1..n : FromFirmware(fw[k]) = e}

\* An entry is as often in the array as the firmware reported it.
LEMMA SelectionCounts ==
  ASSUME NEW m, NEW n \in Nat, NEW fw, NEW g, IsArrangement(m, n, fw, g), NEW e
  PROVE  Cardinality(SlotsOf(m, n, e)) = Cardinality(ReportsOf(fw, n, e))
  <1> DEFINE S == {k \in 0..(n - 1) : m[k] = e}
             T == {k \in 1..n : FromFirmware(fw[k]) = e}
             h == [k \in S |-> g[k]]
  <1>1. /\ g \in [0..(n - 1) -> 1..n]
        /\ \A x, y \in 0..(n - 1) : g[x] = g[y] => x = y
        /\ \A z \in 1..n : \E x \in 0..(n - 1) : g[x] = z
        /\ \A x \in 0..(n - 1) : m[x] = FromFirmware(fw[g[x]])
    BY DEF IsArrangement
  <1>2. h \in [S -> T]
    BY <1>1
  <1>3. \A x, y \in S : h[x] = h[y] => x = y
    BY <1>1
  <1>4. \A z \in T : \E x \in S : h[x] = z
    <2> SUFFICES ASSUME NEW z \in T PROVE \E x \in S : h[x] = z
      OBVIOUS
    <2>1. PICK x \in 0..(n - 1) : g[x] = z
      BY <1>1
    <2>2. x \in S
      BY <1>1, <2>1
    <2> QED
      BY <2>1, <2>2
  <1>5. IsFiniteSet(S)
    <2>1. IsFiniteSet(0..(n - 1))
      BY FS_Interval
    <2> QED
      BY <2>1, FS_Subset
  <1> HIDE DEF S, T, h
  <1>6. h \in Bijection(S, T)
    BY <1>2, <1>3, <1>4 DEF Bijection, Injection, Surjection, IsInjective
  <1>7. ExistsBijection(S, T)
    BY <1>6 DEF ExistsBijection
  <1>8. Cardinality(S) = Cardinality(T)
    BY <1>5, <1>7, FS_Bijection
  <1> QED
    BY <1>8 DEF S, T, SlotsOf, ReportsOf

SortInv == pc = "sort" => SortedSelection(arc_mmap, i, tags[pos].entries)

\* While entries are inserted the array holds a sorted selection of them.
THEOREM SelectionStaysSorted == Spec => []SortInv
  <1>1. Init => SortInv
    BY DEF Init, SortInv
  <1>2. TypeInv /\ SortInv /\ [Next]_vars => SortInv'
    <2> SUFFICES ASSUME TypeInv, SortInv, [Next]_vars, pc' = "sort"
                 PROVE  SortedSelection(arc_mmap', i', tags'[pos'].entries)
      BY DEF SortInv
    <2>1. CASE SecondMMap
      BY <2>1, EmptySelection DEF SecondMMap
    <2>2. CASE InsertEntry
      <3>1. /\ pc = "sort" /\ i < entries /\ i < CAP /\ i' = i + 1
            /\ arc_mmap' = Insert(arc_mmap, i, FromFirmware(tags[pos].entries[i + 1]))
            /\ tags' = tags /\ pos' = pos
        BY <2>2 DEF InsertEntry, input
      <3>2. /\ tags \in InitTags /\ pos \in 1..Len(tags) /\ tags[pos].kind = "mmap"
            /\ arc_mmap \in EntryArray /\ i \in Slots
            /\ i + 1 <= Len(tags[pos].entries)
        BY <3>1 DEF TypeInv, TypeOK, Slots
      <3>3. tags[pos].entries \in Seq(FirmwareEntry)
        BY <3>2, TagTypes
      <3>4. SortedSelection(arc_mmap, i, tags[pos].entries)
        BY <3>1 DEF SortInv
      <3>5. SortedSelection(Insert(arc_mmap, i, FromFirmware(tags[pos].entries[i + 1])), i + 1,
                            tags[pos].entries)
        BY <3>2, <3>3, <3>4, InsertSorts
      <3> QED
        BY <3>1, <3>5
    <2>3. CASE UNCHANGED vars
      BY <2>3 DEF vars, SortInv
    <2>4. CASE Start \/ FirstModule \/ FirstBaseAddr \/ FirstFramebuffer \/ FirstOther
               \/ FirstDone
      BY <2>4 DEF Start, FirstModule, FirstBaseAddr, FirstFramebuffer, FirstOther,
                  FirstDone, At
    <2>5. CASE SortDone \/ ResolveEntry \/ Publish \/ SecondAcpi \/ SecondOther \/ SecondDone
      BY <2>5 DEF SortDone, ResolveEntry, Publish, SecondAcpi, SecondOther, SecondDone, At
    <2> QED
      BY <2>1, <2>2, <2>3, <2>4, <2>5 DEF Next
  <1> QED
    BY <1>1, <1>2, TypeCorrect, PTL DEF Spec

\* While the firmware's entries are inserted, the array holds exactly those
\* seen so far, each as often as it was seen, in ascending order.
THEOREM SortIsExact == Spec => []SortedSoFar
  <1>1. TypeInv /\ SortInv => SortedSoFar
    <2> SUFFICES ASSUME TypeInv, SortInv, pc = "sort"
                 PROVE  /\ \A k, l \in 0..(i - 1) :
                             k < l => arc_mmap[k].base <= arc_mmap[l].base
                        /\ \A e : Cardinality({k \in 0..(i - 1) : arc_mmap[k] = e})
                                    = Cardinality({k \in 1..i :
                                                     FromFirmware(tags[pos].entries[k]) = e})
      BY DEF SortedSoFar
    <2>1. SortedSelection(arc_mmap, i, tags[pos].entries) /\ i \in Nat
      BY DEF SortInv, TypeInv, TypeOK
    <2>2. PICK g : IsArrangement(arc_mmap, i, tags[pos].entries, g)
      BY <2>1 DEF SortedSelection
    <2>3. \A k, l \in 0..(i - 1) : k < l => arc_mmap[k].base <= arc_mmap[l].base
      BY <2>1 DEF SortedSelection, Ascending
    <2> DEFINE fw == tags[pos].entries
    <2> HIDE DEF fw
    <2>4. ASSUME NEW e
          PROVE  Cardinality({k \in 0..(i - 1) : arc_mmap[k] = e})
                   = Cardinality({k \in 1..i : FromFirmware(fw[k]) = e})
      <3>1. IsArrangement(arc_mmap, i, fw, g)
        BY <2>2 DEF fw
      <3> QED
        <4>1. Cardinality(SlotsOf(arc_mmap, i, e)) = Cardinality(ReportsOf(fw, i, e))
          BY <2>1, <3>1, SelectionCounts
        <4> QED
          BY <4>1 DEF SlotsOf, ReportsOf
    <2> QED
      BY <2>3, <2>4 DEF fw
  <1> QED
    BY <1>1, TypeCorrect, SelectionStaysSorted, PTL

-----------------------------------------------------------------------------
(* Resolving a map without overlaps.  No two neighbours overlap, so that a *)
(* round keeps the entry, marks it, or cuts it in two at the end of the    *)
(* bootstrapper: once at most, for what comes after it lies above the end. *)

Inside(e) == begin <= e.base /\ e.base < end

Keeps(m, n, k, r) ==
  /\ ~ Inside(m[k]) \/ (EndAt(m[k]) <= end /\ m[k].type <= BOOTSTRAP)
  /\ r.n = n /\ r.m = m

Marks(m, n, k, r) ==
  /\ Inside(m[k]) /\ EndAt(m[k]) <= end /\ m[k].type > BOOTSTRAP
  /\ r.n = n
  /\ r.m[k] = [base |-> m[k].base, len |-> m[k].len, type |-> BOOTSTRAP]
  /\ \A x \in 0..(n - 1) : x # k => r.m[x] = m[x]

Cuts(m, n, k, r) ==
  /\ Inside(m[k]) /\ end < EndAt(m[k])
  /\ r.n = n + 1
  /\ r.m[k] = [base |-> m[k].base, len |-> end - m[k].base, type |-> BOOTSTRAP]
  /\ r.m[k + 1] = [base |-> end, len |-> EndAt(m[k]) - end, type |-> m[k].type]
  /\ \A x \in 0..(k - 1) : r.m[x] = m[x]
  /\ n < CAP => \A x \in (k + 2)..n : r.m[x] = m[x - 1]

\* The numbers of an entry.
LEMMA EntryNats ==
  ASSUME NEW m \in EntryArray, NEW x \in Slots
  PROVE  /\ m[x].base \in 0..(U64 - 1) /\ m[x].len \in 0..(U64 - 1)
         /\ m[x].type \in 0..(U32 - 1) /\ m[x] \in Entry
  BY DEF EntryArray, Entry

\* Where no entry overlaps the next one there is no overlap to resolve.
LEMMA NoOverlap ==
  ASSUME NEW m \in EntryArray, NEW n \in 1..CAP, NEW k \in Nat, k + 1 < n,
         SortedDisjoint(m, n)
  PROVE  Overlap([m |-> m, n |-> n], k) = [m |-> m, n |-> n]
  <1>1. k \in Slots /\ k + 1 \in Slots /\ k \in 0..(n - 1) /\ k + 1 \in 0..(n - 1)
    BY DEF Slots
  <1>2. m[k].base + m[k].len < U64 /\ m[k].base + m[k].len <= m[k + 1].base
    BY <1>1 DEF SortedDisjoint
  <1>3. m[k].base \in Nat /\ m[k].len \in Nat /\ m[k + 1].base \in Nat
    BY <1>1, EntryNats
  <1>4. Ceil(m[k]) = m[k].base + m[k].len
    <2>1. m[k].base + m[k].len \in 0..(U64 - 1)
      BY <1>2, <1>3
    <2> QED
      BY <2>1, W64Id DEF Ceil
  <1>5. ~ (m[k + 1].base < Ceil(m[k]))
    BY <1>2, <1>3, <1>4
  <1> QED
    BY <1>5 DEF Overlap

\* What a round does to a map without overlaps.
LEMMA RoundIs ==
  ASSUME NEW m \in EntryArray, NEW n \in 1..CAP, NEW k \in Nat, k + 1 < n,
         SortedDisjoint(m, n), begin \in 0..(U32 - 1), end \in 0..(U32 - 1),
         NEW r, r = Reserve(Overlap([m |-> m, n |-> n], k), k)
  PROVE  Keeps(m, n, k, r) \/ Marks(m, n, k, r) \/ Cuts(m, n, k, r)
  <1> DEFINE s == [m |-> m, n |-> n]
  <1>1. k \in Slots /\ k + 1 \in Slots /\ k \in 0..(n - 1)
    BY DEF Slots
  <1>2. s \in Pair /\ s.m = m /\ s.n = n
    BY DEF Pair
  <1>3. r = Reserve(s, k)
    BY NoOverlap
  <1>4. /\ m[k].base \in 0..(U64 - 1) /\ m[k].len \in 0..(U64 - 1)
        /\ m[k].type \in 0..(U32 - 1) /\ BOOTSTRAP \in 0..(U32 - 1)
        /\ m[k].base + m[k].len < U64
    BY <1>1, EntryNats, TypeCodeAssumption DEF SortedDisjoint
  <1> HIDE DEF s
  <1>5. CASE ~ Inside(m[k])
    <2>1. r = s
      BY <1>2, <1>3, <1>5 DEF Reserve, Inside
    <2> QED
      BY <1>2, <1>5, <2>1 DEF Keeps
  <1>6. CASE Inside(m[k]) /\ EndAt(m[k]) <= end /\ m[k].type > BOOTSTRAP
    <2>1. r = [s EXCEPT !.m[k].type = BOOTSTRAP]
      BY <1>2, <1>3, <1>4, <1>6 DEF Reserve, Inside, EndAt, Yields
    <2>2. r = [m |-> [s.m EXCEPT ![k] = [base |-> s.m[k].base, len |-> s.m[k].len,
                                        type |-> BOOTSTRAP]],
               n |-> s.n]
      BY <1>1, <1>2, <1>4, <2>1, PairType
    <2>3. /\ r.n = n
          /\ r.m = [m EXCEPT ![k] = [base |-> m[k].base, len |-> m[k].len, type |-> BOOTSTRAP]]
      <3>1. PICK e : e = [base |-> s.m[k].base, len |-> s.m[k].len, type |-> BOOTSTRAP]
        OBVIOUS
      <3>2. r = [m |-> [s.m EXCEPT ![k] = e], n |-> s.n]
        BY <2>2, <3>1
      <3>3. r.n = s.n /\ r.m = [s.m EXCEPT ![k] = e]
        BY <3>2
      <3> QED
        BY <1>2, <3>1, <3>3
    <2>4. /\ r.m[k] = [base |-> m[k].base, len |-> m[k].len, type |-> BOOTSTRAP]
          /\ \A x \in 0..(n - 1) : x # k => r.m[x] = m[x]
      <3>1. PICK e : e = [base |-> m[k].base, len |-> m[k].len, type |-> BOOTSTRAP]
        OBVIOUS
      <3>2. r.m = [m EXCEPT ![k] = e] /\ DOMAIN m = Slots
        BY <2>3, <3>1 DEF EntryArray
      <3>3. r.m[k] = e /\ \A x \in Slots : x # k => r.m[x] = m[x]
        BY <1>1, <3>2
      <3> QED
        BY <3>1, <3>3 DEF Slots
    <2> QED
      BY <1>6, <2>3, <2>4 DEF Marks
  <1>7. CASE Inside(m[k]) /\ EndAt(m[k]) <= end /\ ~ (m[k].type > BOOTSTRAP)
    <2>1. r = s
      BY <1>2, <1>3, <1>4, <1>7 DEF Reserve, Inside, EndAt, Yields, SticksOut
    <2>2. m[k].type <= BOOTSTRAP
      BY <1>4, <1>7
    <2> QED
      BY <1>2, <1>7, <2>1, <2>2 DEF Keeps
  <1>8. CASE Inside(m[k]) /\ ~ (EndAt(m[k]) <= end)
    <2> DEFINE d  == end - m[k].base
               up == ShiftUp(m, k, n - k)
    <2>1. d \in 0..(U64 - 1) /\ end < EndAt(m[k]) /\ d < m[k].len
      BY <1>4, <1>8 DEF Inside, EndAt
    <2>2. r = SplitAt(s, k, d)
      BY <1>2, <1>3, <1>4, <1>8, <2>1 DEF Reserve, Inside, SticksOut, EndAt
    <2>3. r = [m |-> [x \in Slots |->
                     IF x = k THEN [base |-> s.m[k].base, len |-> d, type |-> BOOTSTRAP]
                     ELSE IF x = k + 1
                     THEN [base |-> W64(ShiftUp(s.m, k, s.n - k)[k + 1].base + d),
                           len  |-> W64(ShiftUp(s.m, k, s.n - k)[k + 1].len - d),
                           type |-> ShiftUp(s.m, k, s.n - k)[k + 1].type]
                     ELSE ShiftUp(s.m, k, s.n - k)[x]],
            n |-> s.n + 1]
      <3>1. k <= s.n
        BY <1>2
      <3> HIDE DEF d
      <3> QED
        BY <1>1, <1>2, <2>1, <2>2, <3>1, SplitAtIs
    <2>4. /\ up[k + 1] = m[k]
          /\ \A x \in 0..(k - 1) : up[x] = m[x]
          /\ n < CAP => \A x \in (k + 2)..n : up[x] = m[x - 1]
      BY <1>1 DEF ShiftUp, Slots
    <2>5. W64(m[k].base + d) = end /\ W64(m[k].len - d) = EndAt(m[k]) - end
      <3>1. m[k].base + d = end /\ end \in 0..(U64 - 1)
        BY <1>4
      <3>2. m[k].len - d = EndAt(m[k]) - end /\ m[k].len - d \in 0..(U64 - 1)
        BY <1>4, <2>1 DEF EndAt
      <3> QED
        BY <3>1, <3>2, W64Id
    <2> HIDE DEF up, d
    <2>6. /\ r.n = n + 1
          /\ r.m = [x \in Slots |->
                     IF x = k THEN [base |-> m[k].base, len |-> d, type |-> BOOTSTRAP]
                     ELSE IF x = k + 1
                     THEN [base |-> W64(up[k + 1].base + d),
                           len  |-> W64(up[k + 1].len - d),
                           type |-> up[k + 1].type]
                     ELSE up[x]]
      BY <1>2, <2>3 DEF up
    <2>7. /\ r.m[k] = [base |-> m[k].base, len |-> d, type |-> BOOTSTRAP]
          /\ r.m[k + 1] = [base |-> end, len |-> EndAt(m[k]) - end, type |-> m[k].type]
      BY <1>1, <2>4, <2>5, <2>6
    <2>8. \A x \in 0..(k - 1) : r.m[x] = m[x]
      BY <1>1, <2>4, <2>6 DEF Slots
    <2>9. n < CAP => \A x \in (k + 2)..n : r.m[x] = m[x - 1]
      BY <1>1, <2>4, <2>6 DEF Slots
    <2> QED
      BY <1>8, <2>1, <2>6, <2>7, <2>8, <2>9 DEF Cuts, d
  <1> QED
    BY <1>5, <1>6, <1>7, <1>8

\* What the array is like when the loop stands at k, of a firmware map without
\* overlaps: in order, one entry longer than the firmware's at most, and then
\* nothing of the bootstrapper is left; the last entry ends above all.
Ranges(m, n, k) ==
  /\ n \in {Len(Firmware), Len(Firmware) + 1}
  /\ \A x \in 0..(n - 1) : m[x].len > 0
  /\ SortedDisjoint(m, n)
  /\ n # Len(Firmware) => \A x \in k..(n - 1) : end <= m[x].base
  /\ \A x \in FwIndex : EndAt(Firmware[x]) <= EndAt(m[n - 1])

\* One round of the loop, which makes r of m and n.
Round(m, n, k, r) ==
  /\ m \in EntryArray /\ n \in 1..CAP /\ k \in Nat /\ k + 1 < n
  /\ begin \in 0..(U32 - 1) /\ end \in 0..(U32 - 1)
  /\ Firmware \in Seq(FirmwareEntry)
  /\ Ranges(m, n, k)
  /\ r = Reserve(Overlap([m |-> m, n |-> n], k), k)

\* The facts of a round that the next lemmas use.
LEMMA RoundFacts ==
  ASSUME NEW m, NEW n, NEW k, NEW r, Round(m, n, k, r)
  PROVE  /\ Keeps(m, n, k, r) \/ Marks(m, n, k, r) \/ Cuts(m, n, k, r)
         /\ Cuts(m, n, k, r) => n = Len(Firmware)
         /\ r.n \in {n, n + 1} /\ r.n <= Len(Firmware) + 1
         /\ \A x \in 0..(n - 1) : /\ x \in Slots
                                  /\ m[x].base \in Nat /\ m[x].len \in Nat \ {0}
                                  /\ m[x].type \in Nat /\ EndAt(m[x]) < U64
         /\ \A x, y \in 0..(n - 1) : x < y => EndAt(m[x]) <= m[y].base
         /\ k \in 0..(n - 1) /\ n \in Nat /\ begin \in Nat /\ end \in Nat
         /\ Len(Firmware) \in Nat
  <1>1. /\ m \in EntryArray /\ n \in 1..CAP /\ k \in Nat /\ k + 1 < n
        /\ begin \in 0..(U32 - 1) /\ end \in 0..(U32 - 1)
        /\ Firmware \in Seq(FirmwareEntry)
        /\ Ranges(m, n, k)
        /\ r = Reserve(Overlap([m |-> m, n |-> n], k), k)
    BY DEF Round
  <1>2. /\ n \in {Len(Firmware), Len(Firmware) + 1}
        /\ \A x \in 0..(n - 1) : m[x].len > 0
        /\ SortedDisjoint(m, n)
        /\ n # Len(Firmware) => \A x \in k..(n - 1) : end <= m[x].base
    BY <1>1 DEF Ranges
  <1>3. Len(Firmware) \in Nat /\ k \in 0..(n - 1) /\ n \in Nat /\ begin \in Nat /\ end \in Nat
    BY <1>1
  <1>4. Keeps(m, n, k, r) \/ Marks(m, n, k, r) \/ Cuts(m, n, k, r)
    BY <1>1, <1>2, RoundIs
  <1>5. \A x \in 0..(n - 1) : /\ x \in Slots
                              /\ m[x].base \in Nat /\ m[x].len \in Nat \ {0}
                              /\ m[x].type \in Nat /\ EndAt(m[x]) < U64
    <2> SUFFICES ASSUME NEW x \in 0..(n - 1)
                 PROVE  /\ x \in Slots
                        /\ m[x].base \in Nat /\ m[x].len \in Nat \ {0}
                        /\ m[x].type \in Nat /\ EndAt(m[x]) < U64
      OBVIOUS
    <2>1. x \in Slots
      BY <1>1 DEF Slots
    <2>2. m[x].base \in Nat /\ m[x].len \in Nat /\ m[x].type \in Nat
      BY <1>1, <2>1, EntryNats
    <2>3. m[x].len > 0 /\ m[x].base + m[x].len < U64
      BY <1>2 DEF SortedDisjoint
    <2> QED
      BY <2>1, <2>2, <2>3 DEF EndAt
  <1>6. \A x, y \in 0..(n - 1) : x < y => EndAt(m[x]) <= m[y].base
    BY <1>2 DEF SortedDisjoint, EndAt
  <1>7. Cuts(m, n, k, r) => n = Len(Firmware)
    <2> SUFFICES ASSUME Inside(m[k]), n # Len(Firmware) PROVE FALSE
      BY DEF Cuts
    <2>1. end <= m[k].base
      BY <1>2, <1>3
    <2>2. m[k].base < end /\ m[k].base \in Nat
      BY <1>3, <1>5 DEF Inside
    <2> QED
      BY <1>3, <2>1, <2>2
  <1>8. r.n \in {n, n + 1} /\ r.n <= Len(Firmware) + 1
    BY <1>2, <1>3, <1>4, <1>7 DEF Keeps, Marks, Cuts
  <1> QED
    BY <1>3, <1>4, <1>5, <1>6, <1>7, <1>8

\* What is known of the entries after a cut.
LEMMA CutEntries ==
  ASSUME NEW m, NEW n, NEW k, NEW r, Round(m, n, k, r), Cuts(m, n, k, r), r.n <= CAP,
         NEW x \in 0..n
  PROVE  /\ x < k => x \in 0..(n - 1) /\ r.m[x] = m[x]
         /\ x = k => /\ r.m[x].base = m[k].base /\ EndAt(r.m[x]) = end
                     /\ r.m[x].type = BOOTSTRAP
                     /\ r.m[x].len \in Nat \ {0}
         /\ x = k + 1 => /\ r.m[x].base = end /\ EndAt(r.m[x]) = EndAt(m[k])
                         /\ r.m[x].type = m[k].type
                         /\ r.m[x].len \in Nat \ {0}
         /\ x > k + 1 => x - 1 \in 0..(n - 1) /\ r.m[x] = m[x - 1]
  <1>1. /\ k \in 0..(n - 1) /\ n \in Nat /\ begin \in Nat /\ end \in Nat
        /\ m[k].base \in Nat /\ m[k].len \in Nat \ {0}
    BY RoundFacts
  <1>2. /\ m[k].base < end /\ end < EndAt(m[k])
        /\ r.n = n + 1
        /\ r.m[k] = [base |-> m[k].base, len |-> end - m[k].base, type |-> BOOTSTRAP]
        /\ r.m[k + 1] = [base |-> end, len |-> EndAt(m[k]) - end, type |-> m[k].type]
        /\ \A y \in 0..(k - 1) : r.m[y] = m[y]
        /\ n < CAP => \A y \in (k + 2)..n : r.m[y] = m[y - 1]
    BY DEF Cuts, Inside
  <1>3. n < CAP
    BY <1>1, <1>2
  <1>4. CASE x < k
    BY <1>1, <1>2, <1>4
  <1>5. CASE x = k
    <2>1. /\ r.m[k].base = m[k].base /\ r.m[k].len = end - m[k].base
          /\ r.m[k].type = BOOTSTRAP
      BY <1>2
    <2> QED
      BY <1>1, <1>2, <1>5, <2>1 DEF EndAt
  <1>6. CASE x = k + 1
    <2>1. /\ r.m[k + 1].base = end /\ r.m[k + 1].len = EndAt(m[k]) - end
          /\ r.m[k + 1].type = m[k].type
      BY <1>2
    <2>2. EndAt(m[k]) \in Nat
      BY <1>1 DEF EndAt
    <2>3. EndAt(r.m[k + 1]) = EndAt(m[k])
      BY <1>1, <2>1, <2>2 DEF EndAt
    <2> QED
      BY <1>1, <1>2, <1>6, <2>1, <2>2, <2>3
  <1>7. CASE x > k + 1
    BY <1>1, <1>2, <1>3, <1>7
  <1> QED
    BY <1>1, <1>4, <1>5, <1>6, <1>7

\* A round keeps what the array is like.
LEMMA RangesStep ==
  ASSUME NEW m, NEW n, NEW k, NEW r, Round(m, n, k, r), r.n <= CAP
  PROVE  Ranges(r.m, r.n, k + 1)
  <1>1. /\ Keeps(m, n, k, r) \/ Marks(m, n, k, r) \/ Cuts(m, n, k, r)
        /\ Cuts(m, n, k, r) => n = Len(Firmware)
        /\ \A x \in 0..(n - 1) : /\ x \in Slots
                                 /\ m[x].base \in Nat /\ m[x].len \in Nat \ {0}
                                 /\ m[x].type \in Nat /\ EndAt(m[x]) < U64
        /\ \A x, y \in 0..(n - 1) : x < y => EndAt(m[x]) <= m[y].base
        /\ k \in 0..(n - 1) /\ n \in Nat /\ begin \in Nat /\ end \in Nat
        /\ Len(Firmware) \in Nat
    BY RoundFacts
  <1>2. /\ n \in {Len(Firmware), Len(Firmware) + 1}
        /\ n # Len(Firmware) => \A x \in k..(n - 1) : end <= m[x].base
        /\ \A x \in FwIndex : EndAt(Firmware[x]) <= EndAt(m[n - 1])
        /\ k + 1 < n
    BY DEF Round, Ranges
  <1>3. CASE Keeps(m, n, k, r)
    <2>1. r.m = m /\ r.n = n /\ Ranges(m, n, k)
      BY <1>3 DEF Keeps, Round
    <2>2. Ranges(m, n, k + 1)
      BY <1>1, <2>1 DEF Ranges
    <2> QED
      BY <2>1, <2>2
  <1>4. CASE Marks(m, n, k, r)
    <2>1. r.n = n
      BY <1>4 DEF Marks
    <2>2. \A x \in 0..(n - 1) : /\ r.m[x].base = m[x].base /\ r.m[x].len = m[x].len
                                /\ EndAt(r.m[x]) = EndAt(m[x])
      <3>1. r.m[k] = [base |-> m[k].base, len |-> m[k].len, type |-> BOOTSTRAP]
        BY <1>4 DEF Marks
      <3>2. r.m[k].base = m[k].base /\ r.m[k].len = m[k].len
        BY <3>1
      <3>3. \A x \in 0..(n - 1) : x # k => r.m[x] = m[x]
        BY <1>4 DEF Marks
      <3> QED
        BY <3>2, <3>3 DEF EndAt
    <2>3. SortedDisjoint(r.m, n)
      BY <1>1, <2>2 DEF SortedDisjoint, EndAt
    <2>4. n # Len(Firmware) => \A x \in (k + 1)..(n - 1) : end <= r.m[x].base
      BY <1>1, <1>2, <2>2
    <2>5. \A x \in FwIndex : EndAt(Firmware[x]) <= EndAt(r.m[n - 1])
      <3>1. n - 1 \in 0..(n - 1)
        BY <1>1
      <3> QED
        BY <1>2, <2>2, <3>1
    <2> QED
      BY SMTT(30), <1>1, <1>2, <2>1, <2>2, <2>3, <2>4, <2>5 DEF Ranges
  <1>5. CASE Cuts(m, n, k, r)
    <2>1. r.n = n + 1 /\ n = Len(Firmware) /\ m[k].base < end /\ end < EndAt(m[k])
      BY <1>1, <1>5 DEF Cuts, Inside
    <2>0. ASSUME NEW x \in 0..(n - 1) PROVE EndAt(m[x]) \in Nat /\ m[x].base < EndAt(m[x])
      <3>1. m[x].base \in Nat /\ m[x].len \in Nat \ {0}
        BY <1>1
      <3>2. m[x].base + m[x].len \in Nat /\ m[x].base < m[x].base + m[x].len
        BY <3>1
      <3> QED
        BY <3>2 DEF EndAt
    <2>2. /\ \A x \in 0..n : x < k => x \in 0..(n - 1) /\ r.m[x] = m[x]
          /\ \A x \in 0..n : x > k + 1 => x - 1 \in 0..(n - 1) /\ r.m[x] = m[x - 1]
      BY <1>5, CutEntries
    <2>9. /\ r.m[k].base = m[k].base /\ EndAt(r.m[k]) = end /\ r.m[k].len \in Nat \ {0}
          /\ r.m[k + 1].base = end /\ EndAt(r.m[k + 1]) = EndAt(m[k])
          /\ r.m[k + 1].len \in Nat \ {0}
      <3>1. k \in 0..n /\ k + 1 \in 0..n
        BY <1>1
      <3> QED
        BY <1>5, <3>1, CutEntries
    <2>3. ASSUME NEW x \in 0..n
          PROVE  r.m[x].len > 0 /\ EndAt(r.m[x]) < U64
      <3>1. CASE x < k
        <4>1. r.m[x] = m[x] /\ x \in 0..(n - 1)
          BY <2>2, <3>1
        <4> QED
          BY <1>1, <4>1
      <3>2. CASE x = k
        BY <1>1, <2>0, <2>1, <2>9, <3>2
      <3>3. CASE x = k + 1
        BY <1>1, <2>9, <3>3
      <3>4. CASE x > k + 1
        BY SMTT(30), <1>1, <2>2, <3>4
      <3> QED
        BY <1>1, <3>1, <3>2, <3>3, <3>4
    <2>4. \A x, y \in 0..n : x < y => EndAt(r.m[x]) <= r.m[y].base
      <3> SUFFICES ASSUME NEW x \in 0..n, NEW y \in 0..n, x < y
                   PROVE  EndAt(r.m[x]) <= r.m[y].base
        OBVIOUS
      <3>1. CASE y < k
        <4>1. r.m[y] = m[y] /\ y \in 0..(n - 1)
          BY <2>2, <3>1
        <4>2. r.m[x] = m[x] /\ x \in 0..(n - 1)
          BY <1>1, <2>2, <3>1
        <4> QED
          BY <1>1, <4>1, <4>2
      <3>2. CASE y = k
        BY <1>1, <2>2, <2>9, <3>2
      <3>3. CASE y = k + 1 /\ x = k
        BY <1>1, <2>9, <3>3
      <3>4. CASE y = k + 1 /\ x < k
        <4>1. r.m[x] = m[x] /\ x \in 0..(n - 1)
          BY <1>1, <2>2, <3>4
        <4>2. EndAt(m[x]) <= m[k].base /\ EndAt(m[x]) \in Nat
          BY <1>1, <2>0, <3>4, <4>1
        <4> QED
          BY <1>1, <2>1, <2>9, <3>4, <4>1, <4>2
      <3>5. CASE y > k + 1 /\ x < k
        <4>1. r.m[y] = m[y - 1] /\ y - 1 \in 0..(n - 1) /\ r.m[x] = m[x] /\ x < y - 1
          BY <1>1, <2>2, <3>5
        <4> QED
          BY <1>1, <2>2, <3>5, <4>1
      <3>6. CASE y > k + 1 /\ (x = k \/ x = k + 1)
        <4>1. r.m[y] = m[y - 1] /\ y - 1 \in 0..(n - 1) /\ k < y - 1
          BY <1>1, <2>2, <3>6
        <4>2. EndAt(m[k]) <= m[y - 1].base /\ EndAt(m[k]) \in Nat /\ m[y - 1].base \in Nat
          BY <1>1, <2>0, <4>1
        <4>3. EndAt(r.m[x]) = end \/ EndAt(r.m[x]) = EndAt(m[k])
          BY <2>9, <3>6
        <4> QED
          BY <1>1, <2>1, <4>1, <4>2, <4>3
      <3>7. CASE y > k + 1 /\ x > k + 1
        <4>1. r.m[y] = m[y - 1] /\ y - 1 \in 0..(n - 1)
          BY <2>2, <3>7
        <4>2. r.m[x] = m[x - 1] /\ x - 1 \in 0..(n - 1)
          BY <2>2, <3>7
        <4>3. x - 1 < y - 1
          BY <3>7
        <4> QED
          BY <1>1, <4>1, <4>2, <4>3
      <3> QED
        BY <1>1, <3>1, <3>2, <3>3, <3>4, <3>5, <3>6, <3>7
    <2>5. SortedDisjoint(r.m, n + 1)
      <3>1. (n + 1) - 1 = n
        BY <1>1
      <3> QED
        BY <2>3, <2>4, <3>1 DEF SortedDisjoint, EndAt
    <2>6. ASSUME NEW x \in (k + 1)..n PROVE end <= r.m[x].base
      <3>1. CASE x = k + 1
        BY <1>1, <2>9, <3>1
      <3>2. CASE x > k + 1
        <4>1. x \in 0..n
          BY <1>1
        <4>2. r.m[x] = m[x - 1] /\ x - 1 \in 0..(n - 1) /\ k < x - 1
          BY <1>1, <2>2, <2>6, <3>2, <4>1
        <4>3. EndAt(m[k]) <= m[x - 1].base /\ EndAt(m[k]) \in Nat /\ m[x - 1].base \in Nat
          BY <1>1, <2>0, <4>2
        <4> QED
          BY <1>1, <2>1, <4>2, <4>3
      <3> QED
        BY <1>1, <2>6, <3>1, <3>2
    <2>7. EndAt(r.m[n]) = EndAt(m[n - 1])
      <3>1. n \in 0..n /\ n > k + 1
        BY <1>1, <1>2
      <3> QED
        BY <2>2, <3>1
    <2>8. r.n - 1 = n /\ r.n = Len(Firmware) + 1
      BY <1>1, <2>1
    <2> QED
      BY <1>2, <2>1, <2>3, <2>5, <2>6, <2>7, <2>8 DEF Ranges
  <1> QED
    BY <1>1, <1>3, <1>4, <1>5

-----------------------------------------------------------------------------
(* What the entries say.  Each is a piece of one that the firmware         *)
(* reported: before the round that looks at it of its type and up to its   *)
(* end, and after it BOOTSTRAP if the bootstrapper occupies it and it      *)
(* yields, of its type if not, and never occupied in part.                 *)

PieceOf(e, x) == Firmware[x].base <= e.base /\ EndAt(e) <= EndAt(Firmware[x])

Untouched(e, x) ==
  /\ PieceOf(e, x)
  /\ e.type = Code(x) /\ EndAt(e) = EndAt(Firmware[x])
  /\ e.base = Firmware[x].base \/ end <= e.base

Settled(e, x) ==
  /\ PieceOf(e, x)
  /\ \/ e.type = BOOTSTRAP /\ Code(x) > BOOTSTRAP /\ begin <= e.base /\ EndAt(e) <= end
     \/ e.type = Code(x) /\ (Code(x) > BOOTSTRAP => EndAt(e) <= begin \/ end <= e.base)

Covers(m, n) ==
  \A x \in FwIndex, a \in Nat :
    Within(Firmware[x], a) => \E y \in 0..(n - 1) : Within(m[y], a)

Pieces(m, n, k) ==
  /\ \A y \in 0..(k - 1) : \E x \in FwIndex : Settled(m[y], x)
  /\ \A y \in k..(n - 1) : \E x \in FwIndex : Untouched(m[y], x)
  /\ Covers(m, n)

\* The numbers of an entry of the firmware.
LEMMA FirmwareNats ==
  ASSUME Firmware \in Seq(FirmwareEntry), NEW x \in FwIndex
  PROVE  /\ Firmware[x].base \in 0..(U64 - 1) /\ Firmware[x].len \in 0..(U64 - 1)
         /\ Code(x) \in 0..(U32 - 1) /\ EndAt(Firmware[x]) \in Nat
         /\ Firmware[x] \in FirmwareEntry
  <1>1. Firmware[x] \in FirmwareEntry
    BY DEF FwIndex
  <1>2. Firmware[x].base \in 0..(U64 - 1) /\ Firmware[x].len \in 0..(U64 - 1)
    BY <1>1 DEF FirmwareEntry
  <1>3. Code(x) \in 0..(U32 - 1)
    BY CodeRange DEF Code
  <1> QED
    BY SMTT(30), <1>1, <1>2, <1>3 DEF EndAt

\* An entry with numbers in its fields that is not empty.
Sound(e) == e.base \in Nat /\ e.len \in Nat \ {0} /\ e.type \in Nat

\* An entry that a round keeps as it is, is settled: where the bootstrapper is
\* well placed it occupies no part of it that yields.
LEMMA KeptIsSettled ==
  ASSUME NEW e, Sound(e), NEW x \in FwIndex, Firmware \in Seq(FirmwareEntry),
         begin \in Nat, end \in Nat, WellPlaced, Untouched(e, x),
         ~ Inside(e) \/ (EndAt(e) <= end /\ e.type <= BOOTSTRAP)
  PROVE  Settled(e, x)
  <1>1. /\ e.base \in Nat /\ e.len \in Nat \ {0} /\ EndAt(e) \in Nat /\ e.base < EndAt(e)
        /\ Firmware[x].base \in Nat /\ EndAt(Firmware[x]) \in Nat /\ Code(x) \in Nat
        /\ BOOTSTRAP \in Nat
    BY SMTT(30), FirmwareNats, TypeCodeAssumption DEF Sound, EndAt
  <1>2. /\ PieceOf(e, x) /\ e.type = Code(x) /\ EndAt(e) = EndAt(Firmware[x])
        /\ e.base = Firmware[x].base \/ end <= e.base
    BY DEF Untouched
  <1>3. Firmware[x].base < end /\ begin < EndAt(Firmware[x]) => begin <= Firmware[x].base
    BY DEF WellPlaced
  <1>4. Code(x) > BOOTSTRAP => EndAt(e) <= begin \/ end <= e.base
    BY <1>1, <1>2, <1>3 DEF Inside
  <1> QED
    BY <1>2, <1>4 DEF Settled

\* So is one that is marked.
LEMMA MarkedIsSettled ==
  ASSUME NEW e, Sound(e), NEW x \in FwIndex, Untouched(e, x), NEW f,
         Inside(e), EndAt(e) <= end, e.type > BOOTSTRAP,
         f.base = e.base, EndAt(f) = EndAt(e), f.type = BOOTSTRAP
  PROVE  Settled(f, x)
  BY DEF Settled, Untouched, PieceOf, Inside

\* Of one that is cut the lower part is settled and the upper is as it was.
LEMMA CutIsSettled ==
  ASSUME NEW e, Sound(e), NEW x \in FwIndex, Firmware \in Seq(FirmwareEntry),
         begin \in Nat, end \in Nat, WellPlaced, Untouched(e, x),
         Inside(e), end < EndAt(e), NEW f, NEW g,
         f.base = e.base, EndAt(f) = end, f.type = BOOTSTRAP,
         g.base = end, EndAt(g) = EndAt(e), g.type = e.type
  PROVE  Settled(f, x) /\ Untouched(g, x)
  <1>1. /\ e.base \in Nat /\ e.len \in Nat \ {0} /\ EndAt(e) \in Nat /\ e.base < EndAt(e)
        /\ Firmware[x].base \in Nat /\ EndAt(Firmware[x]) \in Nat /\ Code(x) \in Nat
        /\ BOOTSTRAP \in Nat
    <2>1. e.base \in Nat /\ e.len \in Nat \ {0} /\ EndAt(e) \in Nat /\ e.base < EndAt(e)
      BY DEF Sound, EndAt
    <2>2. Firmware[x].base \in Nat /\ EndAt(Firmware[x]) \in Nat /\ Code(x) \in Nat
      BY FirmwareNats
    <2> QED
      BY <2>1, <2>2, TypeCodeAssumption
  <1>2. /\ PieceOf(e, x) /\ e.type = Code(x) /\ EndAt(e) = EndAt(Firmware[x])
        /\ e.base = Firmware[x].base \/ end <= e.base
    BY DEF Untouched
  <1>3. e.base = Firmware[x].base /\ begin <= e.base /\ e.base < end
    BY <1>1, <1>2 DEF Inside
  <1>4. Code(x) > BOOTSTRAP \/ EndAt(Firmware[x]) <= end
    BY <1>1, <1>2, <1>3 DEF WellPlaced
  <1>5. Code(x) > BOOTSTRAP
    BY <1>1, <1>2, <1>4
  <1>6. PieceOf(f, x) /\ PieceOf(g, x)
    BY <1>1, <1>2, <1>3 DEF PieceOf
  <1> QED
    BY <1>1, <1>2, <1>3, <1>5, <1>6 DEF Settled, Untouched

\* A round keeps what the entries say.
LEMMA PiecesStep ==
  ASSUME NEW m, NEW n, NEW k, NEW r, Round(m, n, k, r), r.n <= CAP,
         Pieces(m, n, k), WellPlaced
  PROVE  Pieces(r.m, r.n, k + 1)
  <1>1. /\ Keeps(m, n, k, r) \/ Marks(m, n, k, r) \/ Cuts(m, n, k, r)
        /\ \A x \in 0..(n - 1) : /\ m[x].base \in Nat /\ m[x].len \in Nat \ {0}
                                 /\ m[x].type \in Nat
        /\ k \in 0..(n - 1) /\ n \in Nat /\ begin \in Nat /\ end \in Nat
    BY RoundFacts
  <1>2. /\ \A y \in 0..(k - 1) : \E x \in FwIndex : Settled(m[y], x)
        /\ \A y \in k..(n - 1) : \E x \in FwIndex : Untouched(m[y], x)
        /\ Covers(m, n) /\ Firmware \in Seq(FirmwareEntry)
    BY DEF Pieces, Round
  <1>3. PICK z \in FwIndex : Untouched(m[k], z)
    BY <1>1, <1>2
  <1>4. Sound(m[k])
    BY <1>1 DEF Sound
  <1>5. CASE Keeps(m, n, k, r)
    <2>1. r.m = m /\ r.n = n /\ (~ Inside(m[k]) \/ (EndAt(m[k]) <= end /\ m[k].type <= BOOTSTRAP))
      BY <1>5 DEF Keeps
    <2>2. Settled(m[k], z)
      BY <1>1, <1>2, <1>3, <1>4, <2>1, KeptIsSettled
    <2>3. \A y \in 0..((k + 1) - 1) : \E x \in FwIndex : Settled(m[y], x)
      BY <1>1, <1>2, <2>2
    <2>4. \A y \in (k + 1)..(n - 1) : \E x \in FwIndex : Untouched(m[y], x)
      BY <1>1, <1>2
    <2> QED
      BY <1>2, <2>1, <2>3, <2>4 DEF Pieces
  <1>6. CASE Marks(m, n, k, r)
    <2>1. /\ r.n = n /\ Inside(m[k]) /\ EndAt(m[k]) <= end /\ m[k].type > BOOTSTRAP
          /\ r.m[k].base = m[k].base /\ r.m[k].len = m[k].len /\ r.m[k].type = BOOTSTRAP
          /\ \A x \in 0..(n - 1) : x # k => r.m[x] = m[x]
      <3>1. r.m[k] = [base |-> m[k].base, len |-> m[k].len, type |-> BOOTSTRAP]
        BY <1>6 DEF Marks
      <3>2. r.m[k].base = m[k].base /\ r.m[k].len = m[k].len /\ r.m[k].type = BOOTSTRAP
        BY <3>1
      <3> QED
        BY <1>6, <3>2 DEF Marks
    <2>2. EndAt(r.m[k]) = EndAt(m[k])
      BY <2>1 DEF EndAt
    <2>3. Settled(r.m[k], z)
      BY <1>3, <1>4, <2>1, <2>2, MarkedIsSettled
    <2>4. \A y \in 0..((k + 1) - 1) : \E x \in FwIndex : Settled(r.m[y], x)
      <3> SUFFICES ASSUME NEW y \in 0..k PROVE \E x \in FwIndex : Settled(r.m[y], x)
        BY <1>1
      <3>1. CASE y = k
        BY <2>3, <3>1
      <3>2. CASE y # k
        <4>1. r.m[y] = m[y] /\ y \in 0..(k - 1)
          BY <1>1, <2>1, <3>2
        <4> QED
          BY <1>2, <4>1
      <3> QED
        BY <3>1, <3>2
    <2>5. \A y \in (k + 1)..(n - 1) : \E x \in FwIndex : Untouched(r.m[y], x)
      <3> SUFFICES ASSUME NEW y \in (k + 1)..(n - 1)
                   PROVE  \E x \in FwIndex : Untouched(r.m[y], x)
        OBVIOUS
      <3>1. r.m[y] = m[y] /\ y \in k..(n - 1)
        BY <1>1, <2>1
      <3> QED
        BY <1>2, <3>1
    <2>6. Covers(r.m, n)
      <3>1. \A y \in 0..(n - 1) : r.m[y].base = m[y].base /\ r.m[y].len = m[y].len
        BY <2>1
      <3> QED
        BY <1>2, <3>1 DEF Covers, Within
    <2> QED
      BY <2>1, <2>4, <2>5, <2>6 DEF Pieces
  <1>7. CASE Cuts(m, n, k, r)
    <2>1. r.n = n + 1 /\ Inside(m[k]) /\ end < EndAt(m[k])
      BY <1>7 DEF Cuts
    <2>2. /\ \A x \in 0..n : x < k => x \in 0..(n - 1) /\ r.m[x] = m[x]
          /\ \A x \in 0..n : x > k + 1 => x - 1 \in 0..(n - 1) /\ r.m[x] = m[x - 1]
      BY <1>7, CutEntries
    <2>3. /\ r.m[k].base = m[k].base /\ EndAt(r.m[k]) = end /\ r.m[k].type = BOOTSTRAP
          /\ r.m[k + 1].base = end /\ EndAt(r.m[k + 1]) = EndAt(m[k])
          /\ r.m[k + 1].type = m[k].type
      <3>1. k \in 0..n /\ k + 1 \in 0..n
        BY <1>1
      <3> QED
        BY <1>7, <3>1, CutEntries
    <2>4. Settled(r.m[k], z) /\ Untouched(r.m[k + 1], z)
      BY <1>1, <1>2, <1>3, <1>4, <2>1, <2>3, CutIsSettled
    <2>5. \A y \in 0..((k + 1) - 1) : \E x \in FwIndex : Settled(r.m[y], x)
      <3> SUFFICES ASSUME NEW y \in 0..k PROVE \E x \in FwIndex : Settled(r.m[y], x)
        BY <1>1
      <3>1. CASE y = k
        BY <2>4, <3>1
      <3>2. CASE y # k
        <4>1. r.m[y] = m[y] /\ y \in 0..(k - 1)
          BY <1>1, <2>2, <3>2
        <4> QED
          BY <1>2, <4>1
      <3> QED
        BY <3>1, <3>2
    <2>6. \A y \in (k + 1)..n : \E x \in FwIndex : Untouched(r.m[y], x)
      <3> SUFFICES ASSUME NEW y \in (k + 1)..n PROVE \E x \in FwIndex : Untouched(r.m[y], x)
        OBVIOUS
      <3>1. CASE y = k + 1
        BY <2>4, <3>1
      <3>2. CASE y # k + 1
        <4>1. r.m[y] = m[y - 1] /\ y - 1 \in k..(n - 1)
          BY <1>1, <2>2, <3>2
        <4> QED
          BY <1>2, <4>1
      <3> QED
        BY <3>1, <3>2
    <2>7. Covers(r.m, n + 1)
      <3> SUFFICES ASSUME NEW x \in FwIndex, NEW a \in Nat, Within(Firmware[x], a)
                   PROVE  \E y \in 0..n : Within(r.m[y], a)
        BY <1>1 DEF Covers
      <3>1. PICK y \in 0..(n - 1) : Within(m[y], a)
        BY <1>2 DEF Covers
      <3>2. CASE y < k
        <4>1. y \in 0..n /\ r.m[y] = m[y]
          BY <1>1, <2>2, <3>2
        <4> QED
          BY <3>1, <4>1
      <3>3. CASE y = k
        <4>1. m[k].base <= a /\ a < EndAt(m[k])
          BY <3>1, <3>3 DEF Within, EndAt
        <4>2. k \in 0..n /\ k + 1 \in 0..n
          BY <1>1
        <4>3. CASE a < end
          <5>1. Within(r.m[k], a)
            BY <2>3, <4>1, <4>3 DEF Within, EndAt
          <5> QED
            BY <4>2, <5>1
        <4>4. CASE ~ (a < end)
          <5>1. Within(r.m[k + 1], a)
            BY <1>1, <2>3, <4>1, <4>4 DEF Within, EndAt
          <5> QED
            BY <4>2, <5>1
        <4> QED
          BY <4>3, <4>4
      <3>4. CASE y > k
        <4>1. y + 1 \in 0..n /\ r.m[y + 1] = m[(y + 1) - 1] /\ (y + 1) - 1 = y
          BY <1>1, <2>2, <3>4
        <4> QED
          BY <3>1, <4>1
      <3> QED
        BY <1>1, <3>2, <3>3, <3>4
    <2>8. r.n - 1 = n
      BY <1>1, <2>1
    <2> QED
      BY <2>1, <2>5, <2>6, <2>7, <2>8 DEF Pieces
  <1> QED
    BY <1>1, <1>5, <1>6, <1>7

\* A sorted selection of all that the firmware reported is in order, ends
\* where the firmware's map does, and nothing in it has been touched.
LEMMA SelectionStarts ==
  ASSUME NEW m, NEW n \in 1..CAP, n = Len(Firmware), Firmware \in Seq(FirmwareEntry),
         Disjoint, SortedSelection(m, n, Firmware)
  PROVE  Ranges(m, n, 0) /\ Pieces(m, n, 0)
  <1>1. PICK g : IsArrangement(m, n, Firmware, g)
    BY DEF SortedSelection
  <1>2. /\ g \in [0..(n - 1) -> FwIndex]
        /\ \A x, y \in 0..(n - 1) : g[x] = g[y] => x = y
        /\ \A z \in FwIndex : \E x \in 0..(n - 1) : g[x] = z
        /\ \A x \in 0..(n - 1) : m[x] = FromFirmware(Firmware[g[x]])
    BY <1>1 DEF IsArrangement, FwIndex
  <1>3. \A x \in FwIndex : /\ Firmware[x].base \in Nat /\ Firmware[x].len \in Nat \ {0}
                           /\ EndAt(Firmware[x]) \in Nat /\ EndAt(Firmware[x]) < U64
                           /\ Firmware[x].base < EndAt(Firmware[x])
    <2> SUFFICES ASSUME NEW x \in FwIndex
                 PROVE  /\ Firmware[x].base \in Nat /\ Firmware[x].len \in Nat \ {0}
                        /\ EndAt(Firmware[x]) \in Nat /\ EndAt(Firmware[x]) < U64
                        /\ Firmware[x].base < EndAt(Firmware[x])
      OBVIOUS
    <2>1. Firmware[x].base \in Nat /\ Firmware[x].len \in Nat /\ EndAt(Firmware[x]) \in Nat
      BY FirmwareNats
    <2>2. Firmware[x].len > 0 /\ EndAt(Firmware[x]) < U64
      BY DEF Disjoint
    <2> QED
      BY <2>1, <2>2 DEF EndAt
  <1>4. \A x \in 0..(n - 1) : /\ m[x].base = Firmware[g[x]].base
                              /\ m[x].len = Firmware[g[x]].len
                              /\ m[x].type = Code(g[x])
                              /\ EndAt(m[x]) = EndAt(Firmware[g[x]])
    <2> SUFFICES ASSUME NEW x \in 0..(n - 1)
                 PROVE  /\ m[x].base = Firmware[g[x]].base
                        /\ m[x].len = Firmware[g[x]].len
                        /\ m[x].type = Code(g[x])
                        /\ EndAt(m[x]) = EndAt(Firmware[g[x]])
      OBVIOUS
    <2>1. g[x] \in FwIndex /\ m[x] = FromFirmware(Firmware[g[x]])
      BY <1>2
    <2>2. Firmware[g[x]] \in FirmwareEntry
      BY <2>1, FirmwareNats
    <2>3. /\ m[x].base = Firmware[g[x]].base
          /\ m[x].len = Firmware[g[x]].len
          /\ m[x].type = Code(g[x])
      BY <2>1, <2>2, FromFirmwareType DEF Code
    <2> QED
      BY <2>3 DEF EndAt
  <1>5. \A x, y \in 0..(n - 1) : x < y => EndAt(m[x]) <= m[y].base
    <2> SUFFICES ASSUME NEW x \in 0..(n - 1), NEW y \in 0..(n - 1), x < y
                 PROVE  EndAt(m[x]) <= m[y].base
      OBVIOUS
    <2>1. g[x] \in FwIndex /\ g[y] \in FwIndex /\ g[x] # g[y]
      <3>1. g \in [0..(n - 1) -> FwIndex] /\ x # y
        BY <1>2
      <3>2. g[x] = g[y] => x = y
        BY <1>2
      <3> QED
        BY <3>1, <3>2
    <2>2. \/ EndAt(Firmware[g[x]]) <= Firmware[g[y]].base
          \/ EndAt(Firmware[g[y]]) <= Firmware[g[x]].base
      BY <2>1 DEF Disjoint
    <2>3. m[x].base <= m[y].base
      BY DEF SortedSelection, Ascending
    <2>4. /\ m[x].base = Firmware[g[x]].base /\ m[y].base = Firmware[g[y]].base
          /\ EndAt(m[x]) = EndAt(Firmware[g[x]])
      BY <1>4
    <2>5. /\ Firmware[g[x]].base \in Nat /\ Firmware[g[y]].base \in Nat
          /\ EndAt(Firmware[g[x]]) \in Nat /\ EndAt(Firmware[g[y]]) \in Nat
          /\ Firmware[g[y]].base < EndAt(Firmware[g[y]])
      BY <1>3, <2>1
    <2> QED
      BY <2>2, <2>3, <2>4, <2>5
  <1>6. SortedDisjoint(m, n)
    <2>1. ASSUME NEW x \in 0..(n - 1) PROVE EndAt(m[x]) < U64
      <3>1. g[x] \in FwIndex
        BY <1>2
      <3>2. EndAt(m[x]) = EndAt(Firmware[g[x]])
        BY <1>4
      <3> QED
        BY <1>3, <3>1, <3>2
    <2> QED
      BY <1>5, <2>1 DEF SortedDisjoint, EndAt
  <1>7. ASSUME NEW x \in FwIndex PROVE EndAt(Firmware[x]) <= EndAt(m[n - 1])
    <2>1. PICK y \in 0..(n - 1) : g[y] = x
      BY <1>2
    <2>2. EndAt(m[y]) = EndAt(Firmware[x]) /\ n - 1 \in 0..(n - 1) /\ g[n - 1] \in FwIndex
      <3>1. n - 1 \in 0..(n - 1) /\ g \in [0..(n - 1) -> FwIndex]
        BY <1>2
      <3>2. g[n - 1] \in FwIndex
        BY <3>1
      <3> QED
        BY <1>4, <2>1, <3>1, <3>2
    <2>3. /\ m[n - 1].base \in Nat /\ EndAt(m[n - 1]) \in Nat
          /\ m[n - 1].base < EndAt(m[n - 1]) /\ EndAt(Firmware[x]) \in Nat
      BY <1>3, <1>4, <2>2
    <2>4. CASE y = n - 1
      BY <2>2, <2>3, <2>4
    <2>5. CASE y # n - 1
      <3>1. EndAt(m[y]) <= m[n - 1].base
        BY <1>5, <2>2, <2>5
      <3> QED
        BY <2>2, <2>3, <3>1
    <2> QED
      BY <2>4, <2>5
  <1>8. Ranges(m, n, 0)
    <2>1. \A x \in 0..(n - 1) : m[x].len > 0
      <3> SUFFICES ASSUME NEW x \in 0..(n - 1) PROVE m[x].len > 0
        OBVIOUS
      <3>1. g[x] \in FwIndex
        BY <1>2
      <3> QED
        BY SMTT(30), <1>3, <1>4, <3>1
    <2> QED
      BY <1>6, <1>7, <2>1 DEF Ranges
  <1>9. \A y \in 0..(n - 1) : \E x \in FwIndex : Untouched(m[y], x)
    <2> SUFFICES ASSUME NEW y \in 0..(n - 1) PROVE Untouched(m[y], g[y]) /\ g[y] \in FwIndex
      BY Zenon
    <2>1. g[y] \in FwIndex
      BY <1>2
    <2> QED
      BY <1>3, <1>4, <2>1 DEF Untouched, PieceOf
  <1>10. Covers(m, n)
    <2> SUFFICES ASSUME NEW x \in FwIndex, NEW a \in Nat, Within(Firmware[x], a)
                 PROVE  \E y \in 0..(n - 1) : Within(m[y], a)
      BY DEF Covers
    <2>1. PICK y \in 0..(n - 1) : g[y] = x
      BY <1>2
    <2> QED
      BY <1>4, <2>1 DEF Within
  <1> QED
    BY <1>8, <1>9, <1>10 DEF Pieces

\* At the end of the loop every entry is settled, the last one too: the
\* bootstrapper is not in the topmost entry.
LEMMA AllSettled ==
  ASSUME NEW m \in EntryArray, NEW n \in 1..CAP, NEW k \in 0..n, k >= n - 1,
         Firmware \in Seq(FirmwareEntry), begin \in Nat, end \in Nat,
         Ranges(m, n, k), Pieces(m, n, k), Disjoint, WellPlaced
  PROVE  \A y \in 0..(n - 1) : \E x \in FwIndex : Settled(m[y], x)
  <1> SUFFICES ASSUME NEW y \in 0..(n - 1) PROVE \E x \in FwIndex : Settled(m[y], x)
    OBVIOUS
  <1>1. CASE y < k
    BY <1>1 DEF Pieces
  <1>2. CASE ~ (y < k)
    <2>1. y = n - 1 /\ y \in k..(n - 1)
      BY <1>2
    <2>2. PICK x \in FwIndex : Untouched(m[y], x)
      BY <2>1 DEF Pieces
    <2>3. /\ PieceOf(m[y], x) /\ m[y].type = Code(x) /\ EndAt(m[y]) = EndAt(Firmware[x])
          /\ m[y].base = Firmware[x].base \/ end <= m[y].base
      BY <2>2 DEF Untouched
    <2>4. \A z \in FwIndex : EndAt(Firmware[z]) <= EndAt(Firmware[x])
      BY <2>1, <2>3 DEF Ranges
    <2>5. ASSUME NEW z \in FwIndex
          PROVE  /\ Firmware[z].base \in Nat /\ EndAt(Firmware[z]) \in Nat
                 /\ Firmware[z].base < EndAt(Firmware[z])
      <3>1. Firmware[z].base \in Nat /\ Firmware[z].len \in Nat
        BY FirmwareNats
      <3>2. Firmware[z].len > 0
        BY DEF Disjoint
      <3> QED
        BY <3>1, <3>2 DEF EndAt
    <2>6. ASSUME Firmware[x].base < end, begin < EndAt(Firmware[x]) PROVE FALSE
      <3>1. PICK z \in FwIndex : Firmware[x].base < Firmware[z].base
        BY <2>6 DEF WellPlaced
      <3>2. z # x
        BY <2>5, <3>1
      <3>3. EndAt(Firmware[x]) <= Firmware[z].base \/ EndAt(Firmware[z]) <= Firmware[x].base
        BY <3>2 DEF Disjoint
      <3> QED
        BY <2>4, <2>5, <3>1, <3>3
    <2>7. EndAt(m[y]) <= begin \/ end <= m[y].base
      BY <2>3, <2>5, <2>6
    <2> QED
      BY <2>3, <2>7 DEF Settled
  <1> QED
    BY <1>1, <1>2

\* Then the map says of every address what it has to.
LEMMA SettledIsExact ==
  ASSUME NEW m \in EntryArray, NEW n \in 1..CAP,
         Firmware \in Seq(FirmwareEntry), begin \in Nat, end \in Nat,
         \A y \in 0..(n - 1) : \E x \in FwIndex : Settled(m[y], x),
         Covers(m, n), Disjoint, NEW a \in Nat
  PROVE  TypesAt(m, n, a) =
           {IF Marked(a) /\ c > BOOTSTRAP THEN BOOTSTRAP ELSE c : c \in CodesAt(a)}
  <1> DEFINE Bootstrapped(c) == IF Marked(a) /\ c > BOOTSTRAP THEN BOOTSTRAP ELSE c
  <1>1. ASSUME NEW y \in 0..(n - 1), NEW x \in FwIndex, Settled(m[y], x), Within(m[y], a)
        PROVE  Within(Firmware[x], a) /\ m[y].type = Bootstrapped(Code(x))
    <2>1. y \in Slots
      BY DEF Slots
    <2>2. m[y].base \in Nat /\ m[y].len \in Nat
      BY <2>1, EntryNats
    <2>3. /\ Firmware[x].base \in Nat /\ Firmware[x].len \in Nat /\ Code(x) \in Nat
          /\ BOOTSTRAP \in Nat
      BY FirmwareNats, TypeCodeAssumption
    <2>4. m[y].base <= a /\ a < EndAt(m[y])
      BY <1>1 DEF Within, EndAt
    <2>5. Firmware[x].base <= m[y].base /\ EndAt(m[y]) <= EndAt(Firmware[x])
      BY <1>1 DEF Settled, PieceOf
    <2>6. EndAt(m[y]) \in Nat /\ EndAt(Firmware[x]) \in Nat
      <3>1. m[y].base + m[y].len \in Nat
        BY <2>2
      <3>2. EndAt(m[y]) \in Nat
        BY <3>1 DEF EndAt
      <3>3. EndAt(Firmware[x]) \in Nat
        BY FirmwareNats
      <3> QED
        BY <3>2, <3>3
    <2>7. Within(Firmware[x], a)
      BY SMTT(30), <2>2, <2>3, <2>4, <2>5, <2>6 DEF Within, EndAt
    <2>8. CASE m[y].type = BOOTSTRAP /\ Code(x) > BOOTSTRAP /\ begin <= m[y].base /\ EndAt(m[y]) <= end
      <3>1. Marked(a)
        BY <2>2, <2>4, <2>6, <2>8 DEF Marked
      <3> QED
        BY <2>7, <2>8, <3>1
    <2>9. CASE m[y].type = Code(x) /\ (Code(x) > BOOTSTRAP => EndAt(m[y]) <= begin \/ end <= m[y].base)
      <3>1. Code(x) > BOOTSTRAP => ~ Marked(a)
        BY <2>2, <2>4, <2>6, <2>9 DEF Marked
      <3> QED
        BY <2>7, <2>9, <3>1
    <2> QED
      BY <1>1, <2>8, <2>9 DEF Settled
  <1>2. ASSUME NEW x \in FwIndex, NEW z \in FwIndex, Within(Firmware[x], a), Within(Firmware[z], a)
        PROVE  x = z
    <2>1. /\ Firmware[x].base <= a /\ a < EndAt(Firmware[x])
          /\ Firmware[z].base <= a /\ a < EndAt(Firmware[z])
      BY <1>2 DEF Within, EndAt
    <2>2. /\ Firmware[x].base \in Nat /\ EndAt(Firmware[x]) \in Nat
          /\ Firmware[z].base \in Nat /\ EndAt(Firmware[z]) \in Nat
      BY FirmwareNats
    <2>3. \/ x = z
          \/ EndAt(Firmware[x]) <= Firmware[z].base
          \/ EndAt(Firmware[z]) <= Firmware[x].base
      BY DEF Disjoint
    <2> QED
      BY <2>1, <2>2, <2>3
  <1> HIDE DEF Bootstrapped
  <1>3. ASSUME NEW t \in TypesAt(m, n, a) PROVE \E c \in CodesAt(a) : t = Bootstrapped(c)
    <2>1. PICK y \in 0..(n - 1) : Within(m[y], a) /\ t = m[y].type
      BY <1>3 DEF TypesAt
    <2>2. PICK x \in FwIndex : Settled(m[y], x)
      OBVIOUS
    <2>3. Within(Firmware[x], a) /\ t = Bootstrapped(Code(x))
      BY <1>1, <2>1, <2>2
    <2>4. Code(x) \in CodesAt(a)
      BY <2>3 DEF CodesAt
    <2> QED
      BY <2>3, <2>4
  <1>4. ASSUME NEW c \in CodesAt(a) PROVE Bootstrapped(c) \in TypesAt(m, n, a)
    <2>1. PICK x \in FwIndex : Within(Firmware[x], a) /\ c = Code(x)
      BY <1>4 DEF CodesAt
    <2>2. PICK y \in 0..(n - 1) : Within(m[y], a)
      BY <2>1 DEF Covers
    <2>3. PICK z \in FwIndex : Settled(m[y], z)
      OBVIOUS
    <2>4. Within(Firmware[z], a) /\ m[y].type = Bootstrapped(Code(z))
      BY <1>1, <2>2, <2>3
    <2>5. x = z
      BY <1>2, <2>1, <2>4
    <2>6. m[y].type \in TypesAt(m, n, a)
      BY <2>2 DEF TypesAt
    <2> QED
      BY <2>1, <2>4, <2>5, <2>6
  <1>5. TypesAt(m, n, a) = {Bootstrapped(c) : c \in CodesAt(a)}
    BY <1>3, <1>4
  <1> QED
    BY <1>5 DEF Bootstrapped

-----------------------------------------------------------------------------
(* The whole parse, of one memory map without overlaps                     *)

Clean == Cardinality(MapTags) = 1 /\ Disjoint

\* The only memory map is the firmware's.
LEMMA OneMap ==
  ASSUME Len(tags) \in Nat, Cardinality(MapTags) = 1, NEW p \in MapTags
  PROVE  MapTags = {p} /\ Firmware = tags[p].entries
  <1>1. IsFiniteSet(MapTags)
    <2>1. IsFiniteSet(1..Len(tags))
      BY FS_Interval
    <2> QED
      BY <2>1, FS_Subset DEF MapTags
  <1>2. MapTags = {p}
    BY <1>1, FS_Singleton
  <1>3. (CHOOSE x \in MapTags : \A q \in MapTags : x <= q) = p
    <2>1. p \in Nat
      BY DEF MapTags
    <2> QED
      BY <1>2, <2>1
  <1> QED
    BY <1>2, <1>3 DEF Firmware

\* There is a memory map, then.
LEMMA AMap ==
  ASSUME Cardinality(MapTags) = 1
  PROVE  \E p \in MapTags : p \in 1..Len(tags)
  <1>1. MapTags # {}
    BY FS_EmptySet
  <1> QED
    BY <1>1 DEF MapTags

\* What is said of the firmware's map depends on the tags, and on where the
\* bootstrapper lies, alone.
LEMMA SameMap ==
  ASSUME UNCHANGED tags
  PROVE  /\ MapTags' = MapTags /\ Firmware' = Firmware /\ FwIndex' = FwIndex
         /\ Disjoint' = Disjoint /\ Clean' = Clean
         /\ \A x : Code(x)' = Code(x)
  <1>1. MapTags' = MapTags
    BY DEF MapTags
  <1>2. Firmware' = Firmware
    BY <1>1 DEF Firmware
  <1>3. FwIndex' = FwIndex
    BY <1>2 DEF FwIndex
  <1>4. Disjoint' = Disjoint
    BY <1>2, <1>3 DEF Disjoint, EndAt
  <1>5. \A x : Code(x)' = Code(x)
    BY <1>2 DEF Code
  <1> QED
    BY <1>1, <1>2, <1>3, <1>4, <1>5 DEF Clean

\* While the loop runs; what it leaves, with the size of the memory; and when.
Resolving(m, n, k) ==
  n \in 1..CAP /\ Ranges(m, n, k) /\ (WellPlaced => Pieces(m, n, k))

Resolved(m, n, size) ==
  /\ n \in 1..CAP /\ n <= Len(Firmware) + 1
  /\ SortedDisjoint(m, n)
  /\ \A x \in FwIndex : EndAt(Firmware[x]) <= size
  /\ WellPlaced => /\ \A y \in 0..(n - 1) : \E x \in FwIndex : Settled(m[y], x)
                   /\ Covers(m, n)

Passed == pc = "done" \/ (pc = "second" /\ \A p \in MapTags : p < pos)

PhaseInv ==
  Clean =>
    /\ pc = "resolve" => Resolving(arc_mmap, entries, i)
    /\ Passed => Resolved(arc_mmap, meta.mmap_len, meta.mem_size)
    /\ pc = "wild" => Len(Firmware) \notin 1..(CAP - 1)

\* The same holds of the same numbers while the input stays.
LEMMA SameClaims ==
  ASSUME UNCHANGED input
  PROVE  /\ WellPlaced' = WellPlaced
         /\ Resolving(arc_mmap', entries', i') => Resolving(arc_mmap, entries, i)'
         /\ Resolved(arc_mmap', meta'.mmap_len, meta'.mem_size)
              => Resolved(arc_mmap, meta.mmap_len, meta.mem_size)'
  <1>1. /\ Firmware' = Firmware /\ FwIndex' = FwIndex /\ begin' = begin /\ end' = end
        /\ \A x : Code(x)' = Code(x)
    BY SameMap DEF input
  <1>2. WellPlaced' = WellPlaced
    BY <1>1 DEF WellPlaced, EndAt
  <1>3. Ranges(arc_mmap', entries', i') => Ranges(arc_mmap, entries, i)'
    BY <1>1 DEF Ranges, EndAt, SortedDisjoint
  <1>4. Pieces(arc_mmap', entries', i') => Pieces(arc_mmap, entries, i)'
    BY <1>1 DEF Pieces, Covers, Settled, Untouched, PieceOf, EndAt, Within
  <1>5. Resolving(arc_mmap', entries', i') => Resolving(arc_mmap, entries, i)'
    BY <1>2, <1>3, <1>4 DEF Resolving
  <1>6. Resolved(arc_mmap', meta'.mmap_len, meta'.mem_size)
              => Resolved(arc_mmap, meta.mmap_len, meta.mem_size)'
    BY <1>1, <1>2 DEF Resolved, Covers, Settled, PieceOf, EndAt, Within, SortedDisjoint
  <1> QED
    BY <1>2, <1>5, <1>6

\* The loop starts from a sorted selection of all that the firmware reported.
LEMMA LoopStarts ==
  ASSUME TypeInv, SortInv, SortDone, Clean
  PROVE  IF entries = 0 THEN pc' = "wild" /\ Len(Firmware) = 0
         ELSE pc' = "resolve" /\ Resolving(arc_mmap', entries', i')
  <1>1. /\ pc = "sort" /\ i = entries /\ i' = 0 /\ arc_mmap' = arc_mmap /\ entries' = entries
        /\ pc' = IF entries = 0 THEN "wild" ELSE "resolve"
    BY DEF SortDone
  <1>2. /\ tags \in InitTags /\ pos \in 1..Len(tags) /\ tags[pos].kind = "mmap"
        /\ entries = Len(tags[pos].entries) /\ entries \in Nat /\ entries <= CAP
        /\ Len(tags) \in Nat
    BY <1>1, InitTagsAssumption DEF TypeInv, TypeOK
  <1>3. tags[pos].entries \in Seq(FirmwareEntry)
    BY <1>2, TagTypes
  <1>4. Firmware = tags[pos].entries
    BY <1>2, OneMap DEF MapTags, Clean
  <1>5. CASE entries # 0
    <2>1. entries \in 1..CAP
      BY <1>2, <1>5, CapAssumption
    <2>2. SortedSelection(arc_mmap, entries, Firmware)
      BY <1>1, <1>4 DEF SortInv
    <2>3. Ranges(arc_mmap, entries, 0) /\ Pieces(arc_mmap, entries, 0)
      BY <1>2, <1>3, <1>4, <2>1, <2>2, SelectionStarts DEF Clean
    <2> QED
      BY <1>1, <1>5, <2>1, <2>3 DEF Resolving
  <1> QED
    BY <1>1, <1>2, <1>4, <1>5

\* The firmware's map in the loop.
LEMMA InLoop ==
  ASSUME TypeInv, pc = "resolve", Cardinality(MapTags) = 1
  PROVE  /\ Firmware \in Seq(FirmwareEntry) /\ MapTags = {pos}
         /\ arc_mmap \in EntryArray /\ begin \in 0..(U32 - 1) /\ end \in 0..(U32 - 1)
         /\ entries \in 1..CAP /\ i \in 0..entries /\ pos \in Nat
  <1>1. /\ tags \in InitTags /\ pos \in 1..Len(tags) /\ tags[pos].kind = "mmap"
        /\ Len(tags) \in Nat
    BY InitTagsAssumption DEF TypeInv, TypeOK
  <1>2. tags[pos].entries \in Seq(FirmwareEntry)
    BY <1>1, TagTypes
  <1>3. MapTags = {pos} /\ Firmware = tags[pos].entries
    BY <1>1, OneMap DEF MapTags
  <1> QED
    BY <1>1, <1>2, <1>3 DEF TypeInv, TypeOK

\* A round keeps what the array is like, or needs more than it has.
LEMMA LoopGoesOn ==
  ASSUME TypeInv, PhaseInv, ResolveEntry, Clean
  PROVE  IF pc' = "wild" THEN Len(Firmware) \notin 1..(CAP - 1)
         ELSE pc' = "resolve" /\ Resolving(arc_mmap', entries', i')
  <1> DEFINE r == Reserve(Overlap([m |-> arc_mmap, n |-> entries], i), i)
  <1>1. /\ pc = "resolve" /\ i < entries - 1
        /\ IF r.n <= CAP
           THEN arc_mmap' = r.m /\ entries' = r.n /\ i' = i + 1 /\ pc' = pc
           ELSE pc' = "wild"
    BY DEF ResolveEntry
  <1>2. Resolving(arc_mmap, entries, i)
    BY <1>1 DEF PhaseInv
  <1>3. PICK s : s = r
    OBVIOUS
  <1>4. Round(arc_mmap, entries, i, s)
    <2>1. /\ Firmware \in Seq(FirmwareEntry)
          /\ arc_mmap \in EntryArray /\ begin \in 0..(U32 - 1) /\ end \in 0..(U32 - 1)
          /\ entries \in 1..CAP /\ i \in 0..entries
      BY <1>1, InLoop DEF Clean
    <2>2. i \in Nat /\ i + 1 < entries
      BY <1>1, <2>1
    <2> QED
      BY <1>2, <1>3, <2>1, <2>2 DEF Round, Resolving
  <1> HIDE DEF r
  <1>5. /\ s.n \in {entries, entries + 1} /\ s.n <= Len(Firmware) + 1
        /\ entries \in 1..CAP /\ Len(Firmware) \in Nat
    <2>1. /\ s.n \in {entries, entries + 1} /\ s.n <= Len(Firmware) + 1
          /\ Len(Firmware) \in Nat
      BY <1>4, RoundFacts
    <2> QED
      BY <1>2, <2>1 DEF Resolving
  <1>6. CASE s.n <= CAP
    <2>1. Ranges(s.m, s.n, i + 1)
      BY <1>4, <1>6, RangesStep
    <2>2. WellPlaced => Pieces(s.m, s.n, i + 1)
      BY <1>2, <1>4, <1>6, PiecesStep DEF Resolving
    <2>3. s.n \in 1..CAP
      BY <1>5, <1>6, CapAssumption
    <2>4. Resolving(s.m, s.n, i + 1)
      BY <2>1, <2>2, <2>3 DEF Resolving
    <2> QED
      BY <1>1, <1>3, <1>6, <2>4
  <1>7. CASE ~ (s.n <= CAP)
    <2>1. Len(Firmware) \notin 1..(CAP - 1)
      BY <1>5, <1>7, CapAssumption
    <2> QED
      BY <1>1, <1>3, <1>7, <2>1
  <1> QED
    BY <1>6, <1>7

\* Publishing what the loop leaves.
LEMMA LoopEnds ==
  ASSUME TypeInv, PhaseInv, Publish, Clean
  PROVE  Resolved(arc_mmap', meta'.mmap_len, meta'.mem_size)
  <1> DEFINE last == arc_mmap[entries - 1]
  <1>1. /\ pc = "resolve" /\ i >= entries - 1 /\ arc_mmap' = arc_mmap
        /\ meta' = [meta EXCEPT !.mmap_len = entries, !.mem_size = Ceil(last)]
    BY DEF Publish, mapvars
  <1>2. Ranges(arc_mmap, entries, i) /\ (WellPlaced => Pieces(arc_mmap, entries, i))
    BY <1>1 DEF PhaseInv, Resolving
  <1>3. /\ Firmware \in Seq(FirmwareEntry)
        /\ arc_mmap \in EntryArray /\ begin \in Nat /\ end \in Nat
        /\ entries \in 1..CAP /\ i \in 0..entries
    BY <1>1, InLoop, WidthAssumption DEF Clean
  <1>4. /\ entries <= Len(Firmware) + 1 /\ SortedDisjoint(arc_mmap, entries)
        /\ \A x \in FwIndex : EndAt(Firmware[x]) <= EndAt(last)
    BY <1>2, <1>3 DEF Ranges
  <1>5. Ceil(last) = EndAt(last) /\ Ceil(last) \in 0..(U64 - 1)
    <2>1. entries - 1 \in Slots /\ entries - 1 \in 0..(entries - 1)
      BY <1>3, CapAssumption DEF Slots
    <2>2. last.base \in 0..(U64 - 1) /\ last.len \in 0..(U64 - 1)
      BY <1>3, <2>1, EntryNats
    <2>3. last.base + last.len < U64
      BY <1>4, <2>1 DEF SortedDisjoint
    <2> HIDE DEF last
    <2>4. last.base + last.len \in 0..(U64 - 1)
      BY <2>2, <2>3, WidthAssumption
    <2> QED
      BY <2>4, W64Id DEF Ceil, EndAt
  <1>6. meta'.mmap_len = entries /\ meta'.mem_size = EndAt(last)
    <2> HIDE DEF last
    <2>1. PICK q : q = [meta EXCEPT !.mmap_len = entries]
      OBVIOUS
    <2>2. q \in MetaRecord /\ q.mmap_len = entries
      <3>1. entries \in 0..CAP /\ meta \in MetaRecord
        BY <1>3 DEF TypeInv
      <3> QED
        BY <2>1, <3>1, MetaLen
    <2>3. meta' = [q EXCEPT !.mem_size = Ceil(last)]
      BY <1>1, <2>1
    <2>4. meta'.mmap_len = q.mmap_len /\ meta'.mem_size = Ceil(last)
      BY <1>5, <2>2, <2>3, MetaSize
    <2> QED
      BY <1>5, <2>2, <2>4
  <1>7. WellPlaced => /\ \A y \in 0..(entries - 1) : \E x \in FwIndex : Settled(arc_mmap[y], x)
                      /\ Covers(arc_mmap, entries)
    <2> SUFFICES ASSUME WellPlaced
                 PROVE  /\ \A y \in 0..(entries - 1) :
                             \E x \in FwIndex : Settled(arc_mmap[y], x)
                        /\ Covers(arc_mmap, entries)
      OBVIOUS
    <2>1. Pieces(arc_mmap, entries, i)
      BY <1>2
    <2>2. Covers(arc_mmap, entries)
      BY <2>1 DEF Pieces
    <2> QED
      BY <1>1, <1>2, <1>3, <2>1, <2>2, AllSettled DEF Clean
  <1> HIDE DEF last
  <1>8. Resolved(arc_mmap, entries, EndAt(last))
    BY <1>3, <1>4, <1>7 DEF Resolved
  <1> QED
    BY <1>1, <1>6, <1>8

\* The whole parse keeps what is claimed of the map, whatever the tags.
THEOREM PhasesKeep == Spec => []PhaseInv
  <1>1. Init => PhaseInv
    BY DEF Init, PhaseInv, Passed
  <1>2. TypeInv /\ SortInv /\ PhaseInv /\ [Next]_vars => PhaseInv'
    <2> SUFFICES ASSUME TypeInv, SortInv, PhaseInv, [Next]_vars, Clean'
                 PROVE  /\ pc' = "resolve" => Resolving(arc_mmap, entries, i)'
                        /\ Passed' => Resolved(arc_mmap, meta.mmap_len, meta.mem_size)'
                        /\ pc' = "wild" => Len(Firmware') \notin 1..(CAP - 1)
      BY DEF PhaseInv
    <2>1. tags' = tags
      BY DEF Next, vars, input, Start, FirstModule, FirstBaseAddr, FirstFramebuffer,
             FirstOther, FirstDone, SecondMMap, InsertEntry, SortDone, ResolveEntry,
             Publish, SecondAcpi, SecondOther, SecondDone
    <2>2. Clean /\ MapTags' = MapTags /\ Firmware' = Firmware
      BY <2>1, SameMap
    <2>3. PICK p \in MapTags : p \in 1..Len(tags)
      BY <2>2, AMap DEF Clean
    <2>4. /\ meta \in MetaRecord /\ Len(tags) \in Nat /\ pos \in 1..(Len(tags) + 1)
          /\ p \in MapTags' /\ p \in Nat /\ p >= 1
      BY <2>2, <2>3, InitTagsAssumption DEF TypeInv, TypeOK
    <2>5. CASE Start \/ FirstModule \/ FirstBaseAddr \/ FirstFramebuffer \/ FirstOther
      <3>1. pc' \in {"first", "failed"}
        BY <2>5 DEF Start, FirstModule, FirstBaseAddr, FirstFramebuffer, FirstOther, At
      <3> QED
        BY <3>1 DEF Passed
    <2>6. CASE FirstDone
      <3>1. pc' = "second" /\ pos' = 1
        BY <2>6 DEF FirstDone
      <3>2. ~ Passed'
        BY <2>4, <3>1 DEF Passed
      <3> QED
        BY <3>1, <3>2
    <2>7. CASE SecondMMap
      <3>1. pc' = "sort"
        BY <2>7 DEF SecondMMap
      <3> QED
        BY <3>1 DEF Passed
    <2>8. CASE InsertEntry
      <3>1. pc' \in {"sort", "wild"}
        BY <2>8 DEF InsertEntry
      <3>2. pc' = "wild" => Len(Firmware) \notin 1..(CAP - 1)
        <4> SUFFICES ASSUME pc' = "wild" PROVE Len(Firmware) \notin 1..(CAP - 1)
          OBVIOUS
        <4>1. pc = "sort" /\ i < entries /\ ~ (i < CAP)
          BY <2>8 DEF InsertEntry
        <4>2. pos \in MapTags /\ entries = Len(tags[pos].entries) /\ i \in Nat /\ entries \in Nat
          BY <2>4, <4>1 DEF TypeInv, TypeOK, MapTags
        <4>3. Firmware = tags[pos].entries
          BY <2>2, <2>4, <4>2, OneMap DEF Clean
        <4> QED
          BY <4>1, <4>2, <4>3, CapAssumption
      <3> QED
        BY <2>2, <3>1, <3>2 DEF Passed
    <2>9. CASE SortDone
      <3>1. UNCHANGED input /\ pc' \in {"wild", "resolve"}
        BY <2>9 DEF SortDone
      <3>2. pc' = "resolve" => Resolving(arc_mmap, entries, i)'
        BY <2>2, <2>9, <3>1, LoopStarts, SameClaims
      <3>3. pc' = "wild" => Len(Firmware) = 0
        BY <2>2, <2>9, LoopStarts
      <3> QED
        BY <2>2, <3>1, <3>2, <3>3 DEF Passed
    <2>10. CASE ResolveEntry
      <3>1. UNCHANGED input /\ pc' \in {"wild", "resolve"}
        BY <2>10 DEF ResolveEntry
      <3>2. pc' = "resolve" => Resolving(arc_mmap, entries, i)'
        BY <2>2, <2>10, <3>1, LoopGoesOn, SameClaims
      <3>3. pc' = "wild" => Len(Firmware) \notin 1..(CAP - 1)
        BY <2>2, <2>10, LoopGoesOn
      <3> QED
        BY <2>2, <3>1, <3>2, <3>3 DEF Passed
    <2>11. CASE Publish
      <3>1. UNCHANGED input /\ pc' = "second"
        BY <2>11 DEF Publish
      <3>2. Resolved(arc_mmap, meta.mmap_len, meta.mem_size)'
        BY <2>2, <2>11, <3>1, LoopEnds, SameClaims
      <3> QED
        BY <3>1, <3>2
    <2>12. ASSUME UNCHANGED <<input, arc_mmap>>, pc' # "resolve", pc' = "wild" => pc = "wild",
                  meta'.mmap_len = meta.mmap_len, meta'.mem_size = meta.mem_size,
                  Passed' => Passed
           PROVE  /\ pc' = "resolve" => Resolving(arc_mmap, entries, i)'
                  /\ Passed' => Resolved(arc_mmap, meta.mmap_len, meta.mem_size)'
                  /\ pc' = "wild" => Len(Firmware') \notin 1..(CAP - 1)
      BY <2>2, <2>12, SameClaims DEF PhaseInv
    <2>13. ASSUME pos' = pos + 1, tags[pos].kind # "mmap", pc = "second", pc' = "second"
           PROVE  Passed' => Passed
      <3>1. pos \notin MapTags /\ \A q \in MapTags : q \in Nat
        BY <2>13 DEF MapTags
      <3> QED
        BY <2>2, <2>4, <2>13, <3>1 DEF Passed
    <2>14. CASE SecondAcpi
      <3>1. /\ UNCHANGED <<input, arc_mmap>> /\ pc = "second" /\ pc' = "second"
            /\ pos' = pos + 1 /\ tags[pos].kind # "mmap"
            /\ meta' = [meta EXCEPT !.rsdp = pos]
        BY <2>14 DEF SecondAcpi, At, mapvars
      <3>2. meta'.mmap_len = meta.mmap_len /\ meta'.mem_size = meta.mem_size
        BY <2>4, <3>1, MetaSet
      <3> QED
        BY <2>12, <2>13, <3>1, <3>2
    <2>15. CASE SecondOther
      <3>1. /\ UNCHANGED <<input, arc_mmap, meta>> /\ pc = "second" /\ pc' = "second"
            /\ pos' = pos + 1 /\ tags[pos].kind # "mmap"
        BY <2>15 DEF SecondOther, At, mapvars
      <3> QED
        BY <2>12, <2>13, <3>1
    <2>16. CASE SecondDone
      <3>1. /\ UNCHANGED <<input, arc_mmap, meta>> /\ pc' = "done"
            /\ pc = "second" /\ pos > Len(tags)
        BY <2>16 DEF SecondDone, mapvars
      <3>2. Passed
        BY <2>4, <3>1 DEF Passed, MapTags
      <3> QED
        BY <2>12, <3>1, <3>2
    <2>17. CASE UNCHANGED vars
      <3>1. UNCHANGED <<input, arc_mmap, entries, i, meta, pc, pos>>
        BY <2>17 DEF vars, input
      <3>2. Passed' => Passed
        BY <2>2, <3>1 DEF Passed
      <3> QED
        BY <2>2, <3>1, <3>2, SameClaims DEF PhaseInv
    <2> QED
      BY <2>5, <2>6, <2>7, <2>8, <2>9, <2>10, <2>11, <2>14, <2>15, <2>16, <2>17 DEF Next
  <1> QED
    BY <1>1, <1>2, TypeCorrect, SelectionStaysSorted, PTL DEF Spec

\* A parse that came to its end has passed the memory map.
LEMMA ParsedIsResolved ==
  ASSUME PhaseInv, Parsed, Disjoint
  PROVE  Resolved(arc_mmap, meta.mmap_len, meta.mem_size)
  BY DEF PhaseInv, Parsed, Clean, Passed

\* The published map of a firmware map without overlaps has none either,
\* wherever the bootstrapper lies.
THEOREM PublishedIsSorted == Spec => []PublishedSorted
  <1>1. PhaseInv => PublishedSorted
    BY ParsedIsResolved DEF PublishedSorted, Resolved
  <1> QED
    BY <1>1, PhasesKeep, PTL

\* With one slot to spare nothing is written past the array.
THEOREM StaysInTheArray == Spec => []OneSlotIsEnough
  <1>1. PhaseInv => OneSlotIsEnough
    <2> SUFFICES ASSUME PhaseInv, Cardinality(MapTags) = 1, Disjoint,
                        Len(Firmware) \in 1..(CAP - 1)
                 PROVE  /\ pc # "wild"
                        /\ pc = "done" => meta.mmap_len <= Len(Firmware) + 1
      BY DEF OneSlotIsEnough
    <2>1. pc # "wild"
      BY DEF PhaseInv, Clean
    <2>2. pc = "done" => meta.mmap_len <= Len(Firmware) + 1
      BY ParsedIsResolved DEF Parsed, Resolved
    <2> QED
      BY <2>1, <2>2
  <1> QED
    BY <1>1, PhasesKeep, PTL

\* The published map says of each address what the firmware said, except that
\* what yields is BOOTSTRAP from the load base to the end of the last module.
THEOREM PublishedIsExact == Spec => []PublishedExact
  <1>1. TypeInv /\ PhaseInv => PublishedExact
    <2> SUFFICES ASSUME TypeInv, PhaseInv PROVE PublishedExact
      OBVIOUS
    <2>2. ASSUME Parsed, Disjoint, WellPlaced, NEW a \in 0..(U64 - 1)
          PROVE  TypesAt(arc_mmap, meta.mmap_len, a) =
                   {IF Marked(a) /\ c > BOOTSTRAP THEN BOOTSTRAP ELSE c : c \in CodesAt(a)}
      <3> DEFINE n == meta.mmap_len
      <3>1. /\ n \in 1..CAP /\ Covers(arc_mmap, n)
            /\ \A y \in 0..(n - 1) : \E x \in FwIndex : Settled(arc_mmap[y], x)
        BY <2>2, ParsedIsResolved DEF Resolved
      <3>2. arc_mmap \in EntryArray /\ begin \in Nat /\ end \in Nat /\ a \in Nat
        BY WidthAssumption DEF TypeInv, TypeOK
      <3>3. Firmware \in Seq(FirmwareEntry)
        <4>1. tags \in InitTags /\ Len(tags) \in Nat /\ Cardinality(MapTags) = 1
          BY <2>2, InitTagsAssumption DEF TypeInv, TypeOK, Parsed
        <4>2. PICK p \in MapTags : p \in 1..Len(tags)
          BY <4>1, AMap
        <4>3. tags[p].kind = "mmap" /\ Firmware = tags[p].entries
          BY <4>1, OneMap DEF MapTags
        <4> QED
          BY <4>1, <4>2, <4>3, TagTypes
      <3> HIDE DEF n
      <3>4. TypesAt(arc_mmap, n, a) =
              {IF Marked(a) /\ c > BOOTSTRAP THEN BOOTSTRAP ELSE c : c \in CodesAt(a)}
        BY <2>2, <3>1, <3>2, <3>3, SettledIsExact
      <3> QED
        BY <3>4 DEF n
    <2> QED
      BY <2>2 DEF PublishedExact
  <1> QED
    BY <1>1, TypeCorrect, PhasesKeep, PTL

\* Neither the image nor a module is published as available, if the image lies
\* below the modules: what is marked reaches from the load base to the end of
\* the last module, the exact map says, and an available entry yields.
THEOREM NothingOfTheBootstrapperIsFree == Spec => []BootstrapperReserved
  <1>1. TypeInv /\ ModulesInv /\ PublishedExact => BootstrapperReserved
    <2> SUFFICES ASSUME TypeInv, ModulesInv, PublishedExact, Parsed, Disjoint, WellPlaced,
                        ImageBelowModules, NEW a \in 0..(U64 - 1), InImage(a) \/ InModule(a)
                 PROVE  AVAILABLE \notin TypesAt(arc_mmap, meta.mmap_len, a)
      BY DEF BootstrapperReserved
    <2>1. tags \in InitTags /\ end \in Nat /\ begin \in Nat
      BY DEF TypeInv, TypeOK
    <2>2. Based(Len(tags)) /\ \A p \in 1..Len(tags) : Covered(p)
      BY DEF ModulesInv, Parsed
    <2>3. ASSUME NEW p \in 1..Len(tags), tags[p].kind = "module"
          PROVE  tags[p].end <= end
      BY <2>2, <2>3 DEF Covered, ImageBelowModules
    <2>4. ASSUME NEW p \in 1..Len(tags), IsBase(p)
          PROVE  begin = tags[p].addr
      <3>1. PICK q \in 1..Len(tags) : IsBase(q) /\ begin = tags[q].addr
        BY <2>2, <2>4 DEF Based
      <3> QED
        BY <2>4, <3>1 DEF IsBase, ImageBelowModules
    <2>5. Marked(a)
      <3>1. CASE InImage(a)
        <4>1. PICK p \in 1..Len(tags) : tags[p].kind = "load_base_addr" /\ a \in Image(tags[p])
          BY <3>1 DEF InImage
        <4>2. PICK q \in 1..Len(tags) :
                tags[q].kind = "module" /\ tags[p].addr + IMAGE_SIZE <= tags[q].end
          BY <4>1 DEF ImageBelowModules
        <4>3. tags[p].addr = begin /\ tags[q].end <= end /\ tags[q].end \in Nat
          BY <2>1, <2>3, <2>4, <4>1, <4>2, TagTypes DEF IsBase
        <4> QED
          BY <2>1, <4>1, <4>2, <4>3, ImageSizeAssumption DEF Marked, Image
      <3>2. CASE InModule(a)
        <4>1. PICK p \in 1..Len(tags) : tags[p].kind = "module"
                                      /\ a \in tags[p].start..(tags[p].end - 1)
          BY <3>2 DEF InModule
        <4>2. tags[p].start \in Nat /\ tags[p].end \in Nat /\ tags[p].end <= end
          BY <2>1, <2>3, <4>1, TagTypes
        <4>3. begin <= tags[p].start
          <5>1. CASE begin = 0
            BY <4>2, <5>1
          <5>2. CASE \E q \in 1..Len(tags) : IsBase(q) /\ begin = tags[q].addr
            BY <4>1, <5>2 DEF IsBase, ImageBelowModules
          <5> QED
            BY <2>2, <5>1, <5>2 DEF Based
        <4> QED
          BY <2>1, <4>1, <4>2, <4>3 DEF Marked
      <3> QED
        BY <3>1, <3>2
    <2>6. TypesAt(arc_mmap, meta.mmap_len, a) =
            {IF Marked(a) /\ c > BOOTSTRAP THEN BOOTSTRAP ELSE c : c \in CodesAt(a)}
      BY DEF PublishedExact
    <2>7. ASSUME NEW c \in CodesAt(a), c > BOOTSTRAP \/ c # AVAILABLE
          PROVE  (IF c > BOOTSTRAP THEN BOOTSTRAP ELSE c) # AVAILABLE
      BY <2>7, TypeCodeAssumption
    <2>8. AVAILABLE > BOOTSTRAP
      BY TypeCodeAssumption
    <2> QED
      BY <2>5, <2>6, <2>7, <2>8
  <1> QED
    BY <1>1, TypeCorrect, ModulesStayCovered, PublishedIsExact, PTL

-----------------------------------------------------------------------------
(* Resolving a map whose entries overlap in steps: each the next one only, *)
(* and that by less than all of it.  In the order of g, a round gives what *)
(* two entries share to the lesser type, and the cut of the last round     *)
(* stays clear of the cut of the next.                                     *)

Base(g, x) == Firmware[g[x]].base
Top(g, x)  == EndAt(Firmware[g[x]])
Kind(g, x) == Code(g[x])

\* Entry x and the next one share memory, and x has to yield it.
Shares(g, x) == Base(g, x + 1) < Top(g, x)
Loses(g, x)  == Kind(g, x + 1) <= Kind(g, x)

\* What is left of entry x between its neighbours.
Low(g, x) ==
  IF x > 0 /\ Shares(g, x - 1) /\ ~ Loses(g, x - 1) THEN Top(g, x - 1) ELSE Base(g, x)
High(g, n, x) ==
  IF x < n - 1 /\ Shares(g, x) /\ Loses(g, x) THEN Base(g, x + 1) ELSE Top(g, x)

\* The firmware's entries in the order of g.
Stairs(g, n) ==
  /\ \A x \in 0..(n - 1) : g[x] \in FwIndex
  /\ \A z \in FwIndex : \E x \in 0..(n - 1) : g[x] = z
  /\ \A x \in 0..(n - 1) : /\ Base(g, x) \in Nat /\ Top(g, x) \in Nat /\ Kind(g, x) \in Nat
                           /\ Base(g, x) < Top(g, x) /\ Top(g, x) < U64
  /\ \A x, y \in 0..(n - 1) : x < y => Base(g, x) < Base(g, y)
  /\ \A x, y \in 0..(n - 1) : x + 1 < y => Top(g, x) <= Base(g, y)
  /\ \A x \in 0..(n - 2) :
       Shares(g, x) => /\ Top(g, x) < Top(g, x + 1) /\ Kind(g, x) # Kind(g, x + 1)
                       /\ Top(g, x) - Base(g, x + 1) < U32

\* The array when the loop stands at k: the entries before it are cut at both
\* ends, entry k at its beginning, and the ones after it are as they were.
Trimmed(m, n, k, g) ==
  \A x \in 0..(n - 1) :
    /\ m[x].type = Kind(g, x)
    /\ m[x].base = IF x <= k THEN Low(g, x) ELSE Base(g, x)
    /\ EndAt(m[x]) = IF x < k THEN High(g, n, x) ELSE Top(g, x)

\* The numbers of the firmware's entries, of which none is empty.
LEMMA StepNats ==
  ASSUME Firmware \in Seq(FirmwareEntry), Staggered, NEW x \in FwIndex
  PROVE  /\ Firmware[x].base \in Nat /\ EndAt(Firmware[x]) \in Nat /\ Code(x) \in Nat
         /\ Firmware[x].base < EndAt(Firmware[x]) /\ EndAt(Firmware[x]) < U64
  <1>1. Firmware[x].base \in Nat /\ Firmware[x].len \in Nat /\ Code(x) \in Nat
    BY FirmwareNats
  <1>2. Firmware[x].len > 0 /\ EndAt(Firmware[x]) < U64
    BY DEF Staggered
  <1> QED
    BY <1>1, <1>2 DEF EndAt

\* What two entries that overlap have to each other, and to any third.
LEMMA StepPair ==
  ASSUME Staggered, NEW k \in FwIndex, NEW l \in FwIndex, k # l,
         Firmware[k].base <= Firmware[l].base, Firmware[l].base < EndAt(Firmware[k])
  PROVE  /\ Firmware[k].base < Firmware[l].base /\ EndAt(Firmware[k]) < EndAt(Firmware[l])
         /\ Code(k) # Code(l) /\ EndAt(Firmware[k]) - Firmware[l].base < U32
         /\ \A x \in FwIndex \ {k, l} : \/ Firmware[x].base >= EndAt(Firmware[k])
                                        \/ EndAt(Firmware[x]) <= Firmware[l].base
  BY DEF Staggered

\* A sorted selection of such entries ascends without a tie, and only
\* neighbours share memory.
LEMMA StairsStart ==
  ASSUME NEW m, NEW n \in 1..CAP, n = Len(Firmware), Firmware \in Seq(FirmwareEntry),
         Staggered, SortedSelection(m, n, Firmware)
  PROVE  \E g : Stairs(g, n) /\ Trimmed(m, n, 0, g)
  <1>1. PICK g : IsArrangement(m, n, Firmware, g)
    BY DEF SortedSelection
  <1>2. /\ \A x \in 0..(n - 1) : g[x] \in FwIndex
        /\ \A x, y \in 0..(n - 1) : g[x] = g[y] => x = y
        /\ \A z \in FwIndex : \E x \in 0..(n - 1) : g[x] = z
        /\ \A x \in 0..(n - 1) : m[x] = FromFirmware(Firmware[g[x]])
    BY <1>1 DEF IsArrangement, FwIndex
  <1>3. \A x \in 0..(n - 1) : /\ Base(g, x) \in Nat /\ Top(g, x) \in Nat /\ Kind(g, x) \in Nat
                              /\ Base(g, x) < Top(g, x) /\ Top(g, x) < U64
    BY <1>2, StepNats DEF Base, Top, Kind
  <1>4. ASSUME NEW x \in 0..(n - 1)
        PROVE  m[x].base = Base(g, x) /\ EndAt(m[x]) = Top(g, x) /\ m[x].type = Kind(g, x)
    <2>1. g[x] \in FwIndex /\ m[x] = FromFirmware(Firmware[g[x]])
      BY <1>2
    <2>2. Firmware[g[x]] \in FirmwareEntry
      BY <2>1, FirmwareNats
    <2>3. /\ m[x].base = Firmware[g[x]].base
          /\ m[x].len = Firmware[g[x]].len
          /\ m[x].type = Code(g[x])
      BY <2>1, <2>2, FromFirmwareType DEF Code
    <2> QED
      BY <2>3 DEF EndAt, Base, Top, Kind
  <1>5. ASSUME NEW x \in 0..(n - 1), NEW y \in 0..(n - 1), x < y
        PROVE  /\ g[x] # g[y] /\ g[x] \in FwIndex /\ g[y] \in FwIndex
               /\ Base(g, x) <= Base(g, y)
    <2>1. m[x].base <= m[y].base
      BY <1>5 DEF SortedSelection, Ascending
    <2>2. g[x] = g[y] => x = y
      BY <1>2
    <2>3. x # y
      BY <1>5
    <2> QED
      BY <1>2, <1>4, <2>1, <2>2, <2>3
  <1>6. ASSUME NEW x \in 0..(n - 1), NEW y \in 0..(n - 1), x < y, Base(g, y) < Top(g, x)
        PROVE  /\ Base(g, x) < Base(g, y) /\ Top(g, x) < Top(g, y)
               /\ Kind(g, x) # Kind(g, y) /\ Top(g, x) - Base(g, y) < U32
               /\ \A z \in 0..(n - 1) : z # x /\ z # y =>
                    Base(g, z) >= Top(g, x) \/ Top(g, z) <= Base(g, y)
    <2>1. /\ g[x] # g[y] /\ g[x] \in FwIndex /\ g[y] \in FwIndex
          /\ Base(g, x) <= Base(g, y)
      BY <1>5, <1>6
    <2>2. /\ Base(g, x) < Base(g, y) /\ Top(g, x) < Top(g, y)
          /\ Kind(g, x) # Kind(g, y) /\ Top(g, x) - Base(g, y) < U32
          /\ \A q \in FwIndex \ {g[x], g[y]} :
               Firmware[q].base >= Top(g, x) \/ EndAt(Firmware[q]) <= Base(g, y)
      BY <1>6, <2>1, StepPair DEF Base, Top, Kind
    <2>3. ASSUME NEW z \in 0..(n - 1), z # x, z # y
          PROVE  Base(g, z) >= Top(g, x) \/ Top(g, z) <= Base(g, y)
      <3>1. g[z] \in FwIndex /\ g[z] # g[x] /\ g[z] # g[y]
        BY <1>2, <2>3
      <3> QED
        BY <2>2, <3>1 DEF Base, Top
    <2> QED
      BY <2>2, <2>3
  <1>7. ASSUME NEW x \in 0..(n - 1), NEW y \in 0..(n - 1), x < y
        PROVE  Base(g, x) < Base(g, y)
    <2>1. CASE Base(g, y) < Top(g, x)
      BY <1>6, <1>7, <2>1
    <2>2. CASE ~ (Base(g, y) < Top(g, x))
      BY <1>3, <2>2
    <2> QED
      BY <2>1, <2>2
  <1>8. ASSUME NEW x \in 0..(n - 1), NEW y \in 0..(n - 1), x + 1 < y
        PROVE  Top(g, x) <= Base(g, y)
    <2> SUFFICES ASSUME Base(g, y) < Top(g, x) PROVE FALSE
      BY <1>3
    <2>1. x + 1 \in 0..(n - 1) /\ x < x + 1 /\ x < y
      BY <1>8
    <2>2. Base(g, x + 1) < Base(g, y)
      BY <1>7, <1>8, <2>1
    <2>3. Base(g, x + 1) < Top(g, x)
      BY SMTT(30), <1>3, <2>1, <2>2
    <2>4. Top(g, x) < Top(g, x + 1)
      BY Zenon, <1>6, <2>1, <2>3
    <2>5. Base(g, x + 1) >= Top(g, x) \/ Top(g, x + 1) <= Base(g, y)
      BY <1>6, <1>8, <2>1
    <2>6. /\ Top(g, x) \in Nat /\ Top(g, x + 1) \in Nat
          /\ Base(g, x + 1) \in Nat /\ Base(g, y) \in Nat
      BY <1>3, <2>1
    <2> QED
      BY <2>3, <2>4, <2>5, <2>6
  <1>9. ASSUME NEW x \in 0..(n - 2), Shares(g, x)
        PROVE  /\ Top(g, x) < Top(g, x + 1) /\ Kind(g, x) # Kind(g, x + 1)
               /\ Top(g, x) - Base(g, x + 1) < U32
    <2>1. x \in 0..(n - 1) /\ x + 1 \in 0..(n - 1) /\ x < x + 1
      OBVIOUS
    <2> QED
      BY <1>6, <1>9, <2>1 DEF Shares
  <1>10. Stairs(g, n)
    BY <1>2, <1>3, <1>7, <1>8, <1>9 DEF Stairs
  <1>11. Trimmed(m, n, 0, g)
    <2> SUFFICES ASSUME NEW x \in 0..(n - 1)
                 PROVE  /\ m[x].type = Kind(g, x)
                        /\ m[x].base = IF x <= 0 THEN Low(g, x) ELSE Base(g, x)
                        /\ EndAt(m[x]) = IF x < 0 THEN High(g, n, x) ELSE Top(g, x)
      BY DEF Trimmed
    <2>1. x <= 0 => Low(g, x) = Base(g, x)
      BY DEF Low
    <2> QED
      BY <1>4, <2>1
  <1> QED
    BY <1>10, <1>11

\* An entry of the array that begins where b says and ends below 2^64.
LEMMA EndIs ==
  ASSUME NEW e \in Entry, EndAt(e) < U64
  PROVE  /\ e.base \in 0..(U64 - 1) /\ e.len \in 0..(U64 - 1) /\ e.type \in 0..(U32 - 1)
         /\ e.len = EndAt(e) - e.base /\ Ceil(e) = EndAt(e) /\ EndAt(e) \in 0..(U64 - 1)
  <1>1. /\ e.base \in 0..(U64 - 1) /\ e.len \in 0..(U64 - 1) /\ e.type \in 0..(U32 - 1)
    BY DEF Entry
  <1>2. e.base + e.len \in 0..(U64 - 1)
    BY <1>1 DEF EndAt
  <1>3. Ceil(e) = e.base + e.len
    BY <1>2, W64Id DEF Ceil
  <1> QED
    BY <1>1, <1>2, <1>3 DEF EndAt

\* What is left of an entry lies in it, and what is left of its neighbours
\* comes before and after.
LEMMA StairIs ==
  ASSUME NEW n \in Nat, NEW g, Stairs(g, n), NEW x \in 0..(n - 1)
  PROVE  /\ Base(g, x) <= Low(g, x) /\ Low(g, x) \in Nat
         /\ High(g, n, x) <= Top(g, x) /\ High(g, n, x) \in Nat
         /\ Low(g, x) < Top(g, x)
         /\ x < n - 1 => Low(g, x) <= Base(g, x + 1)
  <1>1. /\ Base(g, x) \in Nat /\ Top(g, x) \in Nat /\ Base(g, x) < Top(g, x)
    BY DEF Stairs
  <1>2. ASSUME x > 0, Shares(g, x - 1)
        PROVE  /\ Top(g, x - 1) \in Nat /\ Base(g, x) < Top(g, x - 1)
               /\ Top(g, x - 1) < Top(g, x)
               /\ x < n - 1 => Top(g, x - 1) <= Base(g, x + 1)
    <2>1. x - 1 \in 0..(n - 2) /\ x - 1 \in 0..(n - 1) /\ (x - 1) + 1 = x
      BY <1>2
    <2>2. Top(g, x - 1) \in Nat /\ Base(g, x) < Top(g, x - 1)
      BY <1>2, <2>1 DEF Stairs, Shares
    <2>3. Top(g, x - 1) < Top(g, (x - 1) + 1)
      BY <1>2, <2>1 DEF Stairs
    <2>4. x < n - 1 => Top(g, x - 1) <= Base(g, x + 1)
      <3>1. x < n - 1 => x + 1 \in 0..(n - 1)
        OBVIOUS
      <3> QED
        BY <2>1, <3>1 DEF Stairs
    <2> QED
      BY <2>1, <2>2, <2>3, <2>4
  <1>3. x < n - 1 => /\ Base(g, x + 1) \in Nat /\ Base(g, x) < Base(g, x + 1)
    <2>1. x < n - 1 => x + 1 \in 0..(n - 1) /\ x < x + 1
      OBVIOUS
    <2> QED
      BY <2>1 DEF Stairs
  <1>4. /\ Base(g, x) <= Low(g, x) /\ Low(g, x) \in Nat /\ Low(g, x) < Top(g, x)
        /\ x < n - 1 => Low(g, x) <= Base(g, x + 1)
    BY <1>1, <1>2, <1>3 DEF Low
  <1>5. /\ High(g, n, x) <= Top(g, x) /\ High(g, n, x) \in Nat
    <2>1. CASE x < n - 1 /\ Shares(g, x) /\ Loses(g, x)
      <3>1. High(g, n, x) = Base(g, x + 1)
        BY <2>1 DEF High
      <3> QED
        BY <1>1, <1>3, <2>1, <3>1 DEF Shares
    <2>2. CASE ~ (x < n - 1 /\ Shares(g, x) /\ Loses(g, x))
      BY <1>1, <2>2 DEF High
    <2> QED
      BY <2>1, <2>2
  <1> QED
    BY <1>4, <1>5

\* What the loop does to entry k and the next one, if they share memory: one
\* of them yields what they share, and no entry comes or goes.
LEMMA OverlapCuts ==
  ASSUME NEW m \in EntryArray, NEW n \in 1..CAP, NEW k \in Nat, k + 1 < n,
         NEW t \in Nat, NEW b \in Nat,
         EndAt(m[k]) = t, m[k + 1].base = b, b < t, t < EndAt(m[k + 1]),
         EndAt(m[k + 1]) < U64, t - b < U32, m[k].base <= b,
         m[k].type # m[k + 1].type,
         NEW r, r = Overlap([m |-> m, n |-> n], k)
  PROVE  /\ r.n = n /\ r \in Pair
         /\ \A x \in Slots : r.m[x].type = m[x].type
         /\ \A x \in Slots : x # k /\ x # k + 1 => r.m[x] = m[x]
         /\ IF m[k].type < m[k + 1].type
            THEN /\ r.m[k] = m[k] /\ r.m[k + 1].base = t
                 /\ EndAt(r.m[k + 1]) = EndAt(m[k + 1])
            ELSE /\ r.m[k + 1] = m[k + 1] /\ r.m[k].base = m[k].base
                 /\ EndAt(r.m[k]) = b
  <1> DEFINE s == [m |-> m, n |-> n]
             e == m[k]
             f == m[k + 1]
             d == t - b
  <1>1. k \in Slots /\ k + 1 \in Slots /\ k # k + 1
    BY DEF Slots
  <1>2. s \in Pair /\ s.m = m /\ s.n = n
    BY DEF Pair
  <1>3. e \in Entry /\ f \in Entry
    BY <1>1, EntryNats
  <1>4. /\ e.base \in 0..(U64 - 1) /\ e.len \in 0..(U64 - 1) /\ e.type \in 0..(U32 - 1)
        /\ e.len = t - e.base /\ Ceil(e) = t /\ t \in 0..(U64 - 1)
    <2>1. EndAt(e) < U64
      <3>1. EndAt(f) \in Int
        BY <1>3 DEF EndAt, Entry
      <3> QED
        BY <3>1
    <2> QED
      BY <1>3, <2>1, EndIs
  <1>5. /\ f.base \in 0..(U64 - 1) /\ f.len \in 0..(U64 - 1) /\ f.type \in 0..(U32 - 1)
        /\ f.len = EndAt(f) - b /\ EndAt(f) \in 0..(U64 - 1)
    BY <1>3, EndIs
  <1>6. W32(Smaller(Ceil(e) - f.base, f.len)) = d /\ d \in 0..(U32 - 1) /\ d < f.len
    <2>1. d \in 0..(U32 - 1) /\ d < f.len
      BY <1>4, <1>5
    <2>2. Smaller(Ceil(e) - f.base, f.len) = d
      BY <1>4, <1>5, <2>1 DEF Smaller
    <2> QED
      BY <2>1, <2>2, W32Id
  <1>7. Merge(s, k) = s
    BY <1>2 DEF Merge
  <1>8. r = Prefer(s, k, d)
    <2>1. f.base < Ceil(e)
      BY <1>4
    <2> HIDE DEF d
    <2> QED
      BY <1>2, <1>6, <1>7, <2>1 DEF Overlap
  <1>9. /\ W64(f.base + d) = t /\ W64(f.len - d) = EndAt(f) - t /\ EndAt(f) - t \in 1..(U64 - 1)
        /\ W64(e.len - d) = b - e.base /\ b - e.base \in 0..(U64 - 1)
    <2>1. /\ f.base + d = t /\ f.len - d = EndAt(f) - t /\ EndAt(f) - t \in 1..(U64 - 1)
          /\ e.len - d = b - e.base /\ b - e.base \in 0..(U64 - 1)
      BY <1>4, <1>5
    <2>2. \A v \in 1..(U64 - 1) : v \in 0..(U64 - 1)
      OBVIOUS
    <2> QED
      BY <1>4, <2>1, <2>2, W64Id
  <1> HIDE DEF d
  <1>10. CASE e.type < f.type
    <2>1. PICK c : c = [s EXCEPT !.m[k + 1].base = t]
      OBVIOUS
    <2>2. PICK v : v = [c EXCEPT !.m[k + 1].len = EndAt(f) - t]
      OBVIOUS
    <2>3. /\ c.m = [m EXCEPT ![k + 1] = [base |-> t, len |-> f.len, type |-> f.type]]
          /\ c \in Pair /\ c.n = n /\ c.m \in EntryArray
      <3>1. /\ c = [m |-> [s.m EXCEPT ![k + 1] = [base |-> t, len |-> s.m[k + 1].len,
                                                  type |-> s.m[k + 1].type]], n |-> s.n]
            /\ c \in Pair /\ c.n = s.n
        BY SMTT(30), <1>1, <1>2, <1>4, <2>1, PairBase
      <3>2. c.m \in EntryArray
        BY <3>1 DEF Pair
      <3>3. /\ c.m = [s.m EXCEPT ![k + 1] = [base |-> t, len |-> s.m[k + 1].len,
                                             type |-> s.m[k + 1].type]]
            /\ c.n = s.n
        BY <3>1
      <3> HIDE DEF s
      <3> QED
        BY Zenon, <1>2, <3>1, <3>2, <3>3
    <2>4. c.m[k + 1] = [base |-> t, len |-> f.len, type |-> f.type]
      BY <1>1, <2>3 DEF EntryArray
    <2>5. /\ v.m = [c.m EXCEPT ![k + 1] = [base |-> t, len |-> EndAt(f) - t, type |-> f.type]]
          /\ v \in Pair /\ v.n = n
      <3>1. PICK w \in 0..(U64 - 1) : w = EndAt(f) - t
        BY <1>9
      <3>2. v = [c EXCEPT !.m[k + 1].len = w]
        BY <2>2, <3>1
      <3>3. /\ v = [m |-> [c.m EXCEPT ![k + 1] = [base |-> c.m[k + 1].base, len |-> w,
                                                  type |-> c.m[k + 1].type]], n |-> c.n]
            /\ v \in Pair /\ v.n = c.n
        <4>1. c \in Pair /\ k + 1 \in Slots
          BY <1>1, <2>3
        <4>2. PICK j \in Slots : j = k + 1
          BY <4>1
        <4>3. v = [c EXCEPT !.m[j].len = w]
          BY <3>2, <4>2
        <4>4. /\ v = [m |-> [c.m EXCEPT ![j] = [base |-> c.m[j].base, len |-> w,
                                                type |-> c.m[j].type]], n |-> c.n]
              /\ v \in Pair /\ v.n = c.n
          BY <4>1, <4>3, PairLen
        <4> QED
          BY <4>2, <4>4
      <3> QED
        BY <2>3, <2>4, <3>1, <3>3
    <2>6. \A x \in Slots : v.m[x] = IF x = k + 1
                                    THEN [base |-> t, len |-> EndAt(f) - t, type |-> f.type]
                                    ELSE m[x]
      BY <1>1, <2>3, <2>5 DEF EntryArray
    <2>7. v.m[k + 1].len # 0
      BY <1>1, <1>9, <2>6
    <2>8. r = v
      <3>1. [s EXCEPT !.m[k + 1].base = W64(@ + d), !.m[k + 1].len = W64(@ - d)] = v
        BY <1>1, <1>2, <1>9, <2>1, <2>2 DEF Pair, EntryArray, Entry
      <3>2. s.m[k].type < s.m[k + 1].type
        BY <1>2, <1>10
      <3> QED
        BY <1>8, <2>7, <3>1, <3>2 DEF Prefer
    <2>9. r.m[k] = m[k] /\ r.m[k + 1] = [base |-> t, len |-> EndAt(f) - t, type |-> f.type]
      BY <1>1, <2>6, <2>8
    <2>10. r.m[k + 1].base = t /\ EndAt(r.m[k + 1]) = EndAt(f)
      <3>1. r.m[k + 1].base + r.m[k + 1].len = EndAt(f)
        BY <1>4, <1>5, <2>9
      <3> QED
        BY <2>9, <3>1 DEF EndAt
    <2>11. \A x \in Slots : /\ r.m[x].type = m[x].type
                            /\ x # k /\ x # k + 1 => r.m[x] = m[x]
      BY <2>6, <2>8
    <2> QED
      BY <1>10, <2>5, <2>8, <2>9, <2>10, <2>11
  <1>11. CASE ~ (e.type < f.type)
    <2>1. PICK v : v = [s EXCEPT !.m[k].len = b - e.base]
      OBVIOUS
    <2>2. /\ v.m = [m EXCEPT ![k] = [base |-> e.base, len |-> b - e.base, type |-> e.type]]
          /\ v \in Pair /\ v.n = n
      <3>1. /\ v = [m |-> [s.m EXCEPT ![k] = [base |-> s.m[k].base, len |-> b - e.base,
                                              type |-> s.m[k].type]], n |-> s.n]
            /\ v \in Pair /\ v.n = s.n
        BY <1>1, <1>2, <1>9, <2>1, PairLen
      <3> QED
        BY <1>2, <3>1
    <2>3. \A x \in Slots : v.m[x] = IF x = k
                                    THEN [base |-> e.base, len |-> b - e.base, type |-> e.type]
                                    ELSE m[x]
      BY <1>1, <2>2 DEF EntryArray
    <2>4. r = v
      <3>1. [s EXCEPT !.m[k].len = W64(@ - d)] = v
        BY <1>1, <1>2, <1>9, <2>1 DEF Pair, EntryArray, Entry
      <3>2. ~ (s.m[k].type < s.m[k + 1].type)
        BY <1>2, <1>11
      <3> QED
        BY <1>8, <3>1, <3>2 DEF Prefer
    <2>5. r.m[k + 1] = m[k + 1] /\ r.m[k] = [base |-> e.base, len |-> b - e.base, type |-> e.type]
      BY <1>1, <2>3, <2>4
    <2>6. r.m[k].base = e.base /\ EndAt(r.m[k]) = b
      <3>1. r.m[k].base + r.m[k].len = b
        BY <1>4, <2>5
      <3> QED
        BY <2>5, <3>1 DEF EndAt
    <2>7. \A x \in Slots : /\ r.m[x].type = m[x].type
                           /\ x # k /\ x # k + 1 => r.m[x] = m[x]
      BY <2>3, <2>4
    <2> QED
      BY <1>11, <2>2, <2>4, <2>5, <2>6, <2>7
  <1> QED
    BY <1>10, <1>11

\* A round trims entry k at its end and the next one at its beginning.  Where
\* the bootstrapper occupies nothing, nothing is marked.
LEMMA TrimmedStep ==
  ASSUME NEW m \in EntryArray, NEW n \in 1..CAP, NEW k \in Nat, k + 1 < n,
         NEW g, Stairs(g, n), Trimmed(m, n, k, g),
         begin \in Nat, end \in Nat, end <= begin,
         NEW r, r = Reserve(Overlap([m |-> m, n |-> n], k), k)
  PROVE  r.n = n /\ Trimmed(r.m, n, k + 1, g)
  <1> DEFINE s == [m |-> m, n |-> n]
  <1>1. /\ k \in Slots /\ k + 1 \in Slots /\ k # k + 1
        /\ k \in 0..(n - 1) /\ k + 1 \in 0..(n - 1) /\ k \in 0..(n - 2)
        /\ k < n - 1 /\ (k + 1) - 1 = k
        /\ \A x \in 0..(n - 1) : x \in Slots
    BY DEF Slots
  <1>2. PICK o : o = Overlap(s, k)
    OBVIOUS
  <1>3. r = o
    <2>1. At2(s, k)
      BY DEF At2, Pair
    <2>2. o \in Pair
      BY <1>2, <2>1, OverlapType
    <2>3. o.m[k].base \in Nat
      BY <1>1, <2>2, EntryNats DEF Pair
    <2>4. ~ (begin <= o.m[k].base /\ o.m[k].base < end)
      BY <2>3
    <2>5. r = Reserve(o, k)
      BY <1>2
    <2> QED
      BY <2>4, <2>5 DEF Reserve
  <1>4. /\ m[k].base = Low(g, k) /\ EndAt(m[k]) = Top(g, k) /\ m[k].type = Kind(g, k)
        /\ m[k + 1].base = Base(g, k + 1) /\ EndAt(m[k + 1]) = Top(g, k + 1)
        /\ m[k + 1].type = Kind(g, k + 1)
    BY <1>1 DEF Trimmed
  <1>5. /\ Top(g, k) \in Nat /\ Base(g, k + 1) \in Nat /\ Top(g, k + 1) < U64
        /\ Kind(g, k) \in Nat /\ Kind(g, k + 1) \in Nat /\ Top(g, k) < U64
    BY <1>1 DEF Stairs
  <1>6. Low(g, k) <= Base(g, k + 1)
    BY <1>1, StairIs
  <1>7. /\ o.n = n
        /\ \A x \in Slots : o.m[x].type = m[x].type
        /\ \A x \in Slots : x # k /\ x # k + 1 => o.m[x] = m[x]
        /\ o.m[k].base = Low(g, k) /\ EndAt(o.m[k]) = High(g, n, k)
        /\ o.m[k + 1].base = Low(g, k + 1) /\ EndAt(o.m[k + 1]) = Top(g, k + 1)
    <2>1. CASE Shares(g, k)
      <3>1. /\ Top(g, k) < Top(g, k + 1) /\ Kind(g, k) # Kind(g, k + 1)
            /\ Top(g, k) - Base(g, k + 1) < U32 /\ Base(g, k + 1) < Top(g, k)
        BY <1>1, <2>1 DEF Stairs, Shares
      <3>2. /\ o.n = n
            /\ \A x \in Slots : o.m[x].type = m[x].type
            /\ \A x \in Slots : x # k /\ x # k + 1 => o.m[x] = m[x]
            /\ IF m[k].type < m[k + 1].type
               THEN /\ o.m[k] = m[k] /\ o.m[k + 1].base = Top(g, k)
                    /\ EndAt(o.m[k + 1]) = EndAt(m[k + 1])
               ELSE /\ o.m[k + 1] = m[k + 1] /\ o.m[k].base = m[k].base
                    /\ EndAt(o.m[k]) = Base(g, k + 1)
        <4>1. PICK t \in Nat, b \in Nat : t = Top(g, k) /\ b = Base(g, k + 1)
          BY <1>5
        <4>2. /\ EndAt(m[k]) = t /\ m[k + 1].base = b /\ b < t /\ t < EndAt(m[k + 1])
              /\ EndAt(m[k + 1]) < U64 /\ t - b < U32 /\ m[k].base <= b
              /\ m[k].type # m[k + 1].type
          BY <1>4, <1>5, <1>6, <3>1, <4>1
        <4>3. /\ o.n = n
              /\ \A x \in Slots : o.m[x].type = m[x].type
              /\ \A x \in Slots : x # k /\ x # k + 1 => o.m[x] = m[x]
              /\ IF m[k].type < m[k + 1].type
                 THEN /\ o.m[k] = m[k] /\ o.m[k + 1].base = t
                      /\ EndAt(o.m[k + 1]) = EndAt(m[k + 1])
                 ELSE /\ o.m[k + 1] = m[k + 1] /\ o.m[k].base = m[k].base
                      /\ EndAt(o.m[k]) = b
          BY <1>2, <4>2, OverlapCuts
        <4> QED
          BY <4>1, <4>3
      <3>3. CASE Kind(g, k) < Kind(g, k + 1)
        <4>1. ~ Loses(g, k)
          BY <1>5, <3>3 DEF Loses
        <4>2. High(g, n, k) = Top(g, k) /\ Low(g, k + 1) = Top(g, k)
          BY <1>1, <2>1, <4>1 DEF High, Low
        <4> QED
          BY <1>4, <3>2, <3>3, <4>2
      <3>4. CASE ~ (Kind(g, k) < Kind(g, k + 1))
        <4>1. Loses(g, k)
          BY <1>5, <3>4 DEF Loses
        <4>2. High(g, n, k) = Base(g, k + 1) /\ Low(g, k + 1) = Base(g, k + 1)
          BY <1>1, <2>1, <4>1 DEF High, Low
        <4> QED
          BY <1>4, <3>2, <3>4, <4>2
      <3> QED
        BY <3>3, <3>4
    <2>2. CASE ~ Shares(g, k)
      <3>1. m[k] \in Entry /\ EndAt(m[k]) < U64
        BY <1>1, <1>4, <1>5, EntryNats
      <3>2. Ceil(m[k]) = Top(g, k)
        BY <1>4, <3>1, EndIs
      <3>3. o = s
        BY <1>2, <1>4, <2>2, <3>2 DEF Overlap, Shares
      <3>4. High(g, n, k) = Top(g, k) /\ Low(g, k + 1) = Base(g, k + 1)
        BY <1>1, <2>2 DEF High, Low
      <3> QED
        BY <1>4, <3>3, <3>4
    <2> QED
      BY <2>1, <2>2
  <1>8. ASSUME NEW x \in 0..(n - 1)
        PROVE  /\ o.m[x].type = Kind(g, x)
               /\ o.m[x].base = IF x <= k + 1 THEN Low(g, x) ELSE Base(g, x)
               /\ EndAt(o.m[x]) = IF x < k + 1 THEN High(g, n, x) ELSE Top(g, x)
    <2>1. /\ m[x].type = Kind(g, x)
          /\ m[x].base = IF x <= k THEN Low(g, x) ELSE Base(g, x)
          /\ EndAt(m[x]) = IF x < k THEN High(g, n, x) ELSE Top(g, x)
          /\ x \in Slots
      BY <1>1 DEF Trimmed
    <2>2. CASE x = k
      BY <1>7, <2>1, <2>2
    <2>3. CASE x = k + 1
      BY <1>7, <2>1, <2>3
    <2>4. CASE x # k /\ x # k + 1
      <3>1. o.m[x] = m[x]
        BY <1>7, <2>1, <2>4
      <3>2. (x <= k <=> x <= k + 1) /\ (x < k <=> x < k + 1)
        BY <2>4
      <3> QED
        BY <2>1, <3>1, <3>2
    <2> QED
      BY <2>2, <2>3, <2>4
  <1> QED
    BY <1>3, <1>7, <1>8 DEF Trimmed

\* An address in what is left of an entry is in the entry, and no entry that
\* has it too has a lesser type.
LEMMA LeftIsLeast ==
  ASSUME NEW n \in Nat, NEW g, Stairs(g, n), NEW a \in Nat, NEW y \in 0..(n - 1),
         Low(g, y) <= a, a < High(g, n, y)
  PROVE  /\ Base(g, y) <= a /\ a < Top(g, y)
         /\ \A z \in 0..(n - 1) : Base(g, z) <= a /\ a < Top(g, z) => Kind(g, y) <= Kind(g, z)
  <1>1. Base(g, y) <= a /\ a < Top(g, y)
    <2>1. /\ Base(g, y) <= Low(g, y) /\ Low(g, y) \in Nat /\ Base(g, y) \in Nat
          /\ High(g, n, y) <= Top(g, y) /\ High(g, n, y) \in Nat /\ Top(g, y) \in Nat
      BY StairIs DEF Stairs
    <2> QED
      BY <2>1
  <1>2. ASSUME NEW z \in 0..(n - 1), Base(g, z) <= a, a < Top(g, z)
        PROVE  Kind(g, y) <= Kind(g, z)
    <2>1. /\ Base(g, z) \in Nat /\ Top(g, z) \in Nat /\ Kind(g, z) \in Nat
          /\ Base(g, y) \in Nat /\ Top(g, y) \in Nat /\ Kind(g, y) \in Nat
      BY DEF Stairs
    <2>2. CASE z = y
      BY <2>1, <2>2
    <2>3. CASE z = y + 1
      <3>1. Shares(g, y) /\ y < n - 1
        BY <1>1, <1>2, <2>1, <2>3 DEF Shares
      <3>2. ~ Loses(g, y)
        <4>1. Loses(g, y) => High(g, n, y) = Base(g, z)
          BY <2>3, <3>1 DEF High
        <4> QED
          BY <1>2, <2>1, <4>1
      <3> QED
        BY <2>1, <2>3, <3>2 DEF Loses
    <2>4. CASE z = y - 1
      <3>1. z + 1 = y /\ y > 0 /\ y - 1 = z
        BY <2>4
      <3>2. Shares(g, z)
        BY <1>1, <1>2, <2>1, <3>1 DEF Shares
      <3>3. Loses(g, z)
        <4>1. ~ Loses(g, z) => Low(g, y) = Top(g, z)
          BY <3>1, <3>2 DEF Low
        <4> QED
          BY <1>2, <2>1, <4>1
      <3> QED
        BY <3>1, <3>3 DEF Loses
    <2>5. CASE y + 1 < z
      <3>1. Top(g, y) <= Base(g, z)
        BY <2>5 DEF Stairs
      <3> QED
        BY <1>1, <1>2, <2>1, <3>1
    <2>6. CASE z + 1 < y
      <3>1. Top(g, z) <= Base(g, y)
        BY <2>6 DEF Stairs
      <3> QED
        BY <1>1, <1>2, <2>1, <3>1
    <2> QED
      BY <2>2, <2>3, <2>4, <2>5, <2>6
  <1> QED
    BY <1>1, <1>2

\* Of the entries that have an address the one of the least type keeps it.
LEMMA LeastIsLeft ==
  ASSUME NEW n \in Nat, NEW g, Stairs(g, n), NEW a \in Nat, NEW y \in 0..(n - 1),
         Base(g, y) <= a, a < Top(g, y),
         \A z \in 0..(n - 1) : Base(g, z) <= a /\ a < Top(g, z) => Kind(g, y) <= Kind(g, z)
  PROVE  Low(g, y) <= a /\ a < High(g, n, y)
  <1>1. /\ Base(g, y) \in Nat /\ Top(g, y) \in Nat /\ Kind(g, y) \in Nat
    BY DEF Stairs
  <1>2. ASSUME ~ (Low(g, y) <= a) PROVE FALSE
    <2>1. y > 0 /\ Shares(g, y - 1) /\ ~ Loses(g, y - 1) /\ Low(g, y) = Top(g, y - 1)
      BY <1>1, <1>2 DEF Low
    <2>2. PICK x \in 0..(n - 1) : x = y - 1 /\ x + 1 = y /\ x < y
      BY <2>1
    <2>3. /\ Base(g, x) < Base(g, y) /\ Base(g, x) \in Nat /\ Top(g, x) \in Nat
          /\ Kind(g, x) \in Nat
      BY <2>2 DEF Stairs
    <2>4. Base(g, x) <= a /\ a < Top(g, x)
      BY <1>1, <1>2, <2>1, <2>2, <2>3
    <2>5. Kind(g, y) <= Kind(g, x)
      BY <2>4
    <2>6. ~ (Kind(g, y) <= Kind(g, x))
      BY <2>1, <2>2 DEF Loses
    <2> QED
      BY <2>5, <2>6
  <1>3. ASSUME ~ (a < High(g, n, y)) PROVE FALSE
    <2>1. y < n - 1 /\ Shares(g, y) /\ Loses(g, y) /\ High(g, n, y) = Base(g, y + 1)
      BY <1>3 DEF High
    <2>2. y + 1 \in 0..(n - 1) /\ y \in 0..(n - 2)
      BY <2>1
    <2>3. /\ Top(g, y) < Top(g, y + 1) /\ Kind(g, y) # Kind(g, y + 1)
          /\ Base(g, y + 1) \in Nat /\ Top(g, y + 1) \in Nat /\ Kind(g, y + 1) \in Nat
      BY <2>1, <2>2 DEF Stairs
    <2>4. Base(g, y + 1) <= a /\ a < Top(g, y + 1)
      BY <1>1, <1>3, <2>1, <2>3
    <2>5. Kind(g, y) <= Kind(g, y + 1)
      BY <2>2, <2>4
    <2>6. Kind(g, y + 1) <= Kind(g, y)
      BY <2>1 DEF Loses
    <2> QED
      BY <1>1, <2>3, <2>5, <2>6
  <1> QED
    BY <1>2, <1>3

\* The array at the end of the loop gives to each address the least of the
\* types that the firmware gives it.
LEMMA TrimmedIsLeast ==
  ASSUME NEW m, NEW n \in Nat \ {0}, NEW g, Stairs(g, n), Trimmed(m, n, n - 1, g),
         NEW a \in Nat
  PROVE  TypesAt(m, n, a) = {c \in CodesAt(a) : \A d \in CodesAt(a) : c <= d}
  <1>1. ASSUME NEW y \in 0..(n - 1)
        PROVE  /\ m[y].type = Kind(g, y)
               /\ Within(m[y], a) <=> Low(g, y) <= a /\ a < High(g, n, y)
    <2>1. y <= n - 1 /\ (~ (y < n - 1) => High(g, n, y) = Top(g, y))
      BY DEF High
    <2>2. m[y].base = Low(g, y) /\ EndAt(m[y]) = High(g, n, y) /\ m[y].type = Kind(g, y)
      BY <2>1 DEF Trimmed
    <2> QED
      BY <2>2 DEF Within, EndAt
  <1>2. ASSUME NEW y \in 0..(n - 1)
        PROVE  Within(Firmware[g[y]], a) <=> Base(g, y) <= a /\ a < Top(g, y)
    BY DEF Within, EndAt, Base, Top
  <1>3. ASSUME NEW y \in 0..(n - 1), Base(g, y) <= a, a < Top(g, y)
        PROVE  Kind(g, y) \in CodesAt(a)
    <2>1. g[y] \in FwIndex
      BY DEF Stairs
    <2> QED
      BY <1>2, <1>3, <2>1 DEF CodesAt, Kind
  <1>4. ASSUME NEW d \in CodesAt(a)
        PROVE  \E z \in 0..(n - 1) : Base(g, z) <= a /\ a < Top(g, z) /\ d = Kind(g, z)
    <2>1. PICK x \in FwIndex : Within(Firmware[x], a) /\ d = Code(x)
      BY <1>4 DEF CodesAt
    <2>2. PICK z \in 0..(n - 1) : g[z] = x
      BY DEF Stairs
    <2>3. Base(g, z) <= a /\ a < Top(g, z) /\ d = Kind(g, z)
      BY <1>2, <2>1, <2>2 DEF Kind
    <2> QED
      BY <2>3
  <1>5. ASSUME NEW t \in TypesAt(m, n, a)
        PROVE  t \in CodesAt(a) /\ \A d \in CodesAt(a) : t <= d
    <2>1. PICK y \in 0..(n - 1) : Within(m[y], a) /\ t = m[y].type
      BY <1>5 DEF TypesAt
    <2>2. Low(g, y) <= a /\ a < High(g, n, y) /\ t = Kind(g, y)
      BY <1>1, <2>1
    <2>3. /\ Base(g, y) <= a /\ a < Top(g, y)
          /\ \A z \in 0..(n - 1) : Base(g, z) <= a /\ a < Top(g, z) => Kind(g, y) <= Kind(g, z)
      BY <2>2, LeftIsLeast
    <2> QED
      BY <1>3, <1>4, <2>2, <2>3
  <1>6. ASSUME NEW c \in CodesAt(a), \A d \in CodesAt(a) : c <= d
        PROVE  c \in TypesAt(m, n, a)
    <2>1. PICK y \in 0..(n - 1) : Base(g, y) <= a /\ a < Top(g, y) /\ c = Kind(g, y)
      BY <1>4
    <2>2. \A z \in 0..(n - 1) : Base(g, z) <= a /\ a < Top(g, z) => Kind(g, y) <= Kind(g, z)
      BY <1>3, <1>6, <2>1
    <2>3. Low(g, y) <= a /\ a < High(g, n, y)
      BY <2>1, <2>2, LeastIsLeft
    <2> QED
      BY <1>1, <2>1, <2>3 DEF TypesAt
  <1> QED
    BY <1>5, <1>6

\* Where the loop stands in such a map, and that it keeps its length.
InSteps(m, n, k) ==
  /\ n \in 1..CAP /\ k \in 0..(n - 1)
  /\ \E g : Stairs(g, n) /\ Trimmed(m, n, k, g)

OneStaggered == Cardinality(MapTags) = 1 /\ Staggered

StaggerInv ==
  OneStaggered /\ end <= begin =>
    /\ pc = "resolve" => InSteps(arc_mmap, entries, i)
    /\ Passed => InSteps(arc_mmap, meta.mmap_len, meta.mmap_len - 1)

\* What is said of the firmware's map depends on the tags alone.
LEMMA SameSteps ==
  ASSUME UNCHANGED tags
  PROVE  /\ OneStaggered' = OneStaggered /\ MapTags' = MapTags /\ Firmware' = Firmware
         /\ InSteps(arc_mmap', entries', i') => InSteps(arc_mmap, entries, i)'
         /\ InSteps(arc_mmap', meta'.mmap_len, meta'.mmap_len - 1)
              => InSteps(arc_mmap, meta.mmap_len, meta.mmap_len - 1)'
  <1>1. /\ MapTags' = MapTags /\ Firmware' = Firmware /\ FwIndex' = FwIndex
        /\ \A x : Code(x)' = Code(x)
    BY SameMap
  <1>2. OneStaggered' = OneStaggered
    BY <1>1 DEF OneStaggered, Staggered, EndAt
  <1>3. \A m, n, k : InSteps(m, n, k) =>
          /\ n \in 1..CAP /\ k \in 0..(n - 1)
          /\ \E g : Stairs(g, n)' /\ Trimmed(m, n, k, g)'
    <2>1. \A g, n : Stairs(g, n) => Stairs(g, n)'
      BY <1>1 DEF Stairs, Shares, Base, Top, Kind, EndAt
    <2>2. \A m, n, k, g : Trimmed(m, n, k, g) => Trimmed(m, n, k, g)'
      BY <1>1 DEF Trimmed, Low, High, Shares, Loses, Base, Top, Kind, EndAt
    <2> QED
      BY <2>1, <2>2 DEF InSteps
  <1>4. InSteps(arc_mmap', entries', i') => InSteps(arc_mmap, entries, i)'
    BY <1>3 DEF InSteps
  <1>5. InSteps(arc_mmap', meta'.mmap_len, meta'.mmap_len - 1)
          => InSteps(arc_mmap, meta.mmap_len, meta.mmap_len - 1)'
    BY <1>3 DEF InSteps
  <1> QED
    BY <1>1, <1>2, <1>4, <1>5

\* The loop starts with every entry as the firmware reported it,
LEMMA StepsStart ==
  ASSUME TypeInv, SortInv, SortDone, OneStaggered, pc' = "resolve"
  PROVE  InSteps(arc_mmap', entries', i')
  <1>1. /\ pc = "sort" /\ i = entries /\ i' = 0 /\ arc_mmap' = arc_mmap /\ entries' = entries
        /\ entries # 0
    BY DEF SortDone
  <1>2. /\ tags \in InitTags /\ pos \in 1..Len(tags) /\ tags[pos].kind = "mmap"
        /\ entries = Len(tags[pos].entries) /\ entries \in Nat /\ entries <= CAP
        /\ Len(tags) \in Nat
    BY <1>1, InitTagsAssumption DEF TypeInv, TypeOK
  <1>3. tags[pos].entries \in Seq(FirmwareEntry)
    BY <1>2, TagTypes
  <1>4. Firmware = tags[pos].entries
    BY <1>2, OneMap DEF MapTags, OneStaggered
  <1>5. entries \in 1..CAP /\ 0 \in 0..(entries - 1)
    BY <1>1, <1>2, CapAssumption
  <1>6. SortedSelection(arc_mmap, entries, Firmware)
    BY <1>1, <1>4 DEF SortInv
  <1>7. \E g : Stairs(g, entries) /\ Trimmed(arc_mmap, entries, 0, g)
    BY <1>2, <1>3, <1>4, <1>5, <1>6, StairsStart DEF OneStaggered
  <1> QED
    BY <1>1, <1>5, <1>7 DEF InSteps

\* goes on with one more trimmed,
LEMMA StepsGoOn ==
  ASSUME TypeInv, StaggerInv, ResolveEntry, OneStaggered, end <= begin, pc' = "resolve"
  PROVE  InSteps(arc_mmap', entries', i')
  <1> DEFINE r == Reserve(Overlap([m |-> arc_mmap, n |-> entries], i), i)
  <1>1. /\ pc = "resolve" /\ i < entries - 1
        /\ arc_mmap' = r.m /\ entries' = r.n /\ i' = i + 1
    BY DEF ResolveEntry
  <1>2. InSteps(arc_mmap, entries, i)
    BY <1>1 DEF StaggerInv
  <1>3. /\ arc_mmap \in EntryArray /\ begin \in Nat /\ end \in Nat
        /\ entries \in 1..CAP /\ i \in Nat /\ i + 1 < entries
    <2>1. /\ arc_mmap \in EntryArray /\ begin \in 0..(U32 - 1) /\ end \in 0..(U32 - 1)
          /\ entries \in 1..CAP /\ i \in 0..entries
      BY <1>1, InLoop DEF OneStaggered
    <2> QED
      BY <1>1, <2>1
  <1>4. PICK g : Stairs(g, entries) /\ Trimmed(arc_mmap, entries, i, g)
    BY <1>2 DEF InSteps
  <1>5. r.n = entries /\ Trimmed(r.m, entries, i + 1, g)
    BY <1>3, <1>4, TrimmedStep
  <1> HIDE DEF r
  <1>6. i + 1 \in 0..(entries - 1)
    BY <1>3
  <1> QED
    BY <1>1, <1>3, <1>4, <1>5, <1>6 DEF InSteps

\* and ends with all of them trimmed.
LEMMA StepsEnd ==
  ASSUME TypeInv, StaggerInv, Publish, OneStaggered, end <= begin
  PROVE  InSteps(arc_mmap', meta'.mmap_len, meta'.mmap_len - 1)
  <1>1. /\ pc = "resolve" /\ i >= entries - 1 /\ arc_mmap' = arc_mmap
        /\ meta' = [meta EXCEPT !.mmap_len = entries, !.mem_size = Ceil(arc_mmap[entries - 1])]
    BY DEF Publish, mapvars
  <1>2. InSteps(arc_mmap, entries, i) /\ entries \in 1..CAP /\ i = entries - 1
    <2>1. InSteps(arc_mmap, entries, i)
      BY <1>1 DEF StaggerInv
    <2> QED
      BY <1>1, <2>1 DEF InSteps
  <1>3. meta'.mmap_len = entries
    <2>1. PICK q : q = [meta EXCEPT !.mmap_len = entries]
      OBVIOUS
    <2>2. q \in MetaRecord /\ q.mmap_len = entries
      <3>1. entries \in 0..CAP /\ meta \in MetaRecord
        BY <1>2 DEF TypeInv
      <3> QED
        BY <2>1, <3>1, MetaLen
    <2>3. meta' = [q EXCEPT !.mem_size = Ceil(arc_mmap[entries - 1])]
      BY <1>1, <2>1
    <2>4. Ceil(arc_mmap[entries - 1]) \in 0..(U64 - 1)
      <3>1. entries - 1 \in Slots /\ arc_mmap \in EntryArray
        BY <1>2 DEF Slots, TypeInv, TypeOK
      <3>2. arc_mmap[entries - 1].base + arc_mmap[entries - 1].len \in Int
        BY <3>1, EntryNats
      <3> QED
        BY <3>2, W64Range DEF Ceil
    <2> QED
      BY <2>2, <2>3, <2>4, MetaSize
  <1> QED
    BY <1>1, <1>2, <1>3

\* The whole parse keeps that, whatever the tags.
THEOREM StepsKeep == Spec => []StaggerInv
  <1>1. Init => StaggerInv
    BY DEF Init, StaggerInv, Passed
  <1>2. TypeInv /\ SortInv /\ StaggerInv /\ [Next]_vars => StaggerInv'
    <2> SUFFICES ASSUME TypeInv, SortInv, StaggerInv, [Next]_vars,
                        OneStaggered', (end <= begin)'
                 PROVE  /\ pc' = "resolve" => InSteps(arc_mmap, entries, i)'
                        /\ Passed' => InSteps(arc_mmap, meta.mmap_len, meta.mmap_len - 1)'
      BY DEF StaggerInv
    <2>1. tags' = tags
      BY DEF Next, vars, input, Start, FirstModule, FirstBaseAddr, FirstFramebuffer,
             FirstOther, FirstDone, SecondMMap, InsertEntry, SortDone, ResolveEntry,
             Publish, SecondAcpi, SecondOther, SecondDone
    <2>2. OneStaggered /\ MapTags' = MapTags
      BY <2>1, SameSteps
    <2>3. PICK p \in MapTags : p \in 1..Len(tags)
      BY <2>2, AMap DEF OneStaggered
    <2>4. /\ meta \in MetaRecord /\ Len(tags) \in Nat /\ pos \in 1..(Len(tags) + 1)
          /\ p \in MapTags' /\ p \in Nat /\ p >= 1
      BY <2>2, <2>3, InitTagsAssumption DEF TypeInv, TypeOK
    <2>5. CASE Start \/ FirstModule \/ FirstBaseAddr \/ FirstFramebuffer \/ FirstOther
      <3>1. pc' \in {"first", "failed"}
        BY <2>5 DEF Start, FirstModule, FirstBaseAddr, FirstFramebuffer, FirstOther, At
      <3> QED
        BY <3>1 DEF Passed
    <2>6. CASE FirstDone
      <3>1. pc' = "second" /\ pos' = 1
        BY <2>6 DEF FirstDone
      <3>2. ~ Passed'
        BY <2>4, <3>1 DEF Passed
      <3> QED
        BY <3>1, <3>2
    <2>7. CASE SecondMMap \/ InsertEntry
      <3>1. pc' \in {"sort", "wild"}
        BY <2>7 DEF SecondMMap, InsertEntry
      <3> QED
        BY <3>1 DEF Passed
    <2>8. CASE SortDone
      <3>1. pc' \in {"wild", "resolve"}
        BY <2>8 DEF SortDone
      <3>2. pc' = "resolve" => InSteps(arc_mmap, entries, i)'
        BY <2>1, <2>2, <2>8, StepsStart, SameSteps
      <3> QED
        BY <3>1, <3>2 DEF Passed
    <2>9. CASE ResolveEntry
      <3>1. pc' \in {"wild", "resolve"} /\ end <= begin
        BY <2>9 DEF ResolveEntry, input
      <3>2. pc' = "resolve" => InSteps(arc_mmap, entries, i)'
        BY <2>1, <2>2, <2>9, <3>1, StepsGoOn, SameSteps
      <3> QED
        BY <3>1, <3>2 DEF Passed
    <2>10. CASE Publish
      <3>1. pc' = "second" /\ end <= begin
        BY <2>10 DEF Publish, input
      <3>2. InSteps(arc_mmap, meta.mmap_len, meta.mmap_len - 1)'
        BY <2>1, <2>2, <2>10, <3>1, StepsEnd, SameSteps
      <3> QED
        BY <3>1, <3>2
    <2>11. ASSUME UNCHANGED <<input, arc_mmap>>, pc' # "resolve",
                  meta'.mmap_len = meta.mmap_len, Passed' => Passed
           PROVE  /\ pc' = "resolve" => InSteps(arc_mmap, entries, i)'
                  /\ Passed' => InSteps(arc_mmap, meta.mmap_len, meta.mmap_len - 1)'
      <3>1. end <= begin
        BY <2>11 DEF input
      <3>2. Passed' => InSteps(arc_mmap', meta'.mmap_len, meta'.mmap_len - 1)
        BY <2>2, <2>11, <3>1 DEF StaggerInv
      <3> QED
        BY <2>1, <2>11, <3>2, SameSteps
    <2>12. ASSUME pos' = pos + 1, tags[pos].kind # "mmap", pc = "second", pc' = "second"
           PROVE  Passed' => Passed
      <3>1. pos \notin MapTags /\ \A q \in MapTags : q \in Nat
        BY <2>12 DEF MapTags
      <3> QED
        BY <2>2, <2>4, <2>12, <3>1 DEF Passed
    <2>13. CASE SecondAcpi
      <3>1. /\ UNCHANGED <<input, arc_mmap>> /\ pc = "second" /\ pc' = "second"
            /\ pos' = pos + 1 /\ tags[pos].kind # "mmap"
            /\ meta' = [meta EXCEPT !.rsdp = pos]
        BY <2>13 DEF SecondAcpi, At, mapvars
      <3>2. meta'.mmap_len = meta.mmap_len
        BY <2>4, <3>1, MetaSet
      <3> QED
        BY <2>11, <2>12, <3>1, <3>2
    <2>14. CASE SecondOther
      <3>1. /\ UNCHANGED <<input, arc_mmap, meta>> /\ pc = "second" /\ pc' = "second"
            /\ pos' = pos + 1 /\ tags[pos].kind # "mmap"
        BY <2>14 DEF SecondOther, At, mapvars
      <3> QED
        BY <2>11, <2>12, <3>1
    <2>15. CASE SecondDone
      <3>1. /\ UNCHANGED <<input, arc_mmap, meta>> /\ pc' = "done"
            /\ pc = "second" /\ pos > Len(tags)
        BY <2>15 DEF SecondDone, mapvars
      <3>2. Passed
        BY <2>4, <3>1 DEF Passed, MapTags
      <3> QED
        BY <2>11, <3>1, <3>2
    <2>16. CASE UNCHANGED vars
      <3>1. UNCHANGED <<input, arc_mmap, entries, i, meta, pc, pos>> /\ end <= begin
        BY <2>16 DEF vars, input
      <3>2. Passed' => Passed
        BY <2>2, <3>1 DEF Passed
      <3>3. /\ pc' = "resolve" => InSteps(arc_mmap', entries', i')
            /\ Passed' => InSteps(arc_mmap', meta'.mmap_len, meta'.mmap_len - 1)
        BY <2>2, <3>1, <3>2 DEF StaggerInv
      <3> QED
        BY <2>1, <3>3, SameSteps
    <2> QED
      BY <2>5, <2>6, <2>7, <2>8, <2>9, <2>10, <2>13, <2>14, <2>15, <2>16 DEF Next
  <1> QED
    BY <1>1, <1>2, TypeCorrect, SelectionStaysSorted, PTL DEF Spec

\* Of entries that overlap the next one only, by less than all of it, and
\* disagree about the type, the lesser type has what both claim: the published
\* map gives to each address the least of the types the firmware gives it.
THEOREM LesserTypeWins == Spec => []StaggeredPrecedence
  <1>1. StaggerInv => StaggeredPrecedence
    <2> SUFFICES ASSUME StaggerInv, Parsed, Staggered, end <= begin, NEW a \in 0..(U64 - 1)
                 PROVE  TypesAt(arc_mmap, meta.mmap_len, a) =
                          {c \in CodesAt(a) : \A d \in CodesAt(a) : c <= d}
      BY DEF StaggeredPrecedence
    <2>1. InSteps(arc_mmap, meta.mmap_len, meta.mmap_len - 1)
      BY DEF StaggerInv, OneStaggered, Parsed, Passed
    <2>2. PICK g : Stairs(g, meta.mmap_len)
                   /\ Trimmed(arc_mmap, meta.mmap_len, meta.mmap_len - 1, g)
      BY <2>1 DEF InSteps
    <2>3. meta.mmap_len \in Nat \ {0} /\ a \in Nat
      BY <2>1 DEF InSteps
    <2> QED
      BY <2>2, <2>3, TrimmedIsLeast
  <1> QED
    BY <1>1, StepsKeep, PTL

-----------------------------------------------------------------------------
(* The end of the last entry.  Where of two entries that meet the types    *)
(* differ, nothing is merged: a round cuts the next entry at its           *)
(* beginning, shortens the one at hand, or removes the next one, all of    *)
(* which lies in the one at hand.  So what ends last keeps its end or      *)
(* leaves it to the entry before it.                                       *)

\* Entry e has the type of the firmware's entry x and lies in it.
Part(e, x) == e.type = Code(x) /\ PieceOf(e, x)

\* The array between the two halves of round k, entry x being what is left of
\* the firmware's p[x]: from entry k + 1 on in order, and the last one ends
\* above all.  Entry k may have lost its end altogether if it lies above what
\* is marked.
MidRound(m, n, k, p) ==
  /\ \A x \in k..(n - 1) : p[x] \in FwIndex
  /\ \A x, y \in k..(n - 1) :
       x < y => p[x] # p[y] /\ Firmware[p[x]].base <= Firmware[p[y]].base
  /\ \A x \in (k + 1)..(n - 1) : Part(m[x], p[x]) /\ m[x].len > 0
  /\ \A x \in (k + 1)..(n - 2) : m[x].base <= m[x + 1].base
  /\ k < n => end <= m[k].base \/ Part(m[k], p[k])
  /\ EndAt(m[n - 1]) < U64
  /\ \A x \in FwIndex : EndAt(Firmware[x]) <= EndAt(m[n - 1])

\* The array when the loop stands at k: entry k begins before the next one,
\* unless it is the rest of one that was split, or lies above.
Topped(m, n, k, p) ==
  /\ MidRound(m, n, k, p)
  /\ k < n => Part(m[k], p[k])
  /\ k < n - 1 => m[k].base <= m[k + 1].base \/ end <= m[k].base

\* A sorted selection of such entries ends with the one that ends last.
LEMMA ToppedStart ==
  ASSUME NEW m, NEW n \in 1..CAP, n = Len(Firmware), Firmware \in Seq(FirmwareEntry),
         TopLast, SortedSelection(m, n, Firmware)
  PROVE  \E p : Topped(m, n, 0, p)
  <1>1. PICK g : IsArrangement(m, n, Firmware, g)
    BY DEF SortedSelection
  <1>2. /\ \A x \in 0..(n - 1) : g[x] \in FwIndex
        /\ \A x, y \in 0..(n - 1) : g[x] = g[y] => x = y
        /\ \A z \in FwIndex : \E x \in 0..(n - 1) : g[x] = z
        /\ \A x \in 0..(n - 1) : m[x] = FromFirmware(Firmware[g[x]])
    BY <1>1 DEF IsArrangement, FwIndex
  <1>3. ASSUME NEW x \in 0..(n - 1)
        PROVE  /\ m[x].base = Firmware[g[x]].base /\ EndAt(m[x]) = EndAt(Firmware[g[x]])
               /\ m[x].len > 0 /\ Part(m[x], g[x]) /\ EndAt(m[x]) < U64
    <2>1. g[x] \in FwIndex /\ m[x] = FromFirmware(Firmware[g[x]])
      BY <1>2
    <2>2. /\ Firmware[g[x]] \in FirmwareEntry /\ Firmware[g[x]].base \in Nat
          /\ EndAt(Firmware[g[x]]) \in Nat
      BY <2>1, FirmwareNats
    <2>3. /\ m[x].base = Firmware[g[x]].base /\ m[x].len = Firmware[g[x]].len
          /\ m[x].type = Code(g[x])
      BY <2>1, <2>2, FromFirmwareType DEF Code
    <2>4. Firmware[g[x]].len > 0 /\ EndAt(Firmware[g[x]]) < U64
      BY <2>1 DEF TopLast
    <2>5. EndAt(m[x]) = EndAt(Firmware[g[x]])
      BY <2>3 DEF EndAt
    <2> QED
      BY <2>2, <2>3, <2>4, <2>5 DEF Part, PieceOf
  <1>4. ASSUME NEW x \in 0..(n - 1), NEW y \in 0..(n - 1), x < y
        PROVE  /\ g[x] # g[y] /\ Firmware[g[x]].base <= Firmware[g[y]].base
               /\ m[x].base <= m[y].base
    <2>1. m[x].base <= m[y].base
      BY <1>4 DEF SortedSelection, Ascending
    <2>2. g[x] = g[y] => x = y
      BY <1>2
    <2> QED
      BY <1>3, <1>4, <2>1, <2>2
  <1>5. \A x \in FwIndex : EndAt(Firmware[x]) <= EndAt(m[n - 1])
    <2>1. PICK z \in FwIndex : \A l \in FwIndex \ {z} :
            Firmware[l].base < Firmware[z].base /\ EndAt(Firmware[l]) <= EndAt(Firmware[z])
      BY DEF TopLast
    <2>2. PICK y \in 0..(n - 1) : g[y] = z
      BY <1>2
    <2>3. y = n - 1
      <3> SUFFICES ASSUME y # n - 1 PROVE FALSE
        OBVIOUS
      <3>1. n - 1 \in 0..(n - 1) /\ y < n - 1
        BY CapAssumption
      <3>2. /\ g[y] # g[n - 1] /\ Firmware[g[y]].base <= Firmware[g[n - 1]].base
            /\ g[n - 1] \in FwIndex
        BY <1>2, <1>4, <3>1
      <3>3. Firmware[g[n - 1]].base < Firmware[z].base
        BY <2>1, <2>2, <3>2
      <3>4. Firmware[g[n - 1]].base \in Nat /\ Firmware[z].base \in Nat
        BY <3>2, FirmwareNats
      <3> QED
        BY <2>2, <3>2, <3>3, <3>4
    <2>4. EndAt(m[n - 1]) = EndAt(Firmware[z]) /\ EndAt(Firmware[z]) \in Nat
      BY <1>3, <2>2, <2>3, FirmwareNats
    <2> QED
      BY <2>1, <2>4
  <1>6. /\ \A x \in (0 + 1)..(n - 1) : x \in 0..(n - 1)
        /\ \A x \in (0 + 1)..(n - 2) : x \in 0..(n - 1) /\ x + 1 \in 0..(n - 1) /\ x < x + 1
        /\ n - 1 \in 0..(n - 1) /\ 0 \in 0..(n - 1)
        /\ 0 < n - 1 => 0 + 1 \in 0..(n - 1)
    BY CapAssumption
  <1>7. MidRound(m, n, 0, g)
    <2>1. \A x \in (0 + 1)..(n - 2) : m[x].base <= m[x + 1].base
      BY <1>4, <1>6
    <2> QED
      BY <1>2, <1>3, <1>4, <1>5, <1>6, <2>1 DEF MidRound
  <1>8. 0 < n - 1 => m[0].base <= m[0 + 1].base
    BY <1>4, <1>6
  <1> QED
    BY <1>3, <1>6, <1>7, <1>8 DEF Topped

\* An entry cut at its beginning.
CutAt(s, j, d) == [s EXCEPT !.m[j].base = W64(@ + d), !.m[j].len = W64(@ - d)]

LEMMA CutIs ==
  ASSUME NEW s \in Pair, NEW j \in Slots, NEW d \in Nat, d <= s.m[j].len,
         EndAt(s.m[j]) < U64, NEW r, r = CutAt(s, j, d)
  PROVE  /\ r \in Pair /\ r.n = s.n
         /\ r.m[j] = [base |-> s.m[j].base + d, len |-> s.m[j].len - d, type |-> s.m[j].type]
         /\ \A x \in Slots : x # j => r.m[x] = s.m[x]
  <1> DEFINE e == s.m[j]
  <1>1. s.m \in EntryArray /\ e.base \in Nat /\ e.len \in 0..(U64 - 1) /\ e.type \in Nat
    BY EntryNats DEF Pair
  <1>2. PICK b \in 0..(U64 - 1) : b = e.base + d
    BY <1>1 DEF EndAt
  <1>3. PICK l \in 0..(U64 - 1) : l = e.len - d
    BY <1>1
  <1>4. W64(e.base + d) = b /\ W64(e.len - d) = l
    BY <1>2, <1>3, W64Id
  <1>5. PICK c : c = [s EXCEPT !.m[j].base = b]
    OBVIOUS
  <1>6. /\ c = [m |-> [s.m EXCEPT ![j] = [base |-> b, len |-> e.len, type |-> e.type]],
                n |-> s.n]
        /\ c \in Pair /\ c.n = s.n
    BY <1>5, PairBase
  <1>7. r = [c EXCEPT !.m[j].len = l]
    BY <1>1, <1>4, <1>5 DEF CutAt, Pair, EntryArray, Entry
  <1>8. /\ r = [m |-> [c.m EXCEPT ![j] = [base |-> c.m[j].base, len |-> l, type |-> c.m[j].type]],
                n |-> c.n]
        /\ r \in Pair /\ r.n = c.n
    BY SMTT(30), <1>6, <1>7, PairLen
  <1>9. PICK e1 : e1 = [base |-> b, len |-> e.len, type |-> e.type]
    OBVIOUS
  <1>10. c.m = [s.m EXCEPT ![j] = e1] /\ DOMAIN s.m = Slots
    BY <1>1, <1>6, <1>9 DEF EntryArray
  <1>11. c.m[j] = e1 /\ DOMAIN c.m = Slots /\ \A x \in Slots : x # j => c.m[x] = s.m[x]
    BY <1>10
  <1>12. PICK e2 : e2 = [base |-> b, len |-> l, type |-> e.type]
    OBVIOUS
  <1>13. e1.base = b /\ e1.type = e.type
    BY <1>9
  <1>14. r.m = [c.m EXCEPT ![j] = e2]
    BY <1>8, <1>11, <1>12, <1>13
  <1>15. r.m[j] = e2 /\ \A x \in Slots : x # j => r.m[x] = s.m[x]
    BY <1>11, <1>14
  <1> QED
    BY <1>2, <1>3, <1>6, <1>8, <1>12, <1>15

\* What removing an entry makes of the array.
LEMMA RemoveNextIs ==
  ASSUME NEW s \in Pair, NEW k \in Nat, k + 1 < s.n, s.n <= CAP
  PROVE  /\ \A x \in 0..k : RemoveNext(s, k).m[x] = s.m[x]
         /\ \A x \in (k + 1)..(s.n - 2) : RemoveNext(s, k).m[x] = s.m[x + 1]
  <1>0. PICK r : r = RemoveNext(s, k)
    OBVIOUS
  <1>1. s.m \in EntryArray /\ s.n \in Nat
    BY DEF Pair
  <1>2. CASE k # s.n - 2
    <2>1. r.m = ShiftDown(s.m, k + 1, s.n - k - 2)
      BY <1>0, <1>2 DEF RemoveNext
    <2>2. \A x \in Slots : r.m[x] = IF x \in (k + 1)..(k + 1 + (s.n - k - 2) - 1) /\ x + 1 \in Slots
                                    THEN s.m[x + 1] ELSE s.m[x]
      BY <2>1 DEF ShiftDown
    <2>3. ASSUME NEW x \in 0..k PROVE r.m[x] = s.m[x]
      <3>1. x \in Slots /\ x \notin (k + 1)..(k + 1 + (s.n - k - 2) - 1)
        BY <1>1 DEF Slots
      <3> QED
        BY <2>2, <3>1
    <2>4. ASSUME NEW x \in (k + 1)..(s.n - 2) PROVE r.m[x] = s.m[x + 1]
      <3>1. x \in Slots /\ x + 1 \in Slots /\ x \in (k + 1)..(k + 1 + (s.n - k - 2) - 1)
        BY <1>1 DEF Slots
      <3> QED
        BY <2>2, <3>1
    <2> QED
      BY <1>0, <2>3, <2>4
  <1>3. CASE k = s.n - 2
    <2>1. r.m = [s.m EXCEPT ![k + 1] = NoEntry]
      BY <1>0, <1>3 DEF RemoveNext
    <2>2. \A x \in 0..k : x \in Slots /\ x # k + 1
      BY <1>1 DEF Slots
    <2>3. DOMAIN s.m = Slots
      BY <1>1 DEF EntryArray
    <2>4. \A x \in Slots : x # k + 1 => r.m[x] = s.m[x]
      BY <2>1, <2>3
    <2>5. (k + 1)..(s.n - 2) = {}
      BY <1>1, <1>3
    <2> QED
      BY <1>0, <2>2, <2>4, <2>5
  <1> QED
    BY <1>0, <1>2, <1>3

\* The numbers of an entry and of the firmware's.
LEMMA PartNats ==
  ASSUME NEW m \in EntryArray, NEW n \in 1..CAP, NEW k \in Nat, NEW p,
         Firmware \in Seq(FirmwareEntry), TopLast, MidRound(m, n, k, p),
         NEW x \in k..(n - 1)
  PROVE  /\ x \in Slots /\ p[x] \in FwIndex
         /\ m[x].base \in Nat /\ m[x].len \in Nat /\ EndAt(m[x]) \in Nat
         /\ Firmware[p[x]].base \in Nat /\ EndAt(Firmware[p[x]]) \in Nat
         /\ Firmware[p[x]].base < EndAt(Firmware[p[x]]) /\ EndAt(Firmware[p[x]]) < U64
  <1>1. x \in Slots /\ p[x] \in FwIndex
    BY DEF Slots, MidRound
  <1>2. m[x].base \in Nat /\ m[x].len \in Nat
    BY <1>1, EntryNats
  <1>3. EndAt(m[x]) \in Nat
    BY SMTT(30), <1>2 DEF EndAt
  <1>4. /\ Firmware[p[x]].base \in Nat /\ Firmware[p[x]].len \in Nat
        /\ EndAt(Firmware[p[x]]) \in Nat
    BY <1>1, FirmwareNats
  <1>5. Firmware[p[x]].len > 0 /\ EndAt(Firmware[p[x]]) < U64
    BY <1>1 DEF TopLast
  <1>6. Firmware[p[x]].base < EndAt(Firmware[p[x]])
    BY <1>4, <1>5 DEF EndAt
  <1> QED
    BY <1>1, <1>2, <1>3, <1>4, <1>5, <1>6

\* Two entries that share memory come from two of the firmware's that meet.
LEMMA PartsMeet ==
  ASSUME NEW m \in EntryArray, NEW n \in 1..CAP, NEW k \in Nat, NEW p,
         Firmware \in Seq(FirmwareEntry), TopLast, MidRound(m, n, k, p),
         NEW x \in k..(n - 1), NEW y \in k..(n - 1), x < y,
         Part(m[x], p[x]), Part(m[y], p[y]), ~ (EndAt(m[x]) <= m[y].base)
  PROVE  p[x] # p[y] /\ Meet(p[x], p[y]) /\ Code(p[x]) # Code(p[y])
  <1> DEFINE e == Firmware[p[x]]
             f == Firmware[p[y]]
  <1>1. /\ EndAt(m[x]) \in Nat /\ p[x] \in FwIndex /\ e.base \in Nat /\ EndAt(e) \in Nat
    BY PartNats
  <1>2. /\ m[y].base \in Nat /\ p[y] \in FwIndex /\ f.base \in Nat /\ EndAt(f) \in Nat
        /\ f.base < EndAt(f)
    BY PartNats
  <1>3. p[x] # p[y] /\ e.base <= f.base
    BY DEF MidRound
  <1>4. EndAt(m[x]) <= EndAt(e) /\ f.base <= m[y].base
    BY DEF Part, PieceOf
  <1>5. m[y].base < EndAt(m[x])
    BY <1>1, <1>2
  <1> HIDE DEF e, f
  <1>6. f.base < EndAt(e) /\ e.base < EndAt(f)
    <2>1. f.base < EndAt(m[x])
      BY <1>1, <1>2, <1>4, <1>5
    <2>2. f.base < EndAt(e)
      BY <1>1, <1>2, <1>4, <2>1
    <2>3. e.base < EndAt(f)
      BY <1>1, <1>2, <1>3
    <2> QED
      BY <2>2, <2>3
  <1>7. Meet(p[x], p[y])
    BY <1>6 DEF Meet, e, f
  <1> QED
    BY <1>1, <1>2, <1>3, <1>7 DEF TopLast

\* Two neighbours that share memory differ in their types, and the entry after
\* them begins above one of the two.
LEMMA ToppedPair ==
  ASSUME NEW m \in EntryArray, NEW n \in 1..CAP, NEW k \in Nat, k + 1 < n, NEW p,
         Firmware \in Seq(FirmwareEntry), TopLast, Topped(m, n, k, p),
         m[k + 1].base < EndAt(m[k])
  PROVE  /\ m[k].type # m[k + 1].type
         /\ k + 2 < n => \/ EndAt(m[k]) <= m[k + 2].base
                         \/ EndAt(m[k + 1]) <= m[k + 2].base
  <1>1. MidRound(m, n, k, p) /\ Part(m[k], p[k]) /\ k \in k..(n - 1)
    BY DEF Topped
  <1>2. PICK l \in k..(n - 1) : l = k + 1 /\ l \in (k + 1)..(n - 1) /\ k < l
    OBVIOUS
  <1>3. Part(m[l], p[l])
    BY <1>1, <1>2 DEF MidRound
  <1>4. ~ (EndAt(m[k]) <= m[l].base)
    <2>1. EndAt(m[k]) \in Nat /\ m[l].base \in Nat
      BY <1>1, <1>2, PartNats
    <2> QED
      BY <1>2, <2>1
  <1>5. p[k] # p[l] /\ Meet(p[k], p[l]) /\ Code(p[k]) # Code(p[l])
    BY <1>1, <1>2, <1>3, <1>4, PartsMeet
  <1>6. m[k].type # m[l].type
    BY <1>1, <1>3, <1>5 DEF Part
  <1>7. ASSUME NEW x, x = k + 2, k + 2 < n,
               ~ (EndAt(m[k]) <= m[x].base), ~ (EndAt(m[l]) <= m[x].base)
        PROVE  FALSE
    <2>1. x \in k..(n - 1) /\ x \in (k + 1)..(n - 1) /\ k < x /\ l < x
      BY <1>2, <1>7
    <2>2. Part(m[x], p[x])
      BY <1>1, <2>1 DEF MidRound
    <2>3. p[k] # p[x] /\ Meet(p[k], p[x])
      BY <1>1, <1>7, <2>1, <2>2, PartsMeet
    <2>4. p[l] # p[x] /\ Meet(p[l], p[x])
      BY <1>1, <1>2, <1>3, <1>7, <2>1, <2>2, PartsMeet
    <2>5. p[k] \in FwIndex /\ p[l] \in FwIndex /\ p[x] \in FwIndex \ {p[k], p[l]}
      BY <1>1, <1>2, <2>1, <2>3, <2>4 DEF MidRound
    <2> QED
      BY <1>5, <2>3, <2>4, <2>5 DEF TopLast
  <1> QED
    BY <1>2, <1>6, <1>7

\* The numbers of an entry cut at its beginning, and at its end.
LEMMA CutEnd ==
  ASSUME NEW e, NEW d \in Nat, e.base \in Nat, e.len \in Nat, d < e.len,
         NEW f, f = [base |-> e.base + d, len |-> e.len - d, type |-> e.type]
  PROVE  /\ f.base \in Nat /\ f.base = e.base + d /\ f.type = e.type
         /\ f.len > 0 /\ EndAt(f) = EndAt(e)
         /\ e.base <= f.base /\ f.base <= EndAt(e)
  <1>1. f.base = e.base + d /\ f.len = e.len - d /\ f.type = e.type
    OBVIOUS
  <1>2. f.base + f.len = e.base + e.len
    BY <1>1
  <1> QED
    BY <1>1, <1>2 DEF EndAt

LEMMA ShortEnd ==
  ASSUME NEW e, NEW d \in Nat, NEW b \in Nat, e.base \in Nat, e.len \in 0..(U64 - 1),
         e.base <= b, b + d <= EndAt(e),
         NEW f, f = [base |-> e.base, len |-> W64(e.len - d), type |-> e.type]
  PROVE  EndAt(f) \in Nat /\ EndAt(f) <= EndAt(e)
  <1>1. d <= e.len
    BY DEF EndAt
  <1>2. e.len - d \in 0..(U64 - 1)
    BY <1>1
  <1>3. f.base = e.base /\ f.len = e.len - d
    BY <1>2, W64Id
  <1> QED
    BY <1>1, <1>2, <1>3 DEF EndAt

\* The first half of a round, where the next entry is cut:
LEMMA MidCut ==
  ASSUME NEW m \in EntryArray, NEW n \in 1..CAP, NEW k \in Nat, k + 1 < n, NEW p,
         Firmware \in Seq(FirmwareEntry), TopLast, Topped(m, n, k, p),
         m[k + 1].base < EndAt(m[k]),
         NEW w, \A x \in Slots : x # k + 1 => w[x] = m[x],
         EndAt(w[k + 1]) = EndAt(m[k + 1]), w[k + 1].len > 0, w[k + 1].type = m[k + 1].type,
         w[k + 1].base \in Nat, m[k + 1].base <= w[k + 1].base,
         w[k + 1].base <= EndAt(m[k]), w[k + 1].base <= EndAt(m[k + 1])
  PROVE  MidRound(w, n, k, p)
  <1>1. /\ k + 1 \in k..(n - 1) /\ k \in k..(n - 1) /\ MidRound(m, n, k, p) /\ Part(m[k], p[k])
        /\ k + 1 \in (k + 1)..(n - 1)
    BY DEF Topped
  <1>2. /\ m[k + 1].base \in Nat /\ m[k + 1].len \in Nat /\ Part(m[k + 1], p[k + 1])
        /\ Firmware[p[k + 1]].base \in Nat /\ EndAt(m[k + 1]) \in Nat /\ EndAt(m[k]) \in Nat
    BY <1>1, PartNats DEF MidRound
  <1>5. Part(w[k + 1], p[k + 1])
    <2>1. /\ m[k + 1].type = Code(p[k + 1]) /\ Firmware[p[k + 1]].base <= m[k + 1].base
          /\ EndAt(m[k + 1]) <= EndAt(Firmware[p[k + 1]])
      BY <1>2 DEF Part, PieceOf
    <2>2. Firmware[p[k + 1]].base <= w[k + 1].base
      BY <1>2, <2>1
    <2> QED
      BY <2>1, <2>2 DEF Part, PieceOf
  <1>6. \A x \in k..(n - 1) : x # k + 1 => w[x] = m[x]
    BY DEF Slots
  <1>7. ASSUME NEW x \in (k + 1)..(n - 2) PROVE w[x].base <= w[x + 1].base
    <2>1. m[x].base <= m[x + 1].base /\ x + 1 \in k..(n - 1) /\ x \in k..(n - 1) /\ x + 1 # k + 1
      BY <1>1, <1>7 DEF MidRound
    <2>2. w[x + 1] = m[x + 1]
      BY <1>6, <2>1
    <2>3. CASE x # k + 1
      BY <1>6, <2>1, <2>2, <2>3
    <2>4. CASE x = k + 1
      <3>1. k + 2 < n /\ x + 1 = k + 2
        BY <1>7, <2>4
      <3>2. EndAt(m[k]) <= m[k + 2].base \/ EndAt(m[k + 1]) <= m[k + 2].base
        BY <3>1, ToppedPair
      <3>3. m[k + 2].base \in Nat
        BY <1>1, <2>1, <3>1, PartNats
      <3> QED
        <4>1. w[k + 1].base <= m[k + 2].base
          BY SMTT(30), <1>2, <3>2, <3>3
        <4> QED
          BY Zenon, <2>2, <2>4, <3>1, <4>1
    <2> QED
      BY <2>3, <2>4
  <1>8. EndAt(w[n - 1]) = EndAt(m[n - 1])
    <2>1. n - 1 \in k..(n - 1)
      OBVIOUS
    <2> QED
      BY <1>6, <2>1
  <1>9. \A x \in (k + 1)..(n - 1) : Part(w[x], p[x]) /\ w[x].len > 0
    <2>1. \A x \in (k + 1)..(n - 1) : x \in k..(n - 1)
      OBVIOUS
    <2> QED
      BY <1>1, <1>5, <1>6, <2>1 DEF MidRound
  <1>10. w[k] = m[k]
    BY <1>1, <1>6
  <1> QED
    BY <1>1, <1>7, <1>8, <1>9, <1>10 DEF MidRound

\* where the one at hand is shortened,
LEMMA MidShort ==
  ASSUME NEW m \in EntryArray, NEW n \in 1..CAP, NEW k \in Nat, k + 1 < n, NEW p,
         Firmware \in Seq(FirmwareEntry), TopLast, Topped(m, n, k, p),
         end \in Nat, m[k + 1].base < EndAt(m[k]),
         NEW d \in Nat, m[k + 1].base + d <= EndAt(m[k]),
         NEW w, \A x \in Slots : x # k => w[x] = m[x],
         w[k] = [base |-> m[k].base, len |-> W64(m[k].len - d), type |-> m[k].type]
  PROVE  MidRound(w, n, k, p)
  <1>1. /\ k + 1 \in k..(n - 1) /\ k \in k..(n - 1) /\ MidRound(m, n, k, p) /\ Part(m[k], p[k])
        /\ m[k].base <= m[k + 1].base \/ end <= m[k].base
    BY DEF Topped
  <1>2. /\ m[k].base \in Nat /\ m[k].len \in Nat /\ m[k + 1].base \in Nat /\ EndAt(m[k]) \in Nat
        /\ Firmware[p[k]].base \in Nat /\ EndAt(Firmware[p[k]]) \in Nat
        /\ m[k].len \in 0..(U64 - 1)
    BY <1>1, PartNats, EntryNats
  <1>3. w[k].base = m[k].base /\ w[k].type = m[k].type
    OBVIOUS
  <1>4. ASSUME m[k].base <= m[k + 1].base PROVE Part(w[k], p[k])
    <2>4. EndAt(w[k]) <= EndAt(m[k]) /\ EndAt(w[k]) \in Nat
      BY <1>2, <1>4, ShortEnd
    <2>5. /\ m[k].type = Code(p[k]) /\ Firmware[p[k]].base <= m[k].base
          /\ EndAt(m[k]) <= EndAt(Firmware[p[k]])
      BY <1>1 DEF Part, PieceOf
    <2>6. EndAt(w[k]) <= EndAt(Firmware[p[k]])
      BY <1>2, <2>4, <2>5
    <2> QED
      BY <1>3, <2>5, <2>6 DEF Part, PieceOf
  <1>5. end <= w[k].base \/ Part(w[k], p[k])
    BY <1>1, <1>3, <1>4
  <1>6. /\ \A x \in (k + 1)..(n - 1) : w[x] = m[x]
        /\ \A x \in (k + 1)..(n - 2) : w[x] = m[x] /\ w[x + 1] = m[x + 1]
        /\ w[n - 1] = m[n - 1]
    BY SMTT(30) DEF Slots
  <1> QED
    BY <1>1, <1>5, <1>6 DEF MidRound

\* and where the next one is removed.
LEMMA MidGone ==
  ASSUME NEW m \in EntryArray, NEW n \in 1..CAP, NEW k \in Nat, k + 1 < n, NEW p,
         Firmware \in Seq(FirmwareEntry), TopLast, Topped(m, n, k, p),
         EndAt(m[k + 1]) <= EndAt(m[k]),
         NEW w, \A x \in 0..k : w[x] = m[x],
         \A x \in (k + 1)..(n - 2) : w[x] = m[x + 1]
  PROVE  \E q : MidRound(w, n - 1, k, q)
  <1>1. PICK q : q = [x \in Nat |-> IF x <= k THEN p[x] ELSE p[x + 1]]
    OBVIOUS
  <1>2. MidRound(m, n, k, p) /\ Part(m[k], p[k])
    BY DEF Topped
  <1>3. /\ q[k] = p[k] /\ w[k] = m[k]
        /\ \A x \in (k + 1)..(n - 2) : q[x] = p[x + 1] /\ w[x] = m[x + 1]
    BY <1>1
  <1>4. /\ \A x \in k..(n - 2) : x = k \/ x \in (k + 1)..(n - 2)
        /\ \A x \in (k + 1)..(n - 2) : x + 1 \in k..(n - 1) /\ x + 1 \in (k + 1)..(n - 1)
        /\ \A x \in (k + 1)..(n - 3) : /\ x \in (k + 1)..(n - 2) /\ x + 1 \in (k + 1)..(n - 2)
        /\ k \in k..(n - 1) /\ k + 1 \in k..(n - 1)
        /\ (n - 1) - 1 = n - 2 /\ (n - 1) - 2 = n - 3
    OBVIOUS
  <1>5. \A x \in k..(n - 2) : q[x] \in FwIndex
    BY <1>2, <1>3, <1>4 DEF MidRound
  <1>6. ASSUME NEW x \in k..(n - 2), NEW y \in k..(n - 2), x < y
        PROVE  q[x] # q[y] /\ Firmware[q[x]].base <= Firmware[q[y]].base
    <2>1. y \in (k + 1)..(n - 2) /\ q[y] = p[y + 1] /\ y + 1 \in k..(n - 1)
      BY <1>3, <1>4, <1>6
    <2>2. CASE x = k
      <3>1. k < y + 1 /\ k \in k..(n - 1)
        BY <1>4, <1>6
      <3> QED
        BY <1>2, <1>3, <2>1, <2>2, <3>1 DEF MidRound
    <2>3. CASE x # k
      <3>1. q[x] = p[x + 1] /\ x + 1 \in k..(n - 1) /\ x + 1 < y + 1
        BY <1>3, <1>4, <1>6, <2>3
      <3> QED
        BY <1>2, <2>1, <3>1 DEF MidRound
    <2> QED
      BY <2>2, <2>3
  <1>12. \A x \in (k + 1)..(n - 1) : Part(m[x], p[x]) /\ m[x].len > 0
    BY <1>2 DEF MidRound
  <1>7. ASSUME NEW x \in (k + 1)..(n - 2) PROVE Part(w[x], q[x]) /\ w[x].len > 0
    <2>1. q[x] = p[x + 1] /\ w[x] = m[x + 1] /\ x + 1 \in (k + 1)..(n - 1)
      BY <1>3, <1>4
    <2>2. Part(m[x + 1], p[x + 1]) /\ m[x + 1].len > 0
      BY Zenon, <1>12, <2>1
    <2> QED
      BY Zenon, <2>1, <2>2
  <1>8. ASSUME NEW x \in (k + 1)..(n - 3) PROVE w[x].base <= w[x + 1].base
    <2>1. w[x] = m[x + 1] /\ w[x + 1] = m[(x + 1) + 1] /\ x + 1 \in (k + 1)..(n - 2)
      BY <1>3, <1>4
    <2> QED
      BY <1>2, <2>1 DEF MidRound
  <1>9. EndAt(w[n - 2]) < U64 /\ \A x \in FwIndex : EndAt(Firmware[x]) <= EndAt(w[n - 2])
    <2>1. CASE n - 2 = k
      <3>1. /\ EndAt(m[k]) \in Nat /\ EndAt(m[k + 1]) \in Nat
            /\ EndAt(Firmware[p[k]]) \in Nat /\ EndAt(Firmware[p[k]]) < U64
        BY <1>2, <1>4, PartNats
      <3>2. EndAt(m[k]) <= EndAt(Firmware[p[k]])
        BY <1>2 DEF Part, PieceOf
      <3>3. n - 1 = k + 1
        BY <2>1
      <3>4. \A x \in FwIndex : EndAt(Firmware[x]) <= EndAt(m[k + 1])
        BY <1>2, <3>3 DEF MidRound
      <3>5. \A x \in FwIndex : EndAt(Firmware[x]) \in Nat
        BY FirmwareNats
      <3>6. \A x \in FwIndex : EndAt(Firmware[x]) <= EndAt(m[k])
        BY <3>1, <3>4, <3>5
      <3>7. EndAt(m[k]) < U64
        BY <3>1, <3>2
      <3> QED
        BY <1>3, <2>1, <3>6, <3>7
    <2>2. CASE n - 2 # k
      <3>1. n - 2 \in (k + 1)..(n - 2) /\ (n - 2) + 1 = n - 1
        BY <2>2
      <3>2. w[n - 2] = m[n - 1]
        BY <1>3, <3>1
      <3> QED
        BY <1>2, <3>2 DEF MidRound
    <2> QED
      BY <2>1, <2>2
  <1>10. MidRound(w, n - 1, k, q)
    BY <1>2, <1>3, <1>4, <1>5, <1>6, <1>7, <1>8, <1>9 DEF MidRound
  <1> QED
    BY <1>10

\* What two entries share, as the code measures it, is no more than it is.
LEMMA GapIs ==
  ASSUME NEW a \in Nat, NEW b \in Nat, NEW l \in Nat, b < a,
         NEW d, d = W32(Smaller(a - b, l))
  PROVE  d \in Nat /\ d <= l /\ b + d <= a
  <1>1. PICK g \in Nat : g = Smaller(a - b, l) /\ g <= l /\ b + g <= a
    BY DEF Smaller
  <1>2. d \in Nat /\ d <= g
    BY <1>1 DEF W32
  <1> QED
    BY <1>1, <1>2

\* What resolving an overlap does to two entries of different types.
CutNext(m, n, k, d, s) ==
  /\ d < m[k + 1].len /\ s.n = n
  /\ \A x \in Slots : x # k + 1 => s.m[x] = m[x]
  /\ s.m[k + 1] = [base |-> m[k + 1].base + d, len |-> m[k + 1].len - d,
                   type |-> m[k + 1].type]

DropsNext(m, n, k, d, s) ==
  /\ d = m[k + 1].len /\ s.n = n - 1
  /\ \A x \in 0..k : s.m[x] = m[x]
  /\ \A x \in (k + 1)..(n - 2) : s.m[x] = m[x + 1]

Shortens(m, n, k, d, s) ==
  /\ s.n = n
  /\ \A x \in Slots : x # k => s.m[x] = m[x]
  /\ s.m[k] = [base |-> m[k].base, len |-> W64(m[k].len - d), type |-> m[k].type]

LEMMA OverlapIs ==
  ASSUME NEW m \in EntryArray, NEW n \in 1..CAP, NEW k \in Nat, k + 1 < n,
         EndAt(m[k]) < U64, EndAt(m[k + 1]) < U64,
         m[k + 1].base < EndAt(m[k]), m[k].type # m[k + 1].type,
         NEW s, s = Overlap([m |-> m, n |-> n], k)
  PROVE  /\ s \in Pair
         /\ \E d \in Nat :
              /\ d <= m[k + 1].len /\ m[k + 1].base + d <= EndAt(m[k])
              /\ CutNext(m, n, k, d, s) \/ DropsNext(m, n, k, d, s) \/ Shortens(m, n, k, d, s)
  <1> DEFINE t == [m |-> m, n |-> n]
  <1>1. k \in Slots /\ k + 1 \in Slots
    BY DEF Slots
  <1>2. PICK e, f : e = m[k] /\ f = m[k + 1]
    OBVIOUS
  <1>3. /\ e.base \in Nat /\ e.len \in 0..(U64 - 1) /\ e.type \in 0..(U32 - 1)
        /\ f.base \in Nat /\ f.len \in 0..(U64 - 1) /\ f.type \in 0..(U32 - 1)
    BY <1>1, <1>2, EntryNats
  <1>4. EndAt(e) \in Nat /\ EndAt(e) < U64 /\ f.base < EndAt(e)
    BY <1>2, <1>3 DEF EndAt
  <1>5. Ceil(e) = EndAt(e)
    <2>1. e.base + e.len \in 0..(U64 - 1)
      BY <1>3, <1>4 DEF EndAt
    <2> QED
      BY <2>1, W64Id DEF Ceil, EndAt
  <1>6. t \in Pair /\ t.m = m /\ t.n = n /\ s = Overlap(t, k)
    BY DEF Pair
  <1> HIDE DEF t
  <1>7. PICK d : d = W32(Smaller(EndAt(e) - f.base, f.len))
    OBVIOUS
  <1>8. d \in Nat /\ d <= f.len /\ f.base + d <= EndAt(e)
    <2>1. f.len \in Nat
      BY <1>3
    <2> QED
      BY <1>3, <1>4, <1>7, <2>1, GapIs
  <1>9. s = Prefer(t, k, d)
    <2>1. Merge(t, k) = t
      BY <1>6 DEF Merge
    <2> QED
      BY <1>2, <1>4, <1>5, <1>6, <1>7, <2>1 DEF Overlap
  <1>10. CASE e.type < f.type
    <2>1. PICK j \in Slots : j = k + 1
      BY <1>1
    <2>2. PICK c : c = CutAt(t, j, d)
      OBVIOUS
    <2>3. /\ c \in Pair /\ c.n = n
          /\ c.m[j] = [base |-> f.base + d, len |-> f.len - d, type |-> f.type]
          /\ \A x \in Slots : x # j => c.m[x] = m[x]
      <3>1. t \in Pair /\ t.m[j] = f /\ t.m = m /\ t.n = n
        BY <1>2, <1>6, <2>1
      <3>2. d <= t.m[j].len /\ EndAt(t.m[j]) < U64 /\ d \in Nat
        BY <1>2, <1>8, <2>1, <3>1
      <3>3. /\ c \in Pair /\ c.n = t.n
            /\ c.m[j] = [base |-> t.m[j].base + d, len |-> t.m[j].len - d, type |-> t.m[j].type]
            /\ \A x \in Slots : x # j => c.m[x] = t.m[x]
        BY <2>2, <3>1, <3>2, CutIs
      <3> QED
        BY <3>1, <3>3
    <2>4. s = IF c.m[k + 1].len = 0 THEN RemoveNext(c, k) ELSE c
      BY <1>2, <1>6, <1>9, <1>10, <2>1, <2>2 DEF Prefer, CutAt
    <2>5. c.m[k + 1].len = f.len - d
      BY <2>1, <2>3
    <2>6. CASE d = f.len
      <3>1. s = RemoveNext(c, k)
        BY <1>3, <2>4, <2>5, <2>6
      <3>2. s \in Pair /\ s.n = n - 1
        BY <2>3, <3>1, RemoveNextType
      <3>3. /\ \A x \in 0..k : s.m[x] = c.m[x]
            /\ \A x \in (k + 1)..(n - 2) : s.m[x] = c.m[x + 1]
        <4>1. k + 1 < c.n /\ c.n <= CAP /\ c.n = n /\ c \in Pair
          BY <2>3
        <4>2. /\ \A x \in 0..k : RemoveNext(c, k).m[x] = c.m[x]
              /\ \A x \in (k + 1)..(c.n - 2) : RemoveNext(c, k).m[x] = c.m[x + 1]
          BY <4>1, RemoveNextIs
        <4> QED
          BY <3>1, <4>1, <4>2
      <3>4. /\ \A x \in 0..k : x \in Slots /\ x # j
            /\ \A x \in (k + 1)..(n - 2) : x + 1 \in Slots /\ x + 1 # j
        BY <2>1 DEF Slots
      <3>5. /\ \A x \in 0..k : s.m[x] = m[x]
            /\ \A x \in (k + 1)..(n - 2) : s.m[x] = m[x + 1]
        BY <2>3, <3>3, <3>4
      <3>6. DropsNext(m, n, k, d, s)
        BY <1>2, <2>6, <3>2, <3>5 DEF DropsNext
      <3> QED
        BY <1>2, <1>8, <3>2, <3>6
    <2>7. CASE d # f.len
      <3>1. s = c /\ d < f.len
        BY <1>3, <1>8, <2>4, <2>5, <2>7
      <3>2. CutNext(m, n, k, d, s)
        BY <1>2, <2>1, <2>3, <3>1 DEF CutNext
      <3> QED
        BY <1>2, <1>8, <2>3, <3>1, <3>2
    <2> QED
      BY <2>6, <2>7
  <1>11. CASE ~ (e.type < f.type)
    <2>1. PICK v \in 0..(U64 - 1) : v = W64(e.len - d)
      BY <1>3, <1>8, W64Range
    <2>2. s = [t EXCEPT !.m[k].len = v]
      BY <1>1, <1>2, <1>6, <1>9, <1>11, <2>1 DEF Prefer, Pair, EntryArray, Entry
    <2>3. /\ s = [m |-> [t.m EXCEPT ![k] = [base |-> t.m[k].base, len |-> v,
                                            type |-> t.m[k].type]], n |-> t.n]
          /\ s \in Pair /\ s.n = t.n
      BY <1>1, <1>6, <2>1, <2>2, PairLen
    <2>4. PICK z : z = [base |-> e.base, len |-> v, type |-> e.type]
      OBVIOUS
    <2>5. s.m = [m EXCEPT ![k] = z] /\ DOMAIN m = Slots /\ s.n = n
      <3>1. t.m[k].base = e.base /\ t.m[k].type = e.type /\ t.m = m /\ t.n = n
        BY <1>2, <1>6
      <3>2. PICK w : w = [m EXCEPT ![k] = z]
        OBVIOUS
      <3>3. s = [m |-> w, n |-> n]
        BY <2>3, <2>4, <3>1, <3>2
      <3>4. DOMAIN m = Slots
        BY DEF EntryArray
      <3>5. s.m = w /\ s.n = n
        BY <3>3
      <3> QED
        BY <3>2, <3>4, <3>5
    <2>6. s.m[k] = z /\ \A x \in Slots : x # k => s.m[x] = m[x]
      BY <1>1, <2>5
    <2>7. Shortens(m, n, k, d, s)
      BY <1>2, <2>1, <2>4, <2>5, <2>6 DEF Shortens
    <2> QED
      BY <1>2, <1>8, <2>3, <2>7
  <1> QED
    BY <1>10, <1>11

\* The first half of a round.
LEMMA MidOverlap ==
  ASSUME NEW m \in EntryArray, NEW n \in 1..CAP, NEW k \in Nat, k + 1 < n, NEW p,
         Firmware \in Seq(FirmwareEntry), TopLast, Topped(m, n, k, p), end \in Nat,
         NEW s, s = Overlap([m |-> m, n |-> n], k)
  PROVE  s \in Pair /\ s.n \in {n - 1, n} /\ \E q : MidRound(s.m, s.n, k, q)
  <1>1. MidRound(m, n, k, p) /\ k \in k..(n - 1) /\ k + 1 \in k..(n - 1)
    BY DEF Topped
  <1>2. EndAt(m[k]) < U64 /\ EndAt(m[k + 1]) < U64 /\ EndAt(m[k]) \in Nat
    <2>1. ASSUME NEW x \in k..(n - 1), Part(m[x], p[x]) PROVE EndAt(m[x]) < U64
      <3>1. EndAt(m[x]) \in Nat /\ EndAt(Firmware[p[x]]) \in Nat /\ EndAt(Firmware[p[x]]) < U64
        BY <1>1, PartNats
      <3>2. EndAt(m[x]) <= EndAt(Firmware[p[x]])
        BY <2>1 DEF Part, PieceOf
      <3> QED
        BY <3>1, <3>2
    <2>2. Part(m[k], p[k]) /\ Part(m[k + 1], p[k + 1])
      <3>1. k + 1 \in (k + 1)..(n - 1)
        OBVIOUS
      <3> QED
        BY <1>1, <3>1 DEF Topped, MidRound
    <2> QED
      BY <1>1, <2>1, <2>2, PartNats
  <1>3. CASE ~ (m[k + 1].base < EndAt(m[k]))
    <2>1. s = [m |-> m, n |-> n]
      <3>1. Ceil(m[k]) = EndAt(m[k])
        <4>1. EndAt(m[k]) \in 0..(U64 - 1)
          BY <1>2
        <4> QED
          BY <4>1, W64Id DEF Ceil, EndAt
      <3> QED
        BY <1>3, <3>1 DEF Overlap
    <2>2. s \in Pair /\ s.m = m /\ s.n = n
      BY <2>1 DEF Pair
    <2> QED
      BY <1>1, <2>2
  <1>4. CASE m[k + 1].base < EndAt(m[k])
    <2>1. m[k].type # m[k + 1].type
      BY <1>4, ToppedPair
    <2>2. s \in Pair
      BY <1>2, <1>4, <2>1, OverlapIs
    <2>3. PICK d \in Nat :
            /\ d <= m[k + 1].len /\ m[k + 1].base + d <= EndAt(m[k])
            /\ CutNext(m, n, k, d, s) \/ DropsNext(m, n, k, d, s) \/ Shortens(m, n, k, d, s)
      BY <1>2, <1>4, <2>1, OverlapIs
    <2>4. CASE CutNext(m, n, k, d, s)
      <3>1. MidRound(s.m, n, k, p)
        <4>1. PICK e, f : e = m[k + 1] /\ f = s.m[k + 1]
          OBVIOUS
        <4>2. /\ e.base \in Nat /\ e.len \in Nat /\ d < e.len /\ e.base + d <= EndAt(m[k])
              /\ f = [base |-> e.base + d, len |-> e.len - d, type |-> e.type]
          <5>1. /\ m[k + 1].base \in Nat /\ m[k + 1].len \in Nat
            BY <1>1, PartNats
          <5> QED
            BY <2>3, <2>4, <4>1, <5>1 DEF CutNext
        <4>3. /\ f.base \in Nat /\ f.base = e.base + d /\ f.type = e.type
              /\ f.len > 0 /\ EndAt(f) = EndAt(e)
              /\ e.base <= f.base /\ f.base <= EndAt(e)
          BY <4>2, CutEnd
        <4>4. \A x \in Slots : x # k + 1 => s.m[x] = m[x]
          BY <2>4 DEF CutNext
        <4> QED
          BY <1>4, <4>1, <4>2, <4>3, <4>4, MidCut
      <3> QED
        BY <2>2, <2>4, <3>1 DEF CutNext
    <2>5. CASE DropsNext(m, n, k, d, s)
      <3>1. EndAt(m[k + 1]) <= EndAt(m[k])
        BY <2>3, <2>5 DEF DropsNext, EndAt
      <3>2. \E q : MidRound(s.m, n - 1, k, q)
        BY <2>5, <3>1, MidGone DEF DropsNext
      <3> QED
        BY <2>2, <2>5, <3>2 DEF DropsNext
    <2>6. CASE Shortens(m, n, k, d, s)
      <3>1. MidRound(s.m, n, k, p)
        BY <1>4, <2>3, <2>6, MidShort DEF Shortens
      <3> QED
        BY <2>2, <2>6, <3>1 DEF Shortens
    <2> QED
      BY <2>3, <2>4, <2>5, <2>6
  <1> QED
    BY <1>3, <1>4


\* What the second half makes of the array: all but the type of entry k stays,
\* or what of it lies above the bootstrapper is an entry of its own.
StaysSame(s, k, r) ==
  /\ r.n = s.n
  /\ \A x \in Slots : /\ x # k => r.m[x] = s.m[x]
                      /\ EndAt(r.m[x]) = EndAt(s.m[x])

SplitsOff(s, k, r) ==
  /\ s.m[k].base < end /\ end < EndAt(s.m[k]) /\ r.n = s.n + 1
  /\ r.m[k + 1] = [base |-> end, len |-> EndAt(s.m[k]) - end, type |-> s.m[k].type]
  /\ s.n < CAP => \A x \in (k + 2)..s.n : r.m[x] = s.m[x - 1]

LEMMA ReserveIs ==
  ASSUME NEW s \in Pair, s.n <= CAP, NEW k \in Slots, k + 1 \in Slots, k < s.n,
         EndAt(s.m[k]) < U64 \/ end <= s.m[k].base,
         begin \in 0..(U32 - 1), end \in 0..(U32 - 1),
         NEW r, r = Reserve(s, k)
  PROVE  r \in Pair /\ (StaysSame(s, k, r) \/ SplitsOff(s, k, r))
  <1> DEFINE e == s.m[k]
  <1>1. s.m \in EntryArray /\ s.n \in Nat /\ k \in Nat /\ k <= s.n
    BY DEF Pair, Slots
  <1>2. /\ e.base \in 0..(U64 - 1) /\ e.len \in 0..(U64 - 1) /\ e.type \in 0..(U32 - 1)
        /\ EndAt(e) \in Nat
    <2>1. /\ e.base \in 0..(U64 - 1) /\ e.len \in 0..(U64 - 1) /\ e.type \in 0..(U32 - 1)
      BY <1>1, EntryNats
    <2> QED
      BY <2>1 DEF EndAt
  <1>3. r \in Pair
    BY <1>1, ReserveType
  <1>4. CASE r = s
    BY <1>3, <1>4 DEF StaysSame
  <1>5. CASE r = [s EXCEPT !.m[k].type = BOOTSTRAP]
    <2>1. PICK b \in 0..(U32 - 1) : b = BOOTSTRAP
      BY TypeCodeAssumption
    <2>2. r = [s EXCEPT !.m[k].type = b]
      BY <1>5, <2>1
    <2>3. /\ r = [m |-> [s.m EXCEPT ![k] = [base |-> s.m[k].base, len |-> s.m[k].len, type |-> b]],
                  n |-> s.n]
          /\ r.n = s.n
      BY <2>2, PairType
    <2>4. PICK z : z = [base |-> s.m[k].base, len |-> s.m[k].len, type |-> b]
      OBVIOUS
    <2>5. PICK w : w = [s.m EXCEPT ![k] = z]
      OBVIOUS
    <2>6. r = [m |-> w, n |-> s.n]
      BY <2>3, <2>4, <2>5
    <2>7. r.m = w
      BY <2>6
    <2>8. DOMAIN s.m = Slots
      BY <1>1 DEF EntryArray
    <2>9. \A x \in Slots : r.m[x] = IF x = k THEN z ELSE s.m[x]
      BY <2>5, <2>7, <2>8
    <2>10. EndAt(z) = EndAt(s.m[k])
      BY <2>4 DEF EndAt
    <2> QED
      BY <1>3, <2>3, <2>9, <2>10 DEF StaysSame
  <1>6. CASE begin <= e.base /\ e.base < end /\ SticksOut(e) /\ r = SplitAt(s, k, end - e.base)
    <2>1. EndAt(e) < U64 /\ end < EndAt(e) /\ end \in 0..(U64 - 1)
      BY <1>2, <1>6 DEF SticksOut, EndAt
    <2>2. PICK d \in 0..(U64 - 1) : d = end - e.base /\ d < e.len
      BY <1>2, <1>6, <2>1 DEF SticksOut
    <2>3. PICK up : up = ShiftUp(s.m, k, s.n - k)
      OBVIOUS
    <2>4. r = [m |-> [x \in Slots |->
                       IF x = k THEN [base |-> s.m[k].base, len |-> d, type |-> BOOTSTRAP]
                       ELSE IF x = k + 1
                       THEN [base |-> W64(up[k + 1].base + d), len |-> W64(up[k + 1].len - d),
                             type |-> up[k + 1].type]
                       ELSE up[x]],
               n |-> s.n + 1]
      BY ZenonT(30), <1>1, <1>6, <2>2, <2>3, SplitAtIs
    <2>5. up[k + 1] = e /\ (s.n < CAP => \A x \in (k + 2)..s.n : up[x] = s.m[x - 1])
      <3>1. \A x \in Slots : up[x] = IF x \in (k + 1)..(k + (s.n - k)) THEN s.m[x - 1] ELSE s.m[x]
        BY <2>3 DEF ShiftUp
      <3>2. k + 1 \in (k + 1)..(k + (s.n - k)) /\ (k + 1) - 1 = k
        BY <1>1
      <3>3. s.n < CAP => \A x \in (k + 2)..s.n : x \in Slots /\ x \in (k + 1)..(k + (s.n - k))
        BY <1>1 DEF Slots
      <3> QED
        BY <3>1, <3>2, <3>3
    <2>6. W64(e.base + d) = end /\ W64(e.len - d) = EndAt(e) - end
      <3>1. e.base + d = end
        BY <1>2, <2>1, <2>2
      <3>2. e.len - d = EndAt(e) - end /\ e.len - d \in 0..(U64 - 1)
        BY <1>2, <2>1, <2>2 DEF EndAt
      <3> QED
        BY <2>1, <3>1, <3>2, W64Id
    <2>7. r.n = s.n + 1 /\ \A x \in Slots : x # k =>
            r.m[x] = IF x = k + 1
                     THEN [base |-> W64(up[k + 1].base + d), len |-> W64(up[k + 1].len - d),
                           type |-> up[k + 1].type]
                     ELSE up[x]
      BY <2>4
    <2>8. r.m[k + 1] = [base |-> end, len |-> EndAt(e) - end, type |-> e.type]
      BY <1>1, <2>5, <2>6, <2>7
    <2>9. s.n < CAP => \A x \in (k + 2)..s.n : r.m[x] = s.m[x - 1]
      <3>1. s.n < CAP => \A x \in (k + 2)..s.n : x \in Slots /\ x # k /\ x # k + 1
        BY <1>1 DEF Slots
      <3> QED
        BY <2>5, <2>7, <3>1
    <2> QED
      BY <1>3, <1>6, <2>1, <2>7, <2>8, <2>9 DEF SplitsOff
  <1> QED
    BY <1>4, <1>5, <1>6 DEF Reserve

\* The second half of a round.
LEMMA ToppedReserve ==
  ASSUME NEW s \in Pair, NEW k \in Nat, s.n \in 1..CAP, k < s.n, k + 1 < CAP,
         NEW q, MidRound(s.m, s.n, k, q), Firmware \in Seq(FirmwareEntry), TopLast,
         begin \in 0..(U32 - 1), end \in 0..(U32 - 1),
         NEW r, r = Reserve(s, k), r.n <= CAP
  PROVE  r.n \in 1..CAP /\ \E p : Topped(r.m, r.n, k + 1, p)
  <1> DEFINE m == s.m
             n == s.n
             w == r.m
  <1>1. /\ m \in EntryArray /\ n \in 1..CAP /\ k \in Slots /\ k + 1 \in Slots
        /\ k \in k..(n - 1)
    BY DEF Pair, Slots
  <1>2. m[k].base \in Nat /\ EndAt(m[k]) \in Nat
    BY <1>1, PartNats
  <1>3. Part(m[k], q[k]) \/ end <= m[k].base
    BY DEF MidRound
  <1>4. EndAt(m[k]) < U64 \/ end <= m[k].base
    <2>1. CASE Part(m[k], q[k])
      <3>1. /\ EndAt(m[k]) \in Nat /\ EndAt(Firmware[q[k]]) \in Nat
            /\ EndAt(Firmware[q[k]]) < U64
        BY <1>1, PartNats
      <3>2. EndAt(m[k]) <= EndAt(Firmware[q[k]])
        BY <2>1 DEF Part, PieceOf
      <3> QED
        BY <3>1, <3>2
    <2> QED
      BY <1>3, <2>1
  <1>5. r \in Pair /\ (StaysSame(s, k, r) \/ SplitsOff(s, k, r))
    <2>1. s.n <= CAP
      OBVIOUS
    <2> QED
      BY <1>1, <1>4, <2>1, ReserveIs
  <1>6. CASE StaysSame(s, k, r)
    <2>1. /\ r.n = n /\ \A x \in Slots : x # k => w[x] = m[x]
          /\ \A x \in Slots : EndAt(w[x]) = EndAt(m[x])
      BY <1>6 DEF StaysSame
    <2>2. /\ \A x \in (k + 1)..(n - 1) : x \in Slots /\ x # k /\ x \in k..(n - 1)
          /\ \A x \in ((k + 1) + 1)..(n - 1) : x \in (k + 1)..(n - 1)
          /\ \A x \in ((k + 1) + 1)..(n - 2) : x \in (k + 1)..(n - 2)
          /\ \A x \in (k + 1)..(n - 2) : x \in (k + 1)..(n - 1) /\ x + 1 \in (k + 1)..(n - 1)
          /\ k + 1 < n => k + 1 \in (k + 1)..(n - 1)
          /\ k + 1 < n - 1 => k + 1 \in (k + 1)..(n - 2)
          /\ n - 1 \in Slots
      BY <1>1 DEF Slots
    <2>3. /\ \A x \in (k + 1)..(n - 1) : w[x] = m[x] /\ Part(w[x], q[x]) /\ w[x].len > 0
          /\ \A x \in (k + 1)..(n - 2) : w[x].base <= w[x + 1].base
          /\ EndAt(w[n - 1]) = EndAt(m[n - 1])
      BY <2>1, <2>2 DEF MidRound
    <2>4. MidRound(w, n, k + 1, q)
      BY <2>2, <2>3 DEF MidRound
    <2>5. Topped(w, n, k + 1, q)
      BY <2>2, <2>3, <2>4 DEF Topped
    <2> QED
      BY <2>1, <2>5
  <1>7. CASE SplitsOff(s, k, r)
    <2>1. /\ m[k].base < end /\ end < EndAt(m[k]) /\ r.n = n + 1 /\ n < CAP
          /\ w[k + 1] = [base |-> end, len |-> EndAt(m[k]) - end, type |-> m[k].type]
          /\ \A x \in (k + 2)..n : w[x] = m[x - 1]
      BY <1>1, <1>7 DEF SplitsOff
    <2>2. Part(m[k], q[k])
      BY <1>2, <1>3, <2>1
    <2>3. PICK p : p = [x \in Nat |-> q[x - 1]]
      OBVIOUS
    <2>4. /\ \A x \in (k + 1)..n : x \in Nat /\ x - 1 \in k..(n - 1)
          /\ \A x \in (k + 2)..n : x - 1 \in (k + 1)..(n - 1) /\ x \in (k + 1)..n
          /\ \A x \in (k + 2)..(n - 1) : /\ x \in (k + 2)..n /\ x + 1 \in (k + 2)..n
                                         /\ x - 1 \in (k + 1)..(n - 2) /\ (x + 1) - 1 = (x - 1) + 1
          /\ k + 1 \in (k + 1)..n /\ (k + 1) - 1 = k
          /\ (n + 1) - 1 = n /\ (n + 1) - 2 = n - 1 /\ (k + 1) + 1 = k + 2
      BY <1>1
    <2>15. \A x \in (k + 1)..n : p[x] = q[x - 1]
      BY <2>3, <2>4
    <2>5. \A x \in (k + 1)..n : p[x] \in FwIndex
      BY <2>4, <2>15 DEF MidRound
    <2>6. ASSUME NEW x \in (k + 1)..n, NEW y \in (k + 1)..n, x < y
          PROVE  p[x] # p[y] /\ Firmware[p[x]].base <= Firmware[p[y]].base
      <3>1. p[x] = q[x - 1] /\ p[y] = q[y - 1] /\ x - 1 \in k..(n - 1) /\ y - 1 \in k..(n - 1)
        BY <2>4, <2>15
      <3>2. x - 1 < y - 1
        BY <2>6
      <3> QED
        BY <3>1, <3>2 DEF MidRound
    <2>16. \A x \in (k + 1)..(n - 1) : Part(m[x], q[x]) /\ m[x].len > 0
      BY DEF MidRound
    <2>7. ASSUME NEW x \in (k + 2)..n PROVE Part(w[x], p[x]) /\ w[x].len > 0
      <3>1. /\ p[x] = q[x - 1] /\ w[x] = m[x - 1] /\ x - 1 \in (k + 1)..(n - 1)
        BY <2>1, <2>4, <2>15
      <3>2. Part(m[x - 1], q[x - 1]) /\ m[x - 1].len > 0
        BY Zenon, <2>16, <3>1
      <3> QED
        BY Zenon, <3>1, <3>2
    <2>8. ASSUME NEW x \in (k + 2)..(n - 1) PROVE w[x].base <= w[x + 1].base
      <3>1. w[x] = m[x - 1] /\ w[x + 1] = m[(x - 1) + 1]
        BY <2>1, <2>4
      <3>2. x - 1 \in (k + 1)..(n - 2)
        BY <2>4
      <3> QED
        BY <3>1, <3>2 DEF MidRound
    <2>9. /\ w[k + 1].base = end /\ EndAt(w[k + 1]) = EndAt(m[k]) /\ w[k + 1].type = m[k].type
      <3>1. /\ w[k + 1].base = end /\ w[k + 1].len = EndAt(m[k]) - end
            /\ w[k + 1].type = m[k].type
        BY <2>1
      <3>2. w[k + 1].base + w[k + 1].len = EndAt(m[k])
        BY <1>2, <3>1
      <3> QED
        BY <3>1, <3>2 DEF EndAt
    <2>10. Part(w[k + 1], q[k])
      <3>1. /\ m[k].type = Code(q[k]) /\ Firmware[q[k]].base <= m[k].base
            /\ EndAt(m[k]) <= EndAt(Firmware[q[k]])
        BY <2>2 DEF Part, PieceOf
      <3>2. Firmware[q[k]].base \in Nat
        BY <1>1, PartNats
      <3>3. Firmware[q[k]].base <= end
        <4>1. end \in Nat /\ m[k].base < end
          BY <2>1
        <4> HIDE DEF m
        <4> QED
          BY SMTT(30), <1>2, <3>1, <3>2, <4>1
      <3> QED
        BY <2>9, <3>1, <3>3 DEF Part, PieceOf
    <2>11. EndAt(w[n]) = EndAt(m[n - 1])
      <3>1. CASE n = k + 1
        BY <2>4, <2>9, <3>1
      <3>2. CASE n # k + 1
        <4>1. n \in (k + 2)..n
          BY <1>1, <3>2
        <4> QED
          BY <2>1, <4>1
      <3> QED
        BY <3>1, <3>2
    <2>12. MidRound(w, n + 1, k + 1, p)
      BY SMTT(30), <2>4, <2>5, <2>6, <2>7, <2>8, <2>9, <2>11 DEF MidRound
    <2>13. Topped(w, n + 1, k + 1, p)
      <3>1. p[k + 1] = q[k] /\ end <= w[k + 1].base
        BY <2>4, <2>9, <2>15
      <3> QED
        BY <2>10, <2>12, <3>1 DEF Topped
    <2>14. n + 1 \in 1..CAP
      BY <1>1, <2>1
    <2> QED
      BY <2>1, <2>13, <2>14
  <1> QED
    BY <1>5, <1>6, <1>7

\* Where the loop stands in such a map.
InTopped(m, n, k) == n \in 1..CAP /\ k \in 0..n /\ \E p : Topped(m, n, k, p)

Sized(size) == \A x \in FwIndex : EndAt(Firmware[x]) <= size

OneTopLast == Cardinality(MapTags) = 1 /\ TopLast

TopInv ==
  OneTopLast =>
    /\ pc = "resolve" => InTopped(arc_mmap, entries, i)
    /\ Passed => Sized(meta.mem_size)

\* What is said of the firmware's map depends on the input alone.
LEMMA SameTop ==
  ASSUME UNCHANGED input
  PROVE  /\ OneTopLast' = OneTopLast
         /\ InTopped(arc_mmap', entries', i') => InTopped(arc_mmap, entries, i)'
         /\ Sized(meta'.mem_size) => Sized(meta.mem_size)'
  <1>1. /\ MapTags' = MapTags /\ Firmware' = Firmware /\ FwIndex' = FwIndex
        /\ end' = end /\ \A x : Code(x)' = Code(x)
    BY SameMap DEF input
  <1>2. OneTopLast' = OneTopLast
    BY <1>1 DEF OneTopLast, TopLast, Meet, EndAt
  <1>3. \A m, n, k, p : Topped(m, n, k, p) => Topped(m, n, k, p)'
    <2>1. \A e, x : Part(e, x) => Part(e, x)'
      BY <1>1 DEF Part, PieceOf, EndAt
    <2>2. \A m, n, k, p : MidRound(m, n, k, p) => MidRound(m, n, k, p)'
      BY <1>1, <2>1 DEF MidRound, EndAt
    <2> QED
      BY <1>1, <2>1, <2>2 DEF Topped
  <1>4. InTopped(arc_mmap', entries', i') => InTopped(arc_mmap, entries, i)'
    BY <1>3 DEF InTopped
  <1>5. Sized(meta'.mem_size) => Sized(meta.mem_size)'
    BY <1>1 DEF Sized, EndAt
  <1> QED
    BY <1>2, <1>4, <1>5

\* The loop starts with every entry as the firmware reported it,
LEMMA TopStarts ==
  ASSUME TypeInv, SortInv, SortDone, OneTopLast, pc' = "resolve"
  PROVE  InTopped(arc_mmap', entries', i')
  <1>1. /\ pc = "sort" /\ i = entries /\ i' = 0 /\ arc_mmap' = arc_mmap /\ entries' = entries
        /\ entries # 0
    BY DEF SortDone
  <1>2. /\ tags \in InitTags /\ pos \in 1..Len(tags) /\ tags[pos].kind = "mmap"
        /\ entries = Len(tags[pos].entries) /\ entries \in Nat /\ entries <= CAP
        /\ Len(tags) \in Nat
    BY <1>1, InitTagsAssumption DEF TypeInv, TypeOK
  <1>3. tags[pos].entries \in Seq(FirmwareEntry)
    BY <1>2, TagTypes
  <1>4. Firmware = tags[pos].entries
    BY <1>2, OneMap DEF MapTags, OneTopLast
  <1>5. entries \in 1..CAP /\ 0 \in 0..entries
    BY <1>1, <1>2, CapAssumption
  <1>6. SortedSelection(arc_mmap, entries, Firmware)
    BY <1>1, <1>4 DEF SortInv
  <1>7. \E p : Topped(arc_mmap, entries, 0, p)
    BY <1>2, <1>3, <1>4, <1>5, <1>6, ToppedStart DEF OneTopLast
  <1> QED
    BY <1>1, <1>5, <1>7 DEF InTopped

\* goes on with the end of the last one where it was, or above it,
LEMMA TopGoesOn ==
  ASSUME TypeInv, TopInv, ResolveEntry, OneTopLast, pc' = "resolve"
  PROVE  InTopped(arc_mmap', entries', i')
  <1> DEFINE o == Overlap([m |-> arc_mmap, n |-> entries], i)
             r == Reserve(o, i)
  <1>1. /\ pc = "resolve" /\ i < entries - 1
        /\ arc_mmap' = r.m /\ entries' = r.n /\ i' = i + 1 /\ r.n <= CAP
    BY DEF ResolveEntry
  <1>2. InTopped(arc_mmap, entries, i)
    BY <1>1 DEF TopInv
  <1>3. /\ Firmware \in Seq(FirmwareEntry) /\ arc_mmap \in EntryArray
        /\ begin \in 0..(U32 - 1) /\ end \in 0..(U32 - 1)
        /\ entries \in 1..CAP /\ i \in Nat /\ i + 1 < entries
    <2>1. /\ Firmware \in Seq(FirmwareEntry) /\ arc_mmap \in EntryArray
          /\ begin \in 0..(U32 - 1) /\ end \in 0..(U32 - 1)
          /\ entries \in 1..CAP /\ i \in 0..entries
      BY <1>1, InLoop DEF OneTopLast
    <2> QED
      BY <1>1, <2>1
  <1>4. PICK p : Topped(arc_mmap, entries, i, p)
    BY <1>2 DEF InTopped
  <1>5. end \in Nat /\ TopLast
    BY <1>3 DEF OneTopLast
  <1>6. o \in Pair /\ o.n \in {entries - 1, entries} /\ \E q : MidRound(o.m, o.n, i, q)
    BY <1>3, <1>4, <1>5, MidOverlap
  <1> HIDE DEF o
  <1>7. PICK q : MidRound(o.m, o.n, i, q)
    BY <1>6
  <1>8. o.n \in 1..CAP /\ i < o.n /\ i + 1 < CAP
    BY <1>3, <1>6
  <1>9. r.n \in 1..CAP /\ \E z : Topped(r.m, r.n, i + 1, z)
    BY <1>1, <1>3, <1>5, <1>6, <1>7, <1>8, ToppedReserve
  <1>10. r.n \in {o.n, o.n + 1}
    <2>1. i \in Slots /\ i + 1 \in Slots /\ i <= o.n
      BY <1>3, <1>8 DEF Slots
    <2> QED
      BY <1>3, <1>6, <2>1, ReserveType
  <1> HIDE DEF r
  <1>11. i + 1 \in 0..r.n
    BY <1>3, <1>8, <1>9, <1>10
  <1> QED
    BY <1>1, <1>9, <1>11 DEF InTopped

\* and ends with a size that covers all.
LEMMA TopEnds ==
  ASSUME TypeInv, TopInv, Publish, OneTopLast
  PROVE  Sized(meta'.mem_size)
  <1> DEFINE last == arc_mmap[entries - 1]
  <1>1. /\ pc = "resolve"
        /\ meta' = [meta EXCEPT !.mmap_len = entries, !.mem_size = Ceil(last)]
    BY DEF Publish
  <1>2. PICK p : MidRound(arc_mmap, entries, i, p)
    BY <1>1 DEF TopInv, InTopped, Topped
  <1>3. arc_mmap \in EntryArray /\ entries \in 1..CAP
    BY <1>1, InLoop DEF OneTopLast
  <1>4. last.base \in Nat /\ last.len \in Nat /\ EndAt(last) < U64
    <2>1. entries - 1 \in Slots
      BY <1>3 DEF Slots
    <2> QED
      BY <1>2, <1>3, <2>1, EntryNats DEF MidRound
  <1>5. Ceil(last) = EndAt(last) /\ Ceil(last) \in 0..(U64 - 1)
    <2>1. last.base + last.len \in 0..(U64 - 1)
      BY <1>4 DEF EndAt
    <2> QED
      BY <2>1, W64Id DEF Ceil, EndAt
  <1>6. \A x \in FwIndex : EndAt(Firmware[x]) <= EndAt(last)
    BY <1>2 DEF MidRound
  <1> HIDE DEF last
  <1>7. meta'.mem_size = Ceil(last)
    <2>1. PICK q : q = [meta EXCEPT !.mmap_len = entries]
      OBVIOUS
    <2>2. q \in MetaRecord
      <3>1. entries \in 0..CAP /\ meta \in MetaRecord
        BY <1>3 DEF TypeInv
      <3> QED
        BY <2>1, <3>1, MetaLen
    <2>3. meta' = [q EXCEPT !.mem_size = Ceil(last)]
      BY <1>1, <2>1
    <2> QED
      BY <1>5, <2>2, <2>3, MetaSize
  <1> QED
    BY <1>5, <1>6, <1>7 DEF Sized

\* The whole parse keeps that, whatever the tags.
THEOREM TopKeeps == Spec => []TopInv
  <1>1. Init => TopInv
    BY DEF Init, TopInv, Passed
  <1>2. TypeInv /\ SortInv /\ TopInv /\ [Next]_vars => TopInv'
    <2> SUFFICES ASSUME TypeInv, SortInv, TopInv, [Next]_vars, OneTopLast'
                 PROVE  /\ pc' = "resolve" => InTopped(arc_mmap, entries, i)'
                        /\ Passed' => Sized(meta.mem_size)'
      BY DEF TopInv
    <2>1. tags' = tags
      BY DEF Next, vars, input, Start, FirstModule, FirstBaseAddr, FirstFramebuffer,
             FirstOther, FirstDone, SecondMMap, InsertEntry, SortDone, ResolveEntry,
             Publish, SecondAcpi, SecondOther, SecondDone
    <2>2. OneTopLast /\ MapTags' = MapTags
      <3>1. MapTags' = MapTags /\ Firmware' = Firmware /\ FwIndex' = FwIndex
            /\ \A x : Code(x)' = Code(x)
        BY <2>1, SameMap
      <3> QED
        BY <3>1 DEF OneTopLast, TopLast, Meet, EndAt
    <2>3. PICK p \in MapTags : p \in 1..Len(tags)
      BY <2>2, AMap DEF OneTopLast
    <2>4. /\ meta \in MetaRecord /\ Len(tags) \in Nat /\ pos \in 1..(Len(tags) + 1)
          /\ p \in MapTags' /\ p \in Nat /\ p >= 1
      BY <2>2, <2>3, InitTagsAssumption DEF TypeInv, TypeOK
    <2>5. CASE Start \/ FirstModule \/ FirstBaseAddr \/ FirstFramebuffer \/ FirstOther
      <3>1. pc' \in {"first", "failed"}
        BY <2>5 DEF Start, FirstModule, FirstBaseAddr, FirstFramebuffer, FirstOther, At
      <3> QED
        BY <3>1 DEF Passed
    <2>6. CASE FirstDone
      <3>1. pc' = "second" /\ pos' = 1
        BY <2>6 DEF FirstDone
      <3>2. ~ Passed'
        BY <2>4, <3>1 DEF Passed
      <3> QED
        BY <3>1, <3>2
    <2>7. CASE SecondMMap \/ InsertEntry
      <3>1. pc' \in {"sort", "wild"}
        BY <2>7 DEF SecondMMap, InsertEntry
      <3> QED
        BY <3>1 DEF Passed
    <2>8. CASE SortDone
      <3>1. pc' \in {"wild", "resolve"} /\ UNCHANGED input
        BY <2>8 DEF SortDone
      <3>2. pc' = "resolve" => InTopped(arc_mmap, entries, i)'
        BY <2>2, <2>8, <3>1, TopStarts, SameTop
      <3> QED
        BY <3>1, <3>2 DEF Passed
    <2>9. CASE ResolveEntry
      <3>1. pc' \in {"wild", "resolve"} /\ UNCHANGED input
        BY <2>9 DEF ResolveEntry
      <3>2. pc' = "resolve" => InTopped(arc_mmap, entries, i)'
        BY <2>2, <2>9, <3>1, TopGoesOn, SameTop
      <3> QED
        BY <3>1, <3>2 DEF Passed
    <2>10. CASE Publish
      <3>1. pc' = "second" /\ UNCHANGED input
        BY <2>10 DEF Publish
      <3>2. Sized(meta.mem_size)'
        BY <2>2, <2>10, <3>1, TopEnds, SameTop
      <3> QED
        BY <3>1, <3>2
    <2>11. ASSUME UNCHANGED input, pc' # "resolve",
                  meta'.mem_size = meta.mem_size, Passed' => Passed
           PROVE  /\ pc' = "resolve" => InTopped(arc_mmap, entries, i)'
                  /\ Passed' => Sized(meta.mem_size)'
      <3>1. Passed' => Sized(meta'.mem_size)
        BY <2>2, <2>11 DEF TopInv
      <3> QED
        BY <2>11, <3>1, SameTop
    <2>12. ASSUME pos' = pos + 1, tags[pos].kind # "mmap", pc = "second", pc' = "second"
           PROVE  Passed' => Passed
      <3>1. pos \notin MapTags /\ \A q \in MapTags : q \in Nat
        BY <2>12 DEF MapTags
      <3> QED
        BY <2>2, <2>4, <2>12, <3>1 DEF Passed
    <2>13. CASE SecondAcpi
      <3>1. /\ UNCHANGED input /\ pc = "second" /\ pc' = "second"
            /\ pos' = pos + 1 /\ tags[pos].kind # "mmap"
            /\ meta' = [meta EXCEPT !.rsdp = pos]
        BY <2>13 DEF SecondAcpi, At
      <3>2. meta'.mem_size = meta.mem_size
        BY <2>4, <3>1 DEF MetaRecord
      <3> QED
        BY <2>11, <2>12, <3>1, <3>2
    <2>14. CASE SecondOther
      <3>1. /\ UNCHANGED <<input, meta>> /\ pc = "second" /\ pc' = "second"
            /\ pos' = pos + 1 /\ tags[pos].kind # "mmap"
        BY <2>14 DEF SecondOther, At
      <3> QED
        BY <2>11, <2>12, <3>1
    <2>15. CASE SecondDone
      <3>1. /\ UNCHANGED <<input, meta>> /\ pc' = "done"
            /\ pc = "second" /\ pos > Len(tags)
        BY <2>15 DEF SecondDone
      <3>2. Passed
        BY <2>4, <3>1 DEF Passed, MapTags
      <3> QED
        BY <2>11, <3>1, <3>2
    <2>16. CASE UNCHANGED vars
      <3>1. UNCHANGED <<input, arc_mmap, entries, i, meta, pc, pos>>
        BY <2>16 DEF vars, input
      <3>2. Passed' => Passed
        BY <2>2, <3>1 DEF Passed
      <3>3. /\ pc' = "resolve" => InTopped(arc_mmap', entries', i')
            /\ Passed' => Sized(meta'.mem_size)
        BY <2>2, <3>1, <3>2 DEF TopInv
      <3> QED
        BY <3>1, <3>3, SameTop
    <2> QED
      BY <2>5, <2>6, <2>7, <2>8, <2>9, <2>10, <2>13, <2>14, <2>15, <2>16 DEF Next
  <1> QED
    BY <1>1, <1>2, TypeCorrect, SelectionStaysSorted, PTL DEF Spec

\* The memory size covers all that the firmware reported, although entries
\* overlap, are cut and removed, provided that those that do differ in type, no
\* three meet, and one begins and ends last: the last entry that is left ends
\* where that one did.
THEOREM MemSizeIsEnough == Spec => []MemSizeCovers
  <1>1. TopInv => MemSizeCovers
    BY DEF TopInv, OneTopLast, MemSizeCovers, Parsed, Passed, Sized
  <1> QED
    BY <1>1, TopKeeps, PTL
=============================================================================
