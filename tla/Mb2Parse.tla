------------------------------- MODULE Mb2Parse -------------------------------
(***************************************************************************)
(* parse_mb2i() of boot/mb2parse.c: two passes over the tags that GRUB     *)
(* leaves, the first for what the second needs (where the bootstrapper and *)
(* its modules lie), the second for the rest.  The memory map tag is       *)
(* copied, sorted, into arc_mmap; overlaps are resolved; what the          *)
(* bootstrapper occupies is marked; and the result is published.           *)
(*                                                                         *)
(* A tag is a record with its "kind" and the fields that are read; the     *)
(* byte offset into the tags is the position in a sequence.  The sequence  *)
(* is empty iff total_size is 0.  Messages are left out.                   *)
(***************************************************************************)
EXTENDS MemoryMap, Sequences, FiniteSets

CONSTANTS
  InitTags,      \* the tag sequences GRUB may leave
  TypeCode,      \* the ARC_MEMORY_* code of each known Multiboot2 memory type
  IMAGE_SIZE     \* &__BOOTSTRAP_END__ - &__BOOTSTRAP_START__

ASSUME TypeCodesAssumption ==
  /\ DOMAIN TypeCode = {"available", "reserved", "acpi", "nvs", "badram"}
  /\ \A t \in DOMAIN TypeCode : TypeCode[t] \in 1..(U32 - 2)
  /\ TypeCode["available"] = AVAILABLE /\ TypeCode["reserved"] = RESERVED

ASSUME ImageSizeAssumption == IMAGE_SIZE \in 0..(U32 - PAGE_SIZE)

\* An entry of the firmware's memory map, and the tags that are read.
FirmwareEntry == [base : 0..(U64 - 1), len : 0..(U64 - 1), type : STRING]
AnyTag ==
  [kind : {"mmap"}, entries : Seq(FirmwareEntry)]
    \cup [kind : {"module"}, name : STRING, start : 0..(U32 - 1), end : 0..(U32 - 1)]
    \cup [kind : {"load_base_addr"}, addr : 0..(U32 - 1)]
    \cup [kind : {"framebuffer", "acpi", "other"}]

ASSUME InitTagsAssumption == InitTags \subseteq Seq(AnyTag)

VARIABLES
  tags,              \* the input
  pc,                \* "start", "first", "second", "sort", "resolve", or how it ended
  pos,               \* the tag at hand, or the next one
  begin, end,        \* bootstrap_begin_phys and bootstrap_end_phys
  meta,              \* the fields of Arc_KernelMeta and Arc_BootMeta it sets
  arc_mmap,
  entries,           \* entries of arc_mmap in use
  i                  \* the loop variable of the memory map's loops

vars == <<tags, pc, pos, begin, end, meta, arc_mmap, entries, i>>
input == <<tags, begin, end>>
mapvars == <<arc_mmap, entries, i>>

-----------------------------------------------------------------------------
(* The first pass                                                          *)

At(label, kinds) == pc = label /\ pos <= Len(tags) /\ tags[pos].kind \in kinds

Start ==
  /\ pc = "start"
  /\ pc' = IF tags = <<>> THEN "failed" ELSE "first"
  /\ UNCHANGED <<input, pos, meta, mapvars>>

\* A kernel or initramfs is remembered under its name, any other module not.
Named(t) ==
  CASE t.name = "kernel"    -> [meta EXCEPT !.kernel_elf = t.start]
    [] t.name = "initramfs" -> [meta EXCEPT !.initramfs_base = t.start,
                                            !.initramfs_size = W32(t.end - t.start)]
    [] OTHER -> meta

\* Mutant: the last module decides where the bootstrapper ends.
RaiseAlways(last) == last

Raise(last) == IF last > end THEN last ELSE end

FirstModule ==
  /\ At("first", {"module"})
  /\ end' = Raise(Align(tags[pos].end))
  /\ meta' = Named(tags[pos])
  /\ pos' = pos + 1
  /\ UNCHANGED <<tags, pc, begin, mapvars>>

FirstBaseAddr ==
  /\ At("first", {"load_base_addr"})
  /\ begin' = tags[pos].addr
  /\ meta' = [meta EXCEPT !.image_base = tags[pos].addr,
                          !.image_size = RoundUp(IMAGE_SIZE)]
  /\ pos' = pos + 1
  /\ UNCHANGED <<tags, pc, end, mapvars>>

FirstFramebuffer ==
  /\ At("first", {"framebuffer"})
  /\ meta' = [meta EXCEPT !.term = pos]
  /\ pos' = pos + 1
  /\ UNCHANGED <<input, pc, mapvars>>

\* ELF sections, the end tag (which does not end the loop) and the unknown.
FirstOther ==
  /\ At("first", {"mmap", "acpi", "other"})
  /\ pos' = pos + 1
  /\ UNCHANGED <<input, pc, meta, mapvars>>

FirstDone ==
  /\ pc = "first" /\ pos > Len(tags)
  /\ pc' = "second" /\ pos' = 1
  /\ UNCHANGED <<input, meta, mapvars>>

-----------------------------------------------------------------------------
(* The memory map: sorting                                                 *)

\* Mutant: the error code of an int function.
MMType2TypeSigned(t) == IF t \in DOMAIN TypeCode THEN TypeCode[t] ELSE -1

\* mb2_MMType2Type(): an unknown type becomes -1, the greatest uint32_t.
MMType2Type(t) == IF t \in DOMAIN TypeCode THEN TypeCode[t] ELSE U32 - 1

FromFirmware(e) == [base |-> e.base, len |-> e.len, type |-> MMType2Type(e.type)]

\* The first of the j entries that e goes before, j if there is none.
Place(m, j, e) ==
  CHOOSE k \in 0..j : /\ k = j \/ e.base <= m[k].base
                      /\ \A x \in 0..(k - 1) : m[x].base < e.base

\* Mutant: the last of the entries to move is forgotten.
InsertShort(m, j, e) ==
  LET k == Place(m, j, e) IN [ShiftUp(m, k, j - k - 1) EXCEPT ![k] = e]

Insert(m, j, e) ==
  LET k == Place(m, j, e) IN [ShiftUp(m, k, j - k) EXCEPT ![k] = e]

SecondMMap ==
  /\ At("second", {"mmap"})
  /\ pc' = "sort" /\ i' = 0
  /\ entries' = Len(tags[pos].entries)
  /\ UNCHANGED <<input, pos, meta, arc_mmap>>

\* An entry past the end of the array overwrites what follows it.
InsertEntry ==
  /\ pc = "sort" /\ i < entries
  /\ IF i < CAP
     THEN /\ arc_mmap' = Insert(arc_mmap, i, FromFirmware(tags[pos].entries[i + 1]))
          /\ i' = i + 1
          /\ pc' = pc
     ELSE pc' = "wild" /\ UNCHANGED <<arc_mmap, i>>
  /\ UNCHANGED <<input, pos, meta, entries>>

\* Without an entry, entries - 1 is the greatest uint32_t.
SortDone ==
  /\ pc = "sort" /\ i = entries
  /\ pc' = IF entries = 0 THEN "wild" ELSE "resolve"
  /\ i' = 0
  /\ UNCHANGED <<input, pos, meta, arc_mmap, entries>>

-----------------------------------------------------------------------------
(* The memory map: overlaps, and what the bootstrapper occupies.  Here s   *)
(* stands for the pair of arc_mmap (s.m) and entries (s.n).                *)

\* Mutant: the last byte is taken for the end.
CeilInclusive(e) == W64(e.base + e.len - 1)

Ceil(e) == W64(e.base + e.len)

Smaller(x, y) == IF x < y THEN x ELSE y

\* Entry k + 1 is removed from s.
RemoveNext(s, k) ==
  [m |-> IF k # s.n - 2 THEN ShiftDown(s.m, k + 1, s.n - k - 2)
                        ELSE [s.m EXCEPT ![k + 1] = NoEntry],
   n |-> s.n - 1]

\* "Merge": the lengths are added, and the code goes on to Prefer.
Merge(s, k) ==
  IF s.m[k].type = s.m[k + 1].type
  THEN RemoveNext([s EXCEPT !.m[k].len = W64(@ + s.m[k + 1].len)], k)
  ELSE s

\* Mutant: the greater type wins.
PreferGreater(s, k, delta) ==
  LET cut == [s EXCEPT !.m[k + 1].base = W64(@ + delta),
                       !.m[k + 1].len  = W64(@ - delta)]
  IN  IF s.m[k].type > s.m[k + 1].type
      THEN IF cut.m[k + 1].len = 0 THEN RemoveNext(cut, k) ELSE cut
      ELSE [s EXCEPT !.m[k].len = W64(@ - delta)]

\* The lesser type keeps what overlaps.
Prefer(s, k, delta) ==
  LET cut == [s EXCEPT !.m[k + 1].base = W64(@ + delta),
                       !.m[k + 1].len  = W64(@ - delta)]
  IN  IF s.m[k].type < s.m[k + 1].type
      THEN IF cut.m[k + 1].len = 0 THEN RemoveNext(cut, k) ELSE cut
      ELSE [s EXCEPT !.m[k].len = W64(@ - delta)]

\* The overlap is measured once, before a merge.
Overlap(s, k) ==
  LET e == s.m[k]
      f == s.m[k + 1]
  IN  IF f.base < Ceil(e)
      THEN Prefer(Merge(s, k), k, W32(Smaller(Ceil(e) - f.base, f.len)))
      ELSE s

\* Mutant: the rest of a split entry keeps its base.
SplitKeepsBase(s, k, delta) ==
  LET up == ShiftUp(s.m, k, s.n - k)
  IN  [m |-> [up EXCEPT ![k + 1].len = W64(@ - delta),
                        ![k].len = delta, ![k].type = BOOTSTRAP],
       n |-> s.n + 1]

\* Entry k, cut at delta: its copy is what is left of it.
SplitAt(s, k, delta) ==
  LET up == ShiftUp(s.m, k, s.n - k)
  IN  [m |-> [up EXCEPT ![k + 1].len  = W64(@ - delta),
                        ![k + 1].base = W64(@ + delta),
                        ![k].len  = delta,
                        ![k].type = BOOTSTRAP],
       n |-> s.n + 1]

\* Mutants: any type is overridden; whatever is not reserved is split.
YieldsAlways(e) == TRUE
SticksOutAlways(e) == TRUE

Yields(e)    == e.type > BOOTSTRAP
SticksOut(e) == end - e.base < e.len

\* Only an entry that begins inside the bootstrapper is looked at.
Reserve(s, k) ==
  LET e == s.m[k]
  IN  IF ~ (begin <= e.base /\ e.base < end) THEN s
      ELSE IF end - e.base >= e.len /\ Yields(e)
           THEN [s EXCEPT !.m[k].type = BOOTSTRAP]
      ELSE IF SticksOut(e) THEN SplitAt(s, k, end - e.base)
      ELSE s

\* One round of the loop.  A split of a full array writes past it.
ResolveEntry ==
  /\ pc = "resolve" /\ i < entries - 1
  /\ LET s == Reserve(Overlap([m |-> arc_mmap, n |-> entries], i), i)
     IN  IF s.n <= CAP
         THEN /\ arc_mmap' = s.m /\ entries' = s.n /\ i' = i + 1
              /\ pc' = pc
         ELSE pc' = "wild" /\ UNCHANGED mapvars
  /\ UNCHANGED <<input, pos, meta>>

\* Mutant: the offset is not advanced.
PublishAgain ==
  /\ pc = "resolve" /\ i >= entries - 1
  /\ meta' = [meta EXCEPT !.mmap_len = entries,
                          !.mem_size = Ceil(arc_mmap[entries - 1])]
  /\ pc' = "second"
  /\ UNCHANGED <<input, pos, mapvars>>

Publish ==
  /\ pc = "resolve" /\ i >= entries - 1
  /\ meta' = [meta EXCEPT !.mmap_len = entries,
                          !.mem_size = Ceil(arc_mmap[entries - 1])]
  /\ pc' = "second" /\ pos' = pos + 1
  /\ UNCHANGED <<input, mapvars>>

-----------------------------------------------------------------------------
(* The rest of the second pass                                             *)

\* The old and the new ACPI tag: the last one stays.
SecondAcpi ==
  /\ At("second", {"acpi"})
  /\ meta' = [meta EXCEPT !.rsdp = pos]
  /\ pos' = pos + 1
  /\ UNCHANGED <<input, pc, mapvars>>

SecondOther ==
  /\ At("second", {"module", "load_base_addr", "framebuffer", "other"})
  /\ pos' = pos + 1
  /\ UNCHANGED <<input, pc, meta, mapvars>>

SecondDone ==
  /\ pc = "second" /\ pos > Len(tags)
  /\ pc' = "done"
  /\ UNCHANGED <<input, pos, meta, mapvars>>

-----------------------------------------------------------------------------

Init ==
  /\ tags \in InitTags
  /\ pc = "start" /\ pos = 1
  /\ begin = 0 /\ end = 0
  /\ meta = [kernel_elf |-> 0, initramfs_base |-> 0, initramfs_size |-> 0,
             image_base |-> 0, image_size |-> 0, term |-> 0, rsdp |-> 0,
             mmap_len |-> 0, mem_size |-> 0]
  /\ arc_mmap = [k \in Slots |-> NoEntry]
  /\ entries = 0 /\ i = 0

Next ==
  \/ Start
  \/ FirstModule \/ FirstBaseAddr \/ FirstFramebuffer \/ FirstOther \/ FirstDone
  \/ SecondMMap \/ InsertEntry \/ SortDone \/ ResolveEntry \/ Publish
  \/ SecondAcpi \/ SecondOther \/ SecondDone

\* The parser runs alone, with nothing to wait for.
Spec == Init /\ [][Next]_vars /\ WF_vars(Next)
-----------------------------------------------------------------------------
(* Properties                                                              *)

\* Every variable holds a value of its C type, an unknown memory type too; the
\* published length is never more than the array has.
TypeOK ==
  /\ tags \in InitTags
  /\ pc \in {"start", "first", "second", "sort", "resolve",
             "done", "failed", "wild"}
  /\ pos \in 1..(Len(tags) + 1)
  /\ begin \in 0..(U32 - 1) /\ end \in 0..(U32 - 1)
  /\ arc_mmap \in EntryArray
  /\ entries \in Nat /\ i \in 0..entries
  /\ meta.mmap_len \in 0..CAP /\ meta.mem_size \in 0..(U64 - 1)

\* What the firmware says: the first memory map among the tags.
MapTags  == {p \in 1..Len(tags) : tags[p].kind = "mmap"}
Firmware == tags[CHOOSE p \in MapTags : \A q \in MapTags : p <= q].entries
FwIndex  == 1..Len(Firmware)
EndAt(e) == e.base + e.len
Code(k)  == MMType2Type(Firmware[k].type)

Disjoint ==
  /\ \A k \in FwIndex : EndAt(Firmware[k]) < U64 /\ Firmware[k].len > 0
  /\ \A k, l \in FwIndex : \/ k = l
                           \/ EndAt(Firmware[k]) <= Firmware[l].base
                           \/ EndAt(Firmware[l]) <= Firmware[k].base

CodesAt(a) == {Code(k) : k \in {x \in FwIndex : Within(Firmware[x], a)}}

\* What the parser takes the bootstrapper to occupy: from the load base to the
\* end of the last module.
Marked(a) == begin <= a /\ a < end

\* What GRUB has put there, by the tags: the image, and the modules.
Image(t)    == t.addr..(t.addr + IMAGE_SIZE - 1)
InImage(a)  == \E p \in 1..Len(tags) : tags[p].kind = "load_base_addr" /\ a \in Image(tags[p])
InModule(a) == \E p \in 1..Len(tags) :
                 tags[p].kind = "module" /\ a \in tags[p].start..(tags[p].end - 1)

\* The image lies below the modules, which end below 4 GiB by more than a page.
ImageBelowModules ==
  \A p \in 1..Len(tags) :
    /\ tags[p].kind = "module" => tags[p].end + PAGE_SIZE <= U32
    /\ tags[p].kind = "load_base_addr" =>
         /\ \A q \in 1..Len(tags) :
              /\ tags[q].kind = "module" => tags[p].addr <= tags[q].start
              /\ tags[q].kind = "load_base_addr" => tags[p].addr = tags[q].addr
         /\ \E q \in 1..Len(tags) :
              tags[q].kind = "module" /\ tags[p].addr + IMAGE_SIZE <= tags[q].end

\* Where GRUB puts the bootstrapper: at the beginning of an entry, with all that
\* is marked in memory that yields, and not in the topmost entry.
WellPlaced ==
  \A k \in FwIndex :
    LET e == Firmware[k]
    IN  e.base < end /\ begin < EndAt(e) =>
          /\ begin <= e.base
          /\ Code(k) > BOOTSTRAP \/ EndAt(e) <= end
          /\ \E l \in FwIndex : e.base < Firmware[l].base

Parsed == pc = "done" /\ Cardinality(MapTags) = 1

\* While the firmware's entries are inserted, arc_mmap holds exactly those
\* seen so far, each as often as it was seen, in ascending order.
SortedSoFar ==
  pc = "sort" =>
    LET fw == tags[pos].entries
    IN  /\ \A k, l \in 0..(i - 1) : k < l => arc_mmap[k].base <= arc_mmap[l].base
        /\ \A e \in {arc_mmap[k] : k \in 0..(i - 1)}
                  \cup {FromFirmware(fw[k]) : k \in 1..i} :
             Cardinality({k \in 0..(i - 1) : arc_mmap[k] = e})
               = Cardinality({k \in 1..i : FromFirmware(fw[k]) = e})

\* Of a firmware map without overlaps, in any order and with the tags in any
\* order, the published map says of each address what the firmware said,
\* except that what yields is BOOTSTRAP from the load base to the end of the
\* last module.
PublishedExact ==
  Parsed /\ Disjoint /\ WellPlaced =>
    \A a \in 0..(U64 - 1) :
      TypesAt(arc_mmap, meta.mmap_len, a) =
        {IF Marked(a) /\ c > BOOTSTRAP THEN BOOTSTRAP ELSE c : c \in CodesAt(a)}

\* Nothing that the image or a module occupies, as the tags say in whatever
\* order, is published as available, provided that the image lies below the
\* modules: what is marked ends with them.
BootstrapperReserved ==
  Parsed /\ Disjoint /\ WellPlaced /\ ImageBelowModules =>
    \A a \in 0..(U64 - 1) : InImage(a) \/ InModule(a) =>
      AVAILABLE \notin TypesAt(arc_mmap, meta.mmap_len, a)

\* The published map of a firmware map without overlaps has none either,
\* wherever the bootstrapper lies: what Watermark takes for granted.
PublishedSorted ==
  Parsed /\ Disjoint => SortedDisjoint(arc_mmap, meta.mmap_len)

\* Entries that overlap the next one only, by less than all of it, and
\* disagree about the type.
Staggered ==
  /\ \A k \in FwIndex : EndAt(Firmware[k]) < U64 /\ Firmware[k].len > 0
  /\ \A k, l \in FwIndex :
       LET e == Firmware[k]
           f == Firmware[l]
       IN  k # l /\ e.base <= f.base /\ f.base < EndAt(e) =>
             /\ e.base < f.base /\ EndAt(e) < EndAt(f) /\ Code(k) # Code(l)
             /\ EndAt(e) - f.base < U32
             /\ \A x \in FwIndex \ {k, l} : \/ Firmware[x].base >= EndAt(e)
                                            \/ EndAt(Firmware[x]) <= f.base

\* Of entries that overlap that way, the lesser type has what both claim.
StaggeredPrecedence ==
  Parsed /\ Staggered /\ end <= begin =>
    \A a \in 0..(U64 - 1) :
      TypesAt(arc_mmap, meta.mmap_len, a) =
        {c \in CodesAt(a) : \A d \in CodesAt(a) : c <= d}

\* Entries may overlap, hold one another or begin together; those that do
\* disagree about the type, no three meet, and one of them begins and ends last.
Meet(k, l) ==
  Firmware[k].base < EndAt(Firmware[l]) /\ Firmware[l].base < EndAt(Firmware[k])

TopLast ==
  /\ \A k \in FwIndex : EndAt(Firmware[k]) < U64 /\ Firmware[k].len > 0
  /\ \A k, l \in FwIndex : k # l /\ Meet(k, l) =>
       /\ Code(k) # Code(l)
       /\ \A x \in FwIndex \ {k, l} : ~ (Meet(k, x) /\ Meet(l, x))
  /\ \E k \in FwIndex : \A l \in FwIndex \ {k} :
       Firmware[l].base < Firmware[k].base /\ EndAt(Firmware[l]) <= EndAt(Firmware[k])

\* The memory size covers all that the firmware reported, although it is taken
\* from the last entry that is left, which may be cut, or swallowed whole, by
\* the one before it.
MemSizeCovers ==
  Parsed /\ TopLast => \A k \in FwIndex : EndAt(Firmware[k]) <= meta.mem_size

\* Resolving adds at most one entry to a map without overlaps: one slot to
\* spare is enough, and nothing is written past the array.
OneSlotIsEnough ==
  Cardinality(MapTags) = 1 /\ Disjoint /\ Len(Firmware) \in 1..(CAP - 1) =>
    /\ pc # "wild"
    /\ pc = "done" => meta.mmap_len <= Len(Firmware) + 1

\* The parser comes to an end, although the loop over the memory map adds and
\* removes entries of it as it goes.
Terminates == <>(pc \in {"done", "failed", "wild"})

-----------------------------------------------------------------------------
(* What the repository says and the code does not do.                      *)

\* mb2parse.c: "[i] takes precendence over [i + 1]", by type: where two
\* entries of different types overlap, only the lesser type remains.
Precedence ==
  Parsed /\ end <= begin =>
    \A a \in 0..(U64 - 1) : Cardinality(CodesAt(a)) = 2 =>
      TypesAt(arc_mmap, meta.mmap_len, a) =
        {c \in CodesAt(a) : \A d \in CodesAt(a) : c <= d}

\* mb2parse.c: a module is found "so it can be excluded from the ARC_MMap":
\* no byte between the load base and the last module is published available.
ModulesExcluded ==
  Parsed => \A a \in begin..(end - 1) :
              AVAILABLE \notin TypesAt(arc_mmap, meta.mmap_len, a)
=============================================================================
