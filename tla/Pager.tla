-------------------------------- MODULE Pager --------------------------------
(***************************************************************************)
(* The page tables of arch/x86/pager.c, created and filled before paging   *)
(* is on: a radix tree of four levels with ENTRIES entries per table, in   *)
(* which an entry of level 3 or 2 may be a large page (1 GiB, 2 MiB).      *)
(*                                                                         *)
(* Of an entry the kind (absent, a table, a page), what it points to and   *)
(* the flags are kept.  A table is known by the number of the allocation   *)
(* it came from; limit is how many the allocator can satisfy.              *)
(***************************************************************************)
EXTENDS EntryBits, FiniteSets

CONSTANTS
  PAGE,          \* bytes of a page
  ENTRIES,       \* entries of a table (512)
  Limits,        \* how many tables the allocator may be good for
  Requests       \* the calls of pager_map(): [virtual, physical, size, attributes]

ASSUME PagerAssumption ==
  PAGE \in Nat \ {0} /\ ENTRIES \in Nat \ {0} /\ ENTRIES % 2 = 0
ASSUME LimitsAssumption == Limits \subseteq Nat

\* The bytes that an entry of a level covers.
Covers(level) ==
  CASE level = 1 -> PAGE
    [] level = 2 -> PAGE * ENTRIES
    [] level = 3 -> PAGE * ENTRIES * ENTRIES
    [] level = 4 -> PAGE * ENTRIES * ENTRIES * ENTRIES

\* Virtual addresses, and sizes, are counted modulo the address space.
SPACE == Covers(4) * ENTRIES

ASSUME RequestsAssumption ==
  Requests \subseteq [virtual : 0..(SPACE - 1), physical : 0..(SPACE - 1),
                      size : 0..(SPACE - 1), attributes : Attributes]

VARIABLES
  tables,        \* the tables allocated so far
  limit,         \* allocations that succeed
  features,      \* Arc_KernelMeta.paging_features, a subset of {"gib", "nx"}
  asked,         \* requests made (history)
  request,       \* the request at hand (history)
  served,        \* requests that returned 0 (history)
  todo,          \* info: what is left of the request
  leaf,          \* the level this round maps at, by can_gib and can_2mib
  level, table,  \* where the walk is; level 0 between rounds
  result,        \* what the last pager_map() returned
  status         \* "off", "idle", "mapping", "hung" or "wild"

config == <<limit, features>>
walk   == <<leaf, level, table>>
calls  == <<asked, request, served>>
vars   == <<tables, config, calls, todo, walk, result, status>>

Index(l, virtual) == (virtual \div Covers(l)) % ENTRIES

Absent           == [kind |-> "none", to |-> 0, bits |-> {}]
TableAt(t, bits) == [kind |-> "table", to |-> t, bits |-> bits]

\* physical | bits.  In the entry of a large page bit 12 is no address bit.
PageAt(p, l, bits) ==
  [kind |-> "page", to |-> p - (p % PAGE),
   bits |-> bits \cup AddressBits(p, PAGE)
                 \cup If(l > 1 /\ (p \div PAGE) % 2 = 1, {PAT_BIG})]

\* Mutant: a new table is not cleared, and holds pages.
GarbageTable == [x \in 0..(ENTRIES - 1) |-> PageAt(0, 1, {PRESENT})]

EmptyTable == [x \in 0..(ENTRIES - 1) |-> Absent]

Root == 1
Used == Cardinality(DOMAIN tables)

AddTable(ts) == [t \in DOMAIN ts \cup {Used + 1} |->
                   IF t \in DOMAIN ts THEN ts[t] ELSE EmptyTable]

-----------------------------------------------------------------------------

\* pager_create_page_tables().  bsp() hangs if it fails.
Create ==
  /\ status = "off"
  /\ \/ /\ limit > 0
        /\ tables' = AddTable(tables) /\ status' = "idle"
     \/ /\ limit = 0
        /\ status' = "hung" /\ UNCHANGED tables
  /\ UNCHANGED <<config, calls, todo, walk, result>>

\* pager_map() is called.
Ask(r) ==
  /\ status = "idle"
  /\ asked' = asked \cup {r} /\ request' = r /\ todo' = r
  /\ level' = 0
  /\ status' = "mapping"
  /\ UNCHANGED <<tables, features, served, leaf, table, result>>

Call(r) == Ask(r) /\ UNCHANGED limit

\* Mutant: sizes are compared with a page less.
LeafLevelRounded ==
  IF todo.attributes.only4k THEN 1
  ELSE IF "gib" \in features /\ todo.size + PAGE >= Covers(3) THEN 3
  ELSE IF todo.size + PAGE >= Covers(2) THEN 2
  ELSE 1

\* can_gib and can_2mib look at what is left to map, never at addresses.
LeafLevel ==
  IF todo.attributes.only4k THEN 1
  ELSE IF "gib" \in features /\ todo.size >= Covers(3) THEN 3
  ELSE IF todo.size >= Covers(2) THEN 2
  ELSE 1

\* A round begins at the root while there is anything left to map.
Round ==
  /\ status = "mapping" /\ level = 0 /\ todo.size # 0
  /\ leaf' = LeafLevel /\ level' = 4 /\ table' = Root
  /\ UNCHANGED <<tables, config, calls, todo, result, status>>

Return ==
  /\ status = "mapping" /\ level = 0 /\ todo.size = 0
  /\ served' = served \cup {request}
  /\ result' = 0 /\ status' = "idle"
  /\ UNCHANGED <<tables, config, asked, request, todo, walk>>

\* The entry of the current table on the way to the address.
Here == tables[table][Index(level, todo.virtual)]

\* Mutant: a table is made whether or not there is one.
MissingAlways == TRUE

Missing == Here.kind = "none"

Walking == status = "mapping" /\ level > leaf

\* get_page_table() makes the table that is missing, and the walk enters it.
MakeTable ==
  /\ Walking /\ Missing /\ Used < limit
  /\ tables' = [AddTable(tables) EXCEPT ![table][Index(level, todo.virtual)]
                                          = TableAt(Used + 1,
                                     GetEntryBits(level, leaf, todo.attributes, features))]
  /\ table' = Used + 1
  /\ level' = level - 1
  /\ UNCHANGED <<config, calls, todo, leaf, result, status>>

\* Without memory for it pager_map() gives up; what is mapped stays mapped.
GiveUp ==
  /\ Walking /\ Missing /\ Used >= limit
  /\ result' = -1 /\ status' = "idle"
  /\ UNCHANGED <<tables, config, calls, todo, walk>>

\* A present entry is taken for a table, whatever it is: under a large page
\* the walk goes on in the memory that the page maps.
Enter ==
  /\ Walking /\ ~ Missing
  /\ IF Here.kind = "table"
     THEN table' = Here.to /\ level' = level - 1 /\ UNCHANGED status
     ELSE status' = "wild" /\ UNCHANGED <<table, level>>
  /\ UNCHANGED <<tables, config, calls, todo, leaf, result>>

\* Mutant: the size stays.
AdvanceAddresses(n) ==
  [todo EXCEPT !.virtual  = (@ + n) % SPACE,
               !.physical = (@ + n) % SPACE]

Advance(n) ==
  [todo EXCEPT !.virtual  = (@ + n) % SPACE,
               !.physical = (@ + n) % SPACE,
               !.size     = (@ - n) % SPACE]

\* pager_map_callback() writes the entry, whatever was there before.
MapPage ==
  /\ status = "mapping" /\ level > 0 /\ level = leaf
  /\ tables' = [tables EXCEPT ![table][Index(level, todo.virtual)]
                = PageAt(todo.physical, level,
                         GetEntryBits(level, leaf, todo.attributes, features))]
  /\ todo' = Advance(Covers(level))
  /\ level' = 0
  /\ UNCHANGED <<config, calls, leaf, table, result, status>>

-----------------------------------------------------------------------------

Init ==
  /\ tables = [t \in {} |-> EmptyTable]
  /\ limit \in Limits /\ features \in SUBSET {"gib", "nx"}
  /\ asked = {} /\ served = {}
  /\ todo = [virtual |-> 0, physical |-> 0, size |-> 0,
             attributes |-> ReadWrite]
  /\ request = todo
  /\ leaf = 1 /\ level = 0 /\ table = Root
  /\ result = 0 /\ status = "off"

\* What pager_map() does once it is called; it waits for nothing.
Map == Round \/ MakeTable \/ GiveUp \/ Enter \/ MapPage \/ Return

Next ==
  \/ Create
  \/ \E r \in Requests \ asked : Call(r)
  \/ Map

Spec == Init /\ [][Next]_vars /\ WF_vars(Map)
-----------------------------------------------------------------------------
(* The processor's own walk, once paging is on: the physical address and   *)
(* the rights of an address, or Unmapped.  In the entry of a large page    *)
(* the bits between the page and the large page, except bit 12, are        *)
(* reserved and fault when set.                                            *)

Unmapped == [to |-> -1, rights |-> NoRights]

Hit(path, e, l, a) ==
  LET below == e.to % Covers(l) IN
  IF l > 1 /\ below \notin {0, PAGE} THEN Unmapped
  ELSE [to     |-> e.to - below + (a % Covers(l)),
        rights |-> Rights(path, e.bits, l)]

Walk(a) ==
  LET e4 == tables[Root][Index(4, a)]
      e3 == tables[e4.to][Index(3, a)]
      e2 == tables[e3.to][Index(2, a)]
      e1 == tables[e2.to][Index(1, a)]
  IN  IF Root \notin DOMAIN tables THEN Unmapped
      ELSE IF e4.kind # "table" THEN Unmapped
      ELSE IF e3.kind = "none" THEN Unmapped
      ELSE IF e3.kind = "page" THEN Hit({e4.bits}, e3, 3, a)
      ELSE IF e2.kind = "none" THEN Unmapped
      ELSE IF e2.kind = "page" THEN Hit({e4.bits, e3.bits}, e2, 2, a)
      ELSE IF e1.kind = "none" THEN Unmapped
      ELSE Hit({e4.bits, e3.bits, e2.bits}, e1, 1, a)

Pages == {a \in 0..(SPACE - 1) : a % PAGE = 0}
Translation == [a \in Pages |-> Walk(a)]

-----------------------------------------------------------------------------
(* What callers have to keep to, and bsp() does: ranges that are apart and *)
(* end in the address space, of memory type 0 and open tables, aligned to  *)
(* the pages they get.                                                     *)

InSpace(r) == r.virtual + r.size <= SPACE /\ r.physical + r.size < SPACE
Plain(a)   == a.pat = 0 /\ a.keep = 0 /\ ~ a.nx

Aligned(r) ==
  /\ r.virtual % PAGE = 0 /\ r.physical % PAGE = 0 /\ r.size % PAGE = 0
  /\ \A l \in {2, 3} :
       ~ r.attributes.only4k /\ r.size >= Covers(l) =>
         r.virtual % Covers(l) = 0 /\ r.physical % Covers(l) = 0

Apart(r, s) == r.virtual + r.size <= s.virtual \/ s.virtual + s.size <= r.virtual

Orderly ==
  \A r \in Requests :
    /\ InSpace(r) /\ Aligned(r) /\ Plain(r.attributes)
    /\ \A s \in Requests \ {r} : Apart(r, s)

-----------------------------------------------------------------------------
(* Properties                                                              *)

\* Tables are numbered as they were allocated, never more than there is memory
\* for, and entries lead to tables that are there; addresses and sizes stay in
\* the address space.
TypeOK ==
  /\ DOMAIN tables = 1..Used /\ Used <= limit
  /\ \A t \in DOMAIN tables :
       tables[t] \in [0..(ENTRIES - 1) -> [kind : {"none", "table", "page"},
                                           to : Nat, bits : SUBSET (0..63)]]
  /\ \A t \in DOMAIN tables : \A x \in 0..(ENTRIES - 1) :
       tables[t][x].to \in IF tables[t][x].kind = "table" THEN DOMAIN tables
                           ELSE 0..(SPACE - 1)
  /\ asked \subseteq Requests /\ served \subseteq asked
  /\ todo \in [virtual : 0..(SPACE - 1), physical : 0..(SPACE - 1),
               size : 0..(SPACE - 1), attributes : Attributes]
  /\ result \in {0, -1}
  /\ leaf \in 1..3 /\ level \in 0..4
  /\ status \in {"off", "idle", "mapping", "hung", "wild"}

\* Every table but the root hangs from exactly one entry: none is lost, none
\* is shared by two parts of the address space.
TablesFormTree ==
  \A t \in DOMAIN tables \ {Root} :
    Cardinality({x \in (DOMAIN tables) \X (0..(ENTRIES - 1)) :
                   tables[x[1]][x[2]].kind = "table" /\ tables[x[1]][x[2]].to = t}) = 1

\* What a successful pager_map() was asked to map stays mapped as asked, to
\* the address and with the rights and the memory type of the request, through
\* all the calls that follow, the ones that fail among them.
MappedAsAsked ==
  \A r \in served : \A a \in Pages :
    (a - r.virtual) % SPACE < r.size =>
      Walk(a) = [to     |-> r.physical + ((a - r.virtual) % SPACE),
                 rights |-> Wanted(r.attributes, features)]

\* The pager never takes the memory a page maps for a table.
NeverWild == status # "wild"

\* The page tables implement the abstract address space: table by table, page
\* size by page size, each step is one run of the request or invisible.
Abs == INSTANCE AbsPager WITH translation <- Translation
ImplementsAbsPager == Abs!AbsSpec

\* Every pager_map() of whole pages returns: its size comes down to 0.
Returns == (status = "mapping" /\ request.size % PAGE = 0) ~> status = "idle"

-----------------------------------------------------------------------------
(* What the repository says and the code does not do.                      *)

\* bsp.c: "Put together HHDM so kernel can access all physical memory", with a
\* call whose size is where the memory map ends, on a page or not.
HhdmReturns == status = "mapping" ~> status = "idle"
=============================================================================
