--------------------------------- MODULE Elf ---------------------------------
(***************************************************************************)
(* The loader of elf.c: it maps the sections of the kernel file where they *)
(* lie in memory, one pager_map() after the other, and gives cleared       *)
(* memory to those of type NOBITS (.bss).                                  *)
(*                                                                         *)
(* It works on the page tables of Pager and shares their memory: alloc()   *)
(* hands out the pages of one bank to tables and to sections, in the order *)
(* they are asked for.  When it takes the bank to be used up it begins it  *)
(* again, once: get_new_base() picks the largest entry before it retires   *)
(* the one in use.  Then a page may be handed out that a table is in.      *)
(* limit of Pager is what is left for tables until then.                   *)
(***************************************************************************)
EXTENDS Pager, Sequences

CONSTANTS
  POOL,          \* where the bank begins that alloc() hands out
  Files          \* kernel files: [class, entry, sections]

CLASS_64   == 2
SHT_NOBITS == 8

VARIABLES
  file,          \* the kernel file
  data,          \* where it is
  loader,        \* "ready", "section", "cleared", "mapping" or "returned"
  section,       \* i: the section at hand
  cleared,       \* phys of the sections that were cleared; 0 is NULL
  lost,          \* sections that pager_map() failed for (logged, no more)
  elf_entry,     \* what load_elf() returned
  bank,          \* the bank's pages; 0 if no entry of the map is usable
  mark,          \* watermark_off, in pages
  rebased,       \* alloc() has begun the bank again
  frame          \* the page of the bank that each table is in

loading  == <<file, data, loader, section, cleared, lost, elf_entry>>
pool     == <<bank, mark, rebased, frame>>
elf_vars == <<loading, pool>>

NULL == 0

\* Mutant: the part of a page at the end is not loaded.
LoadSizeDown(s) == (s.size \div PAGE) * PAGE

\* ALIGN(sh_size, PAGE_SIZE)
LoadSize(s) == ((s.size + PAGE - 1) \div PAGE) * PAGE

\* The test of alloc() lets the mark run this many pages past the bank's end.
Behind == POOL \div PAGE

\* Memory and sections end before the address space does.
ASSUME PoolAssumption ==
  POOL \in Nat \ {0} /\ POOL % PAGE = 0
    /\ \A l \in Limits : POOL + PAGE * l < SPACE /\ (l = 0 \/ l > Behind)
ASSUME FilesAssumption ==
  \A f \in Files :
    /\ f \in [class : Nat, entry : Nat,
             sections : Seq([type : Nat, addr : Nat, offset : Nat, size : Nat])]
    /\ \A i \in DOMAIN f.sections : f.sections[i].addr + LoadSize(f.sections[i]) <= SPACE

-----------------------------------------------------------------------------
(* alloc() of n pages, once there is a bank.                               *)

\* Mutant: the test leaves out what is asked for.
OverflowsLate(n) == mark > Behind + bank

\* An offset into the bank is compared with the address where the bank ends.
Overflows(n) == mark + n > Behind + bank

Refused(n) == Overflows(n) /\ rebased
Offered(n) == IF Overflows(n) THEN 0 ELSE mark
TakenBy(n) == Offered(n)..(Offered(n) + n - 1)

\* The new base is not tested again.
Take(n) == mark' = Offered(n) + n /\ rebased' = (rebased \/ Overflows(n))

-----------------------------------------------------------------------------
(* pager_map() with the tables that alloc() gives.                         *)

NewTable ==
  /\ ~ rebased /\ MakeTable
  /\ mark' = mark + 1 /\ frame' = Append(frame, mark)
  /\ UNCHANGED <<bank, rebased, loading>>

\* The table whose page is p, or the next number.
TableIn(p) == IF \E t \in DOMAIN frame : frame[t] = p
              THEN CHOOSE t \in DOMAIN frame : frame[t] = p
              ELSE Used + 1

\* get_page_table() in a bank that was begun again: the page is cleared,
\* whatever was in it, before the entry is written.
OldTable ==
  /\ Walking /\ Missing
  /\ (rebased \/ Overflows(1)) /\ ~ Refused(1)
  /\ LET p == Offered(1)
         t == TableIn(p)
     IN  /\ tables' = [[u \in DOMAIN tables \cup {t} |->
                         IF u = t THEN EmptyTable ELSE tables[u]]
                       EXCEPT ![table][Index(level, todo.virtual)]
                         = TableAt(t, GetEntryBits(level, leaf, todo.attributes, features))]
         /\ table' = t
         /\ frame' = [u \in DOMAIN frame \cup {t} |-> IF u = t THEN p ELSE frame[u]]
  /\ Take(1)
  /\ level' = level - 1
  /\ UNCHANGED <<config, calls, todo, leaf, result, status, bank, loading>>

NoTable == Refused(1) /\ GiveUp /\ UNCHANGED elf_vars

MapPages ==
  \/ (Round \/ Enter \/ MapPage \/ Return) /\ UNCHANGED elf_vars
  \/ NewTable \/ OldTable \/ NoTable

-----------------------------------------------------------------------------
(* load_elf()                                                              *)

Skipped(s) == s.addr = 0 \/ LoadSize(s) = 0

Cur == file.sections[section]

\* load_elf(): a file of another class is turned away.
Load64 ==
  /\ loader = "ready" /\ file.class = CLASS_64
  /\ loader' = "section" /\ section' = 1
  /\ UNCHANGED <<file, data, cleared, lost, elf_entry, pool, vars>>

LoadOther ==
  /\ loader = "ready" /\ file.class # CLASS_64
  /\ loader' = "returned" /\ elf_entry' = -1
  /\ UNCHANGED <<file, data, section, cleared, lost, pool, vars>>

More == loader = "section" /\ section <= Len(file.sections)

SkipSection ==
  /\ More /\ Skipped(Cur)
  /\ section' = section + 1
  /\ UNCHANGED <<file, data, loader, cleared, lost, elf_entry, pool, vars>>

SectionAt(phys) == [virtual |-> Cur.addr, physical |-> phys,
                    size |-> LoadSize(Cur), attributes |-> ReadWrite]

MapSection ==
  /\ More /\ ~ Skipped(Cur) /\ Cur.type # SHT_NOBITS
  /\ Call(SectionAt(data + Cur.offset))
  /\ loader' = "mapping"
  /\ UNCHANGED <<file, data, section, cleared, lost, elf_entry, pool>>

\* alloc(), memset(); nothing looks at what alloc() returned.  Tables that are
\* in the pages lose all their entries.
ClearSection ==
  /\ More /\ ~ Skipped(Cur) /\ Cur.type = SHT_NOBITS
  /\ LET n    == LoadSize(Cur) \div PAGE
         phys == IF Refused(n) THEN NULL ELSE POOL + PAGE * Offered(n)
     IN  /\ cleared' = [i \in DOMAIN cleared \cup {section} |->
                          IF i = section THEN phys ELSE cleared[i]]
         /\ IF Refused(n) THEN UNCHANGED <<tables, limit, mark, rebased>>
            ELSE /\ tables' = [t \in DOMAIN tables |->
                      IF frame[t] \in TakenBy(n) THEN EmptyTable ELSE tables[t]]
                 /\ Take(n)
                 /\ limit' = IF rebased' THEN Used ELSE limit - n
  /\ loader' = "cleared"
  /\ UNCHANGED <<file, data, section, lost, elf_entry, bank, frame>>
  /\ UNCHANGED <<features, calls, todo, walk, result, status>>

MapCleared ==
  /\ loader = "cleared"
  /\ Call(SectionAt(cleared[section]))
  /\ loader' = "mapping"
  /\ UNCHANGED <<file, data, section, cleared, lost, elf_entry, pool>>

\* Mutant: a section that could not be mapped is tried again.
MappedSectionRetry ==
  /\ loader = "mapping" /\ status = "idle"
  /\ loader' = "section" /\ section' = IF result # 0 THEN section ELSE section + 1
  /\ UNCHANGED <<file, data, cleared, lost, elf_entry, pool, vars>>

\* pager_map() has returned.  An error is logged.
MappedSection ==
  /\ loader = "mapping" /\ status = "idle"
  /\ lost' = IF result # 0 THEN lost \cup {section} ELSE lost
  /\ loader' = "section" /\ section' = section + 1
  /\ UNCHANGED <<file, data, cleared, elf_entry, pool, vars>>

ReturnEntry ==
  /\ loader = "section" /\ section > Len(file.sections)
  /\ loader' = "returned" /\ elf_entry' = file.entry
  /\ UNCHANGED <<file, data, section, cleared, lost, pool, vars>>

ElfInit ==
  /\ file \in Files
  /\ data = 0 /\ loader = "ready" /\ section = 0
  /\ cleared = <<>> /\ lost = {} /\ elf_entry = 0
  /\ bank = IF limit = 0 THEN 0 ELSE limit - Behind
  /\ mark = 0 /\ rebased = FALSE /\ frame = <<>>

LoadElf ==
  \/ Load64 \/ LoadOther \/ SkipSection \/ MapSection \/ ClearSection \/ MapCleared
  \/ loader = "mapping" /\ MapPages
  \/ MappedSection \/ ReturnEntry

-----------------------------------------------------------------------------
(* What the kernel finds at the addresses of its sections.                 *)

Loaded == {i \in DOMAIN file.sections :
             file.sections[i].addr # 0 /\ file.sections[i].size # 0}

WholePages(s) == PAGE * ((s.size + PAGE - 1) \div PAGE)

\* Byte b of section i is the file's byte, or one that was cleared for it and
\* that no table lies on.
ByteIsThere(i, b) ==
  LET s == file.sections[i]  at == Walk(s.addr + b).to
  IN  IF s.type = SHT_NOBITS
      THEN /\ cleared[i] # NULL /\ at \in cleared[i]..(cleared[i] + WholePages(s) - 1)
           /\ \A t \in DOMAIN frame : frame[t] # (at \div PAGE) - Behind
      ELSE at = data + s.offset + b

\* All of them, with the rights asked for if the section begins on a page: the
\* low bits of an address that does not are taken for flags.
SectionIsThere(i) ==
  LET s == file.sections[i] IN
  /\ \A b \in 0..(s.size - 1) : ByteIsThere(i, b)
  /\ (data + s.offset) % PAGE = 0 =>
       \A b \in 0..(s.size - 1) : Walk(s.addr + b).rights = Wanted(ReadWrite, features)

PagesOfSection(s) == {a - (a % PAGE) : a \in s.addr..(s.addr + s.size - 1)}

\* A section takes no more pages than its size asks for, is as far into a page
\* in memory as in the file, and is either less than a large page or aligned to
\* one in both; NOBITS is less than one, and none is as large as 1 GiB.
Straight(s) ==
  /\ (s.addr % PAGE) + s.size <= WholePages(s) /\ WholePages(s) < Covers(3)
  /\ s.type # SHT_NOBITS =>
       (s.addr - (data + s.offset)) % (IF WholePages(s) < Covers(2) THEN PAGE ELSE Covers(2)) = 0
  /\ WholePages(s) >= Covers(2) => s.type # SHT_NOBITS /\ s.addr % Covers(2) = 0

\* No two sections share a page, and all lie above an address.
WellLinked(above) ==
  /\ \A i \in Loaded : Straight(file.sections[i]) /\ file.sections[i].addr >= above
  /\ \A i, j \in Loaded : i # j =>
       PagesOfSection(file.sections[i]) \cap PagesOfSection(file.sections[j]) = {}
=============================================================================
