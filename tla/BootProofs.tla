------------------------------- MODULE BootProofs -------------------------------
(***************************************************************************)
(* Theorems about the way from the entry of bsp() to the kernel, for every *)
(* page size, every bank, every kernel file and everything GRUB may hand   *)
(* over.  They rest on what PagerProofs shows of the page tables, with the *)
(* loader as the one who calls pager_map().  What is said of the tables    *)
(* holds as long as alloc() has not begun its bank again; then a table may *)
(* be lost at any time.                                                    *)
(***************************************************************************)
EXTENDS Boot, PagerProofs

-----------------------------------------------------------------------------
(* Who asked for what, and when                                            *)

Unparsed  == {"uart", "signature", "cpuid", "parse"}
Parsed    == {"mmap", "arch", "tables"}
Direct    == {"map_hhdm", "hhdm", "map_image", "image"}
Switching == {"handoff", "pae", "cr3", "lme", "pg", "far_jump", "station",
              "kernel", "lost", "fault"}
FromElf   == {"elf"} \cup Switching

MetaOf(g)   == [mem_size |-> g.mem_size, image |-> g.image, kernel_elf |-> g.kernel_elf]
HhdmAsk(m)  == AskFor(HHDM, 0, m.mem_size)
ImageAsk(m) == AskFor(m.image.base, m.image.base, m.image.size)

Section == [type : Nat, addr : Nat, offset : Nat, size : Nat]

\* Of a file, the sections that are loaded, those that pager_map() was called
\* for, and what it was called with, the file lying at d and c being cleared.
LoadedOf(f)    == {i \in DOMAIN f.sections : f.sections[i].addr # 0 /\ f.sections[i].size # 0}
Tried(f, n, l) == {i \in LoadedOf(f) : i < n \/ (i = n /\ l = "mapping")}
ClearedOf(f, T) == {i \in T : f.sections[i].type = SHT_NOBITS}

PhysOf(f, d, c, i) ==
  IF f.sections[i].type = SHT_NOBITS THEN c[i] ELSE d + f.sections[i].offset
AskOf(f, d, c, i) ==
  [virtual |-> f.sections[i].addr, physical |-> PhysOf(f, d, c, i),
   size |-> LoadSize(f.sections[i]), attributes |-> ReadWrite]
Asks(f, d, c, T) == {AskOf(f, d, c, i) : i \in T}

\* bsp() and the processor.
MachineInv ==
  /\ stage \in Unparsed \cup Parsed \cup Direct \cup FromElf \cup {"hung", "wild"}
  /\ grub \in Loaders /\ pat \in {ResetPat, ArctanPat}
  /\ stage \in Unparsed \cup Parsed => status = "off"
  /\ stage \in Direct \cup FromElf => status \in {"idle", "mapping", "wild"}
  /\ stage \in Parsed \/ status # "off" => meta = MetaOf(grub)
  /\ stage \in {"tables"} \cup Direct \cup FromElf => gdt = Gates
  /\ regs \in [pae : BOOLEAN, cr3 : Nat, lme : BOOLEAN, pg : BOOLEAN, cs : Nat]
  /\ stage \in {"cr3", "lme", "pg"} => regs.pae
  /\ stage \in {"lme", "pg"} => regs.cr3 = Root
  /\ stage = "pg" => regs.lme
  /\ stage \notin Switching \ {"handoff"} => reserved = 0
  /\ stage \in Switching \ {"handoff"} => reserved = mark
  /\ stage \in Switching => loader = "returned" /\ kernel_entry = elf_entry
  /\ stage = "kernel" => kernel_entry # -1

\* The section at hand has been cleared, or pager_map() was called for it.
TriedAs == IF loader = "cleared" THEN "mapping" ELSE loader

\* load_elf().
LoaderInv ==
  /\ file \in Files /\ result = 0 /\ lost = {}
  /\ loader \in {"ready", "section", "cleared", "mapping", "returned"}
  /\ stage \notin FromElf => loader = "ready"
  /\ stage \in FromElf => data = meta.kernel_elf
  /\ loader = "ready" => section = 0
  /\ loader = "section" => section \in 1..(Len(file.sections) + 1)
  /\ loader \in {"cleared", "mapping"} => section \in LoadedOf(file)
  /\ loader = "cleared" => file.sections[section].type = SHT_NOBITS
  /\ loader = "returned" =>
       section = Len(file.sections) + 1 \/ (section = 0 /\ elf_entry = -1)
  /\ DOMAIN cleared = ClearedOf(file, Tried(file, section, TriedAs))
  /\ \A i \in DOMAIN cleared :
       /\ cleared[i] \in Nat /\ cleared[i] % PAGE = 0
       /\ cleared[i] + LoadSize(file.sections[i]) < SPACE

\* What pager_map() was called for, and what it did.
AskedInv ==
  /\ stage \in Unparsed \cup Parsed => asked = {}
  /\ stage = "map_hhdm" => status = "idle" /\ asked = {}
  /\ stage = "hhdm" => asked = {HhdmAsk(meta)} /\ request = HhdmAsk(meta)
  /\ stage = "map_image" =>
       status = "idle" /\ asked = {HhdmAsk(meta)} /\ HhdmAsk(meta) \in served
  /\ stage = "image" => /\ asked = {HhdmAsk(meta), ImageAsk(meta)}
                        /\ request = ImageAsk(meta) /\ HhdmAsk(meta) \in served
  /\ stage \in FromElf =>
       /\ HhdmAsk(meta) \in served /\ ImageAsk(meta) \in served
       /\ asked = {HhdmAsk(meta), ImageAsk(meta)}
                    \cup Asks(file, data, cleared, Tried(file, section, loader))
       /\ loader # "mapping" => status = "idle"
       /\ loader = "mapping" => request = AskOf(file, data, cleared, section)
       /\ \A i \in Tried(file, section, loader) :
            i < section => AskOf(file, data, cleared, i) \in served
  /\ status = "idle" /\ asked # {} => request \in served

\* What alloc() has handed out of the bank: each page at most once.
PagesAt(f, c, i) ==
  LET first == (c[i] - POOL) \div PAGE
  IN  first..(first + LoadSize(f.sections[i]) \div PAGE - 1)

PoolInv ==
  /\ mark \in Nat /\ bank \in Nat
  /\ status \in {"off", "hung"} => mark = 0
  /\ bank = 0 => status \in {"off", "hung"} /\ limit = 0
  /\ bank # 0 => Behind + bank \in Limits /\ mark + limit = Used + Behind + bank
  /\ tables = [t \in DOMAIN tables |-> tables[t]]
  /\ frame \in Seq(Nat) /\ Len(frame) = Used
  /\ \A t \in 1..Used : frame[t] < mark /\ \A u \in 1..Used : frame[u] = frame[t] => u = t
  /\ \A i \in DOMAIN cleared :
       /\ POOL <= cleared[i] /\ PagesAt(file, cleared, i) \subseteq 0..(mark - 1)
       /\ \A t \in 1..Used : frame[t] \notin PagesAt(file, cleared, i)
       /\ \A j \in DOMAIN cleared \ {i} :
            PagesAt(file, cleared, i) \cap PagesAt(file, cleared, j) = {}

BootInv == TypeInv /\ MachineInv /\ LoaderInv /\ AskedInv

-----------------------------------------------------------------------------
(* Sections                                                                *)

\* A section is given whole pages, as few as hold it.
LEMMA SizesOf ==
  ASSUME NEW s \in Section
  PROVE  /\ s.type \in Nat /\ s.addr \in Nat /\ s.offset \in Nat /\ s.size \in Nat
         /\ LoadSize(s) \in Nat /\ LoadSize(s) = WholePages(s)
         /\ LoadSize(s) % PAGE = 0 /\ LoadSize(s) \div PAGE \in Nat
         /\ LoadSize(s) = PAGE * (LoadSize(s) \div PAGE)
         /\ s.size <= LoadSize(s) /\ LoadSize(s) < s.size + PAGE
         /\ LoadSize(s) = 0 <=> s.size = 0
  <1>1. s.type \in Nat /\ s.addr \in Nat /\ s.offset \in Nat /\ s.size \in Nat
    BY DEF Section
  <1>2. PAGE \in Nat \ {0}
    BY PagerAssumption
  <1> DEFINE n == s.size + PAGE - 1
             k == n \div PAGE
  <1>3. n \in Nat /\ n + 1 = s.size + PAGE
    BY <1>1, <1>2
  <1> HIDE DEF n
  <1>4. k \in Nat /\ PAGE * k <= n /\ n < PAGE * k + PAGE
    BY <1>2, <1>3, Division
  <1> HIDE DEF k
  <1>5. \A i, j \in Nat : i * j \in Nat /\ i * j = j * i
    OBVIOUS
  <1>6. LoadSize(s) = PAGE * k /\ WholePages(s) = PAGE * k /\ PAGE * k \in Nat
    <2>1. LoadSize(s) = k * PAGE
      BY DEF LoadSize, k, n
    <2>2. WholePages(s) = PAGE * k
      BY DEF WholePages, k, n
    <2> QED
      BY <1>2, <1>4, <1>5, <2>1, <2>2
  <1>7. (PAGE * k) % PAGE = 0 /\ (PAGE * k) \div PAGE = k
    BY <1>2, <1>4, Multiple
  <1> DEFINE m == PAGE * k
  <1>8. m \in Nat /\ m <= n /\ n < m + PAGE
    BY <1>4, <1>6
  <1>9. m = 0 \/ PAGE <= m
    <2>1. \A c \in Nat \ {0}, x \in Nat : x % c = 0 /\ x # 0 => c <= x
      OBVIOUS
    <2> QED
      BY <1>2, <1>7, <1>8, <2>1
  <1> HIDE DEF m
  <1>10. s.size <= m /\ m < s.size + PAGE /\ (m = 0 <=> s.size = 0)
    BY <1>1, <1>2, <1>3, <1>8, <1>9
  <1> QED
    BY <1>1, <1>4, <1>6, <1>7, <1>10 DEF m

\* Of a kernel file, the sections lie in the address space.
LEMMA FileIs ==
  ASSUME NEW f \in Files
  PROVE  /\ Len(f.sections) \in Nat /\ DOMAIN f.sections = 1..Len(f.sections)
         /\ \A i \in DOMAIN f.sections : f.sections[i] \in Section
         /\ \A i \in LoadedOf(f) :
              /\ i \in DOMAIN f.sections /\ i \in Nat /\ f.sections[i] \in Section
              /\ f.sections[i].addr \in Addresses /\ LoadSize(f.sections[i]) \in Addresses
              /\ f.sections[i].addr + LoadSize(f.sections[i]) <= SPACE
              /\ f.sections[i].size # 0 /\ LoadSize(f.sections[i]) # 0
              /\ f.sections[i].addr # 0
         /\ \A i \in DOMAIN f.sections : i \in LoadedOf(f) <=> ~ Skipped(f.sections[i])
  <1> DEFINE ss == f.sections
  <1>1. /\ f \in [class : Nat, entry : Nat,
                  sections : Seq([type : Nat, addr : Nat, offset : Nat, size : Nat])]
        /\ \A i \in DOMAIN ss : ss[i].addr + LoadSize(ss[i]) <= SPACE
    BY FilesAssumption
  <1>2. ss \in Seq(Section)
    BY <1>1 DEF Section
  <1> HIDE DEF ss
  <1>3. /\ Len(ss) \in Nat /\ DOMAIN ss = 1..Len(ss)
        /\ \A i \in DOMAIN ss : ss[i] \in Section /\ i \in Nat
    BY <1>2
  <1>4. \A i \in DOMAIN ss : i \in LoadedOf(f) <=> ss[i].addr # 0 /\ ss[i].size # 0
    BY DEF LoadedOf, ss
  <1>5. LoadedOf(f) \subseteq DOMAIN ss
    BY DEF LoadedOf, ss
  <1>6. ASSUME NEW i \in DOMAIN ss
        PROVE  i \in LoadedOf(f) <=> ~ Skipped(ss[i])
    <2>1. LoadSize(ss[i]) = 0 <=> ss[i].size = 0
      BY <1>3, SizesOf
    <2> QED
      BY <1>4, <2>1 DEF Skipped
  <1>7. ASSUME NEW i \in LoadedOf(f)
        PROVE  /\ ss[i].addr \in Addresses /\ LoadSize(ss[i]) \in Addresses
               /\ ss[i].size # 0 /\ LoadSize(ss[i]) # 0 /\ ss[i].addr # 0
    <2>1. /\ ss[i] \in Section /\ ss[i].addr # 0 /\ ss[i].size # 0
          /\ ss[i].addr + LoadSize(ss[i]) <= SPACE
      BY <1>1, <1>3, <1>4, <1>5 DEF ss
    <2>2. /\ ss[i].addr \in Nat /\ LoadSize(ss[i]) \in Nat
          /\ LoadSize(ss[i]) = 0 <=> ss[i].size = 0
      BY <2>1, SizesOf
    <2>3. SPACE \in Nat
      BY CoversNext
    <2> QED
      BY <2>1, <2>2, <2>3 DEF Addresses
  <1>8. \A i \in LoadedOf(f) : ss[i].addr + LoadSize(ss[i]) <= SPACE
    BY <1>1, <1>5 DEF ss
  <1> QED
    BY <1>3, <1>5, <1>6, <1>7, <1>8 DEF ss

\* Who was tried: nobody at first, then the section at hand, if it is loaded.
LEMMA TriedIs ==
  ASSUME NEW f \in Files, NEW n \in Nat
  PROVE  /\ n <= 1 => Tried(f, n, "section") = {}
         /\ Tried(f, n, "ready") = Tried(f, n, "section")
         /\ Tried(f, n, "returned") = Tried(f, n, "section")
         /\ Tried(f, n, "cleared") = Tried(f, n, "section")
         /\ n \notin LoadedOf(f) => Tried(f, n + 1, "section") = Tried(f, n, "section")
         /\ n \in LoadedOf(f) =>
              /\ Tried(f, n, "mapping") = Tried(f, n, "section") \cup {n}
              /\ Tried(f, n + 1, "section") = Tried(f, n, "mapping")
         /\ n \notin Tried(f, n, "section")
         /\ \A l : Tried(f, n, l) \subseteq LoadedOf(f)
         /\ n > Len(f.sections) => Tried(f, n, "section") = LoadedOf(f)
  <1>1. /\ Len(f.sections) \in Nat
        /\ \A i \in LoadedOf(f) : i \in Nat /\ i >= 1 /\ i <= Len(f.sections)
    BY FileIs
  <1>2. /\ \A i : i \in Tried(f, n, "section") <=> i \in LoadedOf(f) /\ i < n
        /\ \A i : i \in Tried(f, n + 1, "section") <=> i \in LoadedOf(f) /\ i < n + 1
        /\ \A i : i \in Tried(f, n, "mapping") <=> i \in LoadedOf(f) /\ (i < n \/ i = n)
    BY DEF Tried
  <1>3. /\ Tried(f, n, "ready") = Tried(f, n, "section")
        /\ Tried(f, n, "returned") = Tried(f, n, "section")
        /\ Tried(f, n, "cleared") = Tried(f, n, "section")
    BY DEF Tried
  <1>4. ASSUME n <= 1 PROVE Tried(f, n, "section") = {}
    <2>1. \A i : i \notin Tried(f, n, "section")
      BY <1>1, <1>2, <1>4
    <2> QED
      BY <2>1
  <1>5. ASSUME n > Len(f.sections) PROVE Tried(f, n, "section") = LoadedOf(f)
    <2>1. \A i : i \in Tried(f, n, "section") <=> i \in LoadedOf(f)
      BY <1>1, <1>2, <1>5
    <2> QED
      BY <2>1
  <1>6. ASSUME n \notin LoadedOf(f)
        PROVE  Tried(f, n + 1, "section") = Tried(f, n, "section")
    <2>1. \A i : i \in Tried(f, n + 1, "section") <=> i \in Tried(f, n, "section")
      BY <1>1, <1>2, <1>6
    <2> QED
      BY <2>1
  <1>7. ASSUME n \in LoadedOf(f)
        PROVE  /\ Tried(f, n, "mapping") = Tried(f, n, "section") \cup {n}
               /\ Tried(f, n + 1, "section") = Tried(f, n, "mapping")
    <2>1. \A i : i \in Tried(f, n, "mapping") <=> i \in Tried(f, n, "section") \cup {n}
      BY <1>2, <1>7
    <2>2. \A i \in Nat : i < n + 1 <=> (i < n \/ i = n)
      OBVIOUS
    <2>3. \A i : i \in Tried(f, n + 1, "section") <=> i \in Tried(f, n, "mapping")
      BY <1>1, <1>2, <2>2, Zenon
    <2> QED
      BY <2>1, <2>3, Zenon
  <1>8. n \notin Tried(f, n, "section")
    BY <1>2
  <1>9. \A l : Tried(f, n, l) \subseteq LoadedOf(f)
    BY DEF Tried
  <1> QED
    BY <1>3, <1>4, <1>5, <1>6, <1>7, <1>8, <1>9, Zenon

-----------------------------------------------------------------------------
(* The requests of bsp() and load_elf()                                    *)

\* bsp() and load_elf() map everything readable and writable, in pages of any size.
LEMMA ReadWriteIs == ReadWrite \in Attributes /\ Plain(ReadWrite) /\ ~ ReadWrite.only4k
  BY DEF ReadWrite, Attributes, Plain

\* What the parser published is what GRUB handed over.
LEMMA MetaIs ==
  ASSUME MachineInv, meta = MetaOf(grub)
  PROVE  /\ meta.mem_size \in Addresses /\ meta.mem_size # 0 /\ meta.kernel_elf \in Nat
         /\ meta.image.base \in Addresses /\ meta.image.size \in Addresses
         /\ HHDM \in Addresses
         /\ \A f \in Files : \A i \in DOMAIN f.sections :
              meta.kernel_elf + f.sections[i].offset + LoadSize(f.sections[i]) < SPACE
         /\ meta # Unset
  <1>1. /\ grub \in Loaders /\ meta.mem_size = grub.mem_size
        /\ meta.image = grub.image /\ meta.kernel_elf = grub.kernel_elf
    BY DEF MachineInv, MetaOf
  <1>2. /\ meta.mem_size \in 1..(SPACE - 1) /\ meta.kernel_elf \in Nat
        /\ meta.image \in [base : 0..(SPACE - 1), size : 0..(SPACE - 1)]
        /\ \A f \in Files : \A i \in DOMAIN f.sections :
             meta.kernel_elf + f.sections[i].offset + LoadSize(f.sections[i]) < SPACE
    BY <1>1, LoadersAssumption
  <1>3. SPACE \in Nat
    BY CoversNext
  <1>4. meta # Unset
    BY <1>2 DEF Unset
  <1> QED
    BY <1>2, <1>3, <1>4, HhdmAssumption DEF Addresses

\* A request of bsp() has the fields it is given.
LEMMA AskForIs ==
  ASSUME NEW v \in Addresses, NEW p \in Addresses, NEW n \in Addresses
  PROVE  /\ AskFor(v, p, n) \in Asking
         /\ AskFor(v, p, n).virtual = v /\ AskFor(v, p, n).physical = p
         /\ AskFor(v, p, n).size = n /\ AskFor(v, p, n).attributes = ReadWrite
  BY ReadWriteIs DEF AskFor, Asking

\* The direct map and the image are requests that pager_map() can be given.
LEMMA OwnAsks ==
  ASSUME MachineInv, meta = MetaOf(grub)
  PROVE  /\ HhdmAsk(meta) \in Asking /\ ImageAsk(meta) \in Asking
         /\ HhdmAsk(meta).virtual = HHDM /\ HhdmAsk(meta).physical = 0
         /\ HhdmAsk(meta).size = meta.mem_size /\ HhdmAsk(meta).attributes = ReadWrite
         /\ ImageAsk(meta).virtual = meta.image.base
         /\ ImageAsk(meta).physical = meta.image.base
         /\ ImageAsk(meta).size = meta.image.size
         /\ ImageAsk(meta).attributes = ReadWrite
  <1>1. 0 \in Addresses
    BY CoversNext DEF Addresses
  <1> QED
    BY <1>1, MetaIs, AskForIs DEF HhdmAsk, ImageAsk

\* Where a section lies in memory: in the file, or where it was cleared.
LEMMA AskOfIs ==
  ASSUME NEW f \in Files, NEW i \in LoadedOf(f), NEW d, NEW c, PhysOf(f, d, c, i) \in Addresses
  PROVE  /\ AskOf(f, d, c, i) \in Asking
         /\ AskOf(f, d, c, i).virtual = f.sections[i].addr
         /\ AskOf(f, d, c, i).physical = PhysOf(f, d, c, i)
         /\ AskOf(f, d, c, i).size = LoadSize(f.sections[i])
         /\ AskOf(f, d, c, i).attributes = ReadWrite
  <1>1. f.sections[i].addr \in Addresses /\ LoadSize(f.sections[i]) \in Addresses
    BY FileIs
  <1> QED
    BY <1>1, ReadWriteIs DEF AskOf, Asking

\* A section of the file ends in the address space.
LEMMA InFile ==
  ASSUME MachineInv, meta = MetaOf(grub), file \in Files, data = meta.kernel_elf,
         NEW i \in LoadedOf(file)
  PROVE  /\ data + file.sections[i].offset \in Addresses
         /\ data + file.sections[i].offset + LoadSize(file.sections[i]) < SPACE
  <1>1. /\ i \in DOMAIN file.sections /\ file.sections[i] \in Section
    BY FileIs
  <1>2. /\ data + file.sections[i].offset + LoadSize(file.sections[i]) < SPACE
        /\ data \in Nat
    BY <1>1, MetaIs
  <1>3. file.sections[i].offset \in Nat /\ LoadSize(file.sections[i]) \in Nat /\ SPACE \in Nat
    BY <1>1, SizesOf, CoversNext
  <1> QED
    BY <1>2, <1>3 DEF Addresses

-----------------------------------------------------------------------------
(* Steps of bsp() and the processor alone                                  *)

\* Steps that leave a tuple of variables leave each of them.
LEMMA Idle ==
  /\ UNCHANGED vars => UNCHANGED <<tables, limit, features, asked, request, served, todo,
                                   leaf, level, table, result, status>>
  /\ UNCHANGED elf_vars => /\ UNCHANGED <<file, data, loader, section, cleared, lost, elf_entry>>
                            /\ UNCHANGED <<bank, mark, rebased, frame>>
  /\ UNCHANGED loading => UNCHANGED <<file, data, loader, section, cleared, lost, elf_entry>>
  /\ UNCHANGED pool => UNCHANGED <<bank, mark, rebased, frame>>
  /\ UNCHANGED OwnRest => UNCHANGED <<cpu, grub, pat, gdt, regs, meta, reserved, kernel_entry>>
  /\ UNCHANGED own => UNCHANGED <<stage, cpu, grub, pat, gdt, regs, meta, reserved,
                                  kernel_entry>>
  /\ UNCHANGED machine => UNCHANGED <<cpu, grub, pat, gdt, regs>>
  BY DEF vars, config, calls, walk, elf_vars, loading, pool, OwnRest, own, machine

\* What they leave of the rest.
LEMMA Elsewhere ==
  ASSUME LoaderInv, AskedInv, UNCHANGED elf_vars,
         UNCHANGED <<limit, asked, request, served, result, status>>,
         stage' \in FromElf <=> stage \in FromElf,
         stage' \notin Direct, stage' \in Unparsed \cup Parsed => stage \in Unparsed \cup Parsed,
         stage' \in FromElf => meta' = meta
  PROVE  LoaderInv' /\ AskedInv'
  <1>1. UNCHANGED <<file, data, loader, section, cleared, lost, elf_entry>>
    BY Idle
  <1>2. LoaderInv'
    BY <1>1 DEF LoaderInv, TriedAs
  <1>3. AskedInv'
    <2>1. stage' \notin {"map_hhdm", "hhdm", "map_image", "image"}
      BY DEF Direct
    <2>2. stage' \in FromElf =>
            (/\ HhdmAsk(meta) \in served /\ ImageAsk(meta) \in served
             /\ asked = {HhdmAsk(meta), ImageAsk(meta)}
                          \cup Asks(file, data, cleared, Tried(file, section, loader))
             /\ loader # "mapping" => status = "idle"
             /\ loader = "mapping" => request = AskOf(file, data, cleared, section)
             /\ \A i \in Tried(file, section, loader) :
                  i < section => AskOf(file, data, cleared, i) \in served)'
      BY <1>1 DEF AskedInv
    <2>3. (status = "idle" /\ asked # {} => request \in served)'
      BY DEF AskedInv
    <2>4. stage' \in Unparsed \cup Parsed => asked' = {}
      BY DEF AskedInv
    <2> QED
      BY <2>1, <2>2, <2>3, <2>4 DEF AskedInv
  <1> QED
    BY <1>2, <1>3

\* The steps before the tables, and those after the loader.
Before == InitUart \/ CheckSignature \/ CheckCpuid \/ Parse \/ FirstUpdate \/ InitArch
After  == SetKernelEntry \/ HandOff \/ Switch

\* A step before the tables touches neither the tables nor the loader.
LEMMA BeforeIs ==
  ASSUME BootInv, Before
  PROVE  /\ UNCHANGED elf_vars
         /\ UNCHANGED <<tables, limit, asked, request, served, todo, leaf, level, table,
                        result, status>>
         /\ features' = features \/ features' \in SUBSET {"gib", "nx"}
         /\ stage \in Unparsed \cup Parsed /\ stage' \in Unparsed \cup Parsed \cup {"hung"}
         /\ MachineInv'
  <1>0. MachineInv
    BY DEF BootInv
  <1>1. CASE InitUart
    BY <1>0, <1>1, Idle DEF InitUart, Becomes, MachineInv, Unparsed, Parsed, Direct, FromElf, Switching, Used
  <1>2. CASE CheckSignature
    BY <1>0, <1>2, Idle DEF CheckSignature, Becomes, MachineInv, Unparsed, Parsed, Direct, FromElf, Switching, Used
  <1>3. CASE CheckCpuid
    <2>1. features' = features \/ features' \in SUBSET {"gib", "nx"}
      BY <1>3 DEF CheckCpuid, If
    <2>2. pat' = pat \/ pat' = ArctanPat
      BY <1>3 DEF CheckCpuid
    <2>3. /\ UNCHANGED elf_vars
          /\ UNCHANGED <<tables, limit, asked, request, served, todo, leaf, level, table,
                         result, status>>
          /\ UNCHANGED <<grub, gdt, regs, meta, reserved, kernel_entry>>
          /\ stage = "cpuid" /\ stage' \in {"parse", "hung"}
      BY <1>3 DEF CheckCpuid, Becomes, calls, walk
    <2> QED
      BY <1>0, <2>1, <2>2, <2>3, Idle DEF MachineInv, Unparsed, Parsed, Direct, FromElf, Switching, Used
  <1>4. CASE Parse
    <2>1. grub.mb2i => meta' = MetaOf(grub)
      BY <1>4 DEF Parse, MetaOf
    <2> QED
      BY <1>0, <1>4, <2>1, Idle DEF Parse, Becomes, MachineInv, Unparsed, Parsed, Direct, FromElf, Switching, Used
  <1>5. CASE FirstUpdate
    BY <1>0, <1>5, Idle DEF FirstUpdate, Becomes, MachineInv, Unparsed, Parsed, Direct, FromElf, Switching, Used
  <1>6. CASE InitArch
    <2>1. regs' \in [pae : BOOLEAN, cr3 : Nat, lme : BOOLEAN, pg : BOOLEAN, cs : Nat]
      BY <1>0, <1>6 DEF InitArch, InstallGdt, MachineInv
    <2> QED
      BY <1>0, <1>6, <2>1, Idle DEF InitArch, Becomes, MachineInv, Unparsed, Parsed, Direct, FromElf, Switching, Used
  <1> QED
    BY <1>1, <1>2, <1>3, <1>4, <1>5, <1>6 DEF Before

\* A step after the loader touches only the registers and what it hands over.
LEMMA AfterIs ==
  ASSUME BootInv, After
  PROVE  /\ UNCHANGED <<elf_vars, vars, meta, grub, pat, gdt>>
         /\ stage \in FromElf /\ stage' \in Switching
         /\ MachineInv'
  <1>0. MachineInv
    BY DEF BootInv
  <1>1. CASE SetKernelEntry
    BY <1>0, <1>1, Idle DEF SetKernelEntry, Becomes, MachineInv, Unparsed, Parsed, Direct, FromElf, Switching, Used
  <1>2. CASE HandOff
    BY <1>0, <1>2, Idle DEF HandOff, Becomes, MachineInv, Unparsed, Parsed, Direct, FromElf, Switching, Used
  <1>3. ASSUME NEW from, NEW to, NEW r, SetReg(from, to, r), from \in Switching \ {"handoff"},
               to \in Switching \ {"handoff", "kernel"},
               r \in [pae : BOOLEAN, cr3 : Nat, lme : BOOLEAN, pg : BOOLEAN, cs : Nat],
               to \in {"cr3", "lme", "pg"} => r.pae,
               to \in {"lme", "pg"} => r.cr3 = Root, to = "pg" => r.lme
        PROVE  /\ UNCHANGED <<elf_vars, vars, meta, grub, pat, gdt>>
               /\ stage \in FromElf /\ stage' \in Switching
               /\ MachineInv'
    <2>1. /\ UNCHANGED <<elf_vars, vars, cpu, grub, pat, gdt, meta, reserved, kernel_entry>>
          /\ stage = from /\ stage' = to /\ regs' = r
      BY <1>3 DEF SetReg, Becomes
    <2>2. UNCHANGED <<status, tables, mark, loader, elf_entry>>
      BY <2>1, Idle
    <2>3. /\ stage \in FromElf /\ stage' \in Switching /\ stage' \in FromElf
          /\ stage \in Switching \ {"handoff"}
          /\ stage' # "kernel" /\ stage' \in Switching \ {"handoff"}
          /\ stage' \notin Unparsed /\ stage' \notin Parsed
      BY <1>3, <2>1 DEF FromElf, Switching, Unparsed, Parsed
    <2>4. MachineInv'
      BY <1>0, <1>3, <2>1, <2>2, <2>3 DEF MachineInv, Used
    <2> QED
      BY <2>1, <2>3, <2>4
  <1>10. /\ regs \in [pae : BOOLEAN, cr3 : Nat, lme : BOOLEAN, pg : BOOLEAN, cs : Nat]
         /\ stage \in {"cr3", "lme", "pg"} => regs.pae
         /\ stage \in {"lme", "pg"} => regs.cr3 = Root
         /\ stage = "pg" => regs.lme
    BY <1>0 DEF MachineInv
  <1>4. CASE EnablePae
    <2> DEFINE r == [regs EXCEPT !.pae = TRUE]
    <2>1. /\ r \in [pae : BOOLEAN, cr3 : Nat, lme : BOOLEAN, pg : BOOLEAN, cs : Nat]
          /\ r.pae
      BY <1>10
    <2>2. SetReg("pae", "cr3", r)
      BY <1>4 DEF EnablePae
    <2> HIDE DEF r
    <2> QED
      BY <1>3, <2>1, <2>2 DEF Switching
  <1>5. CASE LoadCr3
    <2> DEFINE r == [regs EXCEPT !.cr3 = Root]
    <2>1. SetReg("cr3", "lme", r) /\ stage = "cr3"
      BY <1>5 DEF LoadCr3, SetReg
    <2>2. /\ r \in [pae : BOOLEAN, cr3 : Nat, lme : BOOLEAN, pg : BOOLEAN, cs : Nat]
          /\ r.pae /\ r.cr3 = Root
      BY <1>10, <2>1 DEF Root
    <2> HIDE DEF r
    <2> QED
      BY <1>3, <2>1, <2>2 DEF Switching
  <1>6. CASE EnableLme
    <2> DEFINE r == [regs EXCEPT !.lme = TRUE]
    <2>1. SetReg("lme", "pg", r) /\ stage = "lme"
      BY <1>6 DEF EnableLme, SetReg
    <2>2. /\ r \in [pae : BOOLEAN, cr3 : Nat, lme : BOOLEAN, pg : BOOLEAN, cs : Nat]
          /\ r.pae /\ r.cr3 = Root /\ r.lme
      BY <1>10, <2>1
    <2> HIDE DEF r
    <2> QED
      BY <1>3, <2>1, <2>2 DEF Switching
  <1>7. CASE EnablePaging
    <2> DEFINE r == [regs EXCEPT !.pg = TRUE]
    <2>1. \E next \in {"far_jump", "fault"} : SetReg("pg", next, r)
      BY <1>7 DEF EnablePaging
    <2>2. r \in [pae : BOOLEAN, cr3 : Nat, lme : BOOLEAN, pg : BOOLEAN, cs : Nat]
      BY <1>10
    <2> HIDE DEF r
    <2> QED
      BY <1>3, <2>1, <2>2 DEF Switching
  <1>8. CASE FarJump
    <2> DEFINE r == [regs EXCEPT !.cs = 24]
    <2>1. SetReg("far_jump", "station", r) \/ SetReg("far_jump", "fault", r)
      BY <1>8 DEF FarJump
    <2>2. r \in [pae : BOOLEAN, cr3 : Nat, lme : BOOLEAN, pg : BOOLEAN, cs : Nat]
      BY <1>10
    <2> HIDE DEF r
    <2> QED
      BY <1>3, <2>1, <2>2 DEF Switching
  <1>9. CASE Station
    BY <1>0, <1>9, Idle DEF Station, Becomes, MachineInv, Unparsed, Parsed, Direct, FromElf, Switching, Used
  <1> QED
    BY <1>1, <1>2, <1>4, <1>5, <1>6, <1>7, <1>8, <1>9 DEF After, Switch

\* So both keep the invariant.
LEMMA AloneKeeps ==
  ASSUME BootInv, Before \/ After
  PROVE  BootInv'
  <1>1. CASE Before
    <2>1. /\ UNCHANGED elf_vars
          /\ UNCHANGED <<tables, limit, asked, request, served, todo, leaf, level, table,
                         result, status>>
          /\ features' = features \/ features' \in SUBSET {"gib", "nx"}
          /\ stage \in Unparsed \cup Parsed /\ stage' \in Unparsed \cup Parsed \cup {"hung"}
          /\ MachineInv'
      BY <1>1, BeforeIs
    <2>2. TypeInv'
      <3>1. TypeInv
        BY DEF BootInv
      <3>2. TablesOK(tables, Used, limit)' /\ RestOK'
        BY <2>1, <3>1 DEF TypeInv, TablesOK, RestOK, Used
      <3> QED
        BY <2>1, <3>1, <3>2 DEF TypeInv, Used
    <2>3. stage \notin FromElf /\ stage' \notin FromElf /\ stage' \notin Direct
      BY <2>1 DEF Unparsed, Parsed, Direct, FromElf, Switching
    <2>4. LoaderInv' /\ AskedInv'
      BY <2>1, <2>3, Elsewhere DEF BootInv
    <2> QED
      BY <2>1, <2>2, <2>4 DEF BootInv
  <1>2. CASE After
    <2>1. /\ UNCHANGED <<elf_vars, vars, meta>>
          /\ stage \in FromElf /\ stage' \in Switching /\ MachineInv'
      BY <1>2, AfterIs
    <2>2. TypeInv'
      BY <2>1, StutterTypes DEF BootInv
    <2>3. stage' \in FromElf /\ stage' \notin Direct /\ stage' \notin Unparsed \cup Parsed
      BY <2>1 DEF Direct, FromElf, Switching, Unparsed, Parsed
    <2>4. LoaderInv' /\ AskedInv'
      BY <2>1, <2>3, Idle, Elsewhere DEF BootInv
    <2> QED
      BY <2>1, <2>2, <2>4 DEF BootInv
  <1> QED
    BY <1>1, <1>2

-----------------------------------------------------------------------------
(* Steps of the pager, on behalf of bsp()                                  *)

\* As long as the bank is not begun again, pager_map() goes on, or returns to whom
\* it served: there is a table for it whenever it needs one.
LEMMA MapIs ==
  ASSUME TypeInv, MapPages, ~ rebased', result = 0
  PROVE  /\ Map /\ UNCHANGED <<limit, features, asked, request>> /\ served \subseteq served'
         /\ status = "mapping" /\ status' \in {"idle", "mapping", "wild"}
         /\ status' = "idle" => request' \in served'
         /\ UNCHANGED <<file, data, loader, section, cleared, lost, elf_entry, bank, result>>
         /\ ~ rebased
         /\ \/ (Round \/ Enter \/ MapPage \/ Return) /\ UNCHANGED elf_vars
            \/ NewTable
  <1>0. \/ (Round \/ Enter \/ MapPage \/ Return) /\ UNCHANGED elf_vars
        \/ NewTable
    <2>1. ASSUME OldTable PROVE FALSE
      BY <2>1 DEF OldTable, Take, Refused
    <2>2. ASSUME NoTable PROVE FALSE
      <3>1. rebased /\ rebased' = rebased
        BY <2>2, Idle DEF NoTable, Refused
      <3> QED
        BY <3>1
    <2> QED
      BY <2>1, <2>2 DEF MapPages
  <1>1. CASE Round /\ UNCHANGED elf_vars
    BY <1>1, Idle DEF Map, Round, config, calls
  <1>2. CASE NewTable
    <2>1. UNCHANGED loading /\ UNCHANGED <<bank, rebased>> /\ MakeTable
      BY <1>2 DEF NewTable
    <2> QED
      BY <1>2, <2>1, Idle DEF Map, MakeTable, Walking, config, calls
  <1>4. CASE Enter /\ UNCHANGED elf_vars
    BY <1>4, Idle DEF Map, Enter, Walking, config, calls
  <1>5. CASE MapPage /\ UNCHANGED elf_vars
    BY <1>5, Idle DEF Map, MapPage, config, calls
  <1>6. CASE Return /\ UNCHANGED elf_vars
    BY <1>6, Idle DEF Map, Return, config
  <1> QED
    BY <1>0, <1>1, <1>2, <1>4, <1>5, <1>6

\* bsp() as long as pager_map() runs.
LEMMA WhileRunning ==
  ASSUME MachineInv, stage \in Direct \cup {"elf"}, UNCHANGED own,
         status' \in {"idle", "mapping", "wild"}
  PROVE  MachineInv'
  <1>1. UNCHANGED <<stage, grub, pat, gdt, regs, meta, reserved, kernel_entry>>
    BY Idle
  <1>2. /\ stage \notin Unparsed /\ stage \notin Parsed /\ stage \notin Switching
        /\ stage # "kernel" /\ stage \in Direct \cup FromElf
        /\ stage \notin {"cr3", "lme", "pg"} /\ stage \notin {"lme", "pg"}
    BY DEF Unparsed, Parsed, Direct, FromElf, Switching
  <1>3. meta = MetaOf(grub) /\ reserved = 0 /\ gdt = Gates
    BY <1>2 DEF MachineInv
  <1> QED
    BY <1>1, <1>2, <1>3 DEF MachineInv

\* pager_create_page_tables(), which may stop the machine.
LEMMA CreateTablesKeeps ==
  ASSUME BootInv, CreateTables
  PROVE  BootInv'
  <1>1. /\ stage = "tables" /\ Create
        /\ UNCHANGED <<file, data, loader, section, cleared, lost, elf_entry>>
        /\ UNCHANGED <<cpu, grub, pat, gdt, regs, meta, reserved, kernel_entry>>
        /\ UNCHANGED <<limit, asked, request, served, result>>
        /\ \/ status' = "idle" /\ stage' = "map_hhdm"
           \/ status' = "hung" /\ stage' \in {"hung", "wild"}
    <2>1. UNCHANGED OwnRest /\ UNCHANGED loading /\ stage = "tables" /\ Create
      BY DEF CreateTables
    <2>2. limit \in Nat
      BY DEF BootInv, TypeInv
    <2>3. /\ UNCHANGED <<limit, asked, request, served, result>>
          /\ \/ status' = "idle" /\ limit # 0
             \/ status' = "hung" /\ limit = 0
      BY <2>1, <2>2 DEF Create, config, calls
    <2> QED
      BY <2>1, <2>3, Idle DEF CreateTables, Becomes
  <1>2. TypeInv'
    BY <1>1, CreateTypes DEF BootInv
  <1>3. MachineInv'
    <2>1. reserved = 0 /\ gdt = Gates /\ meta = MetaOf(grub)
      BY <1>1 DEF BootInv, MachineInv, Parsed, Switching
    <2> QED
      BY <1>1, <2>1 DEF BootInv, MachineInv, Unparsed, Parsed, Direct, FromElf, Switching
  <1>4. LoaderInv'
    <2>1. stage \notin FromElf /\ stage' \notin FromElf
      BY <1>1 DEF FromElf, Switching
    <2> QED
      BY <1>1, <2>1 DEF BootInv, LoaderInv, TriedAs
  <1>5. AskedInv'
    <2>1. asked = {}
      BY <1>1 DEF BootInv, AskedInv, Parsed
    <2> QED
      BY <1>1, <2>1 DEF AskedInv, Unparsed, Parsed, FromElf, Switching
  <1> QED
    BY <1>2, <1>3, <1>4, <1>5 DEF BootInv

\* bsp() calls pager_map() for the direct map and for the image.
LEMMA OwnCallKeeps ==
  ASSUME BootInv, MapHhdm \/ MapImage
  PROVE  BootInv' /\ limit' = limit
  <1>1. /\ meta = MetaOf(grub) /\ reserved = 0 /\ gdt = Gates /\ stage \in Direct
        /\ stage' \in Direct
    BY DEF BootInv, MachineInv, MapHhdm, MapImage, Becomes, Direct, Switching
  <1>2. HhdmAsk(meta) \in Asking /\ ImageAsk(meta) \in Asking
    BY <1>1, OwnAsks DEF BootInv
  <1>3. /\ UNCHANGED <<grub, pat, gdt, regs, meta, reserved, kernel_entry>>
        /\ UNCHANGED elf_vars
    BY Idle DEF MapHhdm, MapImage
  <1>4. PICK r \in Asking :
          /\ Ask(r) /\ limit' = limit
          /\ \/ stage = "map_hhdm" /\ stage' = "hhdm" /\ r = HhdmAsk(meta)
             \/ stage = "map_image" /\ stage' = "image" /\ r = ImageAsk(meta)
    <2>1. CASE MapHhdm
      BY <1>2, <2>1 DEF MapHhdm, Becomes, Call, HhdmAsk
    <2>2. CASE MapImage
      BY <1>2, <2>2 DEF MapImage, Becomes, Call, ImageAsk
    <2> QED
      BY <2>1, <2>2
  <1>5. /\ asked' = asked \cup {r} /\ request' = r /\ status' = "mapping"
        /\ UNCHANGED <<served, tables, result>>
    BY <1>4 DEF Ask
  <1>6. TypeInv'
    BY <1>4, AskTypes DEF BootInv, TypeInv, TablesOK
  <1>7. MachineInv'
    BY <1>1, <1>3, <1>5 DEF BootInv, MachineInv, Unparsed, Parsed, Direct, FromElf, Switching
  <1>8. LoaderInv'
    <2>1. stage \notin FromElf /\ stage' \notin FromElf
      BY <1>1 DEF FromElf, Switching, Direct
    <2> QED
      BY <1>3, <1>4, <1>5, <2>1, Idle DEF BootInv, LoaderInv, TriedAs
  <1>9. AskedInv'
    <2>1. stage' \notin FromElf /\ stage' \notin Unparsed \cup Parsed
      BY <1>1 DEF Unparsed, Parsed, FromElf, Switching, Direct
    <2>2. CASE stage = "map_hhdm"
      <3>1. asked = {} /\ r = HhdmAsk(meta) /\ stage' = "hhdm"
        BY <1>4, <2>2 DEF BootInv, AskedInv
      <3> QED
        BY <1>3, <1>5, <2>1, <3>1 DEF AskedInv
    <2>3. CASE stage = "map_image"
      <3>1. /\ asked = {HhdmAsk(meta)} /\ HhdmAsk(meta) \in served
            /\ r = ImageAsk(meta) /\ stage' = "image"
        BY <1>4, <2>3 DEF BootInv, AskedInv
      <3>2. asked' = {HhdmAsk(meta), ImageAsk(meta)}
        BY <1>5, <3>1
      <3> QED
        BY <1>3, <1>5, <2>1, <3>1, <3>2 DEF AskedInv
    <2> QED
      BY <1>4, <2>2, <2>3
  <1> QED
    BY <1>4, <1>6, <1>7, <1>8, <1>9 DEF BootInv

\* A step of pager_map() for the direct map or the image.
LEMMA MappingKeeps ==
  ASSUME BootInv, Mapping, ~ rebased'
  PROVE  BootInv' /\ Map
  <1>1. /\ stage \in {"hhdm", "image"} /\ MapPages /\ UNCHANGED own
        /\ stage \in Direct /\ stage \notin FromElf /\ stage \notin Unparsed \cup Parsed
    BY DEF Mapping, Direct, FromElf, Switching, Unparsed, Parsed
  <1>2. /\ Map /\ UNCHANGED <<limit, features, asked, request>> /\ served \subseteq served'
        /\ status = "mapping" /\ status' \in {"idle", "mapping", "wild"}
        /\ status' = "idle" => request' \in served'
        /\ UNCHANGED <<file, data, loader, section, cleared, lost, elf_entry, result>>
    BY <1>1, MapIs DEF BootInv, LoaderInv
  <1>3. TypeInv' /\ MachineInv'
    BY <1>1, <1>2, MapTypes, WhileRunning DEF BootInv
  <1>0. UNCHANGED <<stage, meta>>
    BY <1>1, Idle
  <1>4. LoaderInv'
    BY <1>0, <1>1, <1>2 DEF BootInv, LoaderInv, TriedAs
  <1>5. AskedInv'
    BY <1>0, <1>1, <1>2 DEF BootInv, AskedInv
  <1> QED
    BY <1>2, <1>3, <1>4, <1>5 DEF BootInv

\* The return of pager_map() to bsp().
LEMMA MappedKeeps ==
  ASSUME BootInv, Mapped
  PROVE  BootInv' /\ UNCHANGED vars
  <1>1. /\ status = "idle" /\ stage \in {"hhdm", "image"}
        /\ \/ stage = "hhdm" /\ stage' = OrHang("map_image")
           \/ stage = "image" /\ stage' = OrHang("elf")
        /\ UNCHANGED <<grub, pat, gdt, regs, meta, reserved, kernel_entry>>
        /\ UNCHANGED <<file, loader, section, cleared, lost, elf_entry>>
        /\ UNCHANGED vars
        /\ data' = IF stage' = "elf" THEN meta.kernel_elf ELSE data
    BY Idle DEF Mapped, Becomes
  <1>2. UNCHANGED <<tables, limit, asked, request, served, result, status>>
    BY <1>1, Idle
  <1>3. \/ stage = "hhdm" /\ stage' = "map_image"
        \/ stage = "image" /\ stage' = "elf"
    BY <1>1 DEF OrHang, BootInv, LoaderInv
  <1>4. TypeInv'
    BY <1>1, StutterTypes DEF BootInv
  <1>5. MachineInv'
    <2>1. reserved = 0 /\ gdt = Gates /\ meta = MetaOf(grub)
      BY <1>1 DEF BootInv, MachineInv, Direct, Switching
    <2> QED
      BY <1>1, <1>2, <1>3, <2>1 DEF BootInv, MachineInv, Unparsed, Parsed, Direct, FromElf, Switching
  <1>6. stage \notin FromElf /\ (stage' \in FromElf <=> stage' = "elf")
        /\ stage' \notin Unparsed \cup Parsed
    BY <1>1, <1>3 DEF FromElf, Switching, Unparsed, Parsed
  <1>7. LoaderInv'
    BY <1>1, <1>2, <1>3, <1>6 DEF BootInv, LoaderInv, TriedAs
  <1>8. AskedInv'
    <2>1. stage = "hhdm" =>
            asked = {HhdmAsk(meta)} /\ HhdmAsk(meta) \in served
      BY <1>1 DEF BootInv, AskedInv
    <2>2. stage = "image" =>
            /\ asked = {HhdmAsk(meta), ImageAsk(meta)}
            /\ HhdmAsk(meta) \in served /\ ImageAsk(meta) \in served
      BY <1>1 DEF BootInv, AskedInv
    <2>3. loader = "ready" /\ section = 0 /\ file \in Files
      BY <1>6 DEF BootInv, LoaderInv
    <2>4. Tried(file, section, loader) = {}
      BY <2>3, TriedIs
    <2>5. Asks(file, data', cleared, Tried(file, section, loader)) = {}
      BY <2>4 DEF Asks
    <2>6. status = "idle" /\ asked # {} => request \in served
      BY DEF BootInv, AskedInv
    <2> QED
      BY <1>1, <1>2, <1>3, <1>6, <2>1, <2>2, <2>3, <2>4, <2>5, <2>6 DEF AskedInv
  <1> QED
    BY <1>1, <1>4, <1>5, <1>7, <1>8 DEF BootInv

-----------------------------------------------------------------------------
(* Steps of load_elf()                                                     *)

\* What is known while it runs.
LEMMA AtLoader ==
  ASSUME BootInv, stage = "elf"
  PROVE  /\ meta = MetaOf(grub) /\ data = meta.kernel_elf /\ data \in Nat
         /\ file \in Files /\ section \in Nat
         /\ stage \in FromElf /\ stage \notin Direct /\ stage \notin Unparsed \cup Parsed
         /\ stage \in Direct \cup {"elf"}
         /\ Len(file.sections) \in Nat /\ DOMAIN file.sections = 1..Len(file.sections)
         /\ section \in 0..(Len(file.sections) + 1)
         /\ Used \in Nat /\ limit \in Nat /\ Used <= limit
  <1>1. /\ stage \in FromElf /\ stage \notin Direct /\ stage \notin Unparsed \cup Parsed
        /\ stage \in Direct \cup {"elf"} /\ stage \in Direct \cup FromElf
    BY DEF Direct, FromElf, Switching, Unparsed, Parsed
  <1>2. meta = MetaOf(grub)
    BY <1>1 DEF BootInv, MachineInv
  <1>3. data = meta.kernel_elf /\ file \in Files
    BY <1>1 DEF BootInv, LoaderInv
  <1>4. data \in Nat
    BY <1>2, <1>3, MetaIs DEF BootInv
  <1>5. Len(file.sections) \in Nat /\ DOMAIN file.sections = 1..Len(file.sections)
    BY <1>3, FileIs
  <1>6. section \in 0..(Len(file.sections) + 1)
    <2>1. \A i \in LoadedOf(file) : i \in DOMAIN file.sections
      BY <1>3, FileIs
    <2> QED
      BY <1>5, <2>1 DEF BootInv, LoaderInv
  <1>7. section \in Nat
    BY <1>5, <1>6
  <1>8. Used \in Nat /\ limit \in Nat /\ Used <= limit
    BY DEF BootInv, TypeInv, TablesOK
  <1> QED
    BY <1>1, <1>2, <1>3, <1>4, <1>5, <1>6, <1>7, <1>8

\* Where the sections T lie, those of them that were cleared at c.
LEMMA PhysIs ==
  ASSUME MachineInv, meta = MetaOf(grub), file \in Files, data = meta.kernel_elf,
         NEW T \in SUBSET LoadedOf(file), NEW c, DOMAIN c = ClearedOf(file, T),
         \A i \in DOMAIN c : /\ c[i] \in Nat /\ c[i] % PAGE = 0
                             /\ c[i] + LoadSize(file.sections[i]) < SPACE
  PROVE  \A i \in T :
           /\ PhysOf(file, data, c, i) \in Addresses
           /\ PhysOf(file, data, c, i) + LoadSize(file.sections[i]) < SPACE
           /\ file.sections[i].type = SHT_NOBITS => PhysOf(file, data, c, i) % PAGE = 0
  <1> SUFFICES ASSUME NEW i \in T
               PROVE  /\ PhysOf(file, data, c, i) \in Addresses
                      /\ PhysOf(file, data, c, i) + LoadSize(file.sections[i]) < SPACE
                      /\ file.sections[i].type = SHT_NOBITS =>
                           PhysOf(file, data, c, i) % PAGE = 0
    OBVIOUS
  <1>1. i \in LoadedOf(file)
    OBVIOUS
  <1>2. LoadSize(file.sections[i]) \in Nat /\ SPACE \in Nat
    BY <1>1, FileIs, CoversNext DEF Addresses
  <1>3. CASE file.sections[i].type = SHT_NOBITS
    <2>1. i \in DOMAIN c
      BY <1>3 DEF ClearedOf
    <2>2. /\ c[i] \in Nat /\ c[i] % PAGE = 0 /\ c[i] + LoadSize(file.sections[i]) < SPACE
      BY <2>1
    <2>3. PhysOf(file, data, c, i) = c[i]
      BY <1>3 DEF PhysOf
    <2> QED
      BY <1>2, <2>2, <2>3 DEF Addresses
  <1>4. CASE file.sections[i].type # SHT_NOBITS
    <2>1. PhysOf(file, data, c, i) = data + file.sections[i].offset
      BY <1>4 DEF PhysOf
    <2> QED
      BY <1>1, <1>4, <2>1, InFile
  <1> QED
    BY <1>3, <1>4

\* Steps that leave the pager as it is.
LEMMA LoaderAlone ==
  ASSUME BootInv, stage = "elf", UNCHANGED own, UNCHANGED vars,
         UNCHANGED <<file, data, cleared, lost>>, loader # "cleared",
         loader' \in {"section", "returned"}, status = "idle",
         Tried(file, section', loader') = Tried(file, section, loader),
         loader' = "section" => section' \in 1..(Len(file.sections) + 1),
         loader' = "returned" =>
           section' = Len(file.sections) + 1 \/ (section' = 0 /\ elf_entry' = -1),
         \A i \in Tried(file, section, loader) : AskOf(file, data, cleared, i) \in served
  PROVE  BootInv'
  <1>1. /\ UNCHANGED <<tables, limit, asked, request, served, result, status>>
        /\ UNCHANGED <<stage, meta>>
    BY Idle
  <1>2. TypeInv' /\ MachineInv'
    BY <1>1, AtLoader, StutterTypes, WhileRunning DEF BootInv
  <1>3. LoaderInv'
    BY <1>1, AtLoader DEF BootInv, LoaderInv, TriedAs
  <1>4. AskedInv'
    <2>1. (/\ HhdmAsk(meta) \in served /\ ImageAsk(meta) \in served
           /\ asked = {HhdmAsk(meta), ImageAsk(meta)}
                        \cup Asks(file, data, cleared, Tried(file, section, loader))
           /\ status = "idle")'
      BY <1>1, AtLoader DEF BootInv, AskedInv
    <2>2. loader' # "mapping"
      OBVIOUS
    <2>3. stage' \notin {"map_hhdm", "hhdm", "map_image", "image"} /\ stage' \notin Unparsed \cup Parsed
      BY <1>1, AtLoader DEF Direct
    <2>4. (status = "idle" /\ asked # {} => request \in served)'
      BY <1>1 DEF BootInv, AskedInv
    <2>5. \A i \in Tried(file', section', loader') : AskOf(file', data', cleared', i) \in served'
      BY <1>1
    <2> QED
      BY <2>1, <2>2, <2>3, <2>4, <2>5 DEF AskedInv
  <1> QED
    BY <1>2, <1>3, <1>4 DEF BootInv

\* load_elf() calls pager_map() for the section at hand, in the file or cleared.
LEMMA SectionAsked ==
  ASSUME BootInv, stage = "elf", UNCHANGED own, MapSection \/ MapCleared
  PROVE  /\ BootInv' /\ section \in LoadedOf(file) /\ loader # "mapping"
         /\ loader' = "mapping" /\ UNCHANGED <<file, data, section, cleared>>
         /\ limit' = limit
         /\ \E r \in Asking : /\ Ask(r) /\ asked' = asked \cup {r}
                              /\ r = AskOf(file, data, cleared, section)
  <1>1. /\ loader' = "mapping" /\ limit' = limit
        /\ UNCHANGED <<file, data, section, cleared, lost, elf_entry>>
        /\ \/ loader = "section" /\ section <= Len(file.sections) /\ ~ Skipped(Cur)
           \/ loader = "cleared"
    BY DEF MapSection, MapCleared, More, Call
  <1>2. /\ file \in Files /\ section \in Nat /\ section \in LoadedOf(file)
        /\ Cur = file.sections[section]
    <2>1. file \in Files /\ section \in Nat /\ Cur = file.sections[section]
      BY AtLoader DEF Cur
    <2>2. CASE loader = "section"
      <3>1. section \in DOMAIN file.sections
        BY <1>1, <2>2, AtLoader DEF BootInv, LoaderInv
      <3> QED
        BY <1>1, <2>1, <2>2, <3>1, FileIs
    <2>3. CASE loader = "cleared"
      BY <2>1, <2>3 DEF BootInv, LoaderInv
    <2> QED
      BY <1>1, <2>1, <2>2, <2>3
  <1>3. /\ Tried(file, section, "mapping") = Tried(file, section, "section") \cup {section}
        /\ Tried(file, section, "cleared") = Tried(file, section, "section")
        /\ section \notin Tried(file, section, "section")
    BY <1>2, TriedIs
  <1>4. /\ DOMAIN cleared = ClearedOf(file, Tried(file, section, TriedAs))
        /\ \A i \in DOMAIN cleared : /\ cleared[i] \in Nat /\ cleared[i] % PAGE = 0
                                     /\ cleared[i] + LoadSize(file.sections[i]) < SPACE
    BY DEF BootInv, LoaderInv
  <1> DEFINE r == AskOf(file, data, cleared, section)
  <1>5. DOMAIN cleared = ClearedOf(file, Tried(file, section, "mapping")) /\ Ask(r)
    <2>1. CASE MapSection
      <3>1. Cur.type # SHT_NOBITS /\ Ask(SectionAt(data + Cur.offset)) /\ loader = "section"
        BY <2>1 DEF MapSection, Call, More
      <3>2. SectionAt(data + Cur.offset) = r
        BY <1>2, <3>1 DEF AskOf, PhysOf, SectionAt
      <3>3. ClearedOf(file, Tried(file, section, "mapping"))
              = ClearedOf(file, Tried(file, section, "section"))
        BY <1>2, <1>3, <3>1 DEF ClearedOf
      <3> QED
        BY <1>4, <3>1, <3>2, <3>3 DEF TriedAs
    <2>2. CASE MapCleared
      <3>1. Ask(SectionAt(cleared[section])) /\ loader = "cleared"
        BY <2>2 DEF MapCleared, Call
      <3>2. Cur.type = SHT_NOBITS
        BY <1>2, <3>1 DEF BootInv, LoaderInv
      <3>3. SectionAt(cleared[section]) = r
        BY <1>2, <3>2 DEF AskOf, PhysOf, SectionAt
      <3> QED
        BY <1>4, <3>1, <3>3 DEF TriedAs
    <2> QED
      BY <2>1, <2>2
  <1>6. r \in Asking
    <2>1. PhysOf(file, data, cleared, section) \in Addresses
      <3> DEFINE T == Tried(file, section, "mapping")
      <3>1. T \in SUBSET LoadedOf(file) /\ section \in T /\ DOMAIN cleared = ClearedOf(file, T)
        BY <1>2, <1>3, <1>5, TriedIs
      <3>2. MachineInv /\ meta = MetaOf(grub) /\ data = meta.kernel_elf
        BY AtLoader DEF BootInv
      <3> HIDE DEF T
      <3> QED
        BY <1>2, <1>4, <3>1, <3>2, PhysIs
    <2> QED
      BY <1>2, <2>1, AskOfIs
  <1> HIDE DEF r
  <1>7. /\ asked' = asked \cup {r} /\ request' = r /\ status' = "mapping" /\ status = "idle"
        /\ UNCHANGED <<served, tables, result>>
    BY <1>5 DEF Ask
  <1>8. UNCHANGED <<stage, meta>>
    BY Idle
  <1>9. TypeInv' /\ MachineInv'
    BY <1>1, <1>5, <1>6, <1>7, AtLoader, AskTypes, WhileRunning DEF BootInv
  <1>10. LoaderInv'
    BY <1>1, <1>2, <1>4, <1>5, <1>7, <1>8, AtLoader DEF BootInv, LoaderInv, TriedAs
  <1>11. AskedInv'
    <2> DEFINE N == Tried(file, section, "section")
    <2>1. /\ HhdmAsk(meta) \in served /\ ImageAsk(meta) \in served
          /\ asked = {HhdmAsk(meta), ImageAsk(meta)} \cup Asks(file, data, cleared, N)
          /\ \A i \in N : i < section => AskOf(file, data, cleared, i) \in served
      <3>1. Tried(file, section, loader) = N
        BY <1>1, <1>3
      <3> QED
        BY <3>1, AtLoader DEF BootInv, AskedInv
    <2>2. Asks(file, data, cleared, N \cup {section}) = Asks(file, data, cleared, N) \cup {r}
      BY DEF Asks, r
    <2>3. /\ asked' = {HhdmAsk(meta), ImageAsk(meta)}
                        \cup Asks(file, data, cleared, Tried(file, section, "mapping"))
          /\ \A i \in Tried(file, section, "mapping") :
               i < section => AskOf(file, data, cleared, i) \in served
      BY <1>2, <1>3, <1>7, <2>1, <2>2
    <2>4. stage' \notin {"map_hhdm", "hhdm", "map_image", "image"} /\ stage' \notin Unparsed \cup Parsed
      BY <1>8, AtLoader DEF Direct
    <2> QED
      BY <1>1, <1>7, <1>8, <2>1, <2>3, <2>4 DEF AskedInv, r
  <1> QED
    BY <1>1, <1>2, <1>5, <1>6, <1>7, <1>9, <1>10, <1>11 DEF BootInv, r

\* Where the next pages of the bank are.
LEMMA NextPages ==
  ASSUME NEW m \in Nat, NEW n \in Nat, NEW b \in Nat, Behind + b \in Limits, m + n <= Behind + b
  PROVE  /\ POOL + PAGE * m \in Nat /\ POOL <= POOL + PAGE * m
         /\ (POOL + PAGE * m) % PAGE = 0 /\ POOL + PAGE * m + PAGE * n < SPACE
         /\ ((POOL + PAGE * m) - POOL) \div PAGE = m
  <1>1. /\ PAGE \in Nat \ {0} /\ POOL \in Nat /\ POOL % PAGE = 0 /\ SPACE \in Nat
        /\ POOL + PAGE * (Behind + b) < SPACE /\ Behind + b \in Nat
    BY PagerAssumption, PoolAssumption, LimitsAssumption, CoversNext
  <1> DEFINE x == PAGE * m
             y == PAGE * n
             z == PAGE * (Behind + b)
  <1>2. x \in Nat /\ y \in Nat /\ z \in Nat /\ x + y <= z
    <2>1. \A c, i, j \in Nat : c * i \in Nat /\ c * (i + j) = c * i + c * j
      OBVIOUS
    <2>2. \A c, i, j \in Nat : i <= j => c * i <= c * j
      OBVIOUS
    <2>3. PAGE * (m + n) <= PAGE * (Behind + b)
      BY <1>1, <2>2
    <2> QED
      BY <1>1, <2>1, <2>3
  <1>3. x % PAGE = 0 /\ x \div PAGE = m
    BY <1>1, Multiple
  <1> HIDE DEF x, y, z
  <1>4. (POOL + x) % PAGE = 0
    BY <1>1, <1>2, <1>3, SumMultiple
  <1>5. (POOL + x) - POOL = x
    BY <1>1, <1>2
  <1> QED
    BY <1>1, <1>2, <1>3, <1>4, <1>5 DEF x, y, z

\* A limit that changes, and nothing else of the pager.
LEMMA LimitAlone ==
  ASSUME TypeInv, limit' \in Nat, Used <= limit',
         UNCHANGED <<tables, features, asked, request, served, todo, leaf, level, table, result,
                     status>>
  PROVE  TypeInv' /\ (IInv => IInv')
  <1>1. TablesOK(tables', Used', limit') /\ RestOK'
    BY DEF TypeInv, TablesOK, RestOK, Used
  <1>2. TypeInv'
    BY <1>1 DEF TypeInv, Used
  <1>3. Gone' = Gone /\ Down' = Down
    BY DEF Gone, Down
  <1>4. IInv => Rest'
    BY <1>3 DEF IInv, Rest, TablesInv, RequestInv, WalkInv
  <1> QED
    BY <1>2, <1>4 DEF IInv, Rest

\* load_elf() clears memory for the section at hand: pages that no table and no
\* other section has.
LEMMA SectionCleared ==
  ASSUME BootInv, PoolInv, stage = "elf", UNCHANGED own, ClearSection, ~ rebased'
  PROVE  /\ BootInv' /\ PoolInv' /\ limit' \in Nat /\ Used <= limit'
         /\ UNCHANGED <<file, data>> /\ status = "idle"
         /\ UNCHANGED <<tables, features, asked, request, served, todo, leaf, level, table,
                        result, status>>
  <1> DEFINE n    == LoadSize(Cur) \div PAGE
             phys == POOL + PAGE * mark
  <1>1. /\ loader = "section" /\ section <= Len(file.sections) /\ ~ Skipped(Cur)
        /\ Cur.type = SHT_NOBITS /\ loader' = "cleared"
        /\ UNCHANGED <<file, data, section, lost, elf_entry, bank, frame>>
        /\ UNCHANGED <<features, asked, request, served, todo, leaf, level, table, result, status>>
    BY DEF ClearSection, More, calls, walk
  <1>2. /\ file \in Files /\ section \in Nat /\ section \in LoadedOf(file)
        /\ Cur = file.sections[section]
    <2>1. section \in DOMAIN file.sections
      BY <1>1, AtLoader DEF BootInv, LoaderInv
    <2> QED
      BY <1>1, <2>1, AtLoader, FileIs DEF Cur
  <1>3. n \in Nat /\ LoadSize(Cur) = PAGE * n
    BY <1>2, FileIs, SizesOf
  <1>4. /\ ~ rebased /\ ~ Overflows(n) /\ mark' = mark + n /\ limit' = limit - n
        /\ tables' = [t \in DOMAIN tables |->
                        IF frame[t] \in TakenBy(n) THEN EmptyTable ELSE tables[t]]
        /\ TakenBy(n) = mark..(mark + n - 1)
        /\ cleared' = [i \in DOMAIN cleared \cup {section} |->
                         IF i = section THEN phys ELSE cleared[i]]
    <2>1. ASSUME Refused(n) PROVE FALSE
      <3>1. UNCHANGED rebased
        BY <2>1 DEF ClearSection
      <3> QED
        BY <2>1, <3>1 DEF Refused
    <2>2. Take(n) /\ limit' = IF rebased' THEN Used ELSE limit - n
      BY <2>1 DEF ClearSection
    <2>3. ~ rebased /\ ~ Overflows(n)
      BY <2>2 DEF Take
    <2>4. Offered(n) = mark
      BY <2>3 DEF Offered
    <2>5. mark' = mark + n
      BY <2>2, <2>4 DEF Take
    <2>6. TakenBy(n) = mark..(mark + n - 1)
      BY <2>4 DEF TakenBy
    <2>7. /\ tables' = [t \in DOMAIN tables |->
                        IF frame[t] \in TakenBy(n) THEN EmptyTable ELSE tables[t]]
          /\ cleared' = [i \in DOMAIN cleared \cup {section} |->
                         IF i = section THEN phys ELSE cleared[i]]
      BY <2>1, <2>4 DEF ClearSection
    <2> QED
      BY <2>2, <2>3, <2>5, <2>6, <2>7
  <1>5. /\ status = "idle" /\ Used \in Nat /\ limit \in Nat /\ Used <= limit
        /\ DOMAIN tables = 1..Used
    BY <1>1, AtLoader DEF BootInv, AskedInv, TypeInv, TablesOK
  <1>6. /\ mark \in Nat /\ bank \in Nat /\ Behind \in Nat /\ Behind + bank \in Limits /\ bank # 0
        /\ mark + limit = Used + Behind + bank /\ mark + n <= Behind + bank
    <2>1. mark \in Nat /\ bank \in Nat /\ bank # 0
      BY <1>5 DEF PoolInv
    <2>2. Behind + bank \in Limits /\ mark + limit = Used + Behind + bank
      BY <2>1 DEF PoolInv
    <2>3. Behind \in Nat
      BY PoolAssumption, PagerAssumption, Division DEF Behind
    <2> QED
      BY <1>3, <1>4, <2>1, <2>2, <2>3 DEF Overflows
  <1> HIDE DEF n
  <1>7. limit' \in Nat /\ Used <= limit'
    BY <1>3, <1>4, <1>5, <1>6
  <1>8. /\ phys \in Nat /\ POOL <= phys /\ phys % PAGE = 0 /\ phys + LoadSize(Cur) < SPACE
        /\ (phys - POOL) \div PAGE = mark
    BY <1>3, <1>6, NextPages
  <1> HIDE DEF phys
  <1>9. tables' = tables
    <2>1. \A t \in DOMAIN tables : frame[t] \notin TakenBy(n)
      <3>1. \A t \in 1..Used : frame[t] < mark /\ frame[t] \in Nat
        BY DEF PoolInv
      <3> QED
        BY <1>3, <1>4, <1>5, <1>6, <3>1
    <2>2. tables' = [t \in DOMAIN tables |-> tables[t]]
      BY <1>4, <2>1
    <2> QED
      BY <2>2 DEF PoolInv
  <1>10. /\ DOMAIN cleared' = DOMAIN cleared \cup {section} /\ cleared'[section] = phys
         /\ \A i \in DOMAIN cleared \ {section} : cleared'[i] = cleared[i]
    BY <1>4
  <1>11. /\ DOMAIN cleared = ClearedOf(file, Tried(file, section, "section"))
         /\ Tried(file, section, "mapping") = Tried(file, section, "section") \cup {section}
         /\ Tried(file, section, "cleared") = Tried(file, section, "section")
         /\ section \notin Tried(file, section, "section")
         /\ \A i \in DOMAIN cleared : /\ cleared[i] \in Nat /\ cleared[i] % PAGE = 0
                                      /\ cleared[i] + LoadSize(file.sections[i]) < SPACE
    BY <1>1, <1>2, TriedIs DEF BootInv, LoaderInv, TriedAs
  <1>12. section \notin DOMAIN cleared
    BY <1>11 DEF ClearedOf
  <1>13. UNCHANGED <<stage, meta>>
    BY Idle
  <1>14. TypeInv' /\ MachineInv'
    BY <1>1, <1>5, <1>7, <1>9, AtLoader, LimitAlone, WhileRunning DEF BootInv
  <1>15. LoaderInv'
    <2>1. DOMAIN cleared' = ClearedOf(file, Tried(file, section, "mapping"))
      BY <1>1, <1>2, <1>10, <1>11 DEF ClearedOf
    <2>2. \A i \in DOMAIN cleared' : /\ cleared'[i] \in Nat /\ cleared'[i] % PAGE = 0
                                     /\ cleared'[i] + LoadSize(file.sections[i]) < SPACE
      BY <1>2, <1>8, <1>10, <1>11, <1>12
    <2> QED
      BY <1>1, <1>2, <1>13, <2>1, <2>2, AtLoader DEF BootInv, LoaderInv, TriedAs
  <1>16. AskedInv'
    <2> DEFINE N == Tried(file, section, "section")
    <2>1. /\ HhdmAsk(meta) \in served /\ ImageAsk(meta) \in served
          /\ asked = {HhdmAsk(meta), ImageAsk(meta)} \cup Asks(file, data, cleared, N)
          /\ \A i \in N : i < section => AskOf(file, data, cleared, i) \in served
          /\ status = "idle" /\ asked # {} => request \in served
      BY <1>1, AtLoader DEF BootInv, AskedInv
    <2>2. \A i \in N : AskOf(file, data, cleared', i) = AskOf(file, data, cleared, i)
      <3>1. \A i \in N : file.sections[i].type = SHT_NOBITS => cleared'[i] = cleared[i]
        BY <1>10, <1>11, <1>12 DEF ClearedOf
      <3> QED
        BY <3>1 DEF AskOf, PhysOf
    <2>3. Asks(file, data, cleared', N) = Asks(file, data, cleared, N)
      BY <2>2 DEF Asks
    <2>4. stage' \notin {"map_hhdm", "hhdm", "map_image", "image"} /\ stage' \notin Unparsed \cup Parsed
      BY <1>13, AtLoader DEF Direct
    <2> QED
      BY <1>1, <1>5, <1>11, <1>13, <2>1, <2>2, <2>3, <2>4 DEF AskedInv
  <1>17. PoolInv'
    <2> DEFINE P(i) == PagesAt(file, cleared, i)
               Q(i) == PagesAt(file, cleared', i)
    <2>1. \A i \in DOMAIN cleared \ {section} : Q(i) = P(i)
      BY <1>10 DEF PagesAt
    <2>2. Q(section) = mark..(mark + n - 1)
      BY <1>2, <1>8, <1>10 DEF PagesAt, n
    <2>3. \A i \in DOMAIN cleared :
            /\ POOL <= cleared[i] /\ P(i) \subseteq 0..(mark - 1)
            /\ \A t \in 1..Used : frame[t] \notin P(i)
            /\ \A j \in DOMAIN cleared \ {i} : P(i) \cap P(j) = {}
      BY DEF PoolInv
    <2>4. \A t \in 1..Used : frame[t] \in Nat /\ frame[t] < mark
      BY DEF PoolInv
    <2> HIDE DEF P, Q
    <2>5. \A i \in DOMAIN cleared' :
            /\ POOL <= cleared'[i] /\ Q(i) \subseteq 0..(mark' - 1)
            /\ \A t \in 1..Used : frame[t] \notin Q(i)
      <3> SUFFICES ASSUME NEW i \in DOMAIN cleared'
                   PROVE  /\ POOL <= cleared'[i] /\ Q(i) \subseteq 0..(mark' - 1)
                          /\ \A t \in 1..Used : frame[t] \notin Q(i)
        OBVIOUS
      <3>1. CASE i = section
        BY <1>3, <1>4, <1>6, <1>8, <1>10, <2>2, <2>4, <3>1
      <3>2. CASE i # section
        BY <1>3, <1>4, <1>6, <1>10, <2>1, <2>3, <3>2
      <3> QED
        BY <3>1, <3>2
    <2>6. \A i \in DOMAIN cleared : Q(section) \cap P(i) = {}
      BY <1>3, <1>6, <2>2, <2>3
    <2>7. \A i \in DOMAIN cleared' : \A j \in DOMAIN cleared' \ {i} : Q(i) \cap Q(j) = {}
      BY <1>10, <1>12, <2>1, <2>3, <2>6
    <2>8. \A i \in DOMAIN cleared' :
            /\ POOL <= cleared'[i] /\ PagesAt(file, cleared', i) \subseteq 0..(mark' - 1)
            /\ \A t \in 1..Used : frame[t] \notin PagesAt(file, cleared', i)
            /\ \A j \in DOMAIN cleared' \ {i} :
                 PagesAt(file, cleared', i) \cap PagesAt(file, cleared', j) = {}
      BY <2>5, <2>7 DEF Q
    <2>9. Used' = Used
      BY <1>9 DEF Used
    <2>10. /\ mark' \in Nat /\ \A t \in 1..Used : frame[t] < mark'
           /\ mark' + limit' = Used + Behind + bank
      BY <1>3, <1>4, <1>5, <1>6, <2>4
    <2>11. /\ tables = [t \in DOMAIN tables |-> tables[t]] /\ frame \in Seq(Nat) /\ Len(frame) = Used
           /\ \A t, u \in 1..Used : frame[u] = frame[t] => u = t
      BY DEF PoolInv
    <2>12. frame' = frame /\ bank' = bank /\ file' = file /\ status' = "idle"
      BY <1>1, <1>5
    <2> QED
      BY <1>6, <1>9, <2>8, <2>9, <2>10, <2>11, <2>12 DEF PoolInv
  <1> QED
    BY <1>1, <1>5, <1>7, <1>9, <1>14, <1>15, <1>16, <1>17 DEF BootInv

\* A step of load_elf(), or of pager_map() on its behalf.
LEMMA LoadingKeeps ==
  ASSUME BootInv, PoolInv, Loading, ~ rebased'
  PROVE  BootInv' /\ UNCHANGED <<stage, file, data, meta>>
  <1>1. stage = "elf" /\ UNCHANGED own /\ LoadElf
    BY DEF Loading
  <1>2. /\ file \in Files /\ section \in Nat /\ DOMAIN file.sections = 1..Len(file.sections)
        /\ Len(file.sections) \in Nat /\ stage \in FromElf
    BY <1>1, AtLoader
  <1>0. UNCHANGED <<stage, meta>>
    BY <1>1, Idle
  <1>3. /\ loader \in {"ready", "section", "cleared", "mapping", "returned"}
        /\ loader = "ready" => section = 0
        /\ loader = "section" => section \in 1..(Len(file.sections) + 1)
        /\ loader = "mapping" => section \in LoadedOf(file)
        /\ result = 0
    BY <1>2 DEF BootInv, LoaderInv
  <1>4. /\ loader # "mapping" => status = "idle"
        /\ loader = "mapping" => request = AskOf(file, data, cleared, section)
        /\ \A i \in Tried(file, section, loader) :
             i < section => AskOf(file, data, cleared, i) \in served
        /\ status = "idle" /\ asked # {} => request \in served
        /\ HhdmAsk(meta) \in asked
    BY <1>2 DEF BootInv, AskedInv
  <1>5. loader # "mapping" =>
          \A i \in Tried(file, section, loader) : AskOf(file, data, cleared, i) \in served
    BY <1>4 DEF Tried
  <1>6. CASE Load64
    <2>1. /\ loader = "ready" /\ loader' = "section" /\ section' = 1 /\ UNCHANGED vars
          /\ UNCHANGED <<file, data, cleared, lost>>
      BY <1>6 DEF Load64
    <2>2. Tried(file, section', loader') = Tried(file, section, loader)
      <3>1. Tried(file, 1, "section") = {}
        BY <1>2, TriedIs
      <3>2. Tried(file, 0, "ready") = {}
        BY <1>2, TriedIs
      <3> QED
        BY <1>3, <2>1, <3>1, <3>2
    <2> QED
      BY <1>0, <1>1, <1>2, <1>3, <1>4, <1>5, <2>1, <2>2, LoaderAlone
  <1>7. CASE LoadOther
    <2>1. /\ loader = "ready" /\ loader' = "returned" /\ elf_entry' = -1 /\ UNCHANGED vars
          /\ UNCHANGED <<file, data, cleared, lost, section>>
      BY <1>7 DEF LoadOther
    <2>2. Tried(file, section', loader') = Tried(file, section, loader)
      BY <1>2, <1>3, <2>1, TriedIs
    <2> QED
      BY <1>0, <1>1, <1>2, <1>3, <1>4, <1>5, <2>1, <2>2, LoaderAlone
  <1>8. CASE SkipSection
    <2>1. /\ loader = "section" /\ loader' = "section" /\ section' = section + 1
          /\ UNCHANGED vars /\ UNCHANGED <<file, data, cleared, lost>>
          /\ section <= Len(file.sections) /\ Skipped(file.sections[section])
      BY <1>8 DEF SkipSection, More, Cur
    <2>2. section \notin LoadedOf(file)
      BY <1>2, <1>3, <2>1, FileIs
    <2>3. Tried(file, section', loader') = Tried(file, section, loader)
      BY <1>2, <2>1, <2>2, TriedIs
    <2> QED
      BY <1>0, <1>1, <1>2, <1>3, <1>4, <1>5, <2>1, <2>3, LoaderAlone
  <1>9. CASE MapSection \/ MapCleared
    BY <1>0, <1>1, <1>9, SectionAsked
  <1>13. CASE ClearSection
    BY <1>0, <1>1, <1>13, SectionCleared
  <1>10. CASE loader = "mapping" /\ MapPages
    <2>1. /\ Map /\ UNCHANGED <<limit, features, asked, request>> /\ served \subseteq served'
          /\ status = "mapping" /\ status' \in {"idle", "mapping", "wild"}
          /\ status' = "idle" => request' \in served'
          /\ UNCHANGED <<file, data, loader, section, cleared, lost, elf_entry, result>>
      BY <1>3, <1>10, MapIs DEF BootInv
    <2>2. TypeInv' /\ MachineInv'
      BY <1>1, <2>1, AtLoader, MapTypes, WhileRunning DEF BootInv
    <2>3. loader = "mapping"
      BY <1>10
    <2>4. LoaderInv'
      BY <1>0, <2>1, <2>3 DEF BootInv, LoaderInv, TriedAs
    <2>5. AskedInv'
      <3>1. stage' \notin {"map_hhdm", "hhdm", "map_image", "image"} /\ stage' \notin Unparsed \cup Parsed
        BY <1>0, <1>1, AtLoader DEF Direct
      <3> QED
        BY <1>0, <1>1, <1>2, <2>1, <2>3, <3>1 DEF BootInv, AskedInv
    <2> QED
      BY <1>0, <2>1, <2>2, <2>4, <2>5 DEF BootInv
  <1>11. CASE MappedSection
    <2>1. /\ loader = "mapping" /\ status = "idle" /\ loader' = "section"
          /\ UNCHANGED lost /\ section' = section + 1 /\ UNCHANGED vars
          /\ UNCHANGED <<file, data, cleared>>
      BY <1>3, <1>11 DEF MappedSection
    <2>2. /\ section \in LoadedOf(file) /\ section \in 1..Len(file.sections)
          /\ \A i \in LoadedOf(file) : i \in Nat
      BY <1>2, <1>3, <2>1, FileIs
    <2>3. /\ Tried(file, section', loader') = Tried(file, section, loader)
          /\ section \in Tried(file, section, loader)
      BY <1>2, <2>1, <2>2, TriedIs
    <2>5. \A i \in Tried(file, section, loader) : AskOf(file, data, cleared, i) \in served
      <3> SUFFICES ASSUME NEW i \in Tried(file, section, loader)
                   PROVE  AskOf(file, data, cleared, i) \in served
        OBVIOUS
      <3>1. CASE i = section
        BY <1>4, <2>1, <3>1
      <3>2. CASE i # section
        <4>1. i < section
          BY <2>1, <3>2 DEF Tried
        <4> QED
          BY <1>4, <4>1
      <3> QED
        BY <3>1, <3>2
    <2>6. section' \in 1..(Len(file.sections) + 1)
      BY <1>2, <2>1, <2>2
    <2> QED
      BY <1>0, <1>1, <2>1, <2>3, <2>5, <2>6, LoaderAlone
  <1>12. CASE ReturnEntry
    <2>1. /\ loader = "section" /\ loader' = "returned" /\ section > Len(file.sections)
          /\ UNCHANGED vars /\ UNCHANGED <<file, data, cleared, lost, section>>
      BY <1>12 DEF ReturnEntry
    <2>2. Tried(file, section', loader') = Tried(file, section, loader)
      BY <1>2, <2>1, TriedIs
    <2>3. section' = Len(file.sections) + 1
      BY <1>2, <1>3, <2>1
    <2> QED
      BY <1>0, <1>1, <1>2, <1>3, <1>4, <1>5, <2>1, <2>2, <2>3, LoaderAlone
  <1> QED
    BY <1>1, <1>6, <1>7, <1>8, <1>9, <1>10, <1>11, <1>12, <1>13 DEF LoadElf

-----------------------------------------------------------------------------
(* The order of the stages                                                 *)

\* At the entry of bsp().
LEMMA BootStarts == BootInit => BootInv
  <1> SUFFICES ASSUME BootInit PROVE BootInv
    OBVIOUS
  <1>1. /\ Init /\ stage = "uart" /\ file \in Files /\ loader = "ready" /\ section = 0
        /\ cleared = <<>> /\ lost = {} /\ grub \in Loaders /\ pat = ResetPat
        /\ regs = Reset /\ reserved = 0 /\ result = 0
    BY DEF BootInit, ElfInit, Init
  <1>2. /\ stage \in Unparsed /\ stage \notin Parsed /\ stage \notin Direct
        /\ stage \notin FromElf /\ stage \notin Switching
    BY <1>1 DEF Unparsed, Parsed, Direct, FromElf, Switching
  <1>3. status = "off" /\ asked = {}
    BY <1>1 DEF Init
  <1>4. Tried(file, section, TriedAs) = {} /\ DOMAIN cleared = {}
    BY <1>1, TriedIs DEF TriedAs
  <1>5. regs \in [pae : BOOLEAN, cr3 : Nat, lme : BOOLEAN, pg : BOOLEAN, cs : Nat]
    BY <1>1 DEF Reset
  <1>6. MachineInv
    <2>1. stage \notin {"tables"} \cup Direct \cup FromElf /\ stage \notin {"cr3", "lme", "pg"}
          /\ stage \notin {"lme", "pg"} /\ stage # "pg" /\ stage # "kernel"
          /\ stage \notin Direct \cup FromElf
      BY <1>1, <1>2
    <2> QED
      BY <1>1, <1>2, <1>3, <1>5, <2>1 DEF MachineInv
  <1>7. LoaderInv
    <2>1. ClearedOf(file, {}) = {}
      BY DEF ClearedOf
    <2> QED
      BY <1>1, <1>2, <1>4, <2>1 DEF LoaderInv
  <1>8. AskedInv
    BY <1>1, <1>2, <1>3 DEF AskedInv
  <1> QED
    BY <1>1, <1>6, <1>7, <1>8, InitTypes DEF BootInv

\* Nothing of the bank is handed out yet.
LEMMA PoolStarts == BootInit => PoolInv
  <1> SUFFICES ASSUME BootInit PROVE PoolInv
    OBVIOUS
  <1>1. /\ tables = [t \in {} |-> EmptyTable] /\ status = "off" /\ limit \in Limits
        /\ bank = (IF limit = 0 THEN 0 ELSE limit - Behind)
        /\ mark = 0 /\ frame = <<>> /\ cleared = <<>>
    BY DEF BootInit, ElfInit, Init
  <1>2. Used = 0 /\ DOMAIN tables = {}
    BY <1>1, FS_EmptySet DEF Used
  <1>3. Behind \in Nat /\ limit \in Nat /\ (limit = 0 \/ limit > Behind)
    BY <1>1, PoolAssumption, PagerAssumption, LimitsAssumption, Division DEF Behind
  <1>4. /\ bank \in Nat /\ (bank = 0 => limit = 0)
        /\ bank # 0 => Behind + bank = limit /\ mark + limit = Used + Behind + bank
    BY <1>1, <1>2, <1>3
  <1>5. tables = [t \in DOMAIN tables |-> tables[t]]
    BY <1>1
  <1>6. frame \in Seq(Nat) /\ Len(frame) = 0 /\ DOMAIN cleared = {} /\ 1..0 = {}
    BY <1>1
  <1> QED
    BY <1>1, <1>2, <1>4, <1>5, <1>6 DEF PoolInv

\* A step that takes nothing of the bank.
LEMMA PoolStays ==
  ASSUME PoolInv, UNCHANGED <<bank, mark, frame, cleared, file, limit>>,
         DOMAIN tables' = DOMAIN tables, tables' = [t \in DOMAIN tables' |-> tables'[t]],
         status' = status \/ {status, status'} \cap {"off", "hung"} = {}
  PROVE  PoolInv'
  <1>1. Used' = Used
    BY DEF Used
  <1>2. \A i : PagesAt(file, cleared, i)' = PagesAt(file, cleared, i)
    BY DEF PagesAt
  <1>3. /\ status' \in {"off", "hung"} => mark' = 0
        /\ bank' = 0 => status' \in {"off", "hung"} /\ limit' = 0
    BY DEF PoolInv
  <1> QED
    BY <1>1, <1>2, <1>3 DEF PoolInv

\* A page more on both sides of the account of the pool.
LEMMA AccountGrows ==
  ASSUME NEW m \in Nat, NEW l \in Nat, NEW u \in Nat, NEW b \in Nat, NEW k \in Nat,
         m + l = u + b + k
  PROVE  (m + 1) + l = (u + 1) + b + k
  OBVIOUS

\* and the page before the next one is the last one.
LEMMA AndBack ==
  ASSUME NEW m \in Nat
  PROVE  m + 1 \in Nat /\ (m + 1) - 1 = m
  OBVIOUS

\* A page more, for a table: the first one, or one that the walk needs.
LEMMA PoolGrows ==
  ASSUME PoolInv, UNCHANGED <<bank, cleared, file, limit>>, bank # 0,
         status' \notin {"off", "hung"}, Used \in Nat, Used' = Used + 1,
         mark' = mark + 1, frame' = Append(frame, mark),
         tables' = [t \in DOMAIN tables' |-> tables'[t]], limit \in Nat
  PROVE  PoolInv'
  <1>1. /\ mark \in Nat /\ bank \in Nat /\ Behind + bank \in Limits
        /\ mark + limit = Used + Behind + bank
        /\ frame \in Seq(Nat) /\ Len(frame) = Used
        /\ \A t \in 1..Used : frame[t] < mark /\ \A u \in 1..Used : frame[u] = frame[t] => u = t
    BY DEF PoolInv
  <1>2. Behind \in Nat
    BY PoolAssumption, PagerAssumption, Division DEF Behind
  <1>3. /\ frame' \in Seq(Nat) /\ Len(frame') = Used + 1 /\ frame'[Used + 1] = mark
        /\ \A t \in 1..Used : frame'[t] = frame[t] /\ frame[t] \in Nat
    BY <1>1
  <1>4. \A t \in 1..(Used + 1) : t \in 1..Used \/ t = Used + 1
    OBVIOUS
  <1>5. \A t \in 1..Used' :
          frame'[t] < mark' /\ \A u \in 1..Used' : frame'[u] = frame'[t] => u = t
    BY <1>1, <1>3, <1>4
  <1>10. mark' = mark + 1 /\ limit' = limit /\ Used' = Used + 1 /\ bank' = bank
    OBVIOUS
  <1>6. mark' + limit' = Used' + Behind + bank'
    BY <1>1, <1>2, <1>10, AccountGrows
  <1>7. \A i : PagesAt(file, cleared, i)' = PagesAt(file, cleared, i)
    BY DEF PagesAt
  <1>8. \A i \in DOMAIN cleared :
          /\ PagesAt(file, cleared, i) \subseteq 0..mark
          /\ \A t \in 1..Used' : frame'[t] \notin PagesAt(file, cleared, i)
    <2> SUFFICES ASSUME NEW i \in DOMAIN cleared
                 PROVE  /\ PagesAt(file, cleared, i) \subseteq 0..mark
                        /\ \A t \in 1..Used' : frame'[t] \notin PagesAt(file, cleared, i)
      OBVIOUS
    <2> DEFINE P == PagesAt(file, cleared, i)
    <2>1. P \subseteq 0..(mark - 1) /\ \A t \in 1..Used : frame[t] \notin P
      BY DEF PoolInv
    <2> HIDE DEF P
    <2>2. P \subseteq 0..mark /\ mark \notin P
      BY <1>1, <2>1
    <2>3. \A t \in 1..Used' : frame'[t] \notin P
      BY <1>3, <1>4, <2>1, <2>2
    <2> QED
      BY <2>2, <2>3 DEF P
  <1>9. mark' \in Nat /\ mark' - 1 = mark
    <2>1. mark \in Nat /\ mark' = mark + 1
      BY <1>1, <1>10
    <2> QED
      BY <2>1, AndBack
  <1> QED
    BY <1>1, <1>3, <1>5, <1>6, <1>7, <1>8, <1>9 DEF PoolInv

\* So pager_map() takes pages for its tables and nothing else,
LEMMA PoolMaps ==
  ASSUME TypeInv, PoolInv, MapPages, ~ rebased', result = 0
  PROVE  PoolInv'
  <1>1. /\ UNCHANGED <<limit, file, cleared, bank>> /\ status = "mapping"
        /\ status' \in {"idle", "mapping", "wild"}
        /\ \/ (Round \/ Enter \/ MapPage \/ Return) /\ UNCHANGED elf_vars
           \/ NewTable
    BY MapIs
  <1>2. CASE (Round \/ Enter \/ Return) /\ UNCHANGED elf_vars
    <2>1. UNCHANGED tables
      BY <1>2 DEF Round, Enter, Return
    <2>2. tables = [t \in DOMAIN tables |-> tables[t]]
      BY DEF PoolInv
    <2> QED
      BY <1>1, <1>2, <2>1, <2>2, Idle, PoolStays
  <1>3. CASE MapPage /\ UNCHANGED elf_vars
    <2>1. /\ DOMAIN tables' = DOMAIN tables /\ tables' = [t \in DOMAIN tables' |-> tables'[t]]
      BY <1>3 DEF MapPage
    <2> QED
      BY <1>1, <1>3, <2>1, Idle, PoolStays
  <1>4. CASE NewTable
    <2>1. MakeTable /\ mark' = mark + 1 /\ frame' = Append(frame, mark)
      BY <1>4 DEF NewTable
    <2>2. /\ Used' = Used + 1 /\ Used \in Nat /\ limit \in Nat
      BY <2>1, MakeTableTypes DEF TypeInv
    <2>3. tables' = [t \in DOMAIN tables' |-> tables'[t]]
      <3> DEFINE us == AddTable(tables)
                 e  == TableAt(Used + 1, GetEntryBits(level, leaf, todo.attributes, features))
      <3>1. tables' = [us EXCEPT ![table][Index(level, todo.virtual)] = e]
        BY <2>1 DEF MakeTable
      <3> HIDE DEF us, e
      <3> QED
        BY <3>1
    <2>4. bank # 0
      BY <1>1 DEF PoolInv
    <2> QED
      BY <1>1, <2>1, <2>2, <2>3, <2>4, PoolGrows
  <1> QED
    BY <1>1, <1>2, <1>3, <1>4

\* and every step of the boot takes each page at most once.
LEMMA PoolStepKeeps ==
  ASSUME BootInv, PoolInv, [BootNext]_bootvars, ~ rebased'
  PROVE  PoolInv'
  <1>1. /\ TypeInv /\ LoaderInv /\ result = 0
        /\ tables = [t \in DOMAIN tables |-> tables[t]]
    BY DEF BootInv, LoaderInv, PoolInv
  <1>2. ASSUME UNCHANGED <<bank, mark, frame, cleared, file, limit, tables>>,
               status' = status \/ {status, status'} \cap {"off", "hung"} = {}
        PROVE  PoolInv'
    BY <1>1, <1>2, PoolStays
  <1>3. CASE Before
    BY <1>2, <1>3, BeforeIs, Idle
  <1>4. CASE After
    BY <1>2, <1>4, AfterIs, Idle
  <1>5. CASE CreateTables
    <2>1. /\ stage = "tables" /\ Create /\ UNCHANGED loading
          /\ limit = 0 => UNCHANGED pool
          /\ limit # 0 => mark' = 1 /\ frame' = <<0>> /\ UNCHANGED <<bank, rebased>>
      BY <1>5 DEF CreateTables
    <2>2. UNCHANGED <<file, cleared>>
      BY <2>1, Idle
    <2>3. /\ status = "off" /\ limit' = limit /\ limit \in Nat
          /\ limit > 0 => tables' = AddTable(tables) /\ status' = "idle"
          /\ limit = 0 => status' = "hung" /\ UNCHANGED tables
      BY <1>1, <2>1 DEF Create, config, TypeInv
    <2>4. mark = 0
      BY <2>3 DEF PoolInv
    <2>5. tables = [t \in {} |-> EmptyTable] /\ Used = 0 /\ DOMAIN tables = {}
      BY <1>1, <2>3, FS_EmptySet DEF TypeInv, Used
    <2>6. CASE limit = 0
      <3>1. bank = 0 \/ bank # 0
        OBVIOUS
      <3>2. Used' = Used /\ UNCHANGED <<bank, mark, frame, limit, file, cleared>>
        BY <2>1, <2>2, <2>3, <2>6, Idle DEF Used
      <3>3. \A i : PagesAt(file, cleared, i)' = PagesAt(file, cleared, i)
        BY <2>2 DEF PagesAt
      <3> QED
        BY <2>3, <2>6, <3>2, <3>3 DEF PoolInv
    <2>7. CASE limit # 0
      <3>1. DOMAIN tables' = {1} /\ tables' = [t \in DOMAIN tables' |-> tables'[t]]
        BY <2>3, <2>5, <2>7 DEF AddTable
      <3>2. Used' = 1
        BY <3>1, FS_Singleton DEF Used
      <3>3. bank # 0
        BY <2>7 DEF PoolInv
      <3>4. frame' = Append(frame, mark)
        <4>1. frame \in Seq(Nat) /\ Len(frame) = 0
          BY <2>5 DEF PoolInv
        <4>2. frame = <<>>
          BY <4>1
        <4> QED
          BY <2>1, <2>4, <2>7, <4>2
      <3> QED
        BY <2>1, <2>2, <2>3, <2>4, <2>5, <2>7, <3>1, <3>2, <3>3, <3>4, PoolGrows
    <2> QED
      BY <2>6, <2>7
  <1>6. CASE MapHhdm \/ MapImage
    <2>1. /\ UNCHANGED elf_vars /\ limit' = limit /\ UNCHANGED tables
          /\ status = "idle" /\ status' = "mapping"
      BY <1>6 DEF MapHhdm, MapImage, Call, Ask
    <2> QED
      BY <1>2, <2>1, Idle
  <1>7. CASE Mapping
    BY <1>1, <1>7, PoolMaps DEF Mapping
  <1>8. CASE Mapped
    <2>1. UNCHANGED <<file, cleared, pool, vars>>
      BY <1>8 DEF Mapped
    <2> QED
      BY <1>2, <2>1, Idle
  <1>9. CASE Loading
    <2>1. stage = "elf" /\ UNCHANGED own /\ LoadElf
      BY <1>9 DEF Loading
    <2>2. CASE Load64 \/ LoadOther \/ SkipSection \/ MappedSection \/ ReturnEntry
      <3>1. UNCHANGED <<file, cleared, pool, vars>>
        BY <2>2 DEF Load64, LoadOther, SkipSection, MappedSection, ReturnEntry
      <3> QED
        BY <1>2, <3>1, Idle
    <2>3. CASE MapSection \/ MapCleared
      <3>1. /\ UNCHANGED <<file, cleared, pool>> /\ limit' = limit /\ UNCHANGED tables
            /\ status = "idle" /\ status' = "mapping"
        BY <2>3 DEF MapSection, MapCleared, Call, Ask
      <3> QED
        BY <1>2, <3>1, Idle
    <2>4. CASE ClearSection
      BY <2>1, <2>4, SectionCleared
    <2>5. CASE loader = "mapping" /\ MapPages
      BY <1>1, <2>5, PoolMaps
    <2> QED
      BY <2>1, <2>2, <2>3, <2>4, <2>5 DEF LoadElf
  <1>10. CASE UNCHANGED bootvars
    <2>1. UNCHANGED <<elf_vars, vars>>
      BY <1>10 DEF bootvars
    <2> QED
      BY <1>2, <2>1, Idle
  <1> QED
    BY <1>3, <1>4, <1>5, <1>6, <1>7, <1>8, <1>9, <1>10 DEF BootNext, Before, After

\* Every step, whoever takes it, as long as the bank is not begun again.
LEMMA BootStepKeeps ==
  ASSUME BootInv, PoolInv, [BootNext]_bootvars, ~ rebased'
  PROVE  BootInv'
  <1>1. CASE Before \/ After
    BY <1>1, AloneKeeps
  <1>2. CASE CreateTables
    BY <1>2, CreateTablesKeeps
  <1>3. CASE MapHhdm \/ MapImage
    BY <1>3, OwnCallKeeps
  <1>4. CASE Mapping
    BY <1>4, MappingKeeps
  <1>5. CASE Mapped
    BY <1>5, MappedKeeps
  <1>6. CASE Loading
    BY <1>6, LoadingKeeps
  <1>7. CASE UNCHANGED bootvars
    <2>1. UNCHANGED <<own, elf_vars, vars>>
      BY <1>7 DEF bootvars
    <2>2. UNCHANGED <<stage, cpu, grub, pat, gdt, regs, meta, reserved, kernel_entry>>
      BY <2>1, Idle
    <2>3. UNCHANGED <<file, data, loader, section, cleared, lost, elf_entry, mark>>
      BY <2>1, Idle
    <2>4. UNCHANGED <<tables, limit, asked, request, served, result, status>>
      BY <2>1, Idle
    <2>5. TypeInv'
      BY <2>1, StutterTypes DEF BootInv
    <2>6. MachineInv'
      BY <2>2, <2>3, <2>4 DEF BootInv, MachineInv
    <2>7. LoaderInv'
      BY <2>2, <2>3, <2>4 DEF BootInv, LoaderInv, TriedAs
    <2>8. AskedInv'
      BY <2>2, <2>3, <2>4 DEF BootInv, AskedInv
    <2> QED
      BY <2>5, <2>6, <2>7, <2>8 DEF BootInv
  <1> QED
    BY <1>1, <1>2, <1>3, <1>4, <1>5, <1>6, <1>7 DEF BootNext, Before, After

\* What begins a bank again has begun it for good.
LEMMA NeverBack ==
  ASSUME rebased, [BootNext]_bootvars
  PROVE  rebased'
  <1>1. UNCHANGED pool \/ UNCHANGED elf_vars => rebased'
    BY Idle
  <1>2. CASE Before \/ After
    <2>1. UNCHANGED elf_vars
      BY <1>2 DEF Before, After, InitUart, CheckSignature, CheckCpuid, Parse, FirstUpdate,
                  InitArch, SetKernelEntry, HandOff, Switch, EnablePae, LoadCr3, EnableLme,
                  EnablePaging, FarJump, SetReg, Station
    <2> QED
      BY <1>1, <2>1
  <1>3. CASE CreateTables
    BY <1>1, <1>3 DEF CreateTables
  <1>4. CASE MapHhdm \/ MapImage \/ Mapped
    BY <1>1, <1>4 DEF MapHhdm, MapImage, Mapped
  <1>5. ASSUME MapPages PROVE rebased'
    BY <1>1, <1>5 DEF MapPages, NewTable, OldTable, NoTable, Take
  <1>6. CASE Mapping
    BY <1>5, <1>6 DEF Mapping
  <1>7. CASE Loading
    BY <1>1, <1>5, <1>7 DEF Loading, LoadElf, Load64, LoadOther, SkipSection, MapSection,
                       ClearSection, MapCleared, MappedSection, ReturnEntry, Take
  <1>8. CASE UNCHANGED bootvars
    BY <1>1, <1>8 DEF bootvars
  <1> QED
    BY <1>2, <1>3, <1>4, <1>6, <1>7, <1>8 DEF BootNext, Before, After

\* Whatever GRUB hands over, and until alloc() begins its bank again: the stages
\* follow each other, the requests made are those of bsp() and load_elf(), in
\* order, none of them fails, and no page of the bank is handed out twice.
THEOREM BootInOrder == BootSpec => [](~ rebased => BootInv /\ PoolInv)
  <1>1. BootInit => (~ rebased => BootInv /\ PoolInv)
    BY BootStarts, PoolStarts
  <1>2. (~ rebased => BootInv /\ PoolInv) /\ [BootNext]_bootvars
          => (~ rebased => BootInv /\ PoolInv)'
    <2> SUFFICES ASSUME ~ rebased => BootInv /\ PoolInv, [BootNext]_bootvars, ~ rebased'
                 PROVE  BootInv' /\ PoolInv'
      OBVIOUS
    <2>1. BootInv /\ PoolInv
      BY NeverBack
    <2> QED
      BY <2>1, BootStepKeeps, PoolStepKeeps
  <1> QED
    BY <1>1, <1>2, PTL DEF BootSpec

\* What holds of the boot even when the bank was begun again.
TypesInv ==
  /\ stage \in Unparsed \cup Parsed \cup Direct \cup FromElf \cup {"hung", "wild"}
  /\ file \in Files /\ features \in SUBSET {"gib", "nx"}
  /\ loader \in {"ready", "section", "cleared", "mapping", "returned"}
  /\ section \in 0..(Len(file.sections) + 1) /\ (loader = "section" => section # 0)
  /\ loader \in {"cleared", "mapping"} => section \in LoadedOf(file)
  /\ DOMAIN cleared \cup lost \subseteq LoadedOf(file)
  /\ mark \in Nat /\ bank \in Nat /\ rebased \in BOOLEAN
  /\ reserved = IF stage \in Switching \ {"handoff"} THEN mark ELSE 0

\* pager_map() takes pages of the bank, no more.
LEMMA TypesMap ==
  ASSUME TypesInv, MapPages, stage \notin Switching, UNCHANGED own
  PROVE  TypesInv'
  <1>1. UNCHANGED <<stage, reserved>>
    BY Idle
  <1>2. UNCHANGED features
    BY DEF MapPages, Round, Enter, MapPage, Return, NewTable, MakeTable, OldTable, NoTable,
           GiveUp, config
  <1>3. /\ UNCHANGED <<file, loader, section, cleared, lost, bank>>
        /\ mark' \in Nat /\ rebased' \in BOOLEAN
    <2>0. mark \in Nat /\ rebased \in BOOLEAN
      BY DEF TypesInv
    <2>1. CASE (Round \/ Enter \/ MapPage \/ Return) /\ UNCHANGED elf_vars
      BY <2>0, <2>1, Idle
    <2>2. CASE NewTable
      BY <2>0, <2>2, Idle DEF NewTable
    <2>3. CASE OldTable
      <3>1. UNCHANGED loading /\ UNCHANGED bank /\ Take(1)
        BY <2>3 DEF OldTable
      <3>2. Offered(1) \in Nat
        BY <2>0 DEF Offered
      <3>3. mark' \in Nat
        BY <3>1, <3>2 DEF Take
      <3>4. rebased' \in BOOLEAN
        BY <2>0, <3>1 DEF Take
      <3> QED
        BY <3>1, <3>3, <3>4, Idle
    <2>4. CASE NoTable
      BY <2>0, <2>4, Idle DEF NoTable
    <2> QED
      BY <2>1, <2>2, <2>3, <2>4 DEF MapPages
  <1> QED
    BY <1>1, <1>2, <1>3 DEF TypesInv

\* Nor does load_elf() look at a section that the file does not have.
LEMMA TypesLoad ==
  ASSUME TypesInv, Loading
  PROVE  TypesInv'
  <1>1. stage = "elf" /\ UNCHANGED own /\ LoadElf /\ stage \notin Switching
    BY DEF Loading, Switching
  <1>2. UNCHANGED <<stage, reserved>>
    BY <1>1, Idle
  <1>3. /\ file \in Files /\ Len(file.sections) \in Nat
        /\ DOMAIN file.sections = 1..Len(file.sections)
        /\ section \in 0..(Len(file.sections) + 1) /\ section \in Nat
        /\ \A i \in LoadedOf(file) : i \in 1..Len(file.sections)
        /\ \A i \in DOMAIN file.sections : i \in LoadedOf(file) <=> ~ Skipped(file.sections[i])
        /\ mark \in Nat /\ bank \in Nat /\ rebased \in BOOLEAN
    BY FileIs DEF TypesInv
  <1>4. ASSUME UNCHANGED <<file, bank, features>>, mark' \in Nat, rebased' \in BOOLEAN,
               loader' \in {"ready", "section", "cleared", "mapping", "returned"},
               section' \in 0..(Len(file.sections) + 1), loader' = "section" => section' # 0,
               loader' \in {"cleared", "mapping"} => section' \in LoadedOf(file),
               DOMAIN cleared' \cup lost' \subseteq LoadedOf(file)
        PROVE  TypesInv'
    BY <1>1, <1>2, <1>4 DEF TypesInv
  <1>5. ASSUME NEW f, UNCHANGED pool, UNCHANGED vars
        PROVE  mark' \in Nat /\ rebased' \in BOOLEAN /\ UNCHANGED <<bank, features>>
    BY <1>3, <1>5, Idle
  <1>6. More /\ ~ Skipped(Cur) => section \in LoadedOf(file)
    BY <1>3 DEF More, Cur, TypesInv
  <1>7. CASE Load64
    <2>1. /\ loader' = "section" /\ section' = 1
          /\ UNCHANGED <<file, cleared, lost>> /\ UNCHANGED pool /\ UNCHANGED vars
      BY <1>7 DEF Load64
    <2> QED
      BY <1>3, <1>4, <1>5, <2>1 DEF TypesInv
  <1>8. CASE LoadOther
    <2>1. /\ loader' = "returned"
          /\ UNCHANGED <<file, section, cleared, lost>> /\ UNCHANGED pool /\ UNCHANGED vars
      BY <1>8 DEF LoadOther
    <2> QED
      BY <1>3, <1>4, <1>5, <2>1 DEF TypesInv
  <1>9. CASE SkipSection
    <2>1. /\ loader' = loader /\ loader = "section" /\ section <= Len(file.sections)
          /\ section' = section + 1
          /\ UNCHANGED <<file, cleared, lost>> /\ UNCHANGED pool /\ UNCHANGED vars
      BY <1>9 DEF SkipSection, More
    <2>2. section' \in 0..(Len(file.sections) + 1) /\ section' # 0
      BY <1>3, <2>1
    <2> QED
      BY <1>3, <1>4, <1>5, <2>1, <2>2 DEF TypesInv
  <1>10. CASE MapSection \/ MapCleared
    <2>1. /\ loader' = "mapping" /\ section \in LoadedOf(file)
          /\ UNCHANGED <<file, section, cleared, lost>> /\ UNCHANGED pool /\ UNCHANGED features
      BY <1>6, <1>10 DEF MapSection, MapCleared, Call, Ask, TypesInv
    <2> QED
      BY <1>3, <1>4, <2>1, Idle DEF TypesInv
  <1>11. CASE ClearSection
    <2> DEFINE n == LoadSize(Cur) \div PAGE
    <2>1. /\ loader' = "cleared" /\ section \in LoadedOf(file)
          /\ UNCHANGED <<file, section, lost, bank, features>>
          /\ DOMAIN cleared' = DOMAIN cleared \cup {section}
          /\ UNCHANGED <<mark, rebased>> \/ Take(n)
      BY <1>6, <1>11 DEF ClearSection
    <2>2. n \in Nat
      <3>1. Cur \in Section
        BY <1>3, <2>1, FileIs DEF Cur
      <3> QED
        BY <3>1, SizesOf
    <2> HIDE DEF n
    <2>3. mark' \in Nat
      <3>1. Offered(n) \in Nat
        BY <1>3 DEF Offered
      <3> QED
        BY <1>3, <2>1, <2>2, <3>1 DEF Take
    <2>4. rebased' \in BOOLEAN
      BY <1>3, <2>1 DEF Take
    <2> QED
      BY <1>3, <1>4, <2>1, <2>3, <2>4 DEF TypesInv
  <1>12. CASE loader = "mapping" /\ MapPages
    BY <1>1, <1>12, TypesMap
  <1>13. CASE MappedSection
    <2>1. /\ loader' = "section" /\ section' = section + 1 /\ section \in LoadedOf(file)
          /\ lost' \subseteq lost \cup {section}
          /\ UNCHANGED <<file, cleared>> /\ UNCHANGED pool /\ UNCHANGED vars
      BY <1>13 DEF MappedSection, TypesInv
    <2>2. section' \in 0..(Len(file.sections) + 1) /\ section' # 0
      BY <1>3, <2>1
    <2> QED
      BY <1>3, <1>4, <1>5, <2>1, <2>2 DEF TypesInv
  <1>14. CASE ReturnEntry
    <2>1. /\ loader' = "returned"
          /\ UNCHANGED <<file, section, cleared, lost>> /\ UNCHANGED pool /\ UNCHANGED vars
      BY <1>14 DEF ReturnEntry
    <2> QED
      BY <1>3, <1>4, <1>5, <2>1 DEF TypesInv
  <1> QED
    BY <1>1, <1>7, <1>8, <1>9, <1>10, <1>11, <1>12, <1>13, <1>14 DEF LoadElf

\* Every step of bsp() and of the processor.
LEMMA TypesStepKeeps ==
  ASSUME TypesInv, [BootNext]_bootvars
  PROVE  TypesInv'
  <1>1. /\ mark \in Nat /\ rebased \in BOOLEAN
        /\ stage \in Unparsed \cup Parsed \cup Direct \cup FromElf \cup {"hung", "wild"}
    BY DEF TypesInv
  <1>2. ASSUME UNCHANGED <<file, loader, section, cleared, lost, bank>>,
               features' \in SUBSET {"gib", "nx"}, mark' \in Nat, rebased' \in BOOLEAN,
               stage' \in Unparsed \cup Parsed \cup Direct \cup FromElf \cup {"hung", "wild"},
               reserved' = IF stage' \in Switching \ {"handoff"} THEN mark' ELSE 0
        PROVE  TypesInv'
    BY <1>2 DEF TypesInv
  <1>3. ASSUME UNCHANGED elf_vars, UNCHANGED reserved,
               features' \in SUBSET {"gib", "nx"},
               stage' \in Unparsed \cup Parsed \cup Direct \cup FromElf \cup {"hung", "wild"},
               stage' \in Switching \ {"handoff"} <=> stage \in Switching \ {"handoff"}
        PROVE  TypesInv'
    <2>1. reserved = IF stage \in Switching \ {"handoff"} THEN mark ELSE 0
      BY DEF TypesInv
    <2> QED
      BY <1>1, <1>2, <1>3, <2>1, Idle
  <1>4. features \in SUBSET {"gib", "nx"}
    BY DEF TypesInv
  <1>5. CASE InitUart \/ CheckSignature \/ Parse \/ FirstUpdate \/ InitArch \/ MapHhdm \/ MapImage
             \/ SetKernelEntry
    <2>1. UNCHANGED <<reserved, elf_vars, features>>
      BY <1>5, Idle DEF InitUart, CheckSignature, Parse, FirstUpdate, InitArch, MapHhdm, MapImage,
                  SetKernelEntry, Call, Ask
    <2>2. /\ stage \in {"uart", "signature", "parse", "mmap", "arch", "map_hhdm", "map_image", "elf"}
          /\ stage' \in {"signature", "cpuid", "hung", "mmap", "arch", "tables", "hhdm", "image",
                         "handoff"}
      BY <1>5 DEF InitUart, CheckSignature, Parse, FirstUpdate, InitArch, MapHhdm, MapImage,
                  SetKernelEntry, Becomes
    <2> QED
      BY <1>3, <1>4, <2>1, <2>2 DEF Unparsed, Parsed, Direct, FromElf, Switching
  <1>6. CASE CheckCpuid
    <2>1. /\ UNCHANGED <<reserved, elf_vars>> /\ features' \in SUBSET {"gib", "nx"}
          /\ stage = "cpuid" /\ stage' \in {"parse", "hung"}
      BY <1>4, <1>6 DEF CheckCpuid, Becomes, If
    <2> QED
      BY <1>3, <2>1 DEF Unparsed, Parsed, Direct, FromElf, Switching
  <1>7. CASE CreateTables
    <2>1. /\ UNCHANGED OwnRest /\ UNCHANGED loading /\ UNCHANGED features
          /\ stage = "tables" /\ stage' \in {"hung", "wild", "map_hhdm"}
          /\ UNCHANGED pool \/ (mark' = 1 /\ UNCHANGED <<bank, rebased>>)
      BY <1>7 DEF CreateTables, Create, Becomes, config
    <2>2. /\ UNCHANGED <<file, loader, section, cleared, lost, bank, rebased, reserved>>
          /\ mark' = mark \/ mark' = 1
      BY <2>1, Idle
    <2>3. reserved = 0
      BY <2>1 DEF TypesInv, Switching
    <2> QED
      BY <1>1, <1>2, <1>4, <2>1, <2>2, <2>3 DEF Unparsed, Parsed, Direct, FromElf, Switching
  <1>8. CASE Mapping
    BY <1>8, TypesMap DEF Mapping, Switching
  <1>9. CASE Mapped
    <2>1. /\ UNCHANGED OwnRest /\ UNCHANGED <<file, loader, section, cleared, lost>>
          /\ UNCHANGED pool /\ UNCHANGED vars
          /\ stage \in {"hhdm", "image"} /\ stage' \in {"map_image", "elf", "hung"}
      BY <1>9 DEF Mapped, OrHang, Becomes
    <2>2. UNCHANGED <<bank, mark, rebased, features, reserved>>
      BY <2>1, Idle
    <2>3. reserved = 0
      BY <2>1 DEF TypesInv, Switching
    <2> QED
      BY <1>1, <1>2, <1>4, <2>1, <2>2, <2>3 DEF Unparsed, Parsed, Direct, FromElf, Switching
  <1>10. CASE Loading
    BY <1>10, TypesLoad
  <1>11. CASE HandOff
    <2>1. /\ UNCHANGED elf_vars /\ UNCHANGED vars /\ stage' = "pae" /\ reserved' = mark
      BY <1>11 DEF HandOff, Becomes
    <2>2. UNCHANGED <<file, loader, section, cleared, lost, bank, mark, rebased, features>>
      BY <2>1, Idle
    <2> QED
      BY <1>1, <1>2, <1>4, <2>1, <2>2 DEF Unparsed, Parsed, Direct, FromElf, Switching
  <1>12. CASE Switch
    <2>1. /\ UNCHANGED <<elf_vars, vars, reserved>>
          /\ stage \in Switching \ {"handoff"} /\ stage' \in Switching \ {"handoff"}
      <3>1. CASE EnablePae \/ LoadCr3 \/ EnableLme
        BY <3>1 DEF EnablePae, LoadCr3, EnableLme, SetReg, Becomes, Switching
      <3>2. CASE EnablePaging
        BY <3>2 DEF EnablePaging, SetReg, Becomes, Switching
      <3>3. CASE FarJump
        BY <3>3 DEF FarJump, SetReg, Becomes, Switching
      <3>4. CASE Station
        BY <3>4, Idle DEF Station, Becomes, Switching
      <3> QED
        BY <1>12, <3>1, <3>2, <3>3, <3>4 DEF Switch
    <2>2. stage' \in Unparsed \cup Parsed \cup Direct \cup FromElf \cup {"hung", "wild"}
      BY <2>1 DEF FromElf
    <2> QED
      BY <1>3, <1>4, <2>1, <2>2, Idle
  <1>13. CASE UNCHANGED bootvars
    <2>1. UNCHANGED <<own, elf_vars, vars>>
      BY <1>13 DEF bootvars
    <2>2. UNCHANGED <<stage, reserved, features>>
      BY <2>1, Idle
    <2> QED
      BY <1>1, <1>3, <1>4, <2>1, <2>2
  <1> QED
    BY <1>5, <1>6, <1>7, <1>8, <1>9, <1>10, <1>11, <1>12, <1>13 DEF BootNext

\* Until it begins its bank again, alloc() lets the mark run beyond the bank by what
\* lies below the bank, never further.  Always, the loader looks at no section that
\* the file does not have, what it cleared or failed to map are sections that are
\* loaded, and the map is marked as far as the mark, once.
THEOREM BootTypesHold == BootSpec => []BootTypeOK
  <1>1. BootInit => TypesInv
    <2> SUFFICES ASSUME BootInit PROVE TypesInv
      OBVIOUS
    <2>1. /\ stage = "uart" /\ file \in Files /\ loader = "ready" /\ section = 0
          /\ cleared = <<>> /\ lost = {} /\ features = {} /\ reserved = 0
          /\ mark = 0 /\ rebased = FALSE
      BY DEF BootInit, ElfInit
    <2>2. bank \in Nat
      BY PoolStarts DEF PoolInv
    <2>3. Len(file.sections) \in Nat
      BY <2>1, FileIs
    <2>7. \A n \in Nat : 0 \in 0..(n + 1)
      OBVIOUS
    <2>8. Len(file.sections) \in Nat => section \in 0..(Len(file.sections) + 1)
      BY <2>1, <2>7
    <2>4. section \in 0..(Len(file.sections) + 1) /\ rebased \in BOOLEAN /\ mark \in Nat
      BY <2>1, <2>3, <2>8
    <2>5. stage \in Unparsed /\ stage \notin Switching
      BY <2>1 DEF Unparsed, Switching
    <2>6. DOMAIN cleared = {}
      BY <2>1
    <2> QED
      BY <2>1, <2>2, <2>4, <2>5, <2>6 DEF TypesInv
  <1>2. ASSUME TypesInv, ~ rebased => BootInv /\ PoolInv PROVE BootTypeOK
    <2>1. stage \in {"uart", "signature", "cpuid", "parse", "mmap", "arch", "tables",
                     "map_hhdm", "hhdm", "map_image", "image", "elf", "handoff",
                     "pae", "cr3", "lme", "pg", "far_jump", "station",
                     "kernel", "hung", "wild", "fault", "lost"}
      BY <1>2 DEF TypesInv, Unparsed, Parsed, Direct, FromElf, Switching
    <2>2. Loaded = LoadedOf(file)
      BY DEF Loaded, LoadedOf
    <2>3. rebased \/ mark <= Behind + bank
      <3> SUFFICES ASSUME ~ rebased PROVE mark <= Behind + bank
        OBVIOUS
      <3>1. BootInv /\ PoolInv
        BY <1>2
      <3>2. Used \in Nat /\ limit \in Nat /\ Used <= limit /\ DOMAIN tables = 1..Used
        BY <3>1 DEF BootInv, TypeInv, TablesOK
      <3>3. Behind \in Nat /\ bank \in Nat /\ mark \in Nat
        BY <1>2, PoolAssumption, PagerAssumption, Division DEF Behind, TypesInv
      <3>4. CASE bank = 0
        <4>1. status \in {"off", "hung"} /\ mark = 0
          BY <3>1, <3>4 DEF PoolInv
        <4> QED
          BY <3>3, <4>1
      <3>5. CASE bank # 0
        <4>1. mark + limit = Used + Behind + bank
          BY <3>1, <3>5 DEF PoolInv
        <4> QED
          BY <3>2, <3>3, <4>1
      <3> QED
        BY <3>4, <3>5
    <2>4. reserved \in {0, mark}
      BY <1>2 DEF TypesInv
    <2> QED
      BY <1>2, <2>1, <2>2, <2>3, <2>4 DEF BootTypeOK, TypesInv
  <1> QED
    BY <1>1, <1>2, TypesStepKeeps, BootInOrder, PTL DEF BootSpec

\* Each table and each cleared section has pages of its own within the bank, and the
\* map that the kernel gets marks every one of them, when alloc() had the memory.
THEOREM PagesAreReserved == BootSpec => []PagesReserved
  <1>1. ASSUME ~ rebased => BootInv /\ PoolInv PROVE PagesReserved
    <2> SUFFICES ASSUME Entered, Fits PROVE PagesReserved
      BY DEF PagesReserved
    <2>1. BootInv /\ PoolInv /\ mark <= bank
      BY <1>1 DEF Fits
    <2>2. reserved = mark
      BY <2>1 DEF BootInv, MachineInv, Entered, Switching
    <2>3. DOMAIN tables = 1..Used
      BY <2>1 DEF BootInv, TypeInv, TablesOK
    <2>4. \A i \in DOMAIN cleared : PagesOf(i) = PagesAt(file, cleared, i)
      BY DEF PagesOf, PagesAt
    <2>5. \A t \in 1..Used : frame[t] \in 0..(mark - 1)
      <3>1. frame \in Seq(Nat) /\ Len(frame) = Used /\ mark \in Nat
        BY <2>1 DEF PoolInv
      <3>2. \A t \in 1..Used : frame[t] \in Nat /\ frame[t] < mark
        BY <2>1, <3>1 DEF PoolInv
      <3> QED
        BY <3>1, <3>2
    <2> QED
      BY <2>1, <2>2, <2>3, <2>4, <2>5 DEF PagesReserved, PoolInv
  <1> QED
    BY <1>1, BootInOrder, PTL

-----------------------------------------------------------------------------
(* Requests in order                                                       *)

\* InOrder is this of each request, and of each two.
Proper(r) ==
  /\ First(r) + r.size <= SPACE /\ r.physical + r.size < SPACE
  /\ r.size % PAGE = 0 /\ Plain(r.attributes)
  /\ \A l \in {2, 3} :
       ~ r.attributes.only4k /\ r.size >= Covers(l) =>
         r.virtual % Covers(l) = 0 /\ r.physical % Covers(l) = 0
FarFrom(r, s) == First(r) + r.size <= First(s) \/ First(s) + s.size <= First(r)

\* Requests that are proper and apart can be made in any order.
LEMMA InOrderIs ==
  ASSUME NEW as, \A r \in as : Proper(r), \A r \in as : \A s \in as \ {r} : FarFrom(r, s)
  PROVE  InOrder(as)
  BY DEF InOrder, Proper, FarFrom

\* Two numbers whose difference is a multiple leave the same rest.
LEMMA SameRest ==
  ASSUME NEW c \in Nat \ {0}, NEW a \in Nat, NEW b \in Nat, (a - b) % c = 0
  PROVE  a % c = b % c
  <1>1. \A x, y \in Nat : x >= y /\ (x - y) % c = 0 => x % c = y % c
    <2> SUFFICES ASSUME NEW x \in Nat, NEW y \in Nat, x >= y, (x - y) % c = 0
                 PROVE  x % c = y % c
      OBVIOUS
    <2> DEFINE d == x - y
               k == d \div c
               q == y \div c
               r == y % c
    <2>1. d \in Nat /\ d % c = 0 /\ x = y + d
      OBVIOUS
    <2> HIDE DEF d
    <2>2. d = c * k /\ k \in Nat
      BY <2>1, Multiple, Division
    <2>3. q \in Nat /\ r \in 0..(c - 1) /\ y = c * q + r
      <3>1. y \div c \in Nat /\ y % c \in 0..(c - 1) /\ y % c = y - c * (y \div c)
        BY Division
      <3>2. c * (y \div c) \in Nat
        BY <3>1
      <3> QED
        BY <3>1, <3>2
    <2> HIDE DEF k, q, r
    <2>4. x = c * (q + k) + r /\ q + k \in Nat
      BY <2>1, <2>2, <2>3
    <2>5. x % c = r
      BY <2>3, <2>4, DivisionIs
    <2> QED
      BY <2>5 DEF r
  <1>2. ASSUME NEW n \in Nat, (- n) % c = 0
        PROVE  n % c = 0
    <2> DEFINE k == (- n) \div c
    <2>1. k \in Int /\ c * k <= - n /\ (- n) % c = (- n) - c * k
      OBVIOUS
    <2> HIDE DEF k
    <2>2. n = c * (- k)
      BY <1>2, <2>1
    <2>3. - k \in Nat
      <3>1. \A i \in Nat \ {0}, j \in Int : j < 0 => i * j < 0
        OBVIOUS
      <3> QED
        BY <2>1, <2>2, <3>1
    <2> QED
      BY <2>2, <2>3, Multiple
  <1>3. CASE a >= b
    BY <1>1, <1>3
  <1>4. CASE a < b
    <2>1. b - a \in Nat /\ a - b = - (b - a) /\ b >= a
      BY <1>4
    <2>2. (- (b - a)) % c = 0
      BY <2>1
    <2>3. (b - a) % c = 0
      BY <1>2, <2>1, <2>2
    <2> QED
      BY <1>1, <2>1, <2>3
  <1> QED
    BY <1>3, <1>4

\* Two starts of pages are a page apart.
LEMMA PagesApart ==
  ASSUME NEW a \in Nat, NEW b \in Nat, a % PAGE = 0, b % PAGE = 0, a < b
  PROVE  a + PAGE <= b
  <1>1. PAGE \in Nat \ {0}
    BY PagerAssumption
  <1>2. PICK j \in Nat : a = PAGE * j
    BY <1>1, Multiple, Division
  <1>3. PICK k \in Nat : b = PAGE * k
    BY <1>1, Multiple, Division
  <1>4. \A c, x, y \in Nat : c * x < c * y => c * x + c <= c * y
    <2> SUFFICES ASSUME NEW c \in Nat, NEW x \in Nat, NEW y \in Nat, c * x < c * y
                 PROVE  c * x + c <= c * y
      OBVIOUS
    <2>1. x + 1 <= y
      <3>1. y <= x => c * y <= c * x
        OBVIOUS
      <3> QED
        BY <3>1
    <2>2. c * (x + 1) <= c * y
      BY <2>1
    <2> QED
      BY <2>2
  <1> QED
    BY <1>1, <1>2, <1>3, <1>4

\* Who is above the start of a page, is on it or on one above.
LEMMA PageAbove ==
  ASSUME NEW a \in Nat, NEW m \in Nat, m % PAGE = 0, m <= a
  PROVE  m <= PageOf(a)
  <1>1. PAGE \in Nat \ {0}
    BY PagerAssumption
  <1>2. PageOf(a) \in Nat /\ PageOf(a) % PAGE = 0 /\ a < PageOf(a) + PAGE
    BY PageOfIs
  <1>3. PageOf(a) < m => PageOf(a) + PAGE <= m
    BY <1>2, PagesApart
  <1> QED
    BY <1>1, <1>2, <1>3

\* The pages that pager_map() is called for are those the section has bytes on.
LEMMA SectionPages ==
  ASSUME NEW s \in Section, s.size # 0,
         NEW p \in Nat, p % PAGE = 0, PageOf(s.addr) <= p, p < PageOf(s.addr) + LoadSize(s)
  PROVE  p \in PagesOfSection(s)
  <1>1. /\ s.addr \in Nat /\ s.size \in Nat /\ LoadSize(s) \in Nat
        /\ LoadSize(s) < s.size + PAGE /\ LoadSize(s) % PAGE = 0 /\ PAGE \in Nat \ {0}
    BY SizesOf, PagerAssumption
  <1> DEFINE f == PageOf(s.addr)
             n == LoadSize(s)
  <1>2. f \in Nat /\ f % PAGE = 0 /\ f <= s.addr /\ s.addr < f + PAGE
    BY <1>1, PageOfIs
  <1>3. n \in Nat /\ n % PAGE = 0 /\ f <= p /\ p < f + n /\ n < s.size + PAGE
    BY <1>1
  <1>4. \A a \in s.addr..(s.addr + s.size - 1) : PageOf(a) \in PagesOfSection(s)
    BY DEF PagesOfSection, PageOf
  <1> HIDE DEF f, n
  <1>5. CASE p = f
    <2>1. s.addr \in s.addr..(s.addr + s.size - 1)
      BY <1>1
    <2> QED
      BY <1>4, <1>5, <2>1 DEF f
  <1>6. CASE p # f
    <2>2. f + PAGE <= p
      BY <1>2, <1>3, <1>6, PagesApart
    <2>3. p + PAGE <= f + n
      <3>1. (f + n) % PAGE = 0
        BY <1>1, <1>2, <1>3, SumMultiple
      <3> QED
        BY <1>2, <1>3, <3>1, PagesApart
    <2>4. p \in s.addr..(s.addr + s.size - 1)
      BY <1>1, <1>2, <1>3, <2>2, <2>3
    <2>5. PageOf(p) = p
      BY PageOfAligned
    <2> QED
      BY <1>4, <2>4, <2>5
  <1> QED
    BY <1>5, <1>6

\* The direct map and the image, as GRUB says they are.
LEMMA OwnInOrder ==
  ASSUME MachineInv, meta = MetaOf(grub), LoadersOrderly
  PROVE  /\ First(HhdmAsk(meta)) = HHDM /\ First(ImageAsk(meta)) = meta.image.base
         /\ HHDM % PAGE = 0 /\ HHDM % Covers(4) = 0 /\ HHDM + meta.mem_size <= SPACE
         /\ meta.mem_size % PAGE = 0 /\ meta.image.base + meta.image.size <= HHDM
         /\ Proper(HhdmAsk(meta)) /\ Proper(ImageAsk(meta))
         /\ FarFrom(HhdmAsk(meta), ImageAsk(meta)) /\ FarFrom(ImageAsk(meta), HhdmAsk(meta))
         /\ InOrder({HhdmAsk(meta)}) /\ InOrder({HhdmAsk(meta), ImageAsk(meta)})
         /\ HhdmAsk(meta) # ImageAsk(meta)
  <1> DEFINE h == HhdmAsk(meta)
             g == ImageAsk(meta)
             size == meta.mem_size
             base == meta.image.base
             length == meta.image.size
  <1>1. /\ h \in Asking /\ h.virtual = HHDM /\ h.physical = 0 /\ h.size = size
        /\ h.attributes = ReadWrite
        /\ g \in Asking /\ g.virtual = base /\ g.physical = base /\ g.size = length
        /\ g.attributes = ReadWrite
    BY OwnAsks
  <1>2. /\ size \in Nat /\ size # 0 /\ size < SPACE /\ base \in Nat /\ length \in Nat
        /\ HHDM \in Nat /\ HHDM < SPACE /\ SPACE \in Nat /\ HHDM \in Addresses
    BY MetaIs, CoversNext DEF Addresses
  <1>3. /\ HHDM % Covers(4) = 0 /\ size % PAGE = 0 /\ HHDM + size <= SPACE
        /\ base % PAGE = 0 /\ length % PAGE = 0 /\ base + length <= HHDM
        /\ \A l \in {2, 3} : length >= Covers(l) => base % Covers(l) = 0
    <2>1. grub \in Loaders /\ size = grub.mem_size /\ meta.image = grub.image
      BY DEF MachineInv, MetaOf
    <2> QED
      BY <2>1 DEF LoadersOrderly
  <1> HIDE DEF h, g, size, base, length
  <1>4. \A l \in {2, 3} : HHDM % Covers(l) = 0 /\ 0 % Covers(l) = 0
    <2> SUFFICES ASSUME NEW l \in {2, 3} PROVE HHDM % Covers(l) = 0 /\ 0 % Covers(l) = 0
      OBVIOUS
    <2>1. l \in 1..4 /\ l <= 4 /\ 4 \in 1..4
      OBVIOUS
    <2>2. Covers(l) \in Nat \ {0} /\ Covers(4) \in Nat \ {0} /\ Covers(4) % Covers(l) = 0
      BY <2>1, CoversNext, CoversDivide
    <2>3. HHDM % Covers(l) = 0
      BY <1>2, <1>3, <2>2, MultipleTwice
    <2> QED
      BY <2>2, <2>3
  <1>5. HHDM % PAGE = 0
    <2>1. 4 \in 1..4
      OBVIOUS
    <2> QED
      BY <1>2, <1>3, <2>1, PageOfAligned
  <1>6. First(h) = HHDM /\ First(g) = base
    <2>1. PageOf(HHDM) = HHDM /\ PageOf(base) = base
      BY <1>2, <1>3, <1>5, PageOfAligned
    <2> QED
      BY <1>1, <2>1 DEF First
  <1>7. Proper(h)
    BY <1>1, <1>2, <1>3, <1>4, <1>6, ReadWriteIs DEF Proper
  <1>8. Proper(g)
    BY <1>1, <1>2, <1>3, <1>6, ReadWriteIs DEF Proper
  <1>9. FarFrom(h, g) /\ FarFrom(g, h)
    BY <1>1, <1>3, <1>6 DEF FarFrom
  <1>10. h # g
    <2>1. h = g => base = HHDM /\ length = size
      BY <1>1
    <2> QED
      BY <1>2, <1>3, <2>1
  <1>11. InOrder({h}) /\ InOrder({h, g})
    <2>1. InOrder({h})
      BY <1>7, InOrderIs
    <2>2. \A r \in {h, g} : Proper(r)
      BY <1>7, <1>8
    <2>3. \A r \in {h, g} : \A s \in {h, g} \ {r} : FarFrom(r, s)
      BY <1>9
    <2> QED
      BY <2>1, <2>2, <2>3, InOrderIs
  <1> QED
    BY <1>3, <1>5, <1>6, <1>7, <1>8, <1>9, <1>10, <1>11 DEF h, g, size, base, length

\* A section of a kernel that is well linked, and one more.
LEMMA SectionProper ==
  ASSUME MachineInv, meta = MetaOf(grub), LoadersOrderly, file \in Files, Linked,
         NEW c, NEW i \in LoadedOf(file),
         PhysOf(file, data, c, i) \in Addresses,
         PhysOf(file, data, c, i) + LoadSize(file.sections[i]) < SPACE
  PROVE  /\ AskOf(file, data, c, i) \in Asking /\ AskOf(file, data, c, i).size # 0
         /\ Proper(AskOf(file, data, c, i))
         /\ HHDM + meta.mem_size <= First(AskOf(file, data, c, i))
  <1> DEFINE s == file.sections[i]
             r == AskOf(file, data, c, i)
             p == PhysOf(file, data, c, i)
             n == LoadSize(s)
  <1>1. /\ r \in Asking /\ r.virtual = s.addr /\ r.physical = p /\ r.size = n
        /\ r.attributes = ReadWrite
    BY AskOfIs
  <1>2. s \in Section /\ n # 0 /\ s.addr + n <= SPACE
    BY FileIs
  <1>3. /\ s.addr \in Nat /\ n \in Nat /\ n = WholePages(s) /\ n % PAGE = 0
        /\ s.offset \in Nat
    BY <1>2, SizesOf
  <1>4. p \in Nat /\ p + n < SPACE /\ SPACE \in Nat
    BY CoversNext DEF Addresses
  <1>5. Loaded = LoadedOf(file)
    BY DEF Loaded, LoadedOf
  <1>6. Straight(s) /\ s.addr >= HHDM + meta.mem_size
    BY <1>5 DEF Linked, WellLinked
  <1>7. HHDM + meta.mem_size <= First(r)
    <2>1. /\ HHDM \in Nat /\ meta.mem_size \in Nat /\ HHDM % PAGE = 0
          /\ meta.mem_size % PAGE = 0 /\ PAGE \in Nat \ {0}
      BY OwnInOrder, MetaIs, PagerAssumption DEF Addresses
    <2>2. (HHDM + meta.mem_size) % PAGE = 0 /\ HHDM + meta.mem_size \in Nat
      BY <2>1, SumMultiple
    <2>3. HHDM + meta.mem_size <= PageOf(s.addr)
      BY <1>3, <1>6, <2>2, PageAbove
    <2> QED
      BY <1>1, <2>3 DEF First
  <1>8. First(r) + n <= SPACE
    <2>1. First(r) \in Nat /\ First(r) <= s.addr
      BY <1>1, FirstIs
    <2> QED
      BY <1>2, <1>3, <1>4, <2>1
  <1>9. ASSUME NEW l \in {2, 3}, n >= Covers(l)
        PROVE  s.addr % Covers(l) = 0 /\ p % Covers(l) = 0
    <2>1. n < Covers(3) /\ Covers(3) \in Nat /\ Covers(2) \in Nat \ {0}
      BY <1>3, <1>6, CoversNext DEF Straight
    <2>2. l = 2
      BY <1>3, <1>9, <2>1
    <2>3. ~ n < Covers(2)
      BY <1>3, <1>9, <2>1, <2>2
    <2>4. /\ s.type # SHT_NOBITS /\ s.addr % Covers(2) = 0
          /\ (s.addr - (data + s.offset)) % Covers(2) = 0
      BY <1>3, <1>6, <1>9, <2>2, <2>3 DEF Straight
    <2>5. p = data + s.offset
      BY <2>4 DEF PhysOf
    <2>6. (s.addr - p) % Covers(2) = 0
      BY <2>4, <2>5
    <2> HIDE DEF s, p
    <2>7. s.addr \in Nat /\ p \in Nat
      BY <1>3, <1>4
    <2>8. s.addr % Covers(2) = p % Covers(2)
      BY Zenon, <2>1, <2>6, <2>7, SameRest
    <2> QED
      BY <2>2, <2>4, <2>8
  <1> HIDE DEF s, r, p, n
  <1>10. Proper(r)
    BY <1>1, <1>3, <1>4, <1>8, <1>9, ReadWriteIs DEF Proper
  <1> QED
    BY <1>1, <1>2, <1>7, <1>10 DEF s, r, p, n

\* Two of its sections share no page.
LEMMA SectionsFar ==
  ASSUME file \in Files, Linked, NEW c,
         NEW i \in LoadedOf(file), NEW j \in LoadedOf(file), i # j,
         AskOf(file, data, c, i) \in Asking, AskOf(file, data, c, j) \in Asking
  PROVE  FarFrom(AskOf(file, data, c, i), AskOf(file, data, c, j))
  <1> DEFINE s == file.sections[i]
             z == file.sections[j]
             f == PageOf(s.addr)
             g == PageOf(z.addr)
             n == LoadSize(s)
             m == LoadSize(z)
  <1>1. s \in Section /\ z \in Section /\ s.size # 0 /\ z.size # 0 /\ n # 0 /\ m # 0
    BY FileIs
  <1>2. s.addr \in Nat /\ z.addr \in Nat /\ n \in Nat /\ m \in Nat
    BY <1>1, SizesOf
  <1>3. f \in Nat /\ g \in Nat /\ f % PAGE = 0 /\ g % PAGE = 0
    BY <1>2, PageOfIs
  <1>4. PagesOfSection(s) \cap PagesOfSection(z) = {}
    BY DEF Linked, WellLinked, Loaded, LoadedOf
  <1>5. /\ \A p \in Nat : p % PAGE = 0 /\ f <= p /\ p < f + n => p \in PagesOfSection(s)
        /\ \A p \in Nat : p % PAGE = 0 /\ g <= p /\ p < g + m => p \in PagesOfSection(z)
    BY <1>1, SectionPages
  <1>6. /\ First(AskOf(file, data, c, i)) = f /\ First(AskOf(file, data, c, j)) = g
        /\ AskOf(file, data, c, i).size = n /\ AskOf(file, data, c, j).size = m
    BY DEF First, AskOf
  <1> HIDE DEF s, z, f, g, n, m
  <1>7. f + n <= g \/ g + m <= f
    <2>1. \A p \in Nat : p % PAGE = 0 => ~ (f <= p /\ p < f + n /\ g <= p /\ p < g + m)
      BY <1>4, <1>5
    <2>2. CASE f <= g
      BY <1>1, <1>2, <1>3, <2>1, <2>2
    <2>3. CASE g <= f
      BY <1>1, <1>2, <1>3, <2>1, <2>3
    <2> QED
      BY <1>3, <2>2, <2>3
  <1> QED
    BY <1>6, <1>7 DEF FarFrom

\* All that load_elf() asks for is in order, and no two sections ask for the same.
LEMMA LinkedInOrder ==
  ASSUME MachineInv, meta = MetaOf(grub), LoadersOrderly, file \in Files, Linked,
         NEW c, NEW T \in SUBSET LoadedOf(file),
         \A i \in T : /\ PhysOf(file, data, c, i) \in Addresses
                      /\ PhysOf(file, data, c, i) + LoadSize(file.sections[i]) < SPACE
  PROVE  /\ InOrder({HhdmAsk(meta), ImageAsk(meta)} \cup Asks(file, data, c, T))
         /\ \A n \in T : AskOf(file, data, c, n) \notin
              {HhdmAsk(meta), ImageAsk(meta)} \cup Asks(file, data, c, T \ {n})
  <1> DEFINE h == HhdmAsk(meta)
             g == ImageAsk(meta)
             A(i) == AskOf(file, data, c, i)
             as == {h, g} \cup Asks(file, data, c, T)
  <1>1. \A i \in T : /\ A(i) \in Asking /\ A(i).size # 0 /\ Proper(A(i))
                     /\ HHDM + meta.mem_size <= First(A(i)) /\ First(A(i)) \in Nat
                     /\ A(i).size \in Nat
    BY SectionProper, FirstIs
  <1>2. \A i, j \in T : i # j => FarFrom(A(i), A(j))
    BY <1>1, SectionsFar
  <1>3. /\ First(h) = HHDM /\ First(g) = meta.image.base
        /\ h.size = meta.mem_size /\ g.size = meta.image.size
        /\ meta.image.base + meta.image.size <= HHDM
        /\ HHDM \in Nat /\ meta.mem_size \in Nat /\ meta.image.base \in Nat
        /\ meta.image.size \in Nat
        /\ Proper(h) /\ Proper(g) /\ FarFrom(h, g) /\ FarFrom(g, h)
    BY OwnInOrder, OwnAsks, MetaIs DEF Addresses
  <1> HIDE DEF h, g, A
  <1>4. \A i \in T : /\ FarFrom(h, A(i)) /\ FarFrom(A(i), h)
                     /\ FarFrom(g, A(i)) /\ FarFrom(A(i), g)
    BY <1>1, <1>3 DEF FarFrom
  <1>5. \A r : r \in as <=> r = h \/ r = g \/ \E i \in T : r = A(i)
    BY DEF Asks, A
  <1>6. \A r \in as : Proper(r)
    BY <1>1, <1>3, <1>5
  <1> HIDE DEF as
  <1>7. ASSUME NEW r \in as, NEW s \in as \ {r}
        PROVE  FarFrom(r, s)
    <2>1. r = h \/ r = g \/ \E i \in T : r = A(i)
      BY <1>5
    <2>2. s = h \/ s = g \/ \E i \in T : s = A(i)
      BY <1>5
    <2> QED
      BY <1>2, <1>3, <1>4, <2>1, <2>2
  <1>8. InOrder(as)
    BY <1>6, <1>7, InOrderIs
  <1>9. ASSUME NEW n \in T
        PROVE  A(n) # h /\ A(n) # g /\ \A i \in T \ {n} : A(n) # A(i)
    <2>1. A(n).size \in Nat /\ A(n).size # 0 /\ First(A(n)) \in Nat
      BY <1>1
    <2>2. ~ FarFrom(A(n), A(n))
      BY <2>1 DEF FarFrom
    <2> QED
      BY <1>2, <1>4, <2>2
  <1>10. \A n \in T : A(n) \notin {h, g} \cup Asks(file, data, c, T \ {n})
    BY <1>9 DEF Asks, A
  <1> QED
    BY <1>8, <1>10 DEF as, h, g, A

-----------------------------------------------------------------------------
(* The page tables of a kernel that is well linked                         *)

\* Until the loader runs, and for such a kernel also then, the tables are what
\* PagerProofs shows of requests in order.
MapsInv == stage \notin FromElf \/ Linked => IInv

\* How the kernel is linked depends on the file, on where it lies and on the memory
\* alone.
LEMMA SameLink ==
  ASSUME UNCHANGED <<file, data, meta>>
  PROVE  Linked' <=> Linked
  BY DEF Linked, WellLinked, Loaded, Straight

\* At the entry there are no tables.
LEMMA MapsStart == BootInit => MapsInv
  BY InitKeeps DEF BootInit, MapsInv

\* While there are no tables.
LEMMA NoTables ==
  ASSUME IInv, TypeInv', status = "off", UNCHANGED <<tables, asked, request, status>>
  PROVE  IInv'
  <1>1. InOrder(asked') /\ RequestInv'
    BY DEF IInv, RequestInv
  <1> QED
    BY <1>1 DEF IInv, TablesInv, WalkInv

\* Loading a kernel that is well linked asks only for what is in order.
LEMMA LinkedLoading ==
  ASSUME LoadersOrderly, BootInv, PoolInv, Loading, ~ rebased', Linked, IInv
  PROVE  IInv'
  <1>1. stage = "elf" /\ UNCHANGED own /\ LoadElf /\ result = 0
    BY DEF Loading, BootInv, LoaderInv
  <1>2. UNCHANGED <<stage, meta, grub>> /\ stage \in FromElf
    BY <1>1, Idle, AtLoader
  <1>3. CASE Load64 \/ LoadOther \/ SkipSection \/ MappedSection \/ ReturnEntry
    <2>1. UNCHANGED vars
      BY <1>3 DEF Load64, LoadOther, SkipSection, MappedSection, ReturnEntry
    <2> QED
      BY <2>1, StutterKeeps
  <1>4. CASE loader = "mapping" /\ MapPages
    <2>1. Map
      BY <1>1, <1>4, MapIs DEF BootInv
    <2> QED
      BY <2>1, MapKeeps
  <1>5. CASE ClearSection
    BY <1>1, <1>5, SectionCleared, LimitAlone DEF BootInv
  <1>6. CASE MapSection \/ MapCleared
    <2>1. /\ section \in LoadedOf(file) /\ loader # "mapping" /\ loader' = "mapping"
          /\ UNCHANGED <<file, data, section, cleared>> /\ limit' = limit /\ BootInv'
          /\ \E r \in Asking : /\ Ask(r) /\ asked' = asked \cup {r}
                               /\ r = AskOf(file, data, cleared, section)
      BY <1>1, <1>6, SectionAsked
    <2>2. PICK r \in Asking : /\ Ask(r) /\ asked' = asked \cup {r}
                              /\ r = AskOf(file, data, cleared, section)
      BY <2>1
    <2>3. /\ file \in Files /\ meta = MetaOf(grub) /\ data = meta.kernel_elf
          /\ section \in Nat /\ MachineInv /\ limit \in Nat /\ Used <= limit
      BY <1>1, AtLoader DEF BootInv
    <2> DEFINE T == Tried(file, section, "mapping")
               N == Tried(file, section, "section")
    <2>4. /\ T = N \cup {section} /\ section \notin N /\ T \in SUBSET LoadedOf(file)
          /\ Tried(file, section, loader) = N
      <3>1. loader \in {"section", "cleared"}
        BY <1>6 DEF MapSection, MapCleared, More
      <3> QED
        BY <2>1, <2>3, <3>1, TriedIs
    <2>5. /\ DOMAIN cleared = ClearedOf(file, T)
          /\ \A i \in DOMAIN cleared : /\ cleared[i] \in Nat /\ cleared[i] % PAGE = 0
                                       /\ cleared[i] + LoadSize(file.sections[i]) < SPACE
      BY <2>1 DEF BootInv, LoaderInv, TriedAs
    <2>6. asked' = {HhdmAsk(meta), ImageAsk(meta)} \cup Asks(file, data, cleared, T)
      BY <1>2, <2>1 DEF BootInv, AskedInv
    <2>7. asked = {HhdmAsk(meta), ImageAsk(meta)} \cup Asks(file, data, cleared, N)
      BY <1>2, <2>4 DEF BootInv, AskedInv
    <2> HIDE DEF T, N
    <2>8. \A i \in T : /\ PhysOf(file, data, cleared, i) \in Addresses
                       /\ PhysOf(file, data, cleared, i) + LoadSize(file.sections[i]) < SPACE
      BY <2>3, <2>4, <2>5, PhysIs
    <2>9. /\ InOrder({HhdmAsk(meta), ImageAsk(meta)} \cup Asks(file, data, cleared, T))
          /\ AskOf(file, data, cleared, section) \notin
               {HhdmAsk(meta), ImageAsk(meta)} \cup Asks(file, data, cleared, T \ {section})
      BY <2>3, <2>4, <2>8, LinkedInOrder
    <2>10. r \notin asked
      <3>1. T \ {section} = N
        BY <2>4
      <3> QED
        BY <2>2, <2>7, <2>9, <3>1
    <2>11. InOrder(asked \cup {r})
      BY <2>2, <2>6, <2>9
    <2> QED
      BY <2>1, <2>2, <2>3, <2>10, <2>11, CallKeeps
  <1> QED
    BY <1>1, <1>3, <1>4, <1>5, <1>6 DEF LoadElf

\* Every step keeps the invariant of the page tables,
LEMMA MapsStepKeeps ==
  ASSUME LoadersOrderly, BootInv, PoolInv, MapsInv, [BootNext]_bootvars, ~ rebased'
  PROVE  MapsInv'
  <1>0. BootInv'
    BY BootStepKeeps
  <1> SUFFICES ASSUME (stage \notin FromElf \/ Linked)' PROVE IInv'
    BY DEF MapsInv
  <1>1. CASE Before
    <2>1. /\ stage \in Unparsed \cup Parsed
          /\ UNCHANGED <<tables, asked, request, status>>
      BY <1>1, BeforeIs
    <2>2. stage \notin FromElf /\ status = "off"
      BY <2>1 DEF BootInv, MachineInv, Unparsed, Parsed, FromElf, Switching
    <2> QED
      BY <1>0, <2>1, <2>2, NoTables DEF MapsInv, BootInv
  <1>2. CASE After
    <2>1. UNCHANGED <<elf_vars, vars, meta>> /\ stage \in FromElf /\ stage' \in FromElf
      BY <1>2, AfterIs DEF FromElf
    <2>2. Linked
      BY <2>1, Idle, SameLink
    <2> QED
      BY <2>1, <2>2, StutterKeeps DEF MapsInv
  <1>3. CASE CreateTables
    <2>1. stage \notin FromElf /\ Create
      BY <1>3 DEF CreateTables, FromElf, Switching
    <2> QED
      BY <2>1, CreationKeeps DEF MapsInv
  <1>4. CASE MapHhdm \/ MapImage
    <2>1. /\ meta = MetaOf(grub) /\ stage \notin FromElf /\ MachineInv
      BY <1>4 DEF BootInv, MachineInv, MapHhdm, MapImage, Direct, FromElf, Switching
    <2>2. /\ HhdmAsk(meta) \in Asking /\ ImageAsk(meta) \in Asking
          /\ InOrder({HhdmAsk(meta)}) /\ InOrder({HhdmAsk(meta), ImageAsk(meta)})
          /\ HhdmAsk(meta) # ImageAsk(meta)
      BY <2>1, OwnAsks, OwnInOrder
    <2>3. limit' = limit /\ limit \in Nat /\ Used <= limit
      BY <1>4, OwnCallKeeps DEF BootInv, TypeInv, TablesOK
    <2>4. CASE MapHhdm
      <3>1. Ask(HhdmAsk(meta)) /\ asked = {}
        BY <2>4 DEF MapHhdm, Call, HhdmAsk, BootInv, AskedInv
      <3>2. HhdmAsk(meta) \notin asked /\ asked \cup {HhdmAsk(meta)} = {HhdmAsk(meta)}
        BY <3>1
      <3> QED
        BY <2>1, <2>2, <2>3, <3>1, <3>2, CallKeeps DEF MapsInv
    <2>5. CASE MapImage
      <3>1. Ask(ImageAsk(meta)) /\ asked = {HhdmAsk(meta)}
        BY <2>5 DEF MapImage, Call, ImageAsk, BootInv, AskedInv
      <3>2. ImageAsk(meta) \notin asked
            /\ asked \cup {ImageAsk(meta)} = {HhdmAsk(meta), ImageAsk(meta)}
        BY <2>2, <3>1
      <3> QED
        BY <2>1, <2>2, <2>3, <3>1, <3>2, CallKeeps DEF MapsInv
    <2> QED
      BY <1>4, <2>4, <2>5
  <1>5. CASE Mapping
    <2>1. stage \notin FromElf /\ Map
      BY <1>5, MappingKeeps DEF Mapping, FromElf, Switching
    <2> QED
      BY <2>1, MapKeeps DEF MapsInv
  <1>6. CASE Mapped
    <2>1. stage \notin FromElf /\ UNCHANGED vars
      BY <1>6, MappedKeeps DEF Mapped, FromElf, Switching
    <2> QED
      BY <2>1, StutterKeeps DEF MapsInv
  <1>7. CASE Loading
    <2>1. stage = "elf" /\ stage \in FromElf
      BY <1>7, AtLoader DEF Loading
    <2>2. UNCHANGED <<file, data, meta, stage>>
      BY <1>7, LoadingKeeps
    <2>3. Linked
      BY <2>1, <2>2, SameLink
    <2> QED
      BY <1>7, <2>1, <2>3, LinkedLoading DEF MapsInv
  <1>8. CASE UNCHANGED bootvars
    <2>1. UNCHANGED <<own, elf_vars, vars>>
      BY <1>8 DEF bootvars
    <2>2. UNCHANGED <<file, data, meta, stage>>
      BY <2>1, Idle
    <2>3. stage \notin FromElf \/ Linked
      BY <2>2, SameLink
    <2> QED
      BY <2>1, <2>3, StutterKeeps DEF MapsInv
  <1> QED
    BY <1>1, <1>2, <1>3, <1>4, <1>5, <1>6, <1>7, <1>8 DEF BootNext, Before, After

\* and so it holds as long as the boot lasts.
LEMMA MapsHold ==
  ASSUME LoadersOrderly
  PROVE  BootSpec => [](~ rebased => BootInv /\ PoolInv /\ MapsInv)
  <1>1. BootInit => (~ rebased => BootInv /\ PoolInv /\ MapsInv)
    BY BootStarts, PoolStarts, MapsStart
  <1>2. (~ rebased => BootInv /\ PoolInv /\ MapsInv) /\ [BootNext]_bootvars
          => (~ rebased => BootInv /\ PoolInv /\ MapsInv)'
    <2> SUFFICES ASSUME ~ rebased => BootInv /\ PoolInv /\ MapsInv, [BootNext]_bootvars,
                        ~ rebased'
                 PROVE  BootInv' /\ PoolInv' /\ MapsInv'
      OBVIOUS
    <2>1. BootInv /\ PoolInv /\ MapsInv
      BY NeverBack
    <2> QED
      BY <2>1, BootStepKeeps, PoolStepKeeps, MapsStepKeeps
  <1> QED
    BY <1>1, <1>2, PTL DEF BootSpec

-----------------------------------------------------------------------------
(* What the kernel finds                                                   *)

\* Once load_elf() has returned, the walk serves all requests that were.
LEMMA AfterLoading ==
  ASSUME BootInv, MapsInv, Linked, Entered
  PROVE  /\ status = "idle" /\ meta = MetaOf(grub) /\ file \in Files
         /\ HhdmAsk(meta) \in served
         /\ \A q \in served, a \in Addresses : In(q, a) => Hits(Walk(a), q, a, features)
         /\ data = meta.kernel_elf /\ stage \in FromElf
         /\ \A i \in LoadedOf(file) : AskOf(file, data, cleared, i) \in served
         /\ Tried(file, section, loader) = LoadedOf(file) /\ TriedAs = loader
  <1>1. /\ stage \in FromElf /\ stage \in Switching /\ stage \in Direct \cup FromElf
    BY DEF Entered, FromElf, Switching
  <1>2. /\ meta = MetaOf(grub) /\ loader = "returned" /\ elf_entry # -1
    BY <1>1 DEF BootInv, MachineInv, Entered
  <1>3. /\ file \in Files /\ data = meta.kernel_elf /\ section = Len(file.sections) + 1
    BY <1>1, <1>2 DEF BootInv, LoaderInv
  <1>4. /\ Len(file.sections) \in Nat /\ \A i \in LoadedOf(file) : i \in 1..Len(file.sections)
    BY <1>3, FileIs
  <1>5. Tried(file, section, loader) = LoadedOf(file)
    BY <1>2, <1>3, <1>4, TriedIs
  <1>6. /\ HhdmAsk(meta) \in served /\ status = "idle"
        /\ \A i \in LoadedOf(file) : i < section => AskOf(file, data, cleared, i) \in served
    BY <1>1, <1>2, <1>5 DEF BootInv, AskedInv
  <1>7. \A i \in LoadedOf(file) : i < section
    BY <1>3, <1>4
  <1>8. Root \in DOMAIN tables /\ Serves(tables, served, features)
    BY <1>1, <1>6 DEF MapsInv, IInv, TablesInv, TypeInv
  <1>9. \A q \in served, a \in Addresses : In(q, a) => Hits(Walk(a), q, a, features)
    BY <1>8, WalkHere DEF Serves
  <1> QED
    BY <1>1, <1>2, <1>3, <1>5, <1>6, <1>7, <1>9 DEF TriedAs

\* When alloc() had the memory, a well linked kernel is never entered without all of
\* the direct map, writable and cached write-back, through all that the loader mapped
\* after it.
THEOREM DirectMapStays == ASSUME LoadersOrderly PROVE BootSpec => []DirectMapComplete
  <1>1. ASSUME ~ rebased => BootInv /\ PoolInv /\ MapsInv PROVE DirectMapComplete
    <2> SUFFICES ASSUME BootInv, MapsInv, Entered, Linked, NEW a \in Pages, a < meta.mem_size
                 PROVE  /\ Walk(HHDM + a) = [to |-> a, rights |-> Wanted(ReadWrite, features)]
                        /\ pat[Walk(HHDM + a).rights.pat + 1] = "WB"
      BY <1>1 DEF DirectMapComplete, Fits
    <2> DEFINE h == HhdmAsk(meta)
    <2>1. /\ meta = MetaOf(grub) /\ h \in served /\ MachineInv
          /\ \A q \in served, b \in Addresses : In(q, b) => Hits(Walk(b), q, b, features)
      BY AfterLoading DEF BootInv
    <2>2. /\ First(h) = HHDM /\ h.size = meta.mem_size /\ h.physical = 0
          /\ h.attributes = ReadWrite /\ HHDM + meta.mem_size <= SPACE
          /\ HHDM \in Nat /\ meta.mem_size \in Nat /\ SPACE \in Nat /\ PAGE \in Nat \ {0}
      BY <2>1, OwnInOrder, OwnAsks, MetaIs, CoversNext, PagerAssumption DEF Addresses
    <2>3. a \in Nat
      BY DEF Pages
    <2> HIDE DEF h
    <2>4. HHDM + a \in Addresses /\ In(h, HHDM + a)
      BY <2>2, <2>3 DEF Addresses, In
    <2>5. 0 % PAGE = 0 /\ PageOf(0) = 0
      BY <2>2, PageOfAligned
    <2>6. Walk(HHDM + a) = Target(h, HHDM + a, features)
      BY <2>1, <2>2, <2>4, <2>5 DEF Hits
    <2>7. PageOf(h.physical) + ((HHDM + a) - First(h)) = a
      <3>1. PageOf(h.physical) = 0 /\ First(h) = HHDM
        BY <2>2, <2>5
      <3>2. 0 + ((HHDM + a) - HHDM) = a
        BY <2>2, <2>3
      <3> QED
        BY <3>1, <3>2, Zenon
    <2>8. Walk(HHDM + a) = [to |-> a, rights |-> Wanted(ReadWrite, features)]
      <3>1. Target(h, HHDM + a, features) =
              [to |-> PageOf(h.physical) + ((HHDM + a) - First(h)),
               rights |-> Wanted(h.attributes, features)]
        BY Zenon DEF Target
      <3>2. h.attributes = ReadWrite
        BY <2>2
      <3> QED
        BY <2>6, <2>7, <3>1, <3>2, Zenon
    <2>9. Walk(HHDM + a).rights.pat = 0
      BY <2>8 DEF Wanted, ReadWrite
    <2>10. pat = ResetPat \/ pat = ArctanPat
      BY <2>1 DEF MachineInv
    <2> QED
      BY <2>8, <2>9, <2>10 DEF ResetPat, ArctanPat
  <1> QED
    BY <1>1, MapsHold, PTL

\* Of memory that begins on a page of the bank, each byte is in one of its pages.
LEMMA PageInPool ==
  ASSUME NEW p \in Nat, NEW n \in Nat, POOL <= p, p % PAGE = 0, n % PAGE = 0,
         NEW a \in p..(p + n - 1)
  PROVE  (a \div PAGE) - Behind \in
           ((p - POOL) \div PAGE)..((p - POOL) \div PAGE + n \div PAGE - 1)
  <1>1. PAGE \in Nat \ {0} /\ POOL \in Nat /\ POOL % PAGE = 0
    BY PagerAssumption, PoolAssumption
  <1>2. PICK j \in Nat : POOL = PAGE * j
    BY <1>1, Multiple, Division
  <1>3. PICK k \in Nat : p = PAGE * k
    BY <1>1, Multiple, Division
  <1>4. PICK m \in Nat : n = PAGE * m
    BY <1>1, Multiple, Division
  <1> DEFINE q == a \div PAGE
  <1>5. a \in Nat /\ p <= a /\ a < p + n
    OBVIOUS
  <1>6. q \in Nat /\ PAGE * q <= a /\ a < PAGE * q + PAGE
    BY <1>1, <1>5, Division
  <1>7. j <= k
    <2>1. \A c \in Nat \ {0}, x, y \in Nat : c * x <= c * y => x <= y
      OBVIOUS
    <2> QED
      BY <1>1, <1>2, <1>3, <2>1
  <1> HIDE DEF q
  <1>8. k <= q /\ q < k + m
    <2>1. \A c \in Nat \ {0}, x, y \in Nat : c * x < c * y + c => x <= y
      <3> SUFFICES ASSUME NEW c \in Nat \ {0}, NEW x \in Nat, NEW y \in Nat,
                          c * x < c * y + c, y + 1 <= x
                   PROVE  FALSE
        OBVIOUS
      <3>1. c * (y + 1) <= c * x
        OBVIOUS
      <3> QED
        BY <3>1
    <2>2. \A c \in Nat \ {0}, x, y \in Nat : c * x < c * y => x < y
      OBVIOUS
    <2>3. PAGE * k < PAGE * q + PAGE
      BY <1>1, <1>3, <1>5, <1>6
    <2>4. PAGE * q < PAGE * (k + m)
      <3>1. PAGE * (k + m) = PAGE * k + PAGE * m
        BY <1>1
      <3> QED
        BY <1>1, <1>3, <1>4, <1>5, <1>6, <3>1
    <2> QED
      BY <1>1, <1>6, <2>1, <2>2, <2>3, <2>4
  <1>9. Behind = j /\ (p - POOL) \div PAGE = k - j /\ n \div PAGE = m
    <2>1. p - POOL = PAGE * (k - j) /\ k - j \in Nat
      BY <1>1, <1>2, <1>3, <1>7
    <2> QED
      BY <1>1, <1>2, <1>4, <2>1, Multiple DEF Behind
  <1> QED
    BY <1>6, <1>7, <1>8, <1>9 DEF q

\* Of a section that was mapped, byte by byte.
LEMMA SectionMapped ==
  ASSUME BootInv, PoolInv, MapsInv, Linked, Entered, LoadersOrderly, NEW i \in Loaded
  PROVE  SectionIsThere(i)
  <1> DEFINE s == file.sections[i]
             r == AskOf(file, data, cleared, i)
             p == PhysOf(file, data, cleared, i)
             n == LoadSize(s)
             rest == s.addr % PAGE
  <1>1. /\ meta = MetaOf(grub) /\ file \in Files /\ data = meta.kernel_elf
        /\ \A q \in served, a \in Addresses : In(q, a) => Hits(Walk(a), q, a, features)
        /\ \A j \in LoadedOf(file) : AskOf(file, data, cleared, j) \in served
        /\ Tried(file, section, TriedAs) = LoadedOf(file)
        /\ MachineInv /\ LoaderInv
    BY AfterLoading DEF BootInv
  <1>2. i \in LoadedOf(file) /\ r \in served /\ Straight(s)
    BY <1>1 DEF Loaded, LoadedOf, Linked, WellLinked
  <1>3. /\ p \in Addresses /\ (s.type = SHT_NOBITS => p % PAGE = 0)
    <2>1. /\ DOMAIN cleared = ClearedOf(file, LoadedOf(file))
          /\ \A j \in DOMAIN cleared : /\ cleared[j] \in Nat /\ cleared[j] % PAGE = 0
                                       /\ cleared[j] + LoadSize(file.sections[j]) < SPACE
      BY <1>1 DEF LoaderInv
    <2> QED
      BY <1>1, <1>2, <2>1, PhysIs
  <1>4. /\ r.virtual = s.addr /\ r.physical = p /\ r.size = n /\ r.attributes = ReadWrite
        /\ First(r) = PageOf(s.addr)
    BY <1>1, <1>2, <1>3, AskOfIs DEF First
  <1>5. /\ s \in Section /\ s.size # 0 /\ s.addr + n <= SPACE
    BY <1>1, <1>2, FileIs
  <1>6. /\ s.addr \in Nat /\ s.size \in Nat /\ n \in Nat /\ n = WholePages(s) /\ s.size <= n
        /\ s.offset \in Nat /\ p \in Nat /\ PAGE \in Nat \ {0} /\ SPACE \in Nat
    BY <1>3, <1>5, SizesOf, PagerAssumption, CoversNext DEF Addresses
  <1>7. /\ rest \in Nat /\ rest + s.size <= n /\ PageOf(s.addr) = s.addr - rest
        /\ PageOf(s.addr) \in Nat
    <2>1. rest \in Nat
      BY <1>6
    <2>2. PageOf(s.addr) = s.addr - rest /\ PageOf(s.addr) \in Nat
      BY <1>6, PageOfIs DEF PageOf
    <2> QED
      BY <1>2, <1>6, <2>1, <2>2 DEF Straight
  <1>8. s.type # SHT_NOBITS => p % PAGE = rest /\ p = data + s.offset
    <2> SUFFICES ASSUME s.type # SHT_NOBITS PROVE p % PAGE = rest /\ p = data + s.offset
      OBVIOUS
    <2>1. p = data + s.offset
      BY DEF PhysOf
    <2>2. CASE WholePages(s) < Covers(2)
      <3>1. (s.addr - (data + s.offset)) % PAGE = 0
        BY <1>2, <2>2 DEF Straight
      <3>2. (s.addr - p) % PAGE = 0
        BY <2>1, <3>1
      <3> HIDE DEF s, p
      <3>3. s.addr % PAGE = p % PAGE
        BY <1>6, <3>2, SameRest
      <3> QED
        BY <2>1, <3>3
    <2>3. CASE ~ WholePages(s) < Covers(2)
      <3>1. Covers(2) \in Nat \ {0} /\ 2 \in 1..4
        BY CoversNext
      <3>2. /\ (s.addr - (data + s.offset)) % Covers(2) = 0 /\ s.addr % Covers(2) = 0
        BY <1>2, <1>6, <2>3, <3>1 DEF Straight
      <3>3. (s.addr - p) % Covers(2) = 0
        BY <2>1, <3>2
      <3> HIDE DEF s, p
      <3>4. s.addr % Covers(2) = p % Covers(2)
        BY <1>6, <3>1, <3>3, SameRest
      <3>5. s.addr % PAGE = 0
        BY <1>6, <3>1, <3>2, PageOfAligned
      <3>6. p % PAGE = 0
        BY <1>6, <3>1, <3>2, <3>4, PageOfAligned
      <3> QED
        BY <2>1, <3>5, <3>6
    <2> QED
      BY <2>2, <2>3
  <1> HIDE DEF s, r, p, n, rest
  <1>9. ASSUME NEW b \in 0..(s.size - 1)
        PROVE  /\ Walk(s.addr + b).to = PageOf(p) + rest + b
               /\ p % PAGE = 0 => Walk(s.addr + b).rights = Wanted(ReadWrite, features)
    <2>1. s.addr + b \in Addresses /\ In(r, s.addr + b)
      BY <1>4, <1>5, <1>6, <1>7 DEF Addresses, In
    <2>2. Hits(Walk(s.addr + b), r, s.addr + b, features)
      BY <1>1, <1>2, <2>1
    <2> DEFINE x == s.addr + b
               t == Target(r, x, features)
    <2> HIDE DEF x
    <2>7. /\ t.to = PageOf(p) + (x - PageOf(s.addr))
          /\ t.rights = Wanted(ReadWrite, features)
      BY <1>4 DEF Target
    <2> HIDE DEF t
    <2>8. IF p % PAGE = 0 THEN Walk(x) = t ELSE Walk(x).to = t.to
      BY <1>4, <2>2 DEF Hits, t, x
    <2>9. Walk(x).to = t.to
      BY <2>8
    <2>3. Walk(s.addr + b).to = PageOf(p) + ((s.addr + b) - PageOf(s.addr))
      BY <2>7, <2>9, Zenon DEF x
    <2>10. PageOf(p) \in Nat
      BY <1>6, PageOfIs
    <2>11. b \in Nat
      BY <1>6
    <2>4. PageOf(p) + ((s.addr + b) - PageOf(s.addr)) = PageOf(p) + rest + b
      <3> DEFINE at == s.addr
                 base == PageOf(s.addr)
                 to == PageOf(p)
      <3>1. at \in Nat /\ base = at - rest /\ to \in Nat
        BY <1>6, <1>7, <2>10
      <3> HIDE DEF at, base, to
      <3>2. to + ((at + b) - base) = to + rest + b
        BY <1>7, <2>11, <3>1
      <3> QED
        BY <3>2 DEF at, base, to
    <2>5. Walk(s.addr + b).to = PageOf(p) + rest + b
      BY <2>3, <2>4, Zenon
    <2>6. p % PAGE = 0 => Walk(s.addr + b).rights = Wanted(ReadWrite, features)
      BY <2>7, <2>8 DEF x
    <2> QED
      BY <2>5, <2>6
  <1>10. ASSUME NEW b \in 0..(s.size - 1)
         PROVE  ByteIsThere(i, b)
    <2>1. CASE s.type = SHT_NOBITS
      <3>1. PageOf(p) = p
        BY <1>3, <1>6, <2>1, PageOfAligned
      <3>2. p = cleared[i] /\ i \in DOMAIN cleared
        BY <1>1, <1>2, <2>1 DEF PhysOf, p, s, LoaderInv, ClearedOf
      <3>3. Walk(s.addr + b).to \in p..(p + WholePages(s) - 1)
        BY <1>6, <1>7, <1>9, <3>1
      <3>4. /\ POOL <= p /\ p % PAGE = 0 /\ n % PAGE = 0
            /\ PagesAt(file, cleared, i)
                 = ((p - POOL) \div PAGE)..((p - POOL) \div PAGE + n \div PAGE - 1)
        BY <1>3, <1>5, <2>1, <3>2, SizesOf DEF PoolInv, PagesAt, n, s
      <3>5. (Walk(s.addr + b).to \div PAGE) - Behind \in PagesAt(file, cleared, i)
        BY <1>6, <3>3, <3>4, PageInPool
      <3>6. cleared[i] # NULL
        BY <3>2, <3>4, PoolAssumption DEF NULL
      <3>7. DOMAIN frame = 1..Used /\ \A t \in 1..Used : frame[t] \notin PagesAt(file, cleared, i)
        BY <3>2 DEF PoolInv
      <3> QED
        BY <2>1, <3>2, <3>3, <3>5, <3>6, <3>7 DEF ByteIsThere, s
    <2>2. CASE s.type # SHT_NOBITS
      <3>1. PageOf(p) + rest = p
        <4>1. PageOf(p) = p - rest
          BY <1>8, <2>2 DEF PageOf
        <4> QED
          BY <1>6, <1>7, <4>1
      <3>2. Walk(s.addr + b).to = data + s.offset + b
        BY <1>8, <1>9, <2>2, <3>1
      <3> QED
        BY <2>2, <3>2 DEF ByteIsThere, s
    <2> QED
      BY <2>1, <2>2
  <1>11. (data + s.offset) % PAGE = 0 => p % PAGE = 0
    BY <1>3, <1>8
  <1> QED
    BY <1>9, <1>10, <1>11 DEF SectionIsThere, s

\* When the kernel is entered and alloc() had the memory, each byte of its sections
\* is where it was linked, with the rights of a kernel that writes.
THEOREM KernelIsComplete == ASSUME LoadersOrderly PROVE BootSpec => []KernelComplete
  <1>1. ASSUME ~ rebased => BootInv /\ PoolInv /\ MapsInv PROVE KernelComplete
    BY <1>1, SectionMapped DEF KernelComplete, Fits
  <1> QED
    BY <1>1, MapsHold, PTL

-----------------------------------------------------------------------------
(* The switch to long mode                                                 *)

\* Who is below the start of the direct map is in another block of the root
\* than who is above.
LEMMA RootApart ==
  ASSUME HHDM % Covers(4) = 0, NEW a \in Addresses, NEW v \in Addresses, a < HHDM, HHDM <= v
  PROVE  Block(4, a) # Block(4, v)
  <1> DEFINE c == Covers(4)
             q == Block(4, v)
             b == c * q
  <1>1. c \in Nat \ {0} /\ SPACE \in Nat
    BY CoversNext
  <1>2. a \in Nat /\ v \in Nat /\ v < SPACE /\ HHDM \in Nat
    BY <1>1, HhdmAssumption DEF Addresses
  <1>3. q \in Nat /\ b <= v /\ v < b + c
    BY <1>1, <1>2, Division DEF Block
  <1>4. b \in Nat /\ b % c = 0 /\ b \div c = q
    <2> HIDE DEF c, q
    <2>1. (c * q) % c = 0 /\ (c * q) \div c = q
      BY <1>1, <1>3, Multiple
    <2>2. c * q \in Nat
      BY <1>1, <1>3
    <2> QED
      BY <2>1, <2>2
  <1> HIDE DEF b
  <1>5. b \in Addresses /\ Block(4, b) = q
    BY <1>1, <1>2, <1>3, <1>4 DEF Addresses, Block
  <1> HIDE DEF q
  <1> SUFFICES ASSUME Block(4, a) = q PROVE FALSE
    BY DEF q
  <1>6. b <= a
    BY <1>4, <1>5, AlignedBlock
  <1>7. (HHDM - b) % c = 0
    BY <1>1, <1>2, <1>4, <1>6, SumMultiple
  <1> HIDE DEF c
  <1>8. HHDM - b \in Nat /\ HHDM - b # 0
    BY <1>2, <1>4, <1>6
  <1>9. c <= HHDM - b
    <2>1. \A n \in Nat : n % c = 0 /\ n # 0 => c <= n
      BY <1>1
    <2> QED
      BY <1>7, <1>8, <2>1
  <1> QED
    BY <1>1, <1>2, <1>3, <1>4, <1>9

\* An entry that is written leaves the walks in other blocks of the root.
LEMMA WalkElsewhere ==
  ASSUME NEW ts, NEW lev, NEW blk, Branches(ts, lev, blk),
         NEW L \in 1..4, NEW v \in Addresses, Reaches(ts, L, v),
         NEW us, NEW e, Written(ts, us, Node(ts, L, v), Index(L, v), e),
         NEW a \in Addresses, Block(4, a) # Block(4, v)
  PROVE  WalkIn(us, a) = WalkIn(ts, a)
  <1> DEFINE P(k) == Reaches(ts, k, a) => Node(us, k, a) = Node(ts, k, a)
             S(k) == Reaches(ts, k, a) => Slot(us, k, a) = Slot(ts, k, a)
  <1>1. Block(L, a) # Block(L, v)
    <2>1. 4 \in 1..4 /\ L <= 4
      OBVIOUS
    <2> QED
      BY <2>1, SameAbove
  <1>2. \A k \in 1..4 : P(k) => S(k)
    <2> SUFFICES ASSUME NEW k \in 1..4, Reaches(ts, k, a), Node(us, k, a) = Node(ts, k, a)
                 PROVE  Slot(us, k, a) = Slot(ts, k, a)
      OBVIOUS
    <2> DEFINE n == Node(ts, k, a)
               i == Index(k, a)
    <2>1. n # Node(ts, L, v) \/ i # Index(L, v)
      BY <1>1, Meets
    <2>2. n \in DOMAIN ts /\ i \in Slots
      BY BranchReached, IndexInTable
    <2>3. us[n][i] = ts[n][i]
      BY <2>1, <2>2 DEF Written
    <2> QED
      BY <2>3 DEF Slot
  <1>3. P(4)
    BY NodeNext
  <1>4. \A k \in 1..3 : P(k + 1) => P(k)
    <2> SUFFICES ASSUME NEW k \in 1..3, P(k + 1), Reaches(ts, k, a)
                 PROVE  Node(us, k, a) = Node(ts, k, a)
      OBVIOUS
    <2>1. k + 1 \in 1..4 /\ Reaches(ts, k + 1, a)
      BY ReachesNext
    <2>2. Slot(us, k + 1, a) = Slot(ts, k + 1, a)
      BY <1>2, <2>1
    <2> QED
      BY <2>2, NodeNext
  <1> HIDE DEF P
  <1>5. P(4) /\ P(3) /\ P(2) /\ P(1)
    BY <1>3, <1>4
  <1>6. S(4) /\ S(3) /\ S(2) /\ S(1)
    BY <1>2, <1>5
  <1> DEFINE t4 == Slot(ts, 4, a)
             t3 == Slot(ts, 3, a)
             t2 == Slot(ts, 2, a)
             t1 == Slot(ts, 1, a)
             u4 == Slot(us, 4, a)
             u3 == Slot(us, 3, a)
             u2 == Slot(us, 2, a)
             u1 == Slot(us, 1, a)
  <1>7. /\ Reaches(ts, 4, a)
        /\ Reaches(ts, 3, a) <=> t4.kind = "table"
        /\ Reaches(ts, 2, a) <=> Reaches(ts, 3, a) /\ t3.kind = "table"
        /\ Reaches(ts, 1, a) <=> Reaches(ts, 2, a) /\ t2.kind = "table"
    BY ReachesNext
  <1>8. /\ Reaches(ts, 3, a) => t3.kind \in {"none", "page", "table"}
        /\ Reaches(ts, 2, a) => t2.kind \in {"none", "page", "table"}
    BY BranchReached DEF EntryType
  <1>9. u4 = t4 /\ (Reaches(ts, 3, a) => u3 = t3) /\ (Reaches(ts, 2, a) => u2 = t2)
        /\ (Reaches(ts, 1, a) => u1 = t1)
    BY <1>6, <1>7
  <1>10. /\ t4 = ts[Root][Index(4, a)] /\ t3 = ts[t4.to][Index(3, a)]
         /\ t2 = ts[t3.to][Index(2, a)] /\ t1 = ts[t2.to][Index(1, a)]
    <2>1. /\ Node(ts, 4, a) = Root /\ Node(ts, 3, a) = t4.to
          /\ Node(ts, 2, a) = t3.to /\ Node(ts, 1, a) = t2.to
      BY NodeNext
    <2> QED
      BY <2>1 DEF Slot
  <1>11. /\ u4 = us[Root][Index(4, a)] /\ u3 = us[u4.to][Index(3, a)]
         /\ u2 = us[u3.to][Index(2, a)] /\ u1 = us[u2.to][Index(1, a)]
    <2>1. /\ Node(us, 4, a) = Root /\ Node(us, 3, a) = u4.to
          /\ Node(us, 2, a) = u3.to /\ Node(us, 1, a) = u2.to
      BY NodeNext
    <2> QED
      BY <2>1 DEF Slot
  <1> HIDE DEF t4, t3, t2, t1, u4, u3, u2, u1
  <1>12. WalkIn(ts, a) =
           IF t4.kind # "table" THEN Unmapped
           ELSE IF t3.kind = "none" THEN Unmapped
           ELSE IF t3.kind = "page" THEN Hit({t4.bits}, t3, 3, a)
           ELSE IF t2.kind = "none" THEN Unmapped
           ELSE IF t2.kind = "page" THEN Hit({t4.bits, t3.bits}, t2, 2, a)
           ELSE IF t1.kind = "none" THEN Unmapped
           ELSE Hit({t4.bits, t3.bits, t2.bits}, t1, 1, a)
    BY <1>10 DEF WalkIn
  <1>13. WalkIn(us, a) =
           IF u4.kind # "table" THEN Unmapped
           ELSE IF u3.kind = "none" THEN Unmapped
           ELSE IF u3.kind = "page" THEN Hit({u4.bits}, u3, 3, a)
           ELSE IF u2.kind = "none" THEN Unmapped
           ELSE IF u2.kind = "page" THEN Hit({u4.bits, u3.bits}, u2, 2, a)
           ELSE IF u1.kind = "none" THEN Unmapped
           ELSE Hit({u4.bits, u3.bits, u2.bits}, u1, 1, a)
    BY <1>11 DEF WalkIn
  <1>14. CASE t4.kind # "table"
    BY <1>9, <1>12, <1>13, <1>14
  <1>15. CASE t4.kind = "table" /\ t3.kind # "table"
    BY <1>7, <1>8, <1>9, <1>12, <1>13, <1>15
  <1>16. CASE t4.kind = "table" /\ t3.kind = "table" /\ t2.kind # "table"
    BY <1>7, <1>8, <1>9, <1>12, <1>13, <1>16
  <1>17. CASE t4.kind = "table" /\ t3.kind = "table" /\ t2.kind = "table"
    BY <1>7, <1>9, <1>12, <1>13, <1>17
  <1> QED
    BY <1>14, <1>15, <1>16, <1>17

\* Until the kernel is entered the tables stay a tree, and the image, which is
\* below the direct map, stays where it is.
ImageAddresses == IMAGE.base..(IMAGE.base + IMAGE.size - 1)
ImageInv ==
  /\ \E lev, blk : Branches(tables, lev, blk)
  /\ meta.image.size # 0 => \A a \in ImageAddresses : WalkIn(tables, a).to = a

\* For what pager_map() has left of a section lies above it, in whole pages,
\* however the section is linked.
LeftInv ==
  status = "mapping" =>
    /\ todo.size # 0 =>
         todo.size % PAGE = 0 /\ HHDM <= todo.virtual /\ todo.virtual + todo.size <= SPACE
    /\ level > 0 =>
         /\ todo.size # 0 /\ Covers(leaf) <= todo.size
         /\ Reaches(tables, level, todo.virtual) /\ table = Node(tables, level, todo.virtual)

SwitchInv ==
  /\ stage \in FromElf => ImageInv /\ LeftInv
  /\ stage = "fault" => meta.image.size = 0

\* Where the image is.
LEMMA ImageBelow ==
  ASSUME LoadersOrderly, MachineInv, meta = MetaOf(grub), meta.image.size # 0,
         NEW a \in ImageAddresses
  PROVE  /\ a \in Addresses /\ a < HHDM
         /\ meta.image.base <= a /\ a < meta.image.base + meta.image.size
  <1>1. /\ meta.image.base \in Nat /\ meta.image.size \in Nat /\ HHDM \in Nat /\ HHDM < SPACE
        /\ SPACE \in Nat
    BY MetaIs, CoversNext DEF Addresses
  <1>2. IMAGE.base \in Nat /\ IMAGE.size \in Nat
    BY ImageAssumption
  <1>3. grub \in Loaders /\ meta.image = grub.image
    BY DEF MachineInv, MetaOf
  <1>4. /\ meta.image.base <= IMAGE.base
        /\ IMAGE.base + IMAGE.size <= meta.image.base + meta.image.size
        /\ meta.image.base + meta.image.size <= HHDM
    BY <1>3 DEF LoadersOrderly
  <1>5. a \in Nat /\ IMAGE.base <= a /\ a < IMAGE.base + IMAGE.size
    BY <1>2 DEF ImageAddresses
  <1> QED
    BY <1>1, <1>2, <1>4, <1>5 DEF Addresses

\* The image is where it was mapped once its own pager_map() has returned.
LEMMA ImageMapped ==
  ASSUME LoadersOrderly, MachineInv, meta = MetaOf(grub), IInv, ImageAsk(meta) \in served,
         status = "idle"
  PROVE  ImageInv
  <1> DEFINE r == ImageAsk(meta)
  <1>1. Sound(tables) /\ Serves(tables, served, features)
    BY DEF IInv, TablesInv
  <1>2. \E lev, blk : Branches(tables, lev, blk)
    BY <1>1 DEF Sound, Tree
  <1>3. ASSUME meta.image.size # 0, NEW a \in ImageAddresses
        PROVE  WalkIn(tables, a).to = a
    <2>1. /\ a \in Addresses /\ a \in Nat
          /\ meta.image.base <= a /\ a < meta.image.base + meta.image.size
      BY <1>3, ImageBelow, CoversNext DEF Addresses
    <2>2. /\ First(r) = meta.image.base /\ r.physical = meta.image.base
          /\ r.size = meta.image.size
      BY OwnAsks, OwnInOrder
    <2>3. Hits(WalkIn(tables, a), r, a, features)
      BY <1>1, <2>1, <2>2 DEF Serves, In
    <2>4. WalkIn(tables, a).to = Target(r, a, features).to
      BY <2>3 DEF Hits
    <2>5. Target(r, a, features).to = PageOf(meta.image.base) + (a - meta.image.base)
      BY <2>2 DEF Target
    <2>6. meta.image.base \in Nat
      BY <2>1, MetaIs DEF Addresses
    <2>7. PageOf(meta.image.base) = meta.image.base
      <3>1. First(r) = PageOf(meta.image.base)
        BY OwnAsks DEF First
      <3> QED
        BY <2>2, <3>1
    <2>8. meta.image.base + (a - meta.image.base) = a
      BY <2>1, <2>6
    <2> QED
      BY <2>4, <2>5, <2>7, <2>8
  <1> QED
    BY <1>2, <1>3 DEF ImageInv

\* What is left of a section that pager_map() is called for.
LEMMA LeftAtFirst ==
  ASSUME KernelsAbove, file \in Files, NEW i \in LoadedOf(file), NEW d, NEW c,
         PhysOf(file, d, c, i) \in Addresses, level' = 0, todo' = AskOf(file, d, c, i)
  PROVE  LeftInv'
  <1> DEFINE s == file.sections[i]
  <1>1. /\ s \in Section /\ s.addr \in Addresses /\ s.addr # 0 /\ i \in DOMAIN file.sections
        /\ s.addr + LoadSize(s) <= SPACE
    BY FileIs
  <1>2. LoadSize(s) % PAGE = 0
    BY <1>1, SizesOf
  <1>3. s.addr >= HHDM
    BY <1>1 DEF KernelsAbove
  <1>4. todo'.virtual = s.addr /\ todo'.size = LoadSize(s)
    BY AskOfIs
  <1>5. s.addr \in Int /\ HHDM \in Int
    BY <1>1, HhdmAssumption, CoversNext DEF Addresses
  <1> HIDE DEF s
  <1> QED
    BY <1>1, <1>2, <1>3, <1>4, <1>5 DEF LeftInv

\* Where pager_map() writes, and that the walk from the root got there.
LEMMA AtLeft ==
  ASSUME TypeInv, LeftInv, status = "mapping", level > 0
  PROVE  /\ todo \in Asking /\ todo.virtual \in Addresses /\ todo.virtual \in Nat
         /\ todo.size \in Nat /\ todo.size # 0 /\ todo.size % PAGE = 0
         /\ HHDM <= todo.virtual /\ todo.virtual + todo.size <= SPACE
         /\ level \in 1..4 /\ leaf \in 1..3 /\ Covers(leaf) <= todo.size
         /\ Reaches(tables, level, todo.virtual) /\ table = Node(tables, level, todo.virtual)
         /\ table \in DOMAIN tables /\ Index(level, todo.virtual) \in Slots
         /\ Here = Slot(tables, level, todo.virtual)
  <1>1. /\ todo \in Asking /\ level \in 0..4 /\ leaf \in 1..3 /\ table \in DOMAIN tables
    BY DEF TypeInv, RestOK
  <1>2. level \in 1..4
    BY <1>1
  <1>3. todo.virtual \in Addresses /\ todo.size \in Addresses
    BY <1>1, Asked
  <1>4. Index(level, todo.virtual) \in Slots
    BY <1>2, <1>3, IndexInTable
  <1>5. todo.virtual \in Nat /\ todo.size \in Nat
    BY <1>3 DEF Addresses
  <1>6. /\ todo.size # 0 /\ Covers(leaf) <= todo.size
        /\ Reaches(tables, level, todo.virtual) /\ table = Node(tables, level, todo.virtual)
        /\ todo.size % PAGE = 0 /\ HHDM <= todo.virtual /\ todo.virtual + todo.size <= SPACE
    BY DEF LeftInv
  <1>7. Here = Slot(tables, level, todo.virtual)
    BY <1>6 DEF Here, Slot
  <1> QED
    BY <1>1, <1>2, <1>3, <1>4, <1>5, <1>6, <1>7

\* An entry that is written above the direct map leaves the image.
LEMMA ImageKept ==
  ASSUME LoadersOrderly, MachineInv, meta = MetaOf(grub), ImageInv,
         NEW v \in Addresses, HHDM <= v, NEW L \in 1..4, Reaches(tables, L, v),
         NEW e, Written(tables, tables', Node(tables, L, v), Index(L, v), e), meta' = meta,
         \E lev, blk : Branches(tables', lev, blk)
  PROVE  ImageInv'
  <1> SUFFICES ASSUME meta.image.size # 0, NEW a \in ImageAddresses
               PROVE  WalkIn(tables', a).to = a
    BY DEF ImageInv, ImageAddresses
  <1>1. a \in Addresses /\ a < HHDM
    BY ImageBelow
  <1>2. HHDM % Covers(4) = 0
    BY DEF LoadersOrderly
  <1>3. Block(4, a) # Block(4, v)
    BY <1>1, <1>2, RootApart
  <1>4. PICK lev, blk : Branches(tables, lev, blk)
    BY DEF ImageInv
  <1>5. WalkIn(tables', a) = WalkIn(tables, a)
    BY <1>1, <1>3, <1>4, WalkElsewhere
  <1> QED
    BY <1>5 DEF ImageInv

\* A table more on the way to an address.
LEMMA TableBelow ==
  ASSUME NEW ts, NEW lev, NEW blk, Branches(ts, lev, blk), NEW L \in 2..4,
         NEW v \in Addresses, Reaches(ts, L, v),
         NEW us, NEW e, NEW n, Grown(ts, us, n, Node(ts, L, v), Index(L, v), e)
  PROVE  \E lev2, blk2 : Branches(us, lev2, blk2)
  <1> DEFINE t == Node(ts, L, v)
             x == Index(L, v)
  <1>1. L \in 1..4
    OBVIOUS
  <1>2. t \in DOMAIN ts /\ lev[t] = L
    BY <1>1, BranchReached
  <1>3. x \in Slots
    BY <1>1, IndexInTable
  <1>4. Grown(ts, us, n, t, x, e)
    OBVIOUS
  <1> HIDE DEF t, x
  <1>5. \E lev2, blk2 : /\ Branches(us, lev2, blk2)
                        /\ \A u \in DOMAIN ts : lev2[u] = lev[u] /\ blk2[u] = blk[u]
    BY SMTT(30), <1>2, <1>3, <1>4, BranchesWithTable
  <1>6. PICK lev2, blk2 : Branches(us, lev2, blk2)
    BY <1>5
  <1> QED
    BY <1>6

\* A new table changes no translation of the image, since the walk of the section
\* never enters a table that the image needs.
LEMMA LeftMakesTable ==
  ASSUME LoadersOrderly, MachineInv, meta = MetaOf(grub), TypeInv, ImageInv, LeftInv,
         MakeTable, meta' = meta
  PROVE  ImageInv' /\ LeftInv'
  <1> DEFINE n == Used + 1
             v == todo.virtual
             b == GetEntryBits(level, leaf, todo.attributes, features)
             e == TableAt(n, b)
             ss == AddTable(tables)
             x == Index(level, v)
  <1>1. /\ status = "mapping" /\ status' = "mapping" /\ level' = level - 1 /\ table' = n
        /\ Here.kind = "none" /\ tables' = [ss EXCEPT ![table][x] = e]
        /\ UNCHANGED <<todo, leaf>>
    BY DEF MakeTable, Walking, Missing, config, calls
  <1>2. /\ level \in 2..4 /\ TablesOK(tables', n, limit) /\ TablesOK(tables, Used, limit)
        /\ Used \in Nat
    BY MakeTableTypes DEF TypeInv
  <1>3. level > 0 /\ level - 1 > 0 /\ level \in 1..4 /\ level - 1 \in 1..3 /\ (level - 1) + 1 = level
    BY <1>2
  <1>4. /\ v \in Addresses /\ HHDM <= v /\ todo.size # 0 /\ todo.size % PAGE = 0
        /\ v + todo.size <= SPACE /\ Covers(leaf) <= todo.size
        /\ Reaches(tables, level, v) /\ table = Node(tables, level, v)
        /\ table \in DOMAIN tables /\ x \in Slots
        /\ Slot(tables, level, v).kind = "none"
    BY <1>1, <1>3, AtLeft
  <1>5. b \in SUBSET (0..63)
    BY FlagsInEntry
  <1>6. /\ DOMAIN tables = 1..Used /\ DOMAIN ss = 1..n
        /\ \A t \in DOMAIN tables : ss[t] = tables[t]
        /\ ss[n] = EmptyTable /\ \A t \in DOMAIN ss : ss[t] \in [Slots -> EntryType]
    BY <1>2, TablesGrow DEF TablesOK
  <1>7. n \notin DOMAIN tables /\ DOMAIN ss = DOMAIN tables \cup {n} /\ n \in Nat
    BY <1>2, <1>6
  <1> HIDE DEF b, ss, v, x, n
  <1>8. e \in EntryType /\ e.kind = "table" /\ e.to = n
    BY <1>5, <1>7, TableEntry
  <1> HIDE DEF e
  <1>9. /\ DOMAIN tables' = DOMAIN ss /\ tables'[table][x] = e
        /\ \A t \in DOMAIN ss : tables'[t] \in [Slots -> EntryType]
        /\ \A t \in DOMAIN ss : \A y \in Slots : t # table \/ y # x => tables'[t][y] = ss[t][y]
        /\ tables'[n] = ss[n]
    <2>1. table \in DOMAIN ss
      BY <1>4, <1>7
    <2>2. n # table
      BY <1>4, <1>7
    <2>3. tables'[n] = ss[n]
      BY <1>1, <1>7, <2>2
    <2> QED
      BY <1>1, <1>4, <1>6, <1>8, <2>1, <2>3, EntryWritten
  <1>10. Written(tables, tables', table, x, e)
    BY <1>6, <1>7, <1>9 DEF Written
  <1>11. Grown(tables, tables', n, table, x, e)
    BY <1>6, <1>7, <1>8, <1>9, <1>10 DEF Grown
  <1>12. PICK lev, blk : Branches(tables, lev, blk)
    BY DEF ImageInv
  <1>13. \E lev2, blk2 : Branches(tables', lev2, blk2)
    BY <1>2, <1>3, <1>4, <1>11, <1>12, TableBelow DEF x
  <1>14. Written(tables, tables', Node(tables, level, v), Index(level, v), e)
    BY <1>4, <1>10 DEF x
  <1>15. ImageInv'
    BY <1>3, <1>4, <1>13, <1>14, ImageKept
  <1>16. Reaches(tables', level, v) /\ Slot(tables', level, v) = e
    BY <1>3, <1>4, <1>12, <1>14, WaysKept
  <1>17. Reaches(tables', level - 1, v) /\ Node(tables', level - 1, v) = n
    <2>1. /\ Reaches(tables', (level - 1) + 1, v)
          /\ Slot(tables', (level - 1) + 1, v).kind = "table"
      BY <1>3, <1>8, <1>16
    <2>2. Node(tables', level - 1, v) = Slot(tables', (level - 1) + 1, v).to
      BY <1>3, NodeNext
    <2> QED
      BY <1>3, <1>8, <1>16, <2>1, <2>2, ReachesNext
  <1>18. LeftInv'
    BY <1>1, <1>4, <1>17 DEF LeftInv, v
  <1> QED
    BY <1>15, <1>18

\* Nor does a page of the section.
LEMMA LeftMapsPage ==
  ASSUME LoadersOrderly, MachineInv, meta = MetaOf(grub), TypeInv, ImageInv, LeftInv,
         MapPage, meta' = meta
  PROVE  ImageInv' /\ LeftInv'
  <1> DEFINE v == todo.virtual
             b == GetEntryBits(level, leaf, todo.attributes, features)
             e == PageAt(todo.physical, level, b)
             x == Index(level, v)
             c == Covers(level)
  <1>1. /\ status = "mapping" /\ level > 0 /\ level = leaf /\ level' = 0
        /\ tables' = [tables EXCEPT ![table][x] = e] /\ todo' = Advance(c)
    BY DEF MapPage
  <1>2. /\ todo \in Asking /\ v \in Addresses /\ v \in Nat /\ HHDM <= v
        /\ todo.size \in Nat /\ todo.size # 0 /\ todo.size % PAGE = 0
        /\ v + todo.size <= SPACE /\ level \in 1..4 /\ c <= todo.size
        /\ Reaches(tables, level, v) /\ table = Node(tables, level, v)
        /\ table \in DOMAIN tables /\ x \in Slots /\ todo.physical \in Addresses
    BY <1>1, AtLeft, Asked
  <1>3. b \in SUBSET (0..63)
    BY FlagsInEntry
  <1>4. \A t \in DOMAIN tables : tables[t] \in [Slots -> EntryType]
    BY DEF TypeInv, TablesOK
  <1>5. todo'.virtual = (v + c) % SPACE /\ todo'.size = (todo.size - c) % SPACE
        /\ c \in Nat \ {0} /\ SPACE \in Nat \ {0} /\ PAGE \in Nat \ {0} /\ HHDM \in Nat
    <2>1. c \in Nat \ {0} /\ SPACE \in Nat \ {0} /\ PAGE \in Nat \ {0} /\ HHDM \in Nat
      BY <1>2, CoversNext, PagerAssumption, HhdmAssumption
    <2> QED
      BY <1>1, <1>2, <2>1, AdvanceIs
  <1>6. c % PAGE = 0
    <2>1. 1 \in 1..4 /\ 1 <= level
      BY <1>2
    <2> QED
      BY <1>2, <2>1, CoversDivide, CoversIs
  <1> HIDE DEF b, v, x, c
  <1>7. e \in EntryType /\ e.kind = "page"
    BY <1>2, <1>3, PageEntry
  <1> HIDE DEF e
  <1>8. /\ DOMAIN tables' = DOMAIN tables /\ tables'[table][x] = e
        /\ \A t \in DOMAIN tables' : tables'[t] \in [Slots -> EntryType]
        /\ \A t \in DOMAIN tables : \A y \in Slots :
             t # table \/ y # x => tables'[t][y] = tables[t][y]
    BY <1>1, <1>2, <1>4, <1>7, EntryWritten
  <1>9. Written(tables, tables', table, x, e)
    BY <1>8 DEF Written
  <1>10. PICK lev, blk : Branches(tables, lev, blk)
    BY DEF ImageInv
  <1>11. Branches(tables', lev, blk)
    BY <1>2, <1>7, <1>8, <1>9, <1>10, BranchesWithPage
  <1>12. Written(tables, tables', Node(tables, level, v), Index(level, v), e)
    BY <1>2, <1>9 DEF x
  <1>13. ImageInv'
    BY <1>2, <1>11, <1>12, ImageKept
  <1>14. todo'.size = todo.size - c /\ todo'.size \in Nat /\ todo'.size % PAGE = 0
    <2>1. \A k \in Nat : k < SPACE => k % SPACE = k
      BY <1>5
    <2>2. todo.size - c \in Nat /\ todo.size - c < SPACE
      BY <1>2, <1>5
    <2>3. (todo.size - c) % PAGE = 0
      BY <1>2, <1>5, <1>6, SumMultiple
    <2> QED
      BY <1>5, <2>1, <2>2, <2>3
  <1>15. todo'.size # 0 => HHDM <= todo'.virtual /\ todo'.virtual + todo'.size <= SPACE
    <2> SUFFICES ASSUME todo'.size # 0
                 PROVE  HHDM <= todo'.virtual /\ todo'.virtual + todo'.size <= SPACE
      OBVIOUS
    <2>1. \A k \in Nat : k < SPACE => k % SPACE = k
      BY <1>5
    <2>2. v + c \in Nat /\ v + c < SPACE
      BY <1>2, <1>5, <1>14
    <2>3. todo'.virtual = v + c
      BY <1>5, <2>1, <2>2
    <2> QED
      BY <1>2, <1>5, <1>14, <2>3
  <1>16. LeftInv'
    BY <1>1, <1>14, <1>15 DEF LeftInv
  <1> QED
    BY <1>13, <1>16

\* The walk of the section goes one table further down,
LEMMA LeftEnters ==
  ASSUME TypeInv, LeftInv, Enter
  PROVE  LeftInv' /\ UNCHANGED tables
  <1> DEFINE v == todo.virtual
  <1>1. /\ status = "mapping" /\ level > leaf /\ Here.kind # "none"
        /\ IF Here.kind = "table"
           THEN table' = Here.to /\ level' = level - 1 /\ status' = status
           ELSE status' = "wild" /\ table' = table /\ level' = level
        /\ UNCHANGED <<tables, todo, leaf>>
    BY DEF Enter, Walking, Missing, config, calls
  <1>2. CASE Here.kind # "table"
    BY <1>1, <1>2 DEF LeftInv
  <1>3. CASE Here.kind = "table"
    <2>1. level \in 0..4 /\ leaf \in 1..3
      BY DEF TypeInv, RestOK
    <2>2. level > 0 /\ level - 1 \in 1..3 /\ (level - 1) + 1 = level
      BY <1>1, <2>1
    <2>3. Reaches(tables, level, v) /\ Here = Slot(tables, level, v)
      BY <1>1, <2>2, AtLeft
    <2>4. Reaches(tables, level - 1, v) /\ Node(tables, level - 1, v) = Here.to
      <3>1. Slot(tables, (level - 1) + 1, v).kind = "table" /\ Reaches(tables, (level - 1) + 1, v)
        BY <1>3, <2>2, <2>3
      <3>2. Node(tables, level - 1, v) = Slot(tables, (level - 1) + 1, v).to
        BY <2>2, NodeNext
      <3> QED
        BY <2>2, <2>3, <3>1, <3>2, ReachesNext
    <2> QED
      BY <1>1, <1>3, <2>2, <2>4 DEF LeftInv
  <1> QED
    BY <1>1, <1>2, <1>3

\* or begins at the root.
LEMMA LeftBegins ==
  ASSUME TypeInv, LeftInv, Round
  PROVE  LeftInv' /\ UNCHANGED tables
  <1>1. /\ status = "mapping" /\ status' = "mapping" /\ todo.size # 0
        /\ leaf' = LeafLevel /\ level' = 4 /\ table' = Root /\ UNCHANGED <<tables, todo>>
    BY DEF Round
  <1>2. /\ todo.size % PAGE = 0 /\ HHDM <= todo.virtual /\ todo.virtual + todo.size <= SPACE
    BY <1>1 DEF LeftInv
  <1>3. todo.size \in Nat /\ PAGE \in Nat \ {0}
    BY Asked, PagerAssumption DEF TypeInv, RestOK, Addresses
  <1>4. PAGE <= todo.size
    <2>1. \A c \in Nat \ {0}, n \in Nat : n % c = 0 /\ n # 0 => c <= n
      OBVIOUS
    <2> QED
      BY <1>1, <1>2, <1>3, <2>1
  <1>5. Covers(leaf') <= todo.size
    <2>1. Covers(1) = PAGE
      BY CoversIs
    <2> QED
      BY <1>1, <1>4, <2>1 DEF LeafLevel
  <1>6. Reaches(tables, 4, todo.virtual) /\ Node(tables, 4, todo.virtual) = Root
    BY NodeNext, ReachesNext
  <1> QED
    BY <1>1, <1>2, <1>5, <1>6 DEF LeftInv

\* Every step of pager_map() keeps the image.
LEMMA LeftMaps ==
  ASSUME LoadersOrderly, MachineInv, meta = MetaOf(grub), TypeInv, ImageInv, LeftInv,
         Map, meta' = meta
  PROVE  ImageInv' /\ LeftInv'
  <1>1. CASE MakeTable
    BY <1>1, LeftMakesTable
  <1>2. CASE MapPage
    BY <1>2, LeftMapsPage
  <1>3. CASE Enter \/ Round \/ Return \/ GiveUp
    <2>1. LeftInv' /\ UNCHANGED tables
      <3>1. CASE Enter
        BY <3>1, LeftEnters
      <3>2. CASE Round
        BY <3>2, LeftBegins
      <3>3. CASE Return \/ GiveUp
        BY <3>3 DEF Return, GiveUp, LeftInv
      <3> QED
        BY <1>3, <3>1, <3>2, <3>3
    <2> QED
      BY <2>1 DEF ImageInv, ImageAddresses
  <1> QED
    BY <1>1, <1>2, <1>3 DEF Map

\* The steps of load_elf().
LEMMA LeftLoading ==
  ASSUME LoadersOrderly, KernelsAbove, BootInv, PoolInv, Loading, ~ rebased', ImageInv, LeftInv
  PROVE  ImageInv' /\ LeftInv'
  <1>1. stage = "elf" /\ UNCHANGED own /\ LoadElf /\ result = 0
    BY DEF Loading, BootInv, LoaderInv
  <1>2. UNCHANGED <<stage, meta>> /\ meta = MetaOf(grub) /\ MachineInv /\ TypeInv
    BY <1>1, Idle, AtLoader DEF BootInv
  <1>3. ASSUME UNCHANGED <<tables, todo, leaf, level, table, status>>
        PROVE  ImageInv' /\ LeftInv'
    BY <1>2, <1>3 DEF ImageInv, ImageAddresses, LeftInv
  <1>4. CASE Load64 \/ LoadOther \/ SkipSection \/ MappedSection \/ ReturnEntry
    <2>1. UNCHANGED vars
      BY <1>4 DEF Load64, LoadOther, SkipSection, MappedSection, ReturnEntry
    <2> QED
      BY <1>3, <2>1, Idle
  <1>5. CASE loader = "mapping" /\ MapPages
    <2>1. Map
      BY <1>1, <1>2, <1>5, MapIs
    <2> QED
      BY <1>2, <2>1, LeftMaps
  <1>6. CASE ClearSection
    BY <1>1, <1>3, <1>6, SectionCleared
  <1>7. CASE MapSection \/ MapCleared
    <2>1. /\ section \in LoadedOf(file) /\ loader' = "mapping"
          /\ UNCHANGED <<file, data, section, cleared>> /\ BootInv'
          /\ \E r \in Asking : /\ Ask(r) /\ asked' = asked \cup {r}
                               /\ r = AskOf(file, data, cleared, section)
      BY <1>1, <1>7, SectionAsked
    <2>2. level' = 0 /\ todo' = AskOf(file, data, cleared, section) /\ UNCHANGED tables
      BY <2>1 DEF Ask
    <2>3. file \in Files /\ data = meta.kernel_elf /\ section \in Nat
      BY <1>1, AtLoader
    <2>4. /\ DOMAIN cleared = ClearedOf(file, Tried(file, section, "mapping"))
          /\ \A i \in DOMAIN cleared :
               /\ cleared[i] \in Nat /\ cleared[i] % PAGE = 0
               /\ cleared[i] + LoadSize(file.sections[i]) < SPACE
      BY <2>1 DEF BootInv, LoaderInv, TriedAs
    <2> DEFINE T == Tried(file, section, "mapping")
    <2>5. section \in T /\ T \in SUBSET LoadedOf(file)
      BY <2>1, <2>3, TriedIs
    <2> HIDE DEF T
    <2>6. PhysOf(file, data, cleared, section) \in Addresses
      BY <1>2, <2>3, <2>4, <2>5, PhysIs DEF T
    <2>7. LeftInv'
      BY <2>1, <2>2, <2>3, <2>6, LeftAtFirst
    <2> QED
      BY <1>2, <2>2, <2>7 DEF ImageInv, ImageAddresses
  <1> QED
    BY <1>1, <1>4, <1>5, <1>6, <1>7 DEF LoadElf

\* The instructions that switch: none faults.
LEMMA NothingFaults ==
  ASSUME BootInv, ImageInv, After, ~ rebased, stage = "fault" => meta.image.size = 0,
         stage' = "fault"
  PROVE  meta'.image.size = 0
  <1>1. UNCHANGED meta /\ stage \in FromElf
    BY AfterIs
  <1>2. MachineInv /\ TypeInv
    BY DEF BootInv
  <1> SUFFICES ASSUME meta.image.size # 0 PROVE FALSE
    BY <1>1
  <1>3. stage # "fault"
    OBVIOUS
  <1>4. \/ stage = "pg" /\ (~ (regs.cr3 = Root /\ regs.pae /\ regs.lme) \/ MayFault)
        \/ stage = "far_jump" /\ ~ LongCode(gdt[3])
    BY <1>3 DEF After, SetKernelEntry, HandOff, Switch, EnablePae, LoadCr3, EnableLme,
                EnablePaging, FarJump, Station, SetReg, Becomes
  <1>5. CASE stage = "pg"
    <2>1. regs.cr3 = Root /\ regs.pae /\ regs.lme
      BY <1>2, <1>5 DEF MachineInv
    <2>2. Root \in DOMAIN tables
      BY DEF ImageInv, Branches
    <2>3. ~ MayFault
      BY <2>2, WalkHere DEF MayFault, Unclear, ImageBytes, ImageInv, ImageAddresses
    <2> QED
      BY <1>4, <1>5, <2>1, <2>3
  <1>6. CASE stage = "far_jump"
    <2>1. gdt = Gates
      BY <1>1, <1>2 DEF MachineInv
    <2>2. Gates[3] = [limit |-> (2^20 - 1) % 2^20, access |-> 154, flags |-> 10]
      BY DEF Gates, SetGdtGate, NoGates
    <2>3. LongCode(Gates[3])
      BY <2>2 DEF LongCode
    <2> QED
      BY <1>4, <1>6, <2>1, <2>3
  <1> QED
    BY <1>4, <1>5, <1>6

\* So does every step of the boot, and none of the switch faults.
LEMMA SwitchStepKeeps ==
  ASSUME LoadersOrderly, KernelsAbove, BootInv, PoolInv, MapsInv, SwitchInv,
         [BootNext]_bootvars, ~ rebased'
  PROVE  SwitchInv'
  <1>1. ~ rebased
    BY NeverBack
  <1>2. ASSUME stage' \notin FromElf, stage' # "fault" PROVE SwitchInv'
    BY <1>2 DEF SwitchInv
  <1>3. CASE Before
    <2>1. stage' \in Unparsed \cup Parsed \cup {"hung"}
      BY <1>3, BeforeIs
    <2>2. stage' \notin FromElf /\ stage' # "fault"
      BY <2>1 DEF Unparsed, Parsed, FromElf, Switching
    <2> QED
      BY <1>2, <2>2
  <1>4. CASE CreateTables \/ MapHhdm \/ MapImage \/ Mapping
    <2>1. stage' \notin FromElf /\ stage' # "fault"
      BY <1>4, Idle DEF CreateTables, MapHhdm, MapImage, Mapping, Becomes, FromElf, Switching
    <2> QED
      BY <1>2, <2>1
  <1>5. CASE Mapped
    <2>1. /\ status = "idle" /\ UNCHANGED <<vars, meta>>
          /\ \/ stage = "image" /\ result = 0 /\ stage' = "elf"
             \/ stage' \in {"map_image", "hung"}
      BY <1>5, Idle DEF Mapped, Becomes, OrHang
    <2>2. CASE stage' \in {"map_image", "hung"}
      <3>1. stage' \notin FromElf /\ stage' # "fault"
        BY <2>2 DEF FromElf, Switching
      <3> QED
        BY <1>2, <3>1
    <2>3. CASE stage = "image" /\ result = 0 /\ stage' = "elf"
      <3>1. /\ stage \notin FromElf /\ MachineInv /\ meta = MetaOf(grub)
            /\ ImageAsk(meta) \in served
        BY <2>1, <2>3 DEF BootInv, MachineInv, AskedInv, FromElf, Switching
      <3>2. ImageInv
        BY <2>1, <3>1, ImageMapped DEF MapsInv
      <3>3. UNCHANGED <<tables, status>>
        BY <2>1, Idle
      <3>4. ImageInv'
        BY <2>1, <3>2, <3>3 DEF ImageInv, ImageAddresses
      <3>5. LeftInv'
        BY <2>1, <3>3 DEF LeftInv
      <3> QED
        BY <2>3, <3>4, <3>5 DEF SwitchInv
    <2> QED
      BY <2>1, <2>2, <2>3
  <1>6. CASE Loading
    <2>1. stage = "elf" /\ UNCHANGED own /\ stage \in FromElf
      BY <1>6, AtLoader DEF Loading
    <2>2. stage' = "elf"
      BY <2>1, Idle
    <2>3. ImageInv' /\ LeftInv'
      BY <1>6, <2>1, LeftLoading DEF SwitchInv
    <2> QED
      BY <2>2, <2>3 DEF SwitchInv
  <1>7. CASE After
    <2>1. UNCHANGED <<vars, meta>> /\ stage \in FromElf /\ stage' \in Switching
      BY <1>7, AfterIs
    <2>2. UNCHANGED <<tables, todo, leaf, level, table, status>>
      BY <2>1, Idle
    <2>3. ImageInv /\ LeftInv /\ (stage = "fault" => meta.image.size = 0)
      BY <2>1 DEF SwitchInv
    <2>4. ImageInv' /\ LeftInv'
      BY <2>1, <2>2, <2>3 DEF ImageInv, ImageAddresses, LeftInv
    <2>5. stage' = "fault" => meta'.image.size = 0
      BY <1>1, <1>7, <2>3, NothingFaults
    <2> QED
      BY <2>4, <2>5 DEF SwitchInv
  <1>8. CASE UNCHANGED bootvars
    <2>1. UNCHANGED <<own, elf_vars, vars>>
      BY <1>8 DEF bootvars
    <2>2. UNCHANGED <<stage, meta, tables, todo, leaf, level, table, status>>
      BY <2>1, Idle
    <2> QED
      BY <2>2 DEF SwitchInv, ImageInv, ImageAddresses, LeftInv
  <1> QED
    BY <1>3, <1>4, <1>5, <1>6, <1>7, <1>8 DEF BootNext, Before, After

\* When alloc() had the memory, the switch to long mode faults nowhere, provided that
\* GRUB said where it loaded the image: however the kernel above the direct map is
\* linked, the image stays where it is.
THEOREM NoFault == ASSUME LoadersOrderly, KernelsAbove PROVE BootSpec => []SwitchNeverFaults
  <1> DEFINE Inv == ~ rebased => BootInv /\ PoolInv /\ MapsInv /\ SwitchInv
  <1>1. BootInit => Inv
    <2>1. BootInit => SwitchInv
      BY DEF BootInit, SwitchInv, FromElf, Switching
    <2> QED
      BY <2>1, BootStarts, PoolStarts, MapsStart
  <1>2. Inv /\ [BootNext]_bootvars => Inv'
    <2> SUFFICES ASSUME Inv, [BootNext]_bootvars, ~ rebased'
                 PROVE  BootInv' /\ PoolInv' /\ MapsInv' /\ SwitchInv'
      OBVIOUS
    <2>1. BootInv /\ PoolInv /\ MapsInv /\ SwitchInv
      BY NeverBack
    <2> QED
      BY <2>1, BootStepKeeps, PoolStepKeeps, MapsStepKeeps, SwitchStepKeeps
  <1>3. Inv => SwitchNeverFaults
    BY DEF SwitchInv, SwitchNeverFaults, Fits
  <1> QED
    BY <1>1, <1>2, <1>3, PTL DEF BootSpec
=============================================================================
