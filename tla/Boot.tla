-------------------------------- MODULE Boot --------------------------------
(***************************************************************************)
(* The bootstrapper as a whole: bsp() from the serial port to its return,  *)
(* and the instructions of entry.asm and 64/entry.asm that switch to long  *)
(* mode and jump to the kernel.                                            *)
(*                                                                         *)
(* The pager and the loader run as they are (Pager, Elf), with alloc() on  *)
(* the one bank of Elf.  The parser is what Mb2Parse shows it to give: what *)
(* was published.  The image, the kernel file and what lies behind the     *)
(* bank are taken to be apart from the pages that alloc() gives.           *)
(***************************************************************************)
EXTENDS Elf

CONSTANTS
  HHDM,          \* ARC_HHDM_VADDR
  IMAGE,         \* where the bootstrapper runs: [base, size]
  Cpus,          \* [pae, pat, ext, lm, nx, gib]: what CPUID reports
  Loaders        \* what GRUB hands over: [magic, mb2i, mem_size, image, kernel_elf]

\* There is memory, and GRUB put all it loaded into the address space.
ASSUME HhdmAssumption == HHDM \in 0..(SPACE - 1)
ASSUME ImageAssumption == IMAGE \in [base : Nat, size : Nat]
ASSUME LoadersAssumption ==
  \A g \in Loaders :
    /\ g.mem_size \in 1..(SPACE - 1) /\ g.kernel_elf \in Nat
    /\ g.image \in [base : 0..(SPACE - 1), size : 0..(SPACE - 1)]
    /\ \A f \in Files : \A i \in DOMAIN f.sections :
         g.kernel_elf + f.sections[i].offset + LoadSize(f.sections[i]) < SPACE

VARIABLES
  stage,         \* what bsp(), then the entry code, does next
  cpu, grub,
  pat,           \* the page attribute MSR: type by number
  gdt,           \* gdt_entries
  regs,          \* CR4.PAE, CR3, EFER.LME, CR0.PG, CS
  meta,          \* Arc_KernelMeta and Arc_BootMeta, as far as they are used
  reserved,      \* where the hand-off splits the bank, in pages: all before is marked
  kernel_entry

machine  == <<cpu, grub, pat, gdt, regs>>
own      == <<stage, machine, meta, reserved, kernel_entry>>
bootvars == <<own, elf_vars, vars>>

Unset    == [mem_size |-> 0, image |-> [base |-> 0, size |-> 0], kernel_elf |-> 0]
Reset    == [pae |-> FALSE, cr3 |-> 0, lme |-> FALSE, pg |-> FALSE, cs |-> 0]

\* The attributes of the processor at reset.
ResetPat == <<"WB", "WT", "UC-", "UC", "WB", "WT", "UC-", "UC">>

Becomes(s) == stage' = s
\* All of own but the stage.
OwnRest    == <<machine, meta, reserved, kernel_entry>>

-----------------------------------------------------------------------------
(* bsp()                                                                   *)

InitUart ==
  /\ stage = "uart" /\ Becomes("signature")
  /\ UNCHANGED <<OwnRest, elf_vars, vars>>

CheckSignature ==
  /\ stage = "signature"
  /\ Becomes(IF grub.magic THEN "cpuid" ELSE "hung")
  /\ UNCHANGED <<OwnRest, elf_vars, vars>>

\* Mutant: the types in the order of their codes.
ArctanPatByCode == <<"UC", "WC", "WT", "WP", "WB", "UC-", "UC", "UC">>

\* PAGE_ATTRIBUTE(): six types; what is left of the register is 0.
ArctanPat == <<"WB", "UC", "UC-", "WC", "WT", "WP", "UC", "UC">>

\* check_cpuid() hangs in the order of its tests; the attributes come second.
CheckCpuid ==
  /\ stage = "cpuid"
  /\ pat' = IF cpu.pae /\ cpu.pat THEN ArctanPat ELSE pat
  /\ IF cpu.pae /\ cpu.ext /\ cpu.lm
     THEN /\ Becomes("parse")
          /\ features' = If(cpu.nx, {"nx"}) \cup If(cpu.gib, {"gib"})
     ELSE Becomes("hung") /\ UNCHANGED features
  /\ UNCHANGED <<cpu, grub, gdt, regs, meta, reserved, kernel_entry, elf_vars>>
  /\ UNCHANGED <<tables, limit, calls, todo, walk, result, status>>

Parse ==
  /\ stage = "parse"
  /\ IF grub.mb2i
     THEN /\ Becomes("mmap")
          /\ meta' = [mem_size |-> grub.mem_size, image |-> grub.image,
                      kernel_elf |-> grub.kernel_elf]
     ELSE Becomes("hung") /\ UNCHANGED meta
  /\ UNCHANGED <<machine, reserved, kernel_entry, elf_vars, vars>>

\* watermark_update_mmap() picks the bank, if there is one.
FirstUpdate ==
  /\ stage = "mmap" /\ Becomes("arch")
  /\ UNCHANGED <<OwnRest, elf_vars, vars>>

\* set_gdt_gate(): of the limit 20 bits, of the flags 4 are kept.
SetGdtGate(g, i, limit20, access, flags) ==
  [g EXCEPT ![i] = [limit |-> limit20 % 2^20, access |-> access % 256, flags |-> flags % 16]]

NoGates == [i \in 0..15 |-> [limit |-> 0, access |-> 0, flags |-> 0]]

\* Mutant: the 64-bit segment gets the flags of the 32-bit one.
Gates32 ==
  LET all == 2^20 - 1 IN
  SetGdtGate(SetGdtGate(SetGdtGate(NoGates, 1, all, 154, 12), 2, all, 146, 12), 3, all, 154, 12)

Gates ==
  LET all == 2^20 - 1 IN
  SetGdtGate(SetGdtGate(SetGdtGate(NoGates, 1, all, 154, 12), 2, all, 146, 12), 3, all, 154, 10)

\* _install_gdt() reloads CS with the 32-bit segment.
InstallGdt(r) == [r EXCEPT !.cs = 8]

\* init_arch().  What init_idt() does is the subject of Idt.
InitArch ==
  /\ stage = "arch" /\ Becomes("tables")
  /\ gdt' = Gates /\ regs' = InstallGdt(regs)
  /\ UNCHANGED <<cpu, grub, pat, meta, reserved, kernel_entry, elf_vars, vars>>

\* alloc() without an entry reads the one before the first: NULL, or any pointer.
CreateTables ==
  /\ stage = "tables" /\ Create
  /\ IF limit = 0
     THEN stage' \in {"hung", "wild"} /\ UNCHANGED pool
     ELSE /\ Becomes("map_hhdm")
          /\ mark' = 1 /\ frame' = <<0>> /\ UNCHANGED <<bank, rebased>>
  /\ UNCHANGED <<OwnRest, loading>>

AskFor(v, p, size) ==
  [virtual |-> v, physical |-> p, size |-> size, attributes |-> ReadWrite]

MapHhdm ==
  /\ stage = "map_hhdm" /\ Becomes("hhdm")
  /\ Call(AskFor(HHDM, 0, meta.mem_size))
  /\ UNCHANGED <<OwnRest, elf_vars>>

MapImage ==
  /\ stage = "map_image" /\ Becomes("image")
  /\ Call(AskFor(meta.image.base, meta.image.base, meta.image.size))
  /\ UNCHANGED <<OwnRest, elf_vars>>

Mapping ==
  /\ stage \in {"hhdm", "image"} /\ MapPages
  /\ UNCHANGED own

OrHang(next) == IF result = 0 THEN next ELSE "hung"

Mapped ==
  /\ status = "idle"
  /\ \/ stage = "hhdm" /\ Becomes(OrHang("map_image"))
     \/ stage = "image" /\ Becomes(OrHang("elf"))
  /\ data' = IF stage' = "elf" THEN meta.kernel_elf ELSE data
  /\ UNCHANGED <<OwnRest, file, loader, section, cleared, lost, elf_entry, pool, vars>>

Loading ==
  /\ stage = "elf" /\ LoadElf
  /\ UNCHANGED own

\* Whatever load_elf() returned.
SetKernelEntry ==
  /\ stage = "elf" /\ loader = "returned" /\ Becomes("handoff")
  /\ kernel_entry' = elf_entry
  /\ UNCHANGED <<machine, meta, reserved, elf_vars, vars>>

\* Mutant: the hand-off marks what the tables took.
HandOffTables ==
  /\ stage = "handoff" /\ Becomes("pae")
  /\ reserved' = Used
  /\ UNCHANGED <<machine, meta, kernel_entry, elf_vars, vars>>

\* watermark_update_mmap() splits its entry at the mark.
HandOff ==
  /\ stage = "handoff" /\ Becomes("pae")
  /\ reserved' = mark
  /\ UNCHANGED <<machine, meta, kernel_entry, elf_vars, vars>>

-----------------------------------------------------------------------------
(* entry.asm.  From the moment that paging is on, an instruction faults if *)
(* it is not where its address translates to, and nothing handles it.      *)

\* Where a page that a table is in was handed out again, tables are read at
\* levels they were not written for.  Only an entry that is absent in the root
\* still says what the processor finds.
Unclear(a) == rebased /\ tables[Root][Index(4, a)].kind # "none"

ImageBytes == IMAGE.base..(IMAGE.base + IMAGE.size - 1)
MayRun     == \A a \in ImageBytes : Unclear(a) \/ Walk(a).to = a
MayFault   == \E a \in ImageBytes : Unclear(a) \/ Walk(a).to # a

SetReg(from, to, r) ==
  /\ stage = from /\ Becomes(to) /\ regs' = r
  /\ UNCHANGED <<cpu, grub, pat, gdt, meta, reserved, kernel_entry, elf_vars, vars>>

EnablePae  == SetReg("pae", "cr3", [regs EXCEPT !.pae = TRUE])
LoadCr3    == SetReg("cr3", "lme", [regs EXCEPT !.cr3 = Root])
EnableLme  == SetReg("lme", "pg", [regs EXCEPT !.lme = TRUE])

EnablePaging ==
  LET set  == regs.cr3 = Root /\ regs.pae /\ regs.lme
      next == {n \in {"far_jump", "fault"} :
                 IF n = "far_jump" THEN set /\ MayRun ELSE ~ set \/ MayFault}
  IN  \E n \in next : SetReg("pg", n, [regs EXCEPT !.pg = TRUE])

LongCode(d) == (d.access \div 8) % 4 = 3 /\ d.access \div 128 = 1
                 /\ (d.flags \div 2) % 2 = 1 /\ (d.flags \div 4) % 2 = 0

\* jmp 0x18:_kernel_station
FarJump ==
  SetReg("far_jump", IF LongCode(gdt[3]) THEN "station" ELSE "fault", [regs EXCEPT !.cs = 24])

\* 64/entry.asm: the jump through kernel_entry.  An address above the lower
\* and below the upper half of the address space, as -1 here, faults as well.
Station ==
  /\ stage = "station"
  /\ \/ /\ kernel_entry # -1
        /\ Unclear(kernel_entry) \/ Walk(kernel_entry).to # -1
        /\ Becomes("kernel")
     \/ /\ kernel_entry # -1 =>
             Unclear(kernel_entry) \/ Walk(kernel_entry).to = -1
        /\ Becomes("lost")
  /\ UNCHANGED <<OwnRest, elf_vars, vars>>

Switch == EnablePae \/ LoadCr3 \/ EnableLme \/ EnablePaging \/ FarJump \/ Station

-----------------------------------------------------------------------------

BootInit ==
  /\ Init /\ features = {} /\ ElfInit
  /\ stage = "uart" /\ cpu \in Cpus /\ grub \in Loaders
  /\ pat = ResetPat /\ gdt = NoGates /\ regs = Reset
  /\ meta = Unset /\ reserved = 0 /\ kernel_entry = 0

BootNext ==
  \/ InitUart \/ CheckSignature \/ CheckCpuid \/ Parse \/ FirstUpdate \/ InitArch
  \/ CreateTables \/ MapHhdm \/ MapImage \/ Mapping \/ Mapped
  \/ Loading \/ SetKernelEntry \/ HandOff
  \/ Switch

BootSpec == BootInit /\ [][BootNext]_bootvars /\ WF_bootvars(BootNext)

-----------------------------------------------------------------------------
(* What the machine and the kernel file have to be like for pager_map() to *)
(* do what bsp() and load_elf() mean: memory is whole pages and fits above *)
(* the start of the direct map, which begins a table of the root; the      *)
(* image, if GRUB said where it is, is there, is whole pages below the     *)
(* direct map, and is aligned to a large page if it is as large as one.    *)

LoadersOrderly ==
  /\ HHDM % Covers(4) = 0
  /\ \A g \in Loaders :
       /\ g.mem_size % PAGE = 0 /\ HHDM + g.mem_size <= SPACE
       /\ g.image.base % PAGE = 0 /\ g.image.size % PAGE = 0
       /\ \A l \in {2, 3} : g.image.size >= Covers(l) => g.image.base % Covers(l) = 0
       /\ g.image.base + g.image.size <= HHDM
       /\ g.image.size # 0 => /\ g.image.base <= IMAGE.base
                              /\ IMAGE.base + IMAGE.size <= g.image.base + g.image.size

\* The kernel is linked above the start of the direct map.
KernelsAbove ==
  \A f \in Files : \A i \in DOMAIN f.sections :
    f.sections[i].addr = 0 \/ f.sections[i].addr >= HHDM

-----------------------------------------------------------------------------
(* Properties                                                              *)

Entered == stage = "kernel"
Linked  == WellLinked(HHDM + meta.mem_size)

\* alloc() has never gone beyond the end of its bank.
Fits == ~ rebased /\ mark <= bank

\* The pages of the memory that a cleared section was given.
PagesOf(i) == LET first == (cleared[i] - POOL) \div PAGE
              IN  first..(first + LoadSize(file.sections[i]) \div PAGE - 1)

\* The values of the stages, of the loader and of the allocator: its mark is
\* within what its test allows until it begins the bank again.
BootTypeOK ==
  /\ stage \in {"uart", "signature", "cpuid", "parse", "mmap", "arch", "tables",
                "map_hhdm", "hhdm", "map_image", "image", "elf", "handoff",
                "pae", "cr3", "lme", "pg", "far_jump", "station",
                "kernel", "hung", "wild", "fault", "lost"}
  /\ loader \in {"ready", "section", "cleared", "mapping", "returned"}
  /\ section \in 0..(Len(file.sections) + 1)
  /\ DOMAIN cleared \cup lost \subseteq Loaded
  /\ features \subseteq {"nx", "gib"}
  /\ mark \in Nat /\ bank \in Nat /\ rebased \in BOOLEAN
  /\ rebased \/ mark <= Behind + bank
  /\ reserved \in {0, mark}

\* When the kernel is entered and alloc() had the memory, each byte of the
\* kernel's sections is where it was linked: the loop over the sections, the
\* page sizes and the tables in between lose none of them.
KernelComplete ==
  Entered /\ Linked /\ Fits => \A i \in Loaded : SectionIsThere(i)

\* When alloc() had the memory, a well linked kernel is never entered without
\* all of the direct map, writable for the kernel and cached write-back,
\* through all that the loader maps after it.
DirectMapComplete ==
  Entered /\ Linked /\ Fits =>
    \A a \in {p \in Pages : p < meta.mem_size} :
      /\ Walk(HHDM + a) = [to |-> a, rights |-> Wanted(ReadWrite, features)]
      /\ pat[Walk(HHDM + a).rights.pat + 1] = "WB"

\* When alloc() had the memory, the switch to long mode faults nowhere between
\* the bit that turns paging on and the kernel, however the kernel is linked
\* above the start of the direct map, provided that GRUB said where it loaded
\* the image.
SwitchNeverFaults == stage = "fault" /\ Fits => meta.image.size = 0

\* The tables and the cleared sections of the kernel lie in pages of the bank,
\* each in its own, and the memory map that the kernel gets marks all of them.
PagesReserved ==
  Entered /\ Fits =>
    /\ reserved <= bank
    /\ \A t \in DOMAIN tables :
         /\ frame[t] \in 0..(reserved - 1)
         /\ \A u \in DOMAIN tables \ {t} : frame[u] # frame[t]
    /\ \A i \in DOMAIN cleared :
         /\ PagesOf(i) \subseteq 0..(reserved - 1)
         /\ \A t \in DOMAIN tables : frame[t] \notin PagesOf(i)
         /\ \A j \in DOMAIN cleared \ {i} : PagesOf(i) \cap PagesOf(j) = {}

\* The machine comes to the kernel, or to one of the places where it stops.
BootEnds == <>(stage \in {"kernel", "hung", "wild", "fault", "lost"} \/ status = "wild")

-----------------------------------------------------------------------------
(* What the repository says and the code does not do.                      *)

\* bsp.c: "Parse the Kernel ELF file and map it into memory and set
\* kernel_entry to the virtual address of where the kernel is".
KernelUnpacked ==
  stage \in {"kernel", "lost"} => \A i \in Loaded : SectionIsThere(i)

\* bsp.c: "Map bootstrapper image into memory so a page fault is not immediately
\* thrown after enabling paging".
ImageStaysMapped == stage = "fault" => meta.image.size = 0
=============================================================================
