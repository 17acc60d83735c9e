------------------------------- MODULE MCBoot -------------------------------
(* Values for the constants of Boot, for TLC: pages of 32 bytes and tables *)
(* of 4 entries.  2 MiB stands for 128 bytes, 1 GiB for 512.  Of 1184      *)
(* bytes of memory the bank has up to 14 pages from 64, the image 64 bytes *)
(* at 576, and the kernel file lies at 640; the kernel is linked at 6144   *)
(* of 8192.                                                                *)
EXTENDS Boot

S(type, addr, offset, size) == [type |-> type, addr |-> addr, offset |-> offset, size |-> size]
PROGBITS == 1
STRTAB   == 3
NOBITS   == 8

Elf64(sections) == [class |-> 2, entry |-> 6150, sections |-> sections]
Null   == S(0, 0, 0, 0)
Text   == S(PROGBITS, 6144, 128, 128)
Rodata == S(PROGBITS, 6272 + 8, 256 + 8, 20)
Data   == S(PROGBITS, 6304, 288, 32)
Bss    == S(NOBITS, 6336, 320, 50)
Strtab == S(STRTAB, 0, 320, 9)

\* As a linker script makes it that begins each section on a page, or at the
\* same place in a page as in the file.
Neat == Elf64(<<Null, Text, Rodata, Data, Bss, Strtab>>)

\* .bss goes on in the page where .data ends; .rodata runs into a second page.
SharedPage == Elf64(<<Text, Rodata, S(PROGBITS, 6304, 288, 8), S(NOBITS, 6312, 296, 8)>>)
Straddling == Elf64(<<Text, S(PROGBITS, 6272 + 20, 256 + 20, 20)>>)

\* Sections as large as a large page that lie beside one.
LargeBss   == Elf64(<<Text, S(NOBITS, 6272, 256, 130)>>)
LargeData  == Elf64(<<Text, S(PROGBITS, 6304, 320, 128)>>)

Class32 == [class |-> 1, entry |-> 6150, sections |-> <<Text>>]

AllFiles   == {Neat, SharedPage, Straddling, LargeBss, Class32}
Misaligned == {LargeData}

Image == [base |-> 576, size |-> 64]

AllCpus ==
  LET Good == [pae |-> TRUE, pat |-> TRUE, ext |-> TRUE, lm |-> TRUE, nx |-> TRUE, gib |-> TRUE]
  IN  {[Good EXCEPT !.pat = p, !.gib = g] : p, g \in BOOLEAN}
        \cup {[Good EXCEPT !.pae = FALSE], [Good EXCEPT !.ext = FALSE, !.lm = FALSE],
              [Good EXCEPT !.lm = FALSE], [Good EXCEPT !.nx = FALSE]}

Grub == [magic |-> TRUE, mb2i |-> TRUE, mem_size |-> 1184, image |-> Image, kernel_elf |-> 640]
AllLoaders == {Grub, [Grub EXCEPT !.magic = FALSE], [Grub EXCEPT !.mb2i = FALSE],
               [Grub EXCEPT !.image = Unset.image]}
OneLoader  == {Grub}

\* What the theorems ask for holds of these values.
ASSUME OrderlyAssumption == LoadersOrderly /\ KernelsAbove
=============================================================================
