------------------------------ MODULE EntryBits ------------------------------
(***************************************************************************)
(* The flags of a page table entry: get_entry_bits() of arch/x86/pager.c,  *)
(* and what the processor makes of the flags it meets on a walk.           *)
(*                                                                         *)
(* A set of flags is a set of bit numbers.  The attributes of a request    *)
(* are a record: "pat" the number of a memory type, "us", "rw", "nx" and   *)
(* "only4k" single bits, "keep" the four bits ARC_PAGER_AUTO_USRW_DISABLE. *)
(* Types 4 to 7 are left out: get_entry_bits() would put their bit into    *)
(* the address of the tables on the way, and no caller asks for them.      *)
(***************************************************************************)
EXTENDS Integers

Attributes == [pat : 0..3, us : BOOLEAN, rw : BOOLEAN, nx : BOOLEAN,
               only4k : BOOLEAN, keep : 0..15]

\* 1 << ARC_PAGER_RW, the only attribute that bsp() and load_elf() ask for.
ReadWrite == [pat |-> 0, us |-> FALSE, rw |-> TRUE, nx |-> FALSE,
              only4k |-> FALSE, keep |-> 0]

PRESENT == 0
WRITE   == 1
USER    == 2
PWT     == 3
PCD     == 4
PAT_4K  == 7      \* in an entry of level 1
LARGE   == 7      \* in an entry of level 2 or 3
PAT_BIG == 12     \* in the entry of a large page
NO_EXEC == 63

Bit(n, i) == (n \div 2^i) % 2 = 1
If(c, flags) == IF c THEN flags ELSE {}

\* Mutant: the tables get the rights of the page they were made for.
OpenSame(level, leaf, a) == FALSE

\* us_rw_overwrite: a table lets through what the pages below it allow.
Open(level, leaf, a) == level # leaf /\ level > a.keep + 1

\* The flags of an entry of a level on the way to a page mapped at level leaf
\* (ARC_PAGER_RESV0 and RESV1 say which level that is).
GetEntryBits(level, leaf, a, features) ==
  UNION {{PRESENT},
         If(Bit(a.pat, 0), {2}),
         If(Bit(a.pat, 1), {3}),
         If(a.us \/ Open(level, leaf, a), {USER}),
         If(a.rw \/ Open(level, leaf, a), {WRITE}),
         If(level = leaf /\ level \in {2, 3}, {LARGE}),
         If(a.nx /\ "nx" \in features, {NO_EXEC})}

\* The callback ORs the flags into the physical address, whose low bits, if
\* it is not that of a page, become flags too.
AddressBits(physical, page) == {i \in 0..11 : Bit(physical % page, i)}

-----------------------------------------------------------------------------
(* The processor                                                           *)

Value(c) == IF c THEN 1 ELSE 0

\* The number of the memory type that the flags of a leaf select.
MemoryType(bits, level) ==
  Value(PWT \in bits) + 2 * Value(PCD \in bits)
    + 4 * Value((IF level = 1 THEN PAT_4K ELSE PAT_BIG) \in bits)

\* What a walk allows that met the flags in path, and at its end those of leaf.
Rights(path, leaf, level) ==
  [us  |-> \A bits \in path \cup {leaf} : USER \in bits,
   rw  |-> \A bits \in path \cup {leaf} : WRITE \in bits,
   nx  |-> \E bits \in path \cup {leaf} : NO_EXEC \in bits,
   pat |-> MemoryType(leaf, level)]

NoRights == [us |-> FALSE, rw |-> FALSE, nx |-> TRUE, pat |-> 0]

\* What a request asks for, on a processor with these features.
Wanted(a, features) ==
  [us |-> a.us, rw |-> a.rw, nx |-> a.nx /\ "nx" \in features, pat |-> a.pat]
=============================================================================
