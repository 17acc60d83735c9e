------------------------------ MODULE MCMb2Parse ------------------------------
(* Values for the constants of Mb2Parse, for TLC.                          *)
EXTENDS Mb2Parse

E(b, l, t) == [base |-> b, len |-> l, type |-> t]
MMap(s)    == [kind |-> "mmap", entries |-> s]
Module(n, b, e) == [kind |-> "module", name |-> n, start |-> b, end |-> e]
LoadBase(a) == [kind |-> "load_base_addr", addr |-> a]
Tag(k)      == [kind |-> k]

MCTypeCode == [available |-> AVAILABLE, reserved |-> RESERVED,
               acpi |-> 6, nvs |-> 1, badram |-> 7]

\* Where the bootstrapper may lie: nowhere known; from the second bank on, into
\* it, to the end of it or over the hole above it, the tags in any order; alone;
\* inside the first bank.
Places == {<<>>,
           <<LoadBase(8), Module("kernel", 10, 12)>>,
           <<Module("initramfs", 12, 13), LoadBase(8), Module("other", 10, 12)>>,
           <<Module("kernel", 12, 17), LoadBase(8), Module("other", 10, 11)>>,
           <<LoadBase(8)>>,
           <<LoadBase(2), Module("kernel", 4, 6)>>}

\* Three entries in any order, apart, touching, overlapping, contained, equal.
ThreeEntries ==
  LET Es == {E(b, l, t) : b \in {0, 8}, l \in {4, 8, 10},
                          t \in {"available", "reserved"}}
  IN  {<<e, f, E(16, 4, t)>> : e, f \in Es, t \in {"available", "reserved", "nvs"}}
        \cup {<<E(12, 6, "acpi"), e, f>> : e, f \in Es}
        \cup {<<E(4, 6, "available"), e, f>> : e, f \in Es}

\* A PC: low memory, the image and its modules, an ISA hole, the rest, the
\* firmware at the top, and an entry of a type that is not known.
PC == <<E(8, 6, "available"), E(30, 2, "reserved"), E(16, 8, "available"),
        E(0, 4, "available"), E(24, 2, "newtype"), E(14, 2, "reserved")>>

\* The topmost entry of the address space; an empty one; a map that fills the
\* array, or is longer than it.
Top  == <<E(60, 4, "reserved"), E(4, 0, "available"), E(8, 8, "available")>>
Full == <<E(8, 6, "available"), E(0, 2, "reserved"), E(2, 2, "nvs"),
          E(4, 2, "badram"), E(14, 2, "reserved"), E(16, 2, "acpi"),
          E(20, 2, "available")>>
TooMany == Append(Full, E(24, 8, "available"))

MCTags ==
  {p \o <<MMap(s), Tag("other")>> : p \in Places, s \in ThreeEntries}
    \cup {<<MMap(s), Tag("acpi")>> \o p \o <<Tag("framebuffer"), Tag("other")>> :
            p \in Places, s \in {PC, Top, Full, TooMany, <<>>}}
    \cup {<<>>, <<Tag("other")>>, <<Tag("acpi"), LoadBase(8), Tag("acpi")>>,
          <<MMap(PC), MMap(Top)>>}

\* The firmware reports a bank, and in it a hole that is reserved.
Hole == {<<MMap(<<E(0, 4, "reserved"), E(8, 16, "available"),
                  E(12, 4, "reserved")>>), Tag("other")>>}

\* The bootstrapper is loaded into the middle of a bank.
Middle == {<<LoadBase(12), Module("kernel", 14, 20),
             MMap(<<E(0, 4, "available"), E(8, 16, "available"),
                    E(24, 8, "reserved")>>)>>}
=============================================================================
