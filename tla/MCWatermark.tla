----------------------------- MODULE MCWatermark -----------------------------
(* Values for the constants of Watermark, for TLC.                         *)
EXTENDS Watermark

E(b, l, t) == [base |-> b, len |-> l, type |-> t]
Map(s) == [entries |-> [i \in Slots |-> IF i < Len(s) THEN s[i + 1] ELSE NoEntry],
           len |-> Len(s)]

\* The map of a PC: low memory, the image, the rest, a hole, a second bank.
PC == Map(<<E(0, 4, AVAILABLE), E(4, 4, BOOTSTRAP), E(8, 8, AVAILABLE),
            E(16, 4, RESERVED), E(20, 4, AVAILABLE)>>)

\* Two banks of the same length, and one above 4 GiB that is longer.
Banks == Map(<<E(0, 2, AVAILABLE), E(4, 6, AVAILABLE), E(10, 4, RESERVED),
               E(14, 6, AVAILABLE), E(40, 20, AVAILABLE)>>)

\* A bank that crosses 4 GiB.
Crossing == Map(<<E(0, 2, RESERVED), E(20, 14, AVAILABLE)>>)

\* Maps whose first entry is the one allocated from.
FirstBank == Map(<<E(4, 8, AVAILABLE), E(12, 2, RESERVED), E(14, 4, AVAILABLE)>>)
OnlyBank  == Map(<<E(4, 10, AVAILABLE)>>)

\* Nothing to allocate from.
NoBank == Map(<<E(0, 4, AVAILABLE), E(8, 4, RESERVED), E(40, 4, AVAILABLE)>>)

\* More than half of the array, the last entry the longest.
Long == Map(<<E(0, 2, AVAILABLE), E(4, 2, RESERVED), E(6, 2, AVAILABLE),
              E(8, 2, RESERVED), E(10, 2, AVAILABLE), E(12, 2, RESERVED),
              E(14, 6, AVAILABLE)>>)

\* The usual small machine: its only bank begins at 1 MiB.
Small == Map(<<E(0, 2, AVAILABLE), E(4, 8, AVAILABLE), E(12, 4, RESERVED)>>)

\* Half of the array, the bank last.
Half == Map(<<E(0, 2, AVAILABLE), E(2, 1, RESERVED), E(4, 2, RESERVED),
              E(8, 2, RESERVED), E(20, 8, AVAILABLE)>>)

\* Every choice of types and of short and long entries over three banks, so
\* that which entry is the longest, and whether there is one, varies.
Three == {Map(<<E(0, x[1], t[1]), E(6, x[2], t[2]), E(14, x[3], t[3])>>) :
            x \in [1..3 -> {2, 5}], t \in [1..3 -> {AVAILABLE, RESERVED}]}

MCMaps == {PC, Banks, Crossing, FirstBank, OnlyBank, NoBank, Long, Small, Half}
            \cup Three
=============================================================================
