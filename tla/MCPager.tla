------------------------------- MODULE MCPager -------------------------------
(* Values for the constants of Pager, for TLC: pages of 2 bytes, tables of *)
(* 2 entries, so 2 MiB stands for 4 bytes, 1 GiB for 8, and there are 32.  *)
EXTENDS Pager

R(v, p, s) == [virtual |-> v, physical |-> p, size |-> s, attributes |-> ReadWrite]
With(a, r) == [r EXCEPT !.attributes = a]

\* A page of its own for programs to read.
UserReads == [ReadWrite EXCEPT !.us = TRUE, !.rw = FALSE, !.only4k = TRUE]

\* As bsp() and load_elf() ask: the direct map of all memory, the image where
\* it is, sections of the kernel at the top of the address space; and a
\* mapping with other rights beside the sections.
AsBspAsks == {R(0, 0, 14), R(16, 16, 2), R(20, 4, 4), R(26, 2, 2), R(28, 8, 4),
              With(UserReads, R(24, 20, 2))}

\* The theorems of PagerProofs hold for requests like these.
ASSUME OrderlyAssumption == Orderly
=============================================================================
