----------------------------- MODULE MCPagerOdd -----------------------------
(* Values for the constants of Pager, for TLC: the pages and tables of     *)
(* MCPager, and the direct map of a memory that does not end on a page.    *)
EXTENDS Pager

OddMemory == {[virtual |-> 16, physical |-> 0, size |-> 13, attributes |-> ReadWrite]}
=============================================================================
