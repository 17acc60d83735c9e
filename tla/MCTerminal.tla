----------------------------- MODULE MCTerminal -----------------------------
(* Values for the constants of Terminal, for TLC: the smallest screens that *)
(* have a line of text, one with room for a tab and one without.            *)
EXTENDS Terminal

SmallScreens == {[width |-> 16, height |-> 48], [width |-> 80, height |-> 56]}

\* As firmware may leave the register: 7E1, divisor open.
AsFound == {{1, 3, 4, 7}}
=============================================================================
