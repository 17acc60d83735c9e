----------------------------- MODULE MCLibrary -----------------------------
(* The routines without state, each called once: Arith64 at a width of 16  *)
(* bits, Util over 7 bytes.                                                *)
EXTENDS Arith64, Util

\* Words with one to three significant bits and their neighbours, at every
\* place of the word.
Operands == {(m * 2^k + d) % ALL : m \in {1, 3, 5, 7}, k \in 0..(W - 1), d \in {-1, 0, 1}}

AllCalls ==
  [fn : {"unsigned", "signed"}, a : Operands, b : Operands]
    \cup [fn : {"ashl", "ashr", "lshr"}, a : Operands, b : 0..(2 * W)]
    \cup [fn : {"abs", "clz", "ctz", "ffs", "popcount"}, a : Word, b : {0}]

J(fn, x, y, n, w, m) == [fn |-> fn, a |-> x, b |-> y, size |-> n, word |-> w, mem |-> m]

Bytes == 0..6
Named == [x \in Bytes |-> x + 1]

Copies  == {J(fn, x, y, n, 1, Named) : fn \in {"memcpy", "nmemcpy"}, x, y \in 0..3, n \in 0..3}
Words   == {J("wordcpy", x, y, n, w, Named) : x, y \in 0..2, n \in 0..3, w \in {0, 1, 2}}
             \cup {J("wordcpy", x, y, 2, 4, Named) : x, y \in 0..2}
Sets    == {J("memset", x, 0, n, 1, Named) : x \in 0..3, n \in 0..3}
\* Two strings of up to two characters, each with an end.
Strings == {J("strcmp", 0, 3, 0, 1, [x \in Bytes |->
               IF x \in {2, 5, 6} THEN 0 ELSE s[x]]) : s \in [{0, 1, 3, 4} -> {0, 65, 200}]}

AllJobs == Copies \cup Words \cup Sets \cup Strings

Init ==
  \/ ArithInit /\ UtilIdle
  \/ UtilInit /\ ArithIdle

Next ==
  \/ ArithNext /\ UNCHANGED utilvars
  \/ UtilNext /\ UNCHANGED arithvars
Spec == Init /\ [][Next]_<<arithvars, utilvars>>
=============================================================================
