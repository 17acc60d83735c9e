-------------------------------- MODULE Util --------------------------------
(***************************************************************************)
(* util.c: the byte loops memcpy(), nmemcpy(), memset(), wordcpy() and     *)
(* strcmp(), one iteration at a time, over a small memory.                 *)
(***************************************************************************)
EXTENDS Integers

CONSTANTS
  U32,           \* values of a size_t
  Jobs           \* calls [fn, a, b, size, word] with the memory they find

ASSUME SizeAssumption == U32 \in Nat /\ U32 > 1

\* The memory is one piece; nmemcpy() writes its first byte unasked.
ASSUME JobsAssumption ==
  \A j \in Jobs :
    /\ DOMAIN j.mem \subseteq Nat /\ \E n \in DOMAIN j.mem : j.mem \in [0..n -> 0..255]
    /\ j.a \in Nat /\ j.b \in Nat /\ j.size \in 0..(U32 - 1) /\ j.word \in Nat
    /\ j.fn \in {"memcpy", "nmemcpy", "wordcpy", "memset", "strcmp"}
    /\ j.fn # "wordcpy" => j.word = 1
    /\ j.fn = "nmemcpy" => j.a \in DOMAIN j.mem /\ j.b \in DOMAIN j.mem

VARIABLES
  job,           \* the call: mem is what it finds
  mem,           \* bytes by address
  i,             \* the loop counter
  doing,         \* "none", "called", "loop", "returned" or "wild"
  order          \* what strcmp() returned

utilvars == <<job, mem, i, doing, order>>

Inside(x) == x \in DOMAIN mem

\* Mutant: nmemcpy() begins at the front.
FromFront(size) == 0

\* i = size - 1, in size_t.
FromEnd(size) == (size - 1) % U32

Start ==
  /\ doing = "called" /\ doing' = "loop"
  /\ i' = IF job.fn = "nmemcpy" THEN FromEnd(job.size) ELSE 0
  /\ UNCHANGED <<job, mem, order>>

\* n bytes from b + i to a + i; outside of the memory modelled, anything.
Move(n) ==
  LET from == job.b + i  to == job.a + i IN
  IF Inside(to) /\ Inside(to + n - 1) /\ Inside(from) /\ Inside(from + n - 1)
  THEN /\ mem' = [x \in DOMAIN mem |-> IF x \in to..(to + n - 1) THEN mem[from + x - to] ELSE mem[x]]
       /\ UNCHANGED doing
  ELSE doing' = "wild" /\ UNCHANGED mem

Looping(fns) == doing = "loop" /\ job.fn \in fns

\* The word sizes wordcpy() knows; for others it does nothing.
WordSizes == {1, 2, 4, 8}

\* memcpy(), and wordcpy() that moves words from byte to byte.
Up ==
  /\ Looping({"memcpy", "wordcpy"}) /\ i < job.size /\ job.word \in WordSizes
  /\ Move(job.word) /\ i' = i + 1
  /\ UNCHANGED <<job, order>>

\* nmemcpy(), down to 0.
Down ==
  /\ Looping({"nmemcpy"}) /\ i > 0
  /\ Move(1) /\ i' = i - 1
  /\ UNCHANGED <<job, order>>

LastByte ==
  /\ Looping({"nmemcpy"}) /\ i = 0
  /\ mem' = [mem EXCEPT ![job.a] = mem[job.b]]
  /\ doing' = "returned"
  /\ UNCHANGED <<job, i, order>>

Set ==
  /\ Looping({"memset"}) /\ i < job.size
  /\ mem' = [mem EXCEPT ![job.a + i] = job.b] /\ i' = i + 1
  /\ UNCHANGED <<job, doing, order>>

EndOfLoop ==
  /\ Looping({"memcpy", "wordcpy", "memset"})
  /\ i >= job.size \/ job.word \notin WordSizes
  /\ doing' = "returned"
  /\ UNCHANGED <<job, mem, i, order>>

Ca == mem[job.a + i]
Cb == mem[job.b + i]

Compare ==
  /\ Looping({"strcmp"})
  /\ IF Ca = Cb /\ Ca # 0 /\ Cb # 0
     THEN i' = i + 1 /\ UNCHANGED <<doing, order>>
     ELSE order' = Ca - Cb /\ doing' = "returned" /\ UNCHANGED i
  /\ UNCHANGED <<job, mem>>

UtilNext == Start \/ Up \/ Down \/ LastByte \/ Set \/ EndOfLoop \/ Compare

NoJob == [fn |-> "none", a |-> 0, b |-> 0, size |-> 0, word |-> 1, mem |-> [x \in {0} |-> 0]]

UtilIdle ==
  /\ job = NoJob /\ mem = job.mem /\ i = 0 /\ doing = "none" /\ order = 0

UtilInit ==
  /\ job \in Jobs /\ mem = job.mem /\ i = 0 /\ doing = "called" /\ order = 0

UtilSpec == UtilInit /\ [][UtilNext]_utilvars
-----------------------------------------------------------------------------
(* Properties                                                              *)

Target == job.a..(job.a + job.size - 1)
Others == (DOMAIN mem) \ Target

\* The direction of the loop does not meet what it has written, which ends a
\* word, not a byte, after where the copy is.
Safe == CASE job.fn \in {"memcpy", "wordcpy"} ->
                 /\ job.word \in WordSizes
                 /\ \/ job.a = job.b
                    \/ job.a + job.word - 1 <= job.b
                    \/ job.a >= job.b + job.size + job.word - 1
          [] job.fn = "nmemcpy" -> job.size > 0 /\ (job.a >= job.b \/ job.a + job.size <= job.b)
          [] OTHER -> FALSE

\* The first difference of two strings, or their end.
Differ(n) ==
  /\ job.mem[job.a + n] # job.mem[job.b + n] \/ job.mem[job.a + n] = 0
  /\ \A k \in 0..(n - 1) : job.mem[job.a + k] = job.mem[job.b + k] /\ job.mem[job.a + k] # 0

\* A copy moves the bytes that were there when it was called, even where the two
\* ranges overlap, as the edits of the memory map rely on: memcpy() downwards,
\* nmemcpy() upwards.  Nothing else changes, except that wordcpy() goes on for
\* the rest of a word.  memset() and strcmp() do what they say.
CopiesExact ==
  doing = "returned" =>
    /\ Safe => /\ \A x \in Target : mem[x] = job.mem[job.b + x - job.a]
               /\ \A x \in Others : x >= job.a + job.size + job.word - 1 \/ x < job.a
                                      => mem[x] = job.mem[x]
    /\ job.fn = "memset" => mem = [x \in DOMAIN mem |-> IF x \in Target THEN job.b ELSE job.mem[x]]
    /\ job.fn = "strcmp" =>
         \E n \in 0..i : Differ(n) /\ order = job.mem[job.a + n] - job.mem[job.b + n]
=============================================================================
