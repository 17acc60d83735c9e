----------------------------- MODULE UtilProofs -----------------------------
(***************************************************************************)
(* Theorems about the byte loops of util.c, for every call on any memory   *)
(* of one piece.                                                           *)
(***************************************************************************)
EXTENDS Util, TLAPS

Upwards == job.fn \in {"memcpy", "wordcpy"}

\* The bytes that a copy has written.
Done ==
  IF Upwards THEN IF i = 0 THEN {} ELSE job.a..(job.a + i + job.word - 2)
  ELSE IF doing = "returned" THEN Target ELSE (job.a + i + 1)..(job.a + job.size - 1)

\* What is known of a call.
JobOK(j) ==
  /\ DOMAIN j.mem \subseteq Nat /\ \E n \in DOMAIN j.mem : j.mem \in [0..n -> 0..255]
  /\ j.a \in Nat /\ j.b \in Nat /\ j.size \in 0..(U32 - 1) /\ j.word \in Nat
  /\ j.fn \in {"memcpy", "nmemcpy", "wordcpy", "memset", "strcmp"}
  /\ j.fn # "wordcpy" => j.word = 1
  /\ j.fn = "nmemcpy" => j.a \in DOMAIN j.mem /\ j.b \in DOMAIN j.mem

Types ==
  /\ JobOK(job) /\ i \in Nat /\ DOMAIN mem = DOMAIN job.mem
  /\ doing \in {"called", "loop", "returned", "wild"}
  /\ doing = "called" => mem = job.mem

\* A copy has written what it should, and nothing else, and reads nothing that
\* it has written.
CopyInv ==
  Safe /\ doing \in {"loop", "returned"} =>
    /\ Done \subseteq DOMAIN mem
    /\ \A x \in Done : job.b + x - job.a \in DOMAIN mem
    /\ \A x \in DOMAIN mem :
         mem[x] = IF x \in Done THEN job.mem[job.b + x - job.a] ELSE job.mem[x]
    /\ Upwards => i <= job.size /\ (doing = "returned" => i = job.size)
    /\ job.fn = "nmemcpy" /\ doing = "loop" => i <= job.size - 1

SetInv ==
  job.fn = "memset" /\ doing \in {"loop", "returned"} =>
    /\ i <= job.size /\ (doing = "returned" => i = job.size)
    /\ mem = [x \in DOMAIN mem |-> IF x \in job.a..(job.a + i - 1) THEN job.b ELSE job.mem[x]]

\* The strings agree so far.
CompareInv ==
  job.fn = "strcmp" =>
    /\ mem = job.mem
    /\ \A k \in 0..(i - 1) : job.mem[job.a + k] = job.mem[job.b + k] /\ job.mem[job.a + k] # 0
    /\ doing = "returned" =>
         Differ(i) /\ order = job.mem[job.a + i] - job.mem[job.b + i]

UInv == Types /\ CopyInv /\ SetInv /\ CompareInv

LEMMA TypesInit == UtilInit => Types
  BY JobsAssumption DEF UtilInit, Types, JobOK

LEMMA TypesNext == Types /\ [UtilNext]_utilvars => Types'
  <1> SUFFICES ASSUME Types, [UtilNext]_utilvars PROVE Types'
    OBVIOUS
  <1> USE DEF Types
  <1>1. job' = job
    BY DEF UtilNext, utilvars, Start, Up, Down, LastByte, Set, EndOfLoop, Compare
  <1>2. CASE Start
    <2>1. i' \in Nat
      BY <1>2, SizeAssumption DEF Start, FromEnd, JobOK
    <2> QED
      BY <1>1, <1>2, <2>1 DEF Start
  <1>3. CASE Up
    <2>1. DOMAIN mem' = DOMAIN mem
      BY <1>3 DEF Up, Move
    <2> QED
      BY <1>1, <1>3, <2>1 DEF Up, Move, Looping
  <1>4. CASE Down
    <2>1. DOMAIN mem' = DOMAIN mem
      BY <1>4 DEF Down, Move
    <2> QED
      BY <1>1, <1>4, <2>1 DEF Down, Move, Looping
  <1>5. CASE LastByte
    BY <1>1, <1>5 DEF LastByte
  <1>6. CASE Set
    BY <1>1, <1>6 DEF Set, Looping
  <1>7. CASE EndOfLoop
    BY <1>1, <1>7 DEF EndOfLoop
  <1>8. CASE Compare
    BY <1>1, <1>8 DEF Compare, Looping
  <1>9. CASE UNCHANGED utilvars
    BY <1>9 DEF utilvars
  <1> QED
    BY <1>2, <1>3, <1>4, <1>5, <1>6, <1>7, <1>8, <1>9 DEF UtilNext

-----------------------------------------------------------------------------
(* Copies                                                                  *)

\* What the loops do about a byte: Region is where they have written.
Copied(m, m0, region, a, b) ==
  /\ region \subseteq DOMAIN m
  /\ \A x \in region : b + x - a \in DOMAIN m
  /\ \A x \in DOMAIN m : m[x] = IF x \in region THEN m0[b + x - a] ELSE m0[x]

\* n bytes more, read from where nothing was written, or where it is the same.
LEMMA MoreCopied ==
  ASSUME NEW m, NEW m0, NEW R, NEW a \in Nat, NEW b \in Nat, Copied(m, m0, R, a, b),
         DOMAIN m \subseteq Nat, NEW N, N \subseteq DOMAIN m,
         \A x \in N : b + x - a \in DOMAIN m /\ (a = b \/ b + x - a \notin R),
         NEW m2, m2 = [x \in DOMAIN m |-> IF x \in N THEN m[b + x - a] ELSE m[x]],
         NEW S, \A x : x \in S <=> x \in R \/ x \in N
  PROVE  Copied(m2, m0, S, a, b)
  <1>1. DOMAIN m2 = DOMAIN m
    OBVIOUS
  <1>2. ASSUME NEW x \in DOMAIN m
        PROVE  m2[x] = IF x \in S THEN m0[b + x - a] ELSE m0[x]
    <2>1. CASE x \in N
      <3>1. m2[x] = m[b + x - a] /\ x \in S
        BY <2>1
      <3>2. CASE a = b
        <4>1. x \in Nat /\ b + x - a = x
          BY <3>2
        <4> QED
          BY <3>1, <4>1 DEF Copied
      <3>3. CASE b + x - a \notin R
        BY <2>1, <3>1, <3>3 DEF Copied
      <3> QED
        BY <2>1, <3>2, <3>3
    <2>2. CASE x \notin N
      BY <2>2 DEF Copied
    <2> QED
      BY <2>1, <2>2
  <1> QED
    BY <1>1, <1>2 DEF Copied

\* CopyInv in these terms.
LEMMA CopyIs ==
  CopyInv <=> (Safe /\ doing \in {"loop", "returned"} =>
                 /\ Copied(mem, job.mem, Done, job.a, job.b)
                 /\ Upwards => i <= job.size /\ (doing = "returned" => i = job.size)
                 /\ job.fn = "nmemcpy" /\ doing = "loop" => i <= job.size - 1)
  BY DEF CopyInv, Copied

\* A safe copy is one of the three.
LEMMA SafeIs ==
  ASSUME JobOK(job), Safe
  PROVE  \/ /\ Upwards /\ job.word \in {1, 2, 4, 8} /\ job.fn # "nmemcpy"
            /\ \/ job.a = job.b \/ job.a + job.word - 1 <= job.b
               \/ job.a >= job.b + job.size + job.word - 1
         \/ /\ job.fn = "nmemcpy" /\ ~ Upwards /\ job.size > 0 /\ job.word = 1
            /\ job.a >= job.b \/ job.a + job.size <= job.b
  BY DEF Safe, JobOK, Upwards, WordSizes

LEMMA StartCopies ==
  ASSUME UInv, Start PROVE CopyInv'
  <1>1. doing' = "loop" /\ UNCHANGED <<job, mem>> /\ mem = job.mem
        /\ i' = IF job.fn = "nmemcpy" THEN FromEnd(job.size) ELSE 0
    BY DEF Start, UInv, Types
  <1> SUFFICES ASSUME Safe' PROVE CopyInv'
    BY DEF CopyInv
  <1>2. JobOK(job) /\ Safe
    BY <1>1 DEF UInv, Types, Safe
  <1>3. job.size \in Nat /\ job.size < U32
    BY <1>2, SizeAssumption DEF JobOK
  <1>4. Done' = {} /\ (Upwards => i' = 0) /\ (job.fn = "nmemcpy" => i' <= job.size - 1)
    <2>1. CASE Upwards /\ job.fn # "nmemcpy"
      BY <1>1, <2>1 DEF Done, Upwards
    <2>2. CASE job.fn = "nmemcpy" /\ ~ Upwards /\ job.size > 0
      <3>1. i' = job.size - 1
        <4>1. \A k \in Nat : k < U32 => k % U32 = k
          BY SizeAssumption
        <4>2. job.size - 1 \in Nat /\ job.size - 1 < U32
          BY <1>3, <2>2, SizeAssumption
        <4> QED
          BY <1>1, <2>2, <4>1, <4>2 DEF FromEnd
      <3>2. Done' = (job.a + i' + 1)..(job.a + job.size - 1)
        BY <1>1, <2>2 DEF Done, Upwards
      <3>3. job.a \in Nat
        BY <1>2 DEF JobOK
      <3> QED
        BY <1>3, <2>2, <3>1, <3>2, <3>3
    <2> QED
      BY <1>2, <2>1, <2>2, SafeIs
  <1> QED
    BY <1>1, <1>3, <1>4 DEF CopyInv, Upwards

LEMMA UpCopies ==
  ASSUME UInv, Up PROVE CopyInv'
  <1> DEFINE a == job.a
             b == job.b
             w == job.word
  <1>1. /\ doing = "loop" /\ Upwards /\ i < job.size /\ w \in {1, 2, 4, 8}
        /\ i' = i + 1 /\ job' = job /\ Move(w)
    BY DEF Up, Looping, Upwards, WordSizes
  <1> SUFFICES ASSUME Safe', doing' \in {"loop", "returned"} PROVE CopyInv'
    BY DEF CopyInv
  <1>2. JobOK(job) /\ Safe /\ i \in Nat /\ DOMAIN mem = DOMAIN job.mem
    BY <1>1 DEF UInv, Types, Safe
  <1>3. /\ a \in Nat /\ b \in Nat /\ w \in Nat /\ job.size \in Nat /\ job.fn # "nmemcpy"
        /\ DOMAIN mem \subseteq Nat
    BY <1>1, <1>2, SizeAssumption DEF JobOK, Upwards
  <1>4. /\ a = b \/ a + w - 1 <= b \/ a >= b + job.size + w - 1
    BY <1>1, <1>2, <1>3, SafeIs
  <1>5. /\ doing' = "loop"
        /\ mem' = [x \in DOMAIN mem |-> IF x \in (a + i)..(a + i + w - 1)
                                        THEN mem[b + i + x - (a + i)] ELSE mem[x]]
        /\ a + i \in DOMAIN mem /\ a + i + w - 1 \in DOMAIN mem
        /\ b + i \in DOMAIN mem /\ b + i + w - 1 \in DOMAIN mem
    BY <1>1 DEF Move, Inside
  <1> DEFINE N == (a + i)..(a + i + w - 1)
  <1>6. PICK top \in DOMAIN mem : DOMAIN mem = 0..top /\ top \in Nat
    BY <1>2, <1>3 DEF JobOK
  <1>7. Copied(mem, job.mem, Done, a, b)
    BY <1>1, <1>2, CopyIs DEF UInv
  <1>8. Done = IF i = 0 THEN {} ELSE a..(a + i + w - 2)
    BY <1>1 DEF Done
  <1>9. Done' = a..(a + (i + 1) + w - 2)
    BY <1>1, <1>2 DEF Done, Upwards
  <1>10. N \subseteq DOMAIN mem
    BY SMTT(30), <1>1, <1>2, <1>3, <1>5, <1>6
  <1>11. \A x \in N : /\ b + x - a \in DOMAIN mem
                      /\ a = b \/ b + x - a \notin Done
    <2> SUFFICES ASSUME NEW x \in N
                 PROVE  b + x - a \in DOMAIN mem /\ (a = b \/ b + x - a \notin Done)
      OBVIOUS
    <2>1. x \in Nat /\ a + i <= x /\ x <= a + i + w - 1
      BY <1>1, <1>2, <1>3
    <2> HIDE DEF a, b, w, N
    <2>2. b + x - a \in 0..top
      <3>1. b + i \in 0..top /\ b + i + w - 1 \in 0..top
        BY <1>5, <1>6
      <3> QED
        BY <1>2, <1>3, <2>1, <3>1
    <2>3. a = b \/ b + x - a \notin a..(a + i + w - 2)
      BY <1>1, <1>2, <1>3, <1>4, <2>1
    <2> QED
      BY <1>6, <1>8, <2>2, <2>3
  <1>12. \A x : x \in Done' <=> x \in Done \/ x \in N
    <2>1. i \in Nat /\ a \in Nat /\ w \in {1, 2, 4, 8}
      BY <1>1, <1>2, <1>3
    <2> HIDE DEF a, b, w
    <2>2. CASE i = 0
      BY <1>8, <1>9, <2>1, <2>2
    <2>3. CASE i # 0
      BY <1>8, <1>9, <2>1, <2>3
    <2> QED
      BY <2>2, <2>3
  <1>13. mem' = [x \in DOMAIN mem |-> IF x \in N THEN mem[b + x - a] ELSE mem[x]]
    <2>1. \A x \in DOMAIN mem : b + i + x - (a + i) = b + x - a
      BY <1>2, <1>3
    <2> QED
      BY <1>5, <2>1
  <1>14. Copied(mem', job.mem, Done', a, b)
    <2> HIDE DEF a, b, w, N
    <2> QED
      BY <1>3, <1>7, <1>10, <1>11, <1>12, <1>13, MoreCopied
  <1>15. i' <= job.size
    BY <1>1, <1>2, <1>3
  <1> QED
    BY <1>1, <1>3, <1>5, <1>14, <1>15 DEF CopyInv, Copied, Upwards

LEMMA DownCopies ==
  ASSUME UInv, Down PROVE CopyInv'
  <1> DEFINE a == job.a
             b == job.b
  <1>1. doing = "loop" /\ job.fn = "nmemcpy" /\ i > 0 /\ i' = i - 1 /\ job' = job /\ Move(1)
    BY DEF Down, Looping
  <1> SUFFICES ASSUME Safe', doing' \in {"loop", "returned"} PROVE CopyInv'
    BY DEF CopyInv
  <1>2. JobOK(job) /\ Safe /\ i \in Nat /\ DOMAIN mem = DOMAIN job.mem
    BY <1>1 DEF UInv, Types, Safe
  <1>3. /\ a \in Nat /\ b \in Nat /\ job.size \in Nat /\ ~ Upwards
        /\ DOMAIN mem \subseteq Nat /\ i \in Nat
    BY <1>1, <1>2, SizeAssumption DEF JobOK, Upwards
  <1>4. a >= b \/ a + job.size <= b
    BY <1>1, <1>2, SafeIs DEF Upwards
  <1>5. /\ doing' = "loop"
        /\ mem' = [x \in DOMAIN mem |-> IF x \in (a + i)..(a + i + 1 - 1)
                                        THEN mem[b + i + x - (a + i)] ELSE mem[x]]
        /\ a + i \in DOMAIN mem /\ b + i \in DOMAIN mem
    BY <1>1 DEF Move, Inside
  <1> DEFINE N == {a + i}
  <1>6. Copied(mem, job.mem, Done, a, b) /\ i <= job.size - 1
    BY <1>1, <1>2, CopyIs DEF UInv
  <1>7. Done = (a + i + 1)..(a + job.size - 1)
    BY <1>1, <1>3 DEF Done
  <1>8. Done' = (a + (i - 1) + 1)..(a + job.size - 1)
    BY <1>1, <1>3, <1>5 DEF Done, Upwards
  <1>9. \A x \in N : b + x - a \in DOMAIN mem /\ (a = b \/ b + x - a \notin Done)
    <2>1. b + (a + i) - a = b + i
      BY <1>3
    <2>2. a = b \/ b + i \notin (a + i + 1)..(a + job.size - 1)
      <3> HIDE DEF a, b
      <3> QED
        BY <1>3, <1>4
    <2> QED
      BY <1>5, <1>7, <2>1, <2>2
  <1>10. \A x : x \in Done' <=> x \in Done \/ x \in N
    <2> HIDE DEF a, b
    <2> QED
      BY <1>3, <1>6, <1>7, <1>8
  <1>11. mem' = [x \in DOMAIN mem |-> IF x \in N THEN mem[b + x - a] ELSE mem[x]]
    <2>1. \A x \in DOMAIN mem : b + i + x - (a + i) = b + x - a
      BY <1>3
    <2>2. \A x : x \in (a + i)..(a + i + 1 - 1) <=> x \in N
      BY <1>3
    <2> HIDE DEF a, b, N
    <2> QED
      BY <1>5, <2>1, <2>2
  <1>12. Copied(mem', job.mem, Done', a, b)
    <2>1. N \subseteq DOMAIN mem
      BY <1>5
    <2> HIDE DEF a, b, N
    <2> QED
      BY <1>3, <1>6, <1>9, <1>10, <1>11, <2>1, MoreCopied
  <1>13. i' <= job.size - 1
    BY <1>1, <1>3, <1>6
  <1> QED
    BY <1>1, <1>3, <1>5, <1>12, <1>13 DEF CopyInv, Copied, Upwards

LEMMA LastByteCopies ==
  ASSUME UInv, LastByte PROVE CopyInv'
  <1> DEFINE a == job.a
             b == job.b
             N == {a}
  <1>1. /\ doing = "loop" /\ job.fn = "nmemcpy" /\ i = 0 /\ doing' = "returned"
        /\ mem' = [mem EXCEPT ![a] = mem[b]] /\ job' = job /\ i' = i
    BY DEF LastByte, Looping
  <1> SUFFICES ASSUME Safe' PROVE CopyInv'
    BY DEF CopyInv
  <1>2. JobOK(job) /\ Safe /\ DOMAIN mem = DOMAIN job.mem
    BY <1>1 DEF UInv, Types, Safe
  <1>3. /\ a \in Nat /\ b \in Nat /\ job.size \in Nat /\ ~ Upwards
        /\ DOMAIN mem \subseteq Nat /\ a \in DOMAIN mem /\ b \in DOMAIN mem
    BY <1>1, <1>2, SizeAssumption DEF JobOK, Upwards
  <1>4. (a >= b \/ a + job.size <= b) /\ job.size > 0
    BY <1>1, <1>2, SafeIs DEF Upwards
  <1>5. Copied(mem, job.mem, Done, a, b)
    BY <1>1, <1>2, CopyIs DEF UInv
  <1>6. Done = (a + i + 1)..(a + job.size - 1) /\ Done' = a..(a + job.size - 1)
    BY <1>1, <1>3 DEF Done, Upwards, Target
  <1>7. \A x \in N : b + x - a \in DOMAIN mem /\ (a = b \/ b + x - a \notin Done)
    <2>1. b + a - a = b
      BY <1>3
    <2>2. a = b \/ b \notin (a + i + 1)..(a + job.size - 1)
      <3> HIDE DEF a, b
      <3> QED
        BY <1>1, <1>3, <1>4
    <2> QED
      BY <1>3, <1>6, <2>1, <2>2
  <1>8. \A x : x \in Done' <=> x \in Done \/ x \in N
    <2> HIDE DEF a, b
    <2> QED
      BY <1>1, <1>3, <1>4, <1>6
  <1>9. mem' = [x \in DOMAIN mem |-> IF x \in N THEN mem[b + x - a] ELSE mem[x]]
    <2>1. b + a - a = b
      BY <1>3
    <2> HIDE DEF a, b
    <2> QED
      BY <1>1, <2>1
  <1>10. Copied(mem', job.mem, Done', a, b)
    <2>1. N \subseteq DOMAIN mem
      BY <1>3
    <2> HIDE DEF a, b, N
    <2> QED
      BY <1>3, <1>5, <1>7, <1>8, <1>9, <2>1, MoreCopied
  <1> QED
    BY <1>1, <1>3, <1>10 DEF CopyInv, Copied, Upwards

\* The end of the loop.
LEMMA EndCopies ==
  ASSUME UInv, EndOfLoop PROVE CopyInv' /\ SetInv' /\ CompareInv'
  <1>1. /\ doing = "loop" /\ doing' = "returned" /\ UNCHANGED <<job, mem, i>>
        /\ job.fn \in {"memcpy", "wordcpy", "memset"} /\ job.fn \notin {"nmemcpy", "strcmp"}
        /\ i >= job.size \/ job.word \notin WordSizes
    BY DEF EndOfLoop, Looping
  <1>2. JobOK(job) /\ i \in Nat /\ job.size \in Nat
    BY SizeAssumption DEF UInv, Types, JobOK
  <1>3. CopyInv'
    <2> SUFFICES ASSUME Safe' PROVE CopyInv'
      BY DEF CopyInv
    <2>1. Safe
      BY <1>1 DEF Safe
    <2>2. Upwards /\ i >= job.size
      BY <1>1, <1>2, <2>1, SafeIs DEF WordSizes
    <2>3. Done' = Done
      BY <1>1, <2>2 DEF Done, Upwards
    <2>4. /\ Copied(mem, job.mem, Done, job.a, job.b) /\ i <= job.size
      BY <1>1, <2>1, <2>2, CopyIs DEF UInv
    <2>5. i = job.size
      BY <1>2, <2>2, <2>4
    <2> QED
      BY <1>1, <2>3, <2>4, <2>5 DEF CopyInv, Copied
  <1>4. SetInv'
    <2>1. job.fn = "memset" => job.word \in WordSizes
      BY <1>2 DEF JobOK, WordSizes
    <2> QED
      BY <1>1, <1>2, <2>1 DEF SetInv, UInv
  <1> QED
    BY <1>1, <1>3, <1>4 DEF CompareInv

-----------------------------------------------------------------------------
(* memset() and strcmp()                                                   *)

LEMMA SetSets ==
  ASSUME UInv, Set PROVE SetInv' /\ CopyInv' /\ CompareInv'
  <1>1. /\ doing = "loop" /\ job.fn = "memset" /\ i < job.size /\ i' = i + 1
        /\ mem' = [mem EXCEPT ![job.a + i] = job.b] /\ UNCHANGED <<job, doing>>
    BY DEF Set, Looping
  <1>2. i \in Nat /\ job.size \in Nat /\ job.a \in Nat
    BY SizeAssumption DEF UInv, Types, JobOK
  <1>3. DOMAIN mem \subseteq Nat /\ mem = [x \in DOMAIN mem |->
                IF x \in job.a..(job.a + i - 1) THEN job.b ELSE job.mem[x]]
    BY <1>1 DEF UInv, SetInv, Types, JobOK
  <1>4. \A x \in DOMAIN mem : x \in job.a..(job.a + i' - 1)
                                <=> x \in job.a..(job.a + i - 1) \/ x = job.a + i
    BY <1>1, <1>2, <1>3
  <1>5. mem' = [x \in DOMAIN mem |-> IF x = job.a + i THEN job.b ELSE mem[x]]
    BY <1>1, <1>3
  <1>6. mem' = [x \in DOMAIN mem' |->
                  IF x \in job.a..(job.a + i' - 1) THEN job.b ELSE job.mem[x]]
    <2> DEFINE N == job.a..(job.a + i' - 1)
               R == job.a..(job.a + i - 1)
    <2>1. \A x \in DOMAIN mem : x \in N <=> x \in R \/ x = job.a + i
      BY <1>4
    <2>2. mem = [x \in DOMAIN mem |-> IF x \in R THEN job.b ELSE job.mem[x]]
      BY <1>3
    <2>3. DOMAIN mem' = DOMAIN mem
      BY <1>5
    <2> HIDE DEF N, R
    <2>4. \A x \in DOMAIN mem : mem'[x] = IF x \in N THEN job.b ELSE job.mem[x]
      BY <1>5, <2>1, <2>2
    <2>5. mem' = [x \in DOMAIN mem' |-> mem'[x]]
      BY <1>5
    <2>6. mem' = [x \in DOMAIN mem' |-> IF x \in N THEN job.b ELSE job.mem[x]]
      BY <2>3, <2>4, <2>5
    <2> QED
      BY <2>6 DEF N
  <1>7. SetInv'
    BY <1>1, <1>2, <1>6 DEF SetInv
  <1>8. ~ Safe'
    BY <1>1 DEF Safe
  <1> QED
    BY <1>1, <1>7, <1>8 DEF CopyInv, CompareInv

LEMMA CompareCompares ==
  ASSUME UInv, Compare PROVE SetInv' /\ CopyInv' /\ CompareInv'
  <1>1. doing = "loop" /\ job.fn = "strcmp" /\ UNCHANGED <<job, mem>>
    BY DEF Compare, Looping
  <1>2. /\ i \in Nat /\ mem = job.mem
        /\ \A k \in 0..(i - 1) : job.mem[job.a + k] = job.mem[job.b + k] /\ job.mem[job.a + k] # 0
    BY <1>1 DEF UInv, Types, CompareInv
  <1>3. Ca = job.mem[job.a + i] /\ Cb = job.mem[job.b + i]
    BY <1>2 DEF Ca, Cb
  <1>4. CASE Ca = Cb /\ Ca # 0 /\ Cb # 0
    <2>1. i' = i + 1 /\ doing' = "loop" /\ order' = order
      BY <1>1, <1>4 DEF Compare
    <2>2. \A k \in 0..(i + 1 - 1) : k \in 0..(i - 1) \/ k = i
      BY <1>2
    <2>3. CompareInv'
      <3>1. mem' = job'.mem /\ doing' # "returned" /\ job' = job /\ i' - 1 = i
        BY <1>1, <1>2, <2>1
      <3>2. ASSUME NEW k \in 0..(i' - 1)
            PROVE  job.mem[job.a + k] = job.mem[job.b + k] /\ job.mem[job.a + k] # 0
        <4>1. k \in 0..(i - 1) \/ k = i
          BY <1>2, <3>1
        <4> QED
          BY <1>2, <1>3, <1>4, <4>1
      <3> QED
        BY <3>1, <3>2 DEF CompareInv
    <2> QED
      BY <1>1, <2>1, <2>3 DEF CopyInv, SetInv, Safe
  <1>5. CASE ~ (Ca = Cb /\ Ca # 0 /\ Cb # 0)
    <2>1. order' = Ca - Cb /\ doing' = "returned" /\ i' = i
      BY <1>5 DEF Compare
    <2>2. Differ(i)'
      BY <1>1, <1>2, <1>3, <1>5, <2>1 DEF Differ
    <2>3. CompareInv'
      BY <1>1, <1>2, <1>3, <2>1, <2>2 DEF CompareInv
    <2> QED
      BY <1>1, <2>3 DEF CopyInv, SetInv, Safe
  <1> QED
    BY <1>4, <1>5

-----------------------------------------------------------------------------
(* The theorem                                                             *)

\* The invariant holds from the call to the return.
THEOREM LoopsCorrect == UtilSpec => []UInv
  <1>1. UtilInit => UInv
    <2> SUFFICES ASSUME UtilInit PROVE UInv
      OBVIOUS
    <2>1. Types /\ doing = "called" /\ mem = job.mem /\ i = 0
      BY TypesInit DEF UtilInit
    <2>2. \A k \in 0..(i - 1) : FALSE
      BY <2>1
    <2> QED
      BY <2>1, <2>2 DEF UInv, CopyInv, SetInv, CompareInv
  <1>2. UInv /\ [UtilNext]_utilvars => UInv'
    <2> SUFFICES ASSUME UInv, [UtilNext]_utilvars PROVE UInv'
      OBVIOUS
    <2>1. Types'
      BY TypesNext DEF UInv
    <2>2. CASE Start
      <3>1. /\ doing' = "loop" /\ UNCHANGED <<job, mem>> /\ mem = job.mem
            /\ job.fn # "nmemcpy" => i' = 0
        BY <2>2 DEF Start, UInv, Types
      <3>2. job.a \in Nat /\ job.size \in Nat
        BY SizeAssumption DEF UInv, Types, JobOK
      <3>3. SetInv'
        <4> SUFFICES ASSUME job.fn = "memset"
                     PROVE  /\ i' <= job.size
                            /\ mem = [x \in DOMAIN mem |-> IF x \in job.a..(job.a + i' - 1)
                                                           THEN job.b ELSE job.mem[x]]
          BY <3>1 DEF SetInv
        <4>1. i' = 0 /\ job.a..(job.a + i' - 1) = {}
          BY <3>1, <3>2
        <4>2. mem = [x \in DOMAIN mem |-> job.mem[x]]
          <5>1. PICK n \in DOMAIN job.mem : job.mem \in [0..n -> 0..255]
            BY DEF UInv, Types, JobOK
          <5> QED
            BY <3>1, <5>1
        <4> QED
          BY <3>2, <4>1, <4>2
      <3>4. CompareInv'
        <4>1. job.fn = "strcmp" => \A k \in 0..(i' - 1) : FALSE
          BY <3>1
        <4> QED
          BY <3>1, <4>1 DEF CompareInv
      <3> QED
        BY <2>1, <2>2, <3>3, <3>4, StartCopies DEF UInv
    <2>3. CASE Up
      <3>1. SetInv' /\ CompareInv'
        BY <2>3 DEF Up, Looping, SetInv, CompareInv
      <3> QED
        BY <2>1, <2>3, <3>1, UpCopies DEF UInv
    <2>4. CASE Down
      <3>1. SetInv' /\ CompareInv'
        BY <2>4 DEF Down, Looping, SetInv, CompareInv
      <3> QED
        BY <2>1, <2>4, <3>1, DownCopies DEF UInv
    <2>5. CASE LastByte
      <3>1. SetInv' /\ CompareInv'
        BY <2>5 DEF LastByte, Looping, SetInv, CompareInv
      <3> QED
        BY <2>1, <2>5, <3>1, LastByteCopies DEF UInv
    <2>6. CASE Set
      BY <2>1, <2>6, SetSets DEF UInv
    <2>7. CASE EndOfLoop
      BY <2>1, <2>7, EndCopies DEF UInv
    <2>8. CASE Compare
      BY <2>1, <2>8, CompareCompares DEF UInv
    <2>9. CASE UNCHANGED utilvars
      BY <2>1, <2>9 DEF UInv, utilvars, CopyInv, SetInv, CompareInv, Done, Upwards, Target, Safe, Differ
    <2> QED
      BY <2>2, <2>3, <2>4, <2>5, <2>6, <2>7, <2>8, <2>9 DEF UtilNext
  <1> QED
    BY <1>1, <1>2, PTL DEF UtilSpec

\* A copy moves the bytes that were there when it was called and changes no
\* others, memset() and strcmp() do what they say: any size, any overlap that
\* the direction of the loop allows.
THEOREM CopiesAreExact == UtilSpec => []CopiesExact
  <1>1. UInv => CopiesExact
    <2> SUFFICES ASSUME UInv, doing = "returned" PROVE CopiesExact
      BY DEF CopiesExact
    <2>1. JobOK(job) /\ i \in Nat /\ DOMAIN mem = DOMAIN job.mem
      BY DEF UInv, Types
    <2>2. /\ job.a \in Nat /\ job.size \in Nat /\ job.word \in Nat /\ DOMAIN mem \subseteq Nat
      BY <2>1, SizeAssumption DEF JobOK
    <2>3. ASSUME Safe
          PROVE  /\ \A x \in Target : mem[x] = job.mem[job.b + x - job.a]
                 /\ \A x \in Others : x >= job.a + job.size + job.word - 1 \/ x < job.a
                                        => mem[x] = job.mem[x]
      <3>1. Copied(mem, job.mem, Done, job.a, job.b) /\ (Upwards => i = job.size)
        BY <2>3, CopyIs DEF UInv
      <3>2. Target \subseteq Done
        <4>1. CASE Upwards /\ job.word \in {1, 2, 4, 8}
          <5>1. i = job.size /\ Done = IF i = 0 THEN {} ELSE job.a..(job.a + i + job.word - 2)
            BY <3>1, <4>1 DEF Done
          <5> QED
            BY <2>2, <4>1, <5>1 DEF Target
        <4>2. CASE ~ Upwards
          BY <4>2 DEF Done
        <4> QED
          BY <2>1, <2>3, <4>1, <4>2, SafeIs
      <3>3. \A x \in Others : x >= job.a + job.size + job.word - 1 \/ x < job.a => x \notin Done
        <4> SUFFICES ASSUME NEW x \in Others, x >= job.a + job.size + job.word - 1 \/ x < job.a,
                            x \in Done
                     PROVE  FALSE
          OBVIOUS
        <4>1. x \in Nat /\ x \notin Target
          BY <2>2 DEF Others
        <4>2. CASE Upwards
          <5>1. i = job.size /\ Done = IF i = 0 THEN {} ELSE job.a..(job.a + i + job.word - 2)
            BY <3>1, <4>2 DEF Done
          <5> QED
            BY <2>2, <4>1, <5>1
        <4>3. CASE ~ Upwards
          BY <4>1, <4>3 DEF Done
        <4> QED
          BY <4>2, <4>3
      <3> QED
        BY <3>1, <3>2, <3>3 DEF Copied, Others
    <2>4. job.fn = "memset" =>
            mem = [x \in DOMAIN mem |-> IF x \in Target THEN job.b ELSE job.mem[x]]
      <3> SUFFICES ASSUME job.fn = "memset"
                   PROVE  mem = [x \in DOMAIN mem |-> IF x \in Target THEN job.b ELSE job.mem[x]]
        OBVIOUS
      <3>1. i = job.size /\ mem = [x \in DOMAIN mem |-> IF x \in job.a..(job.a + i - 1)
                                                        THEN job.b ELSE job.mem[x]]
        BY DEF UInv, SetInv
      <3> QED
        BY <3>1 DEF Target
    <2>5. job.fn = "strcmp" =>
            \E n \in 0..i : Differ(n) /\ order = job.mem[job.a + n] - job.mem[job.b + n]
      <3>1. i \in 0..i
        BY <2>1
      <3> QED
        BY <3>1 DEF UInv, CompareInv
    <2> QED
      BY <2>3, <2>4, <2>5 DEF CopiesExact
  <1> QED
    BY <1>1, LoopsCorrect, PTL
=============================================================================
