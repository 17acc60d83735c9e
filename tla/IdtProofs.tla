------------------------------- MODULE IdtProofs -------------------------------
(***************************************************************************)
(* Theorems about exceptions, for every stack with room for them, every    *)
(* set of vectors and any depth of handlers interrupted by handlers.       *)
(***************************************************************************)
EXTENDS Idt, SequenceTheorems, TLAPS

USE StackAssumption, RoomAssumption

-----------------------------------------------------------------------------
(* Addresses of instructions                                               *)

\* An address says which vector and which instruction it is.
LEMMA AddressParts ==
  ASSUME NEW v \in 0..31, NEW n \in 1..24
  PROVE  /\ Address(v, n) % 32 = n
         /\ (Address(v, n) \div 32) - 1000 = v
         /\ Address(v, n) + 1 = Address(v, n + 1)
  BY DEF Address

\* The instructions of the stubs are code.
LEMMA AddressCode ==
  ASSUME NEW v \in 0..31, NEW n \in 1..24
  PROVE  Address(v, n) \in Code \ {MAIN, RESET}
  <1>1. Address(v, n) \in Int /\ Address(v, n) > 1
    BY DEF Address
  <1>2. Address(v, n) \in Code
    BY DEF Code, PUSH_CODE, IRET
  <1> QED
    BY <1>1, <1>2 DEF MAIN, RESET

\* The two halves of an offset in a gate are the address of the stub.
LEMMA GateLeadsToStub ==
  \A v \in 0..31 : /\ GateOf(v).offset1 + PART * GateOf(v).offset2 = Address(v, 1)
                   /\ GateOf(v).attrs = INTERRUPT /\ GateOf(v).segment = CS
  <1> TAKE v \in 0..31
  <1>1. PART = 256
    BY DEF PART
  <1>2. Address(v, 1) \in Int /\ 0 <= Address(v, 1) /\ Address(v, 1) < 65536
    BY DEF Address
  <1>3. \A x \in Int : 0 <= x /\ x < 65536 => x \div 256 \in 0..255
    OBVIOUS
  <1>4. \A x \in Int : (x % 256) + 256 * (x \div 256) = x
    OBVIOUS
  <1>5. \A x \in 0..255 : x % 256 = x
    OBVIOUS
  <1>6. (Address(v, 1) % 256) + 256 * ((Address(v, 1) \div 256) % 256) = Address(v, 1)
    BY <1>2, <1>3, <1>4, <1>5
  <1> QED
    BY <1>1, <1>6 DEF GateOf, PUSH_CODE

-----------------------------------------------------------------------------
(* What a handler has on the stack                                         *)

Context == [vector : 0..31, reg : [Registers -> Int], eip : Code \ {RESET},
            stack : [0..(TOP - 1) -> Int]]

\* The words the processor pushes, and where they end.
Frame(v) == IF v \in PushesError THEN 4 ELSE 3
Base(c)  == c.reg["esp"] - Frame(c.vector)

\* Where the handler of c has the stack pointer before its instruction n.
StackPointer(c, n) ==
  IF n <= 12 THEN Base(c) - (n - 1)
  ELSE IF n <= 14 THEN Base(c) - 11
  ELSE IF n = 15 THEN Base(c) - 10
  ELSE IF n <= 23 THEN Base(c) - (25 - n)
  ELSE c.reg["esp"] - 3

\* Register q, the i-th pushed, is on the stack until it is popped, and holds
\* its value except between the call of C code and the pop.
Keeps(c, r, n, st, q, i) ==
  /\ n \in (i + 2)..(24 - i) => st[Base(c) - 1 - i] = c.reg[q]
  /\ n <= 14 \/ n > 24 - i \/ q \in {"ebx", "esi", "edi", "ebp"} => r[q] = c.reg[q]

\* What holds on the stack st and of the registers r when the handler that
\* interrupted c is before its instruction n.
Running(c, r, n, st) ==
  /\ r["esp"] = StackPointer(c, n)
  /\ st[c.reg["esp"] - 3] = c.eip
  /\ n \in 2..23  => st[Base(c) - 1] = c.vector
  /\ n \in 3..12  => st[Base(c) - 2] = Base(c) - 1
  /\ n = 13       => st[Base(c) - 2] = Base(c)
  /\ n \in 14..23 => st[Base(c) - 2] = c.reg["esp"] - 3
  /\ n \in 11..15 => st[Base(c) - 10] = Base(c) - 9
  /\ n \in 12..14 => st[Base(c) - 11] = Address(c.vector, 15)
  /\ Keeps(c, r, n, st, "ebp", 2) /\ Keeps(c, r, n, st, "edi", 3)
  /\ Keeps(c, r, n, st, "esi", 4) /\ Keeps(c, r, n, st, "edx", 5)
  /\ Keeps(c, r, n, st, "ecx", 6) /\ Keeps(c, r, n, st, "ebx", 7)
  /\ Keeps(c, r, n, st, "eax", 8)

\* The frame is of three words or of four.
LEMMA BaseRange ==
  ASSUME NEW c \in Context
  PROVE  /\ c.reg["esp"] \in Int /\ Base(c) \in Int
         /\ Base(c) = c.reg["esp"] - 3 \/ Base(c) = c.reg["esp"] - 4
  BY DEF Context, Base, Frame, Registers

\* A handler uses at most 15 words.
LEMMA RunningRange ==
  ASSUME NEW c \in Context, NEW r, NEW n \in 1..24, NEW st, Running(c, r, n, st)
  PROVE  r["esp"] \in (c.reg["esp"] - 15)..(c.reg["esp"] - 3)
  BY BaseRange DEF Running, StackPointer

\* A handler looks at nothing below the stack pointer.
LEMMA RunningAbove ==
  ASSUME NEW c \in Context, c.reg["esp"] \in 15..TOP,
         NEW r, NEW n \in 1..24, NEW st, NEW st2, Running(c, r, n, st),
         \A a \in r["esp"]..(TOP - 1) : st2[a] = st[a]
  PROVE  Running(c, r, n, st2)
  <1>1. \A i \in {1, 2, 3, 4, 5, 6, 7, 8, 9, 10, 11} : Base(c) - i <= TOP - 1 /\ Base(c) - i \in Int
    BY BaseRange
  <1>2. r["esp"] = StackPointer(c, n)
    BY DEF Running
  <1>3. ASSUME NEW q, NEW i \in 2..8, Keeps(c, r, n, st, q, i)
        PROVE  Keeps(c, r, n, st2, q, i)
    BY <1>2, <1>3, BaseRange DEF Keeps, StackPointer
  <1>4. st2[c.reg["esp"] - 3] = st[c.reg["esp"] - 3]
    BY <1>2, BaseRange DEF StackPointer
  <1>5. n \in 2..23  => st2[Base(c) - 1] = st[Base(c) - 1]
    BY <1>2, BaseRange DEF StackPointer
  <1>6. n \in 3..23  => st2[Base(c) - 2] = st[Base(c) - 2]
    BY <1>2, BaseRange DEF StackPointer
  <1>7. n \in 11..15 => st2[Base(c) - 10] = st[Base(c) - 10]
    BY <1>2, BaseRange DEF StackPointer
  <1>8. n \in 12..14 => st2[Base(c) - 11] = st[Base(c) - 11]
    BY <1>2, BaseRange DEF StackPointer
  <1> QED
    BY <1>2, <1>3, <1>4, <1>5, <1>6, <1>7, <1>8 DEF Running

-----------------------------------------------------------------------------
(* The instructions of a handler, one by one                               *)

\* What the n-th instruction of the stub pushes.
ToPush(c, r, n, w) ==
  /\ n = 1  => w = c.vector
  /\ n = 2  => w = r["esp"]
  /\ n = 3  => w = r["ebp"]
  /\ n = 4  => w = r["edi"]
  /\ n = 5  => w = r["esi"]
  /\ n = 6  => w = r["edx"]
  /\ n = 7  => w = r["ecx"]
  /\ n = 8  => w = r["ebx"]
  /\ n = 9  => w = r["eax"]
  /\ n = 10 => w = r["esp"]
  /\ n = 11 => w = Address(c.vector, 15)

\* A word is pushed.
PushesWord(r, st, w, r2, st2) ==
  /\ r2["esp"] = r["esp"] - 1
  /\ \A q \in Registers : q # "esp" => r2[q] = r[q]
  /\ st2[r["esp"] - 1] = w
  /\ \A a \in 0..(TOP - 1) : a # r["esp"] - 1 => st2[a] = st[a]

Room(c) == c.reg["esp"] \in 15..TOP

\* A push by the stub, up to the call.
LEMMA PushRuns ==
  ASSUME NEW c \in Context, NEW r, NEW st, NEW n \in 1..11, NEW w, NEW r2, NEW st2,
         Room(c), Running(c, r, n, st), ToPush(c, r, n, w),
         PushesWord(r, st, w, r2, st2)
  PROVE  /\ \A a \in c.reg["esp"]..(TOP - 1) : st2[a] = st[a]
         /\ Running(c, r2, n + 1, st2)
  <1> DEFINE B == Base(c)  S == c.reg["esp"]
  <1>1. /\ S \in 15..TOP /\ B \in Int /\ (B = S - 3 \/ B = S - 4)
        /\ r["esp"] = B - (n - 1)
    BY BaseRange DEF Running, StackPointer, Room
  <1>2. /\ r2["esp"] = B - n
        /\ \A q \in Registers : q # "esp" => r2[q] = r[q]
    BY <1>1 DEF PushesWord
  <1>3. st2[B - n] = w /\ \A a \in 0..(TOP - 1) : a # B - n => st2[a] = st[a]
    <2>1. r["esp"] - 1 = B - n
      BY <1>1
    <2> QED
      BY <2>1 DEF PushesWord
  <1>4. r2["esp"] = StackPointer(c, n + 1)
    BY <1>1, <1>2 DEF StackPointer
  <1> HIDE DEF B, S
  <1>5. \A a \in S..(TOP - 1) : st2[a] = st[a]
    BY <1>1, <1>3
  <1>6. /\ st2[S - 3] = st[S - 3]
        /\ n > 1 => st2[B - 1] = st[B - 1]
        /\ n > 2 => st2[B - 2] = st[B - 2]
        /\ n > 10 => st2[B - 10] = st[B - 10]
    BY <1>1, <1>3
  <1>7. ASSUME NEW q \in Registers, q # "esp", NEW i \in 2..8, Keeps(c, r, n, st, q, i),
               n = i + 1 => w = r[q]
        PROVE  Keeps(c, r2, n + 1, st2, q, i)
    <2>1. r[q] = c.reg[q]
      BY <1>7 DEF Keeps
    <2>2. r2[q] = c.reg[q]
      BY <1>2, <1>7, <2>1
    <2>3. n \in (i + 2)..(24 - i) => st[B - 1 - i] = c.reg[q]
      BY <1>7 DEF Keeps, B
    <2>4. n > i + 1 => st2[B - 1 - i] = st[B - 1 - i]
      BY <1>1, <1>3
    <2>5. n = i + 1 => st2[B - 1 - i] = w
      BY <1>1, <1>3
    <2>6. n + 1 \in (i + 2)..(24 - i) => st2[B - 1 - i] = c.reg[q]
      BY <1>7, <2>1, <2>3, <2>4, <2>5
    <2> QED
      BY <2>2, <2>6 DEF Keeps, B
  <1>8. Keeps(c, r2, n + 1, st2, "ebp", 2) /\ Keeps(c, r2, n + 1, st2, "edi", 3)
        /\ Keeps(c, r2, n + 1, st2, "esi", 4) /\ Keeps(c, r2, n + 1, st2, "edx", 5)
        /\ Keeps(c, r2, n + 1, st2, "ecx", 6) /\ Keeps(c, r2, n + 1, st2, "ebx", 7)
        /\ Keeps(c, r2, n + 1, st2, "eax", 8)
    BY <1>7 DEF Running, ToPush, Registers
  <1>9. /\ st[S - 3] = c.eip
        /\ n > 1  => st[B - 1] = c.vector
        /\ n > 2  => st[B - 2] = B - 1
        /\ n = 11 => st[B - 10] = B - 9
    BY DEF Running, B, S
  <1>10. /\ n = 1  => w = c.vector
         /\ n = 2  => w = B - 1
         /\ n = 10 => w = B - 9
         /\ n = 11 => w = Address(c.vector, 15)
    BY <1>1 DEF ToPush
  <1>11. /\ st2[S - 3] = c.eip
         /\ st2[B - 1] = c.vector
         /\ n > 1 => st2[B - 2] = B - 1
         /\ n > 9 => st2[B - 10] = B - 9
         /\ n > 10 => st2[B - 11] = Address(c.vector, 15)
    BY <1>1, <1>3, <1>6, <1>9, <1>10
  <1> QED
    BY <1>2, <1>3, <1>4, <1>5, <1>8, <1>11 DEF Running, B, S

\* What the n-th instruction of the stub pops.
ToPop(n, q) ==
  /\ n = 16 => q = "eax"
  /\ n = 17 => q = "ebx"
  /\ n = 18 => q = "ecx"
  /\ n = 19 => q = "edx"
  /\ n = 20 => q = "esi"
  /\ n = 21 => q = "edi"
  /\ n = 22 => q = "ebp"
  /\ n = 15 \/ n = 23 => q = "esp"

\* A word is popped.
PopsWord(r, st, q, r2) ==
  /\ r2[q] = st[r["esp"]]
  /\ q # "esp" => r2["esp"] = r["esp"] + 1
  /\ \A x \in Registers : x # "esp" /\ x # q => r2[x] = r[x]

\* A pop by the stub, up to the iret: "pop esp" takes back first the argument,
\* then the stack pointer that interrupt_junction() has moved.
LEMMA PopRuns ==
  ASSUME NEW c \in Context, NEW r, NEW st, NEW n \in 15..23, NEW q, NEW r2,
         Running(c, r, n, st), ToPop(n, q), PopsWord(r, st, q, r2)
  PROVE  Running(c, r2, n + 1, st)
  <1> DEFINE B == Base(c)  S == c.reg["esp"]
  <1>1. /\ S \in Int /\ B \in Int /\ (B = S - 3 \/ B = S - 4)
        /\ n = 15 => r["esp"] = B - 10
        /\ n \in 16..23 => r["esp"] = B - (25 - n)
    BY BaseRange DEF Running, StackPointer
  <1>2. /\ st[S - 3] = c.eip
        /\ st[B - 1] = c.vector
        /\ st[B - 2] = S - 3
        /\ n = 15 => st[B - 10] = B - 9
    BY DEF Running
  <1> HIDE DEF B, S
  <1>3. /\ n = 15 => r2["esp"] = B - 9
        /\ n \in 16..22 => r2["esp"] = B - (24 - n)
        /\ n = 23 => r2["esp"] = S - 3
    <2>1. CASE n = 15
      BY <2>1, <1>1, <1>2 DEF ToPop, PopsWord
    <2>2. CASE n = 23
      BY <2>2, <1>1, <1>2 DEF ToPop, PopsWord
    <2>3. CASE n \in 16..22
      <3>1. q # "esp"
        BY <2>3 DEF ToPop
      <3>2. r2["esp"] = r["esp"] + 1
        BY <3>1 DEF PopsWord
      <3> QED
        BY <2>3, <3>2, <1>1
    <2> QED
      BY <2>1, <2>2, <2>3
  <1>4. r2["esp"] = StackPointer(c, n + 1)
    BY <1>1, <1>3 DEF StackPointer, B, S
  <1>5. ASSUME NEW x \in Registers, x # "esp", NEW i \in 2..8, Keeps(c, r, n, st, x, i),
               n = 24 - i <=> x = q
        PROVE  Keeps(c, r2, n + 1, st, x, i)
    <2>1. n \in (i + 2)..(24 - i) => st[B - 1 - i] = c.reg[x]
      BY <1>5 DEF Keeps, B
    <2>2. n + 1 \in (i + 2)..(24 - i) => st[B - 1 - i] = c.reg[x]
      BY <2>1
    <2>3. CASE x = q
      <3>1. n = 24 - i /\ n \in 16..23 /\ r["esp"] = B - 1 - i
        BY <1>1, <1>5, <2>3
      <3>2. r2[x] = c.reg[x]
        BY <2>1, <2>3, <3>1 DEF PopsWord
      <3> QED
        BY <2>2, <3>2 DEF Keeps, B
    <2>4. CASE x # q
      <3>1. r2[x] = r[x]
        BY <1>5, <2>4 DEF PopsWord
      <3>2. n # 24 - i
        BY <1>5, <2>4
      <3>3. n > 24 - i \/ x \in {"ebx", "esi", "edi", "ebp"} => r[x] = c.reg[x]
        BY <1>5 DEF Keeps
      <3>4. n + 1 <= 14 \/ n + 1 > 24 - i \/ x \in {"ebx", "esi", "edi", "ebp"} => r2[x] = c.reg[x]
        BY <3>1, <3>2, <3>3
      <3> QED
        BY <2>2, <3>4 DEF Keeps, B
    <2> QED
      BY <2>3, <2>4
  <1>6. Keeps(c, r2, n + 1, st, "ebp", 2) /\ Keeps(c, r2, n + 1, st, "edi", 3)
        /\ Keeps(c, r2, n + 1, st, "esi", 4) /\ Keeps(c, r2, n + 1, st, "edx", 5)
        /\ Keeps(c, r2, n + 1, st, "ecx", 6) /\ Keeps(c, r2, n + 1, st, "ebx", 7)
        /\ Keeps(c, r2, n + 1, st, "eax", 8)
    <2>1. /\ n = 22 <=> "ebp" = q
          /\ n = 21 <=> "edi" = q
          /\ n = 20 <=> "esi" = q
          /\ n = 19 <=> "edx" = q
          /\ n = 18 <=> "ecx" = q
          /\ n = 17 <=> "ebx" = q
          /\ n = 16 <=> "eax" = q
      BY DEF ToPop
    <2> QED
      BY <1>5, <2>1 DEF Running, Registers
  <1> QED
    BY <1>2, <1>4, <1>6 DEF Running, B, S

-----------------------------------------------------------------------------
(* interrupt_junction() in a handler                                       *)

\* The word at a is replaced by w.
Writes(st, a, w, st2) ==
  /\ st2[a] = w
  /\ \A x \in 0..(TOP - 1) : x # a => st2[x] = st[x]

\* The word that interrupt_junction() moves is the stack pointer the stub
\* pushed; everything else in the frame is left alone.
LEMMA JunctionRuns ==
  ASSUME NEW c \in Context, NEW r, NEW st, NEW n \in 12..13, NEW w, NEW st2,
         Room(c), Running(c, r, n, st), Writes(st, Base(c) - 2, w, st2),
         n = 12 => w = Base(c), n = 13 => w = c.reg["esp"] - 3
  PROVE  /\ \A a \in c.reg["esp"]..(TOP - 1) : st2[a] = st[a]
         /\ Running(c, r, n + 1, st2)
  <1> DEFINE B == Base(c)  S == c.reg["esp"]
  <1>1. /\ S \in 15..TOP /\ B \in Int /\ (B = S - 3 \/ B = S - 4)
        /\ r["esp"] = B - 11
    BY BaseRange DEF Running, StackPointer, Room
  <1>2. st2[B - 2] = w /\ \A a \in 0..(TOP - 1) : a # B - 2 => st2[a] = st[a]
    BY DEF Writes
  <1>3. r["esp"] = StackPointer(c, n + 1)
    BY <1>1 DEF StackPointer
  <1>4. n = 12 => w = B
    OBVIOUS
  <1>5. n = 13 => w = S - 3
    OBVIOUS
  <1> HIDE DEF B, S
  <1>6. \A a \in S..(TOP - 1) : st2[a] = st[a]
    BY <1>1, <1>2
  <1>7. /\ st2[S - 3] = st[S - 3]
        /\ st2[B - 1] = st[B - 1]
        /\ st2[B - 10] = st[B - 10]
        /\ st2[B - 11] = st[B - 11]
    BY <1>1, <1>2
  <1>8. ASSUME NEW x \in Registers, NEW i \in 2..8, Keeps(c, r, n, st, x, i)
        PROVE  Keeps(c, r, n + 1, st2, x, i)
    <2>1. r[x] = c.reg[x] /\ (n \in (i + 2)..(24 - i) => st[B - 1 - i] = c.reg[x])
      BY <1>8 DEF Keeps, B
    <2>2. st2[B - 1 - i] = st[B - 1 - i]
      BY <1>1, <1>2
    <2> QED
      BY <2>1, <2>2 DEF Keeps, B
  <1>9. Keeps(c, r, n + 1, st2, "ebp", 2) /\ Keeps(c, r, n + 1, st2, "edi", 3)
        /\ Keeps(c, r, n + 1, st2, "esi", 4) /\ Keeps(c, r, n + 1, st2, "edx", 5)
        /\ Keeps(c, r, n + 1, st2, "ecx", 6) /\ Keeps(c, r, n + 1, st2, "ebx", 7)
        /\ Keeps(c, r, n + 1, st2, "eax", 8)
    BY <1>8 DEF Running, Registers
  <1>10. /\ st2[S - 3] = c.eip /\ st2[B - 1] = c.vector
         /\ st2[B - 10] = B - 9 /\ st2[B - 11] = Address(c.vector, 15)
    BY <1>7 DEF Running, B, S
  <1> QED
    BY <1>2, <1>3, <1>4, <1>5, <1>6, <1>9, <1>10 DEF Running, B, S

\* The return to the stub drops the return address; of the registers the C
\* code kept those it has to keep.
LEMMA ReturnRuns ==
  ASSUME NEW c \in Context, NEW r, NEW st, NEW r2, Running(c, r, 14, st),
         r2["esp"] = r["esp"] + 1,
         r2["ebx"] = r["ebx"], r2["esi"] = r["esi"],
         r2["edi"] = r["edi"], r2["ebp"] = r["ebp"]
  PROVE  st[r["esp"]] = Address(c.vector, 15) /\ Running(c, r2, 15, st)
  <1> DEFINE B == Base(c)  S == c.reg["esp"]
  <1>1. /\ S \in Int /\ B \in Int /\ (B = S - 3 \/ B = S - 4)
        /\ r["esp"] = B - 11
    BY BaseRange DEF Running, StackPointer
  <1>2. r2["esp"] = StackPointer(c, 15)
    BY <1>1 DEF StackPointer
  <1>3. /\ st[S - 3] = c.eip /\ st[B - 1] = c.vector /\ st[B - 2] = S - 3
        /\ st[B - 10] = B - 9 /\ st[B - 11] = Address(c.vector, 15)
    BY DEF Running
  <1>4. ASSUME NEW x, NEW i \in 2..8, Keeps(c, r, 14, st, x, i),
               x \in {"ebx", "esi", "edi", "ebp"} => r2[x] = r[x]
        PROVE  Keeps(c, r2, 15, st, x, i)
    BY <1>4 DEF Keeps
  <1>5. Keeps(c, r2, 15, st, "ebp", 2) /\ Keeps(c, r2, 15, st, "edi", 3)
        /\ Keeps(c, r2, 15, st, "esi", 4) /\ Keeps(c, r2, 15, st, "edx", 5)
        /\ Keeps(c, r2, 15, st, "ecx", 6) /\ Keeps(c, r2, 15, st, "ebx", 7)
        /\ Keeps(c, r2, 15, st, "eax", 8)
    BY <1>4 DEF Running
  <1> QED
    BY <1>1, <1>2, <1>3, <1>5 DEF Running

\* Before the iret everything is as the processor found it.
LEMMA IretResumes ==
  ASSUME NEW c \in Context, NEW r, NEW st, Running(c, r, 24, st)
  PROVE  /\ st[r["esp"]] = c.eip
         /\ r["esp"] + 3 = c.reg["esp"]
         /\ \A q \in Registers : q # "esp" => r[q] = c.reg[q]
  <1>1. r["esp"] = c.reg["esp"] - 3 /\ c.reg["esp"] \in Int
    BY BaseRange DEF Running, StackPointer
  <1>2. st[c.reg["esp"] - 3] = c.eip
    BY DEF Running
  <1>3. \A q \in Registers : q # "esp" => r[q] = c.reg[q]
    BY DEF Running, Keeps, Registers
  <1> QED
    BY <1>1, <1>2, <1>3

-----------------------------------------------------------------------------
(* The invariant                                                           *)

\* The handler of c is before the instruction at e.
InHandler(c, r, e, st) ==
  \E n \in 1..24 : e = Address(c.vector, n) /\ Running(c, r, n, st)

Gate == [offset1 : Int, offset2 : Int, segment : Int, attrs : Int]

TypeInv ==
  /\ stack \in [0..(TOP - 1) -> Int]
  /\ reg \in [Registers -> Int] /\ reg["esp"] \in 0..TOP
  /\ eip \in Code
  /\ idt \in [GATES -> Gate]
  /\ installed \in 0..32 /\ idtr_loaded \in BOOLEAN
  /\ nmi_blocked \in BOOLEAN /\ taken \in 0..MaxTaken
  /\ saved \in Seq(Context) /\ Len(saved) <= taken

\* The context interrupted last.
Top == saved[Len(saved)]

\* Every interrupted context leaves room for those that may still come, and
\* lies above those that interrupted its handler.
Roomy ==
  /\ \A k \in 1..Len(saved) :
       saved[k].reg["esp"] \in (15 * (MaxTaken - k + 1))..TOP
  /\ \A j, k \in 1..Len(saved) : j < k => saved[k].reg["esp"] <= saved[j].reg["esp"]

\* On top of each interrupted context runs a handler: the next interrupted
\* one, or the one that has the processor.
Handlers ==
  /\ \A k \in 1..(Len(saved) - 1) :
       InHandler(saved[k], saved[k + 1].reg, saved[k + 1].eip, stack)
  /\ Len(saved) > 0 /\ eip # RESET => InHandler(saved[Len(saved)], reg, eip, stack)

\* At the bottom is the program.
Outermost ==
  /\ Len(saved) = 0 => eip = MAIN /\ reg["esp"] = INITIAL_ESP
  /\ Len(saved) > 0 => saved[1].eip = MAIN /\ saved[1].reg["esp"] = INITIAL_ESP

\* The table is loaded when it is complete, and nothing is handled before.
Tables ==
  /\ \A i \in 0..(installed - 1) : idt[i] = GateOf(i)
  /\ idtr_loaded => installed = 32 /\ eip # RESET
  /\ ~ idtr_loaded => eip \in {MAIN, RESET}

IInv == TypeInv /\ Roomy /\ Handlers /\ Outermost /\ Tables /\ SuspendedIntact

\* A handler is at one of its instructions.
LEMMA HandlerPlace ==
  ASSUME NEW c \in Context, NEW r, NEW e, NEW st, InHandler(c, r, e, st)
  PROVE  /\ e \in Code \ {MAIN, RESET} /\ (e \div 32) - 1000 = c.vector
         /\ e % 32 \in 1..24 /\ e = Address(c.vector, e % 32)
         /\ Running(c, r, e % 32, st)
         /\ e + 1 = Address(c.vector, (e % 32) + 1)
  <1>1. PICK n \in 1..24 : e = Address(c.vector, n) /\ Running(c, r, n, st)
    BY DEF InHandler
  <1>2. c.vector \in 0..31
    BY DEF Context
  <1>3. e % 32 = n /\ (e \div 32) - 1000 = c.vector
        /\ e \in Code \ {MAIN, RESET} /\ e + 1 = Address(c.vector, n + 1)
    <2>1. /\ Address(c.vector, n) % 32 = n
          /\ (Address(c.vector, n) \div 32) - 1000 = c.vector
          /\ Address(c.vector, n) + 1 = Address(c.vector, n + 1)
      <3>1. PICK v \in 0..31 : v = c.vector
        BY <1>2
      <3>2. /\ Address(v, n) % 32 = n /\ (Address(v, n) \div 32) - 1000 = v
            /\ Address(v, n) + 1 = Address(v, n + 1)
        BY SMTT(30) DEF Address
      <3> QED
        BY <3>1, <3>2
    <2>2. Address(c.vector, n) \in Code \ {MAIN, RESET}
      BY <1>1, <1>2, AddressCode
    <2> QED
      BY <1>1, <2>1, <2>2, Zenon
  <1> QED
    BY <1>1, <1>3

\* Away from the program a handler has the processor, and its context room.
LEMMA OnTop ==
  ASSUME IInv, eip \notin {MAIN, RESET}
  PROVE  /\ Len(saved) \in 1..MaxTaken /\ Top \in Context /\ Room(Top)
         /\ Vector = Top.vector /\ Top.vector \in 0..31
         /\ eip % 32 \in 1..24 /\ eip = Address(Top.vector, eip % 32)
         /\ Running(Top, reg, eip % 32, stack)
         /\ eip + 1 = Address(Top.vector, (eip % 32) + 1)
         /\ reg["esp"] \in (Top.reg["esp"] - 15)..(Top.reg["esp"] - 3)
  <1>1. Len(saved) \in 1..MaxTaken
    BY DEF IInv, TypeInv, Outermost
  <1>2. Top \in Context
    BY <1>1 DEF IInv, TypeInv, Top
  <1>3. InHandler(Top, reg, eip, stack)
    BY <1>1 DEF IInv, Handlers, Top
  <1>4. Top.reg["esp"] \in (15 * (MaxTaken - Len(saved) + 1))..TOP
    BY <1>1 DEF IInv, Roomy, Top
  <1>5. Room(Top)
    BY <1>1, <1>4 DEF Room
  <1>6. Top.vector \in 0..31
    BY <1>2 DEF Context
  <1>7. /\ (eip \div 32) - 1000 = Top.vector
        /\ eip % 32 \in 1..24 /\ eip = Address(Top.vector, eip % 32)
        /\ Running(Top, reg, eip % 32, stack)
        /\ eip + 1 = Address(Top.vector, (eip % 32) + 1)
    BY <1>2, <1>3, HandlerPlace
  <1>8. reg["esp"] \in (Top.reg["esp"] - 15)..(Top.reg["esp"] - 3)
    BY <1>2, <1>7, RunningRange
  <1> QED
    BY <1>1, <1>2, <1>5, <1>6, <1>7, <1>8 DEF Vector

\* The context of every interruption is a context, with room below it.
LEMMA Contexts ==
  ASSUME IInv, NEW k \in 1..Len(saved)
  PROVE  saved[k] \in Context /\ Room(saved[k]) /\ saved[k].reg["esp"] \in Int
  <1>1. saved[k] \in Context
    BY DEF IInv, TypeInv
  <1>2. Len(saved) \in 0..MaxTaken
    BY DEF IInv, TypeInv
  <1>3. saved[k].reg["esp"] \in (15 * (MaxTaken - k + 1))..TOP
    BY DEF IInv, Roomy
  <1> QED
    BY <1>1, <1>2, <1>3 DEF Room

\* What is written below the last context disturbs no handler above it.
LEMMA WritesBelow ==
  ASSUME IInv, Len(saved) > 0, NEW st2,
         \A a \in saved[Len(saved)].reg["esp"]..(TOP - 1) : st2[a] = stack[a]
  PROVE  /\ \A k \in 1..(Len(saved) - 1) :
              InHandler(saved[k], saved[k + 1].reg, saved[k + 1].eip, st2)
         /\ \A k \in 1..Len(saved) : \A a \in saved[k].reg["esp"]..(TOP - 1) :
              st2[a] = saved[k].stack[a]
  <1> DEFINE D == Len(saved)
  <1>1. D \in Nat /\ D > 0 /\ D \in 1..D
    BY DEF IInv, TypeInv
  <1>2. \A k \in 1..D : saved[D].reg["esp"] <= saved[k].reg["esp"]
    BY <1>1, Contexts DEF IInv, Roomy
  <1>3. ASSUME NEW k \in 1..D, NEW a \in saved[k].reg["esp"]..(TOP - 1)
        PROVE  st2[a] = stack[a] /\ stack[a] = saved[k].stack[a]
    <2>1. a \in saved[D].reg["esp"]..(TOP - 1)
      <3>1. saved[k].reg["esp"] \in Int /\ saved[D].reg["esp"] \in Int
        BY <1>1, Contexts
      <3>2. saved[D].reg["esp"] <= saved[k].reg["esp"]
        BY <1>2
      <3> QED
        BY <3>1, <3>2
    <2> QED
      BY <2>1 DEF IInv, SuspendedIntact
  <1>4. ASSUME NEW k \in 1..(D - 1)
        PROVE  InHandler(saved[k], saved[k + 1].reg, saved[k + 1].eip, st2)
    <2>1. k \in 1..D /\ k + 1 \in 1..D
      BY <1>1
    <2>2. saved[k] \in Context /\ Room(saved[k])
      BY <2>1, Contexts
    <2>3. PICK n \in 1..24 : /\ saved[k + 1].eip = Address(saved[k].vector, n)
                             /\ Running(saved[k], saved[k + 1].reg, n, stack)
      BY DEF IInv, Handlers, InHandler
    <2>4. \A a \in saved[k + 1].reg["esp"]..(TOP - 1) : st2[a] = stack[a]
      BY <1>3, <2>1
    <2>5. Running(saved[k], saved[k + 1].reg, n, st2)
      BY <2>2, <2>3, <2>4, RunningAbove DEF Room
    <2> QED
      BY <2>3, <2>5 DEF InHandler
  <1> QED
    BY <1>3, <1>4

\* A step of the handler on top that writes below the context it interrupted
\* keeps the invariant if the handler is where it should be afterwards.
LEMMA Lift ==
  ASSUME IInv, eip \notin {MAIN, RESET},
         UNCHANGED <<tables, nmi_blocked, taken, saved>>,
         stack' \in [0..(TOP - 1) -> Int], reg' \in [Registers -> Int],
         \A a \in Top.reg["esp"]..(TOP - 1) : stack'[a] = stack[a],
         NEW n \in 1..24, eip' = Address(Top.vector, n),
         Running(Top, reg', n, stack')
  PROVE  IInv'
  <1>1. Len(saved) \in 1..MaxTaken /\ Top \in Context /\ Room(Top) /\ Top.vector \in 0..31
    BY OnTop
  <1>2. reg'["esp"] \in 0..TOP
    <2>1. reg'["esp"] \in (Top.reg["esp"] - 15)..(Top.reg["esp"] - 3)
      BY <1>1, RunningRange
    <2>2. Top.reg["esp"] \in 15..TOP
      BY <1>1 DEF Room
    <2>3. \A s \in 15..TOP : (s - 15)..(s - 3) \subseteq 0..TOP
      OBVIOUS
    <2> QED
      BY <2>1, <2>2, <2>3, Zenon
  <1>3. eip' \in Code \ {MAIN, RESET}
    BY <1>1, AddressCode
  <1>4. TypeInv'
    BY <1>2, <1>3 DEF IInv, TypeInv, tables
  <1>5. /\ \A k \in 1..(Len(saved) - 1) :
             InHandler(saved[k], saved[k + 1].reg, saved[k + 1].eip, stack')
        /\ \A k \in 1..Len(saved) : \A a \in saved[k].reg["esp"]..(TOP - 1) :
             stack'[a] = saved[k].stack[a]
    BY SMTT(30), <1>1, WritesBelow DEF Top
  <1>6. InHandler(Top, reg', eip', stack')
    BY DEF InHandler
  <1>7. Handlers'
    BY <1>5, <1>6 DEF Handlers, Top
  <1>8. SuspendedIntact'
    BY <1>5 DEF SuspendedIntact
  <1>9. Roomy' /\ Outermost'
    BY <1>1 DEF IInv, Roomy, Outermost
  <1>10. Tables'
    BY <1>3 DEF IInv, Tables, tables
  <1> QED
    BY <1>4, <1>7, <1>8, <1>9, <1>10 DEF IInv

-----------------------------------------------------------------------------
(* The steps                                                               *)

\* Before the n-th instruction of a stub its handler is on top.
LEMMA AtInstruction ==
  ASSUME IInv, NEW n \in 1..24, At(n)
  PROVE  /\ eip \notin {MAIN, RESET} /\ Len(saved) > 0 /\ Top \in Context /\ Room(Top)
         /\ Vector = Top.vector /\ Top.vector \in 0..31
         /\ eip + 1 = Address(Top.vector, n + 1)
         /\ Running(Top, reg, n, stack)
         /\ reg["esp"] \in 0..(TOP - 3) /\ Top.reg["esp"] \in 15..TOP
         /\ stack \in [0..(TOP - 1) -> Int] /\ reg \in [Registers -> Int]
  <1>1. eip \notin {MAIN, RESET} /\ eip % 32 = n
    BY DEF At
  <1>2. \A s \in 15..TOP : (s - 15)..(s - 3) \subseteq 0..(TOP - 3)
    OBVIOUS
  <1>3. Top.reg["esp"] \in 15..TOP
    BY <1>1, OnTop DEF Room
  <1>4. reg["esp"] \in (Top.reg["esp"] - 15)..(Top.reg["esp"] - 3)
    BY <1>1, OnTop
  <1>5. reg["esp"] \in 0..(TOP - 3)
    BY <1>2, <1>3, <1>4, Zenon
  <1>6. /\ Len(saved) > 0 /\ Top \in Context /\ Room(Top)
        /\ Vector = Top.vector /\ Top.vector \in 0..31
        /\ eip + 1 = Address(Top.vector, n + 1)
        /\ Running(Top, reg, n, stack)
    BY <1>1, OnTop
  <1> QED
    BY <1>1, <1>3, <1>5, <1>6 DEF IInv, TypeInv

\* An instruction of the stub that pushes keeps the invariant.
LEMMA PushKeeps ==
  ASSUME IInv, NEW n \in 1..11, At(n), NEW w \in Int,
         ToPush(Top, reg, n, w), Push(w), Continue
  PROVE  IInv'
  <1>1. /\ eip \notin {MAIN, RESET} /\ Top \in Context /\ Room(Top)
        /\ eip + 1 = Address(Top.vector, n + 1) /\ Running(Top, reg, n, stack)
        /\ Top.reg["esp"] \in 15..TOP
        /\ stack \in [0..(TOP - 1) -> Int] /\ reg \in [Registers -> Int]
    <2>1. n \in 1..24
      OBVIOUS
    <2> QED
      BY <2>1, AtInstruction
  <1>2. reg["esp"] - 1 \in 0..(TOP - 1)
    <2>1. Base(Top) \in Int /\ (Base(Top) = Top.reg["esp"] - 3 \/ Base(Top) = Top.reg["esp"] - 4)
          /\ reg["esp"] = Base(Top) - (n - 1)
      BY <1>1, BaseRange DEF Running, StackPointer
    <2>2. \A s \in 15..TOP, b \in Int, x \in Int :
            (b = s - 3 \/ b = s - 4) /\ x = b - (n - 1) => x - 1 \in 0..(TOP - 1)
      OBVIOUS
    <2>3. reg["esp"] \in Int
      BY <2>1
    <2> QED
      BY <1>1, <2>1, <2>2, <2>3
  <1>3. stack' = [stack EXCEPT ![reg["esp"] - 1] = w]
    BY DEF Push, Pushed
  <1>4. reg' = [reg EXCEPT !["esp"] = @ - 1]
    BY DEF Push
  <1>5. stack' \in [0..(TOP - 1) -> Int]
    BY <1>1, <1>3
  <1>6. "esp" \in Registers
    BY DEF Registers
  <1>7. reg["esp"] - 1 \in Int
    BY <1>2
  <1>8. reg' \in [Registers -> Int]
    BY <1>1, <1>4, <1>7
  <1>9. PushesWord(reg, stack, w, reg', stack')
    BY <1>1, <1>2, <1>3, <1>4, <1>6 DEF PushesWord
  <1>10. /\ \A a \in Top.reg["esp"]..(TOP - 1) : stack'[a] = stack[a]
         /\ Running(Top, reg', n + 1, stack')
    BY <1>1, <1>9, PushRuns
  <1>11. n + 1 \in 1..24
    OBVIOUS
  <1>12. eip' = Address(Top.vector, n + 1) /\ UNCHANGED <<tables, nmi_blocked, taken, saved>>
    BY <1>1 DEF Continue
  <1> QED
    BY <1>1, <1>5, <1>8, <1>10, <1>11, <1>12, Lift

\* An instruction of the stub that pops keeps the invariant.
LEMMA PopKeeps ==
  ASSUME IInv, NEW n \in 15..23, At(n), NEW q \in Registers, ToPop(n, q),
         Pop(q), Continue
  PROVE  IInv'
  <1>1. n \in 1..24 /\ n + 1 \in 1..24
    BY SMTT(30)
  <1>2. /\ eip \notin {MAIN, RESET} /\ Top \in Context
        /\ eip + 1 = Address(Top.vector, n + 1) /\ Running(Top, reg, n, stack)
        /\ reg["esp"] \in 0..(TOP - 3)
        /\ stack \in [0..(TOP - 1) -> Int] /\ reg \in [Registers -> Int]
    BY ZenonT(60), <1>1, AtInstruction
  <1>3. stack[reg["esp"]] \in Int /\ reg["esp"] + 1 \in Int /\ "esp" \in Registers
    <2>1. reg["esp"] \in 0..(TOP - 1)
      BY <1>2, StackAssumption
    <2>2. "esp" \in Registers
      BY DEF Registers
    <2> QED
      BY <1>2, <2>1, <2>2
  <1>4. reg' = [reg EXCEPT !["esp"] = @ + 1, ![q] = stack[reg["esp"]]] /\ stack' = stack
    BY DEF Pop
  <1>5. reg' \in [Registers -> Int]
    BY <1>2, <1>3, <1>4
  <1>6. PopsWord(reg, stack, q, reg')
    BY <1>2, <1>3, <1>4 DEF PopsWord
  <1>7. Running(Top, reg', n + 1, stack')
    BY <1>2, <1>4, <1>6, PopRuns
  <1>8. eip' = Address(Top.vector, n + 1) /\ UNCHANGED <<tables, nmi_blocked, taken, saved>>
    BY <1>2 DEF Continue
  <1> QED
    BY <1>1, <1>2, <1>4, <1>5, <1>7, <1>8, Lift

\* The two moves of the stack pointer in interrupt_junction() keep it.
LEMMA JunctionKeeps ==
  ASSUME IInv, NEW n \in 12..13, At(n), n = 12 => DropCode, n = 13 => DropErrorCode
  PROVE  IInv'
  <1> DEFINE B == Base(Top)  S == Top.reg["esp"]
  <1>1. n \in 1..24 /\ n + 1 \in 1..24
    OBVIOUS
  <1>2. /\ eip \notin {MAIN, RESET} /\ Top \in Context /\ Room(Top)
        /\ eip + 1 = Address(Top.vector, n + 1) /\ Running(Top, reg, n, stack)
        /\ S \in 15..TOP
        /\ stack \in [0..(TOP - 1) -> Int] /\ reg \in [Registers -> Int]
    BY <1>1, AtInstruction
  <1>3. /\ B \in Int /\ (B = S - 3 \/ B = S - 4)
        /\ B = (IF Top.vector \in PushesError THEN S - 4 ELSE S - 3)
    BY <1>2, BaseRange DEF Base, Frame
  <1>4. /\ stack[B - 10] = B - 9 /\ stack[B - 1] = Top.vector
        /\ n = 12 => stack[B - 2] = B - 1
        /\ n = 13 => stack[B - 2] = B
        /\ reg["esp"] = B - 11
    <2>1. CASE n = 12
      BY <2>1, <1>2 DEF Running, StackPointer
    <2>2. CASE n = 13
      BY <2>2, <1>2 DEF Running, StackPointer
    <2> QED
      BY <2>1, <2>2
  <1> HIDE DEF B, S
  <1>5. Args + FieldEsp = B - 2 /\ Args + FieldCode = B - 1
    <2>1. reg["esp"] + 1 = B - 10
      BY <1>3, <1>4
    <2> QED
      BY <1>3, <1>4, <2>1 DEF Args, FieldEsp, FieldCode
  <1>6. B - 2 \in 0..(TOP - 1)
    BY <1>2, <1>3
  <1>7. DropWord = [stack EXCEPT ![B - 2] = stack[B - 2] + 1]
    BY <1>5 DEF DropWord
  <1>8. /\ DropWord \in [0..(TOP - 1) -> Int]
        /\ Writes(stack, B - 2, stack[B - 2] + 1, DropWord)
        /\ Writes(stack, B - 2, stack[B - 2], stack)
    BY <1>2, <1>6, <1>7 DEF Writes
  <1>9. HasErrorCode(stack[Args + FieldCode]) <=> Top.vector \in PushesError
    BY <1>4, <1>5 DEF HasErrorCode, PushesError
  <1>10. PICK w : /\ Writes(stack, B - 2, w, stack') /\ stack' \in [0..(TOP - 1) -> Int]
                  /\ n = 12 => w = B
                  /\ n = 13 => w = S - 3
    <2>1. CASE n = 12
      <3>1. stack' = DropWord
        BY <2>1 DEF DropCode
      <3>2. stack[B - 2] + 1 = B
        BY <2>1, <1>3, <1>4
      <3> QED
        BY <2>1, <3>1, <3>2, <1>8
    <2>2. CASE n = 13 /\ Top.vector \in PushesError
      <3>1. stack' = DropWord
        BY <2>2, <1>9 DEF DropErrorCode
      <3>2. stack[B - 2] + 1 = S - 3
        BY <2>2, <1>2, <1>3, <1>4
      <3> QED
        BY <2>2, <3>1, <3>2, <1>8
    <2>3. CASE n = 13 /\ Top.vector \notin PushesError
      <3>1. stack' = stack
        BY <2>3, <1>9 DEF DropErrorCode
      <3>2. stack[B - 2] = S - 3
        BY <2>3, <1>3, <1>4
      <3> QED
        BY <2>3, <3>1, <3>2, <1>2, <1>8
    <2> QED
      BY <2>1, <2>2, <2>3
  <1>11. /\ \A a \in Top.reg["esp"]..(TOP - 1) : stack'[a] = stack[a]
         /\ Running(Top, reg, n + 1, stack')
    BY <1>2, <1>10, JunctionRuns DEF B, S
  <1>12. reg' = reg /\ Continue
    <2>1. CASE n = 12
      BY <2>1 DEF DropCode
    <2>2. CASE n = 13
      BY <2>2 DEF DropErrorCode
    <2> QED
      BY <2>1, <2>2
  <1>13. eip' = Address(Top.vector, n + 1) /\ UNCHANGED <<tables, nmi_blocked, taken, saved>>
    BY <1>2, <1>12 DEF Continue
  <1> QED
    BY <1>1, <1>2, <1>10, <1>11, <1>12, <1>13, Lift

\* A register given an integer.
LEMMA RegisterSet ==
  ASSUME NEW f \in [Registers -> Int], NEW q, NEW w \in Int
  PROVE  [f EXCEPT ![q] = w] \in [Registers -> Int]
  OBVIOUS

\* The return from interrupt_junction() to the stub keeps it.
LEMMA ReturnKeeps ==
  ASSUME IInv, ReturnFromJunction PROVE IInv'
  <1>1. At(14)
    BY DEF ReturnFromJunction
  <1>2. /\ eip \notin {MAIN, RESET} /\ Top \in Context
        /\ Running(Top, reg, 14, stack) /\ reg["esp"] \in 0..(TOP - 3)
        /\ stack \in [0..(TOP - 1) -> Int] /\ reg \in [Registers -> Int]
    <2>1. 14 \in 1..24
      OBVIOUS
    <2> QED
      BY <1>1, <2>1, AtInstruction
  <1>3. /\ eip' = stack[reg["esp"]] /\ stack' = stack
        /\ UNCHANGED <<tables, nmi_blocked, taken, saved>>
        /\ reg' = [reg EXCEPT !["esp"] = @ + 1, !["eax"] = 0, !["ecx"] = 0, !["edx"] = 0]
    BY DEF ReturnFromJunction
  <1>4. reg["esp"] + 1 \in Int
    BY <1>2
  <1>5. {"esp", "ebx", "esi", "edi", "ebp"} \subseteq Registers
    BY DEF Registers
  <1>6. reg' \in [Registers -> Int]
    <2> DEFINE r1 == [reg EXCEPT !["esp"] = reg["esp"] + 1]
               r2 == [r1 EXCEPT !["eax"] = 0]
               r3 == [r2 EXCEPT !["ecx"] = 0]
               r4 == [r3 EXCEPT !["edx"] = 0]
    <2>0. 0 \in Int
      OBVIOUS
    <2>1. r1 \in [Registers -> Int]
      BY <1>2, <1>4, RegisterSet
    <2>2. r2 \in [Registers -> Int]
      BY <2>0, <2>1, RegisterSet
    <2>3. r3 \in [Registers -> Int]
      BY <2>0, <2>2, RegisterSet
    <2>4. r4 \in [Registers -> Int]
      BY <2>0, <2>3, RegisterSet
    <2>5. reg' = r4
      BY <1>3
    <2> QED
      BY <2>4, <2>5
  <1>7. /\ reg'["esp"] = reg["esp"] + 1
        /\ reg'["ebx"] = reg["ebx"] /\ reg'["esi"] = reg["esi"]
        /\ reg'["edi"] = reg["edi"] /\ reg'["ebp"] = reg["ebp"]
    BY <1>2, <1>3, <1>5
  <1>8. eip' = Address(Top.vector, 15) /\ Running(Top, reg', 15, stack')
    BY <1>2, <1>3, <1>7, ReturnRuns
  <1> QED
    BY SMTT(30), <1>2, <1>3, <1>6, <1>8, Lift

\* The iret gives the processor back to what was interrupted last, with every
\* register as it was.
LEMMA IretReturns ==
  ASSUME IInv, Iret PROVE reg' = Top.reg /\ eip' = Top.eip
  <1>1. /\ Top \in Context /\ Running(Top, reg, 24, stack)
        /\ reg \in [Registers -> Int]
    <2>1. At(24)
      BY DEF Iret, IRET
    <2> QED
      BY <2>1, AtInstruction
  <1>2. /\ stack[reg["esp"]] = Top.eip
        /\ reg["esp"] + 3 = Top.reg["esp"]
        /\ \A q \in Registers : q # "esp" => reg[q] = Top.reg[q]
    BY <1>1, IretResumes
  <1>3. reg' = [reg EXCEPT !["esp"] = @ + 3] /\ eip' = stack[reg["esp"]]
    BY DEF Iret
  <1>4. Top.reg \in [Registers -> Int]
    BY <1>1 DEF Context
  <1>5. \A q \in Registers : reg'[q] = Top.reg[q]
    BY <1>1, <1>2, <1>3
  <1>6. reg' = Top.reg
    BY <1>1, <1>3, <1>4, <1>5
  <1> QED
    BY <1>2, <1>3, <1>6

\* The iret keeps the invariant.
LEMMA IretKeeps ==
  ASSUME IInv, Iret PROVE IInv'
  <1> DEFINE D == Len(saved)
  <1>1. /\ Top \in Context /\ D > 0 /\ eip \notin {MAIN, RESET}
        /\ stack \in [0..(TOP - 1) -> Int]
    <2>1. At(24)
      BY DEF Iret, IRET
    <2> QED
      BY <2>1, AtInstruction
  <1>2. reg' = Top.reg /\ eip' = Top.eip
    BY IretReturns
  <1>3. /\ saved' = SubSeq(saved, 1, D - 1) /\ nmi_blocked' = FALSE
        /\ UNCHANGED <<stack, tables, taken>>
    BY DEF Iret
  <1>4. saved \in Seq(Context) /\ D \in Nat /\ D <= taken /\ taken \in 0..MaxTaken
    BY DEF IInv, TypeInv
  <1>5. /\ saved' \in Seq(Context) /\ Len(saved') = D - 1
        /\ \A k \in 1..(D - 1) : saved'[k] = saved[k]
    <2>1. 1 \in Int /\ D - 1 \in Int /\ \A k \in 1..(D - 1) : saved[k] \in Context
      BY <1>4
    <2>2. /\ saved' \in Seq(Context)
          /\ Len(saved') = IF 1 <= D - 1 THEN (D - 1) - 1 + 1 ELSE 0
          /\ \A k \in 1..((D - 1) - 1 + 1) : saved'[k] = saved[1 + k - 1]
      BY <2>1, <1>3, SubSeqProperties
    <2>3. Len(saved') = D - 1
      <3>1. \A d \in Nat : d > 0 => (IF 1 <= d - 1 THEN (d - 1) - 1 + 1 ELSE 0) = d - 1
        OBVIOUS
      <3> HIDE DEF D
      <3> QED
        BY <1>1, <1>4, <2>2, <3>1
    <2>4. ASSUME NEW k \in 1..(D - 1) PROVE saved'[k] = saved[k]
      <3>1. k \in 1..((D - 1) - 1 + 1) /\ 1 + k - 1 = k
        BY <1>4
      <3> QED
        BY <2>2, <3>1
    <2> QED
      BY <2>2, <2>3, <2>4
  <1>6. /\ Top.reg \in [Registers -> Int] /\ Top.eip \in Code \ {RESET}
        /\ Top.reg["esp"] \in 15..TOP
    <2>1. Room(Top)
      BY <1>1, <1>4, OnTop
    <2> QED
      BY <1>1, <2>1 DEF Context, Room
  <1>7. TypeInv'
    <2>1. Len(saved') <= taken
      BY <1>4, <1>5
    <2>2. Top.reg["esp"] \in 0..TOP
      BY <1>6
    <2> QED
      BY <2>1, <2>2, <1>2, <1>3, <1>5, <1>6 DEF IInv, TypeInv, tables
  <1>8. Roomy'
    <2>1. ASSUME NEW k \in 1..(D - 1) PROVE k \in 1..D
      BY <1>4
    <2>2. \A k \in 1..(D - 1) : saved[k].reg["esp"] \in (15 * (MaxTaken - k + 1))..TOP
      BY <2>1 DEF IInv, Roomy
    <2>3. \A j, k \in 1..(D - 1) : j < k => saved[k].reg["esp"] <= saved[j].reg["esp"]
      BY <2>1 DEF IInv, Roomy
    <2> HIDE DEF D
    <2>4. /\ \A k \in 1..(D - 1) :
               saved'[k].reg["esp"] \in (15 * (MaxTaken - k + 1))..TOP
          /\ \A j, k \in 1..(D - 1) : j < k => saved'[k].reg["esp"] <= saved'[j].reg["esp"]
      BY <2>2, <2>3, <1>5
    <2>5. Len(saved') = D - 1
      BY <1>5
    <2> QED
      BY <2>4, <2>5, Zenon DEF Roomy
  <1>9. Handlers'
    <2>1. ASSUME NEW k \in 1..(D - 1)
          PROVE  InHandler(saved[k], saved[k + 1].reg, saved[k + 1].eip, stack')
      BY <1>3 DEF IInv, Handlers
    <2>2. \A k \in 1..(Len(saved') - 1) :
            InHandler(saved'[k], saved'[k + 1].reg, saved'[k + 1].eip, stack')
      <3> TAKE k \in 1..(Len(saved') - 1)
      <3>1. k \in 1..(D - 1) /\ k + 1 \in 1..(D - 1)
        BY <1>4, <1>5
      <3> QED
        BY <2>1, <3>1, <1>5
    <2>3. Len(saved') > 0 => InHandler(saved'[Len(saved')], reg', eip', stack')
      <3> SUFFICES ASSUME D - 1 > 0 PROVE InHandler(saved'[D - 1], reg', eip', stack')
        BY <1>5
      <3>1. D - 1 \in 1..(D - 1) /\ (D - 1) + 1 = D
        BY <1>4
      <3> QED
        BY <2>1, <3>1, <1>2, <1>5 DEF Top
    <2> QED
      BY <2>2, <2>3 DEF Handlers
  <1>10. Outermost'
    <2>1. CASE D = 1
      BY <2>1, <1>2, <1>5 DEF IInv, Outermost, Top
    <2>2. CASE D > 1
      <3>1. 1 \in 1..(D - 1) /\ Len(saved') > 0
        BY <2>2, <1>4, <1>5
      <3> QED
        BY <3>1, <1>1, <1>5 DEF IInv, Outermost
    <2> QED
      BY <1>1, <1>4, <2>1, <2>2
  <1>11. Tables'
    BY <1>1, <1>2, <1>3, <1>6 DEF IInv, Tables, tables
  <1>12. SuspendedIntact'
    <2>1. ASSUME NEW k \in 1..(D - 1) PROVE k \in 1..D /\ saved'[k] = saved[k]
      BY <1>4, <1>5
    <2> QED
      BY SMTT(30), <2>1, <1>3, <1>5 DEF IInv, SuspendedIntact
  <1> QED
    BY <1>7, <1>8, <1>9, <1>10, <1>11, <1>12 DEF IInv

\* A delivery puts a handler on top, or resets the processor before lidt.
LEMMA DeliverKeeps ==
  ASSUME IInv, NEW v \in 0..31, eip \in Code \ {RESET}, Deliver(v),
         nmi_blocked' \in BOOLEAN
  PROVE  IInv'
  <1> DEFINE D == Len(saved)
             c == [vector |-> v, reg |-> reg, eip |-> eip, stack |-> stack]
             sp == reg["esp"]
  <1>1. /\ stack \in [0..(TOP - 1) -> Int] /\ reg \in [Registers -> Int]
        /\ idt \in [GATES -> Gate] /\ installed \in 0..32 /\ idtr_loaded \in BOOLEAN
        /\ saved \in Seq(Context) /\ D \in Nat /\ D <= taken /\ taken \in 0..MaxTaken
    BY DEF IInv, TypeInv
  <1>2. /\ taken < MaxTaken /\ taken' = taken + 1 /\ saved' = Append(saved, c)
        /\ eip' = Handler(v) /\ UNCHANGED tables
    BY DEF Deliver
  <1>3. c \in Context
    BY <1>1 DEF Context
  <1>4. /\ saved' \in Seq(Context) /\ Len(saved') = D + 1
        /\ \A k \in 1..D : saved'[k] = saved[k]
        /\ saved'[D + 1] = c
    BY <1>1, <1>2, <1>3
  <1>5. /\ sp \in (15 * (MaxTaken - (D + 1) + 1))..TOP
        /\ D > 0 => sp <= saved[D].reg["esp"]
    <2>1. CASE D = 0
      BY <2>1 DEF IInv, Outermost
    <2>2. CASE D > 0
      <3>1. eip \notin {MAIN, RESET}
        <4>1. eip = MAIN => FALSE
          <5>1. InHandler(saved[D], reg, eip, stack) /\ saved[D] \in Context
            BY <2>2, <1>1 DEF IInv, Handlers
          <5> QED
            BY <5>1, HandlerPlace
        <4> QED
          BY <4>1
      <3>2. sp \in (Top.reg["esp"] - 15)..(Top.reg["esp"] - 3)
        BY <3>1, OnTop
      <3>3. Top.reg["esp"] \in (15 * (MaxTaken - D + 1))..TOP /\ Top = saved[D]
        BY <2>2, <1>1 DEF IInv, Roomy, Top
      <3>4. \A s, x, k \in Int :
              /\ s \in (15 * (MaxTaken - k + 1))..TOP /\ x \in (s - 15)..(s - 3)
              => x \in (15 * (MaxTaken - (k + 1) + 1))..TOP /\ x <= s
        OBVIOUS
      <3>5. D \in Int /\ sp \in Int /\ Top.reg["esp"] \in Int
        BY <3>3, <3>2, <1>1
      <3> HIDE DEF sp, D, c
      <3> QED
        BY <3>2, <3>3, <3>4, <3>5
    <2> QED
      BY <1>1, <2>1, <2>2
  <1>6. sp \in 15..TOP
    <2> HIDE DEF sp, D, c
    <2> QED
      BY <1>1, <1>2, <1>5
  <1>7. /\ stack' \in [0..(TOP - 1) -> Int] /\ reg' \in [Registers -> Int]
        /\ reg' = [reg EXCEPT !["esp"] = sp - Frame(v)]
        /\ stack'[sp - 3] = eip
        /\ \A a \in sp..(TOP - 1) : stack'[a] = stack[a]
    <2> DEFINE st == Pushed(Pushed(Pushed(stack, sp, EFLAGS), sp - 1, CS), sp - 2, eip)
    <2>1. /\ sp - 1 \in 0..(TOP - 1) /\ sp - 2 \in 0..(TOP - 1)
          /\ sp - 3 \in 0..(TOP - 1) /\ sp - 4 \in 0..(TOP - 1)
          /\ sp - 3 \in Int /\ sp - 4 \in Int
          /\ sp - 1 - 1 = sp - 2 /\ sp - 2 - 1 = sp - 3 /\ sp - 3 - 1 = sp - 4
      BY <1>6
    <2>2. EFLAGS \in Int /\ CS \in Int /\ ERROR \in Int /\ eip \in Int
      <3>1. Code \subseteq Int
        BY DEF Code, Address, MAIN, RESET, PUSH_CODE, IRET
      <3> QED
        BY <3>1 DEF EFLAGS, CS, ERROR
    <2>3. st = [[[stack EXCEPT ![sp - 1] = EFLAGS] EXCEPT ![sp - 2] = CS] EXCEPT ![sp - 3] = eip]
      BY <2>1 DEF Pushed
    <2> HIDE DEF sp
    <2>4. /\ st \in [0..(TOP - 1) -> Int] /\ st[sp - 3] = eip
          /\ \A a \in sp..(TOP - 1) : st[a] = stack[a]
      <3> HIDE DEF st
      <3> DEFINE s1 == [stack EXCEPT ![sp - 1] = EFLAGS]
                 s2 == [s1 EXCEPT ![sp - 2] = CS]
                 s3 == [s2 EXCEPT ![sp - 3] = eip]
      <3>1. s1 \in [0..(TOP - 1) -> Int]
        BY <1>1, <2>1, <2>2
      <3>2. \A a \in sp..(TOP - 1) : s1[a] = stack[a]
        BY <1>1, <1>6
      <3> HIDE DEF s1
      <3>3. s2 \in [0..(TOP - 1) -> Int]
        BY <3>1, <2>1, <2>2
      <3>4. \A a \in sp..(TOP - 1) : s2[a] = stack[a]
        BY <3>1, <3>2, <1>6
      <3> HIDE DEF s2
      <3>5. s3 \in [0..(TOP - 1) -> Int] /\ s3[sp - 3] = eip
        BY <3>3, <2>1, <2>2
      <3>6. \A a \in sp..(TOP - 1) : s3[a] = stack[a]
        BY <3>3, <3>4, <1>6
      <3>7. st = s3
        BY <2>3 DEF s1, s2
      <3> QED
        BY <3>5, <3>6, <3>7
    <2> HIDE DEF st
    <2>5. CASE v \in PushesError
      <3>1. stack' = [st EXCEPT ![sp - 4] = ERROR] /\ reg' = [reg EXCEPT !["esp"] = sp - 4]
        BY <2>5, <2>1 DEF Deliver, Pushed, st, sp
      <3>2. stack' \in [0..(TOP - 1) -> Int]
        BY <3>1, <2>1, <2>2, <2>4
      <3>3. stack'[sp - 3] = eip /\ \A a \in sp..(TOP - 1) : stack'[a] = stack[a]
        BY <3>1, <2>1, <2>4, <1>6
      <3>4. reg' \in [Registers -> Int]
        BY <3>1, <1>1, <2>1
      <3> QED
        BY <2>5, <3>1, <3>2, <3>3, <3>4 DEF Frame
    <2>6. CASE v \notin PushesError
      <3>1. stack' = st /\ reg' = [reg EXCEPT !["esp"] = sp - 3]
        BY <2>6 DEF Deliver, st, sp
      <3>2. reg' \in [Registers -> Int]
        BY <3>1, <1>1, <2>1
      <3> QED
        BY <2>6, <3>1, <3>2, <2>4 DEF Frame
    <2> QED
      BY <2>5, <2>6
  <1>8. Running(c, reg', 1, stack')
    <2>1. "esp" \in Registers
      BY DEF Registers
    <2>2. reg'["esp"] = StackPointer(c, 1)
      <3>1. reg'["esp"] = sp - Frame(v)
        BY <1>1, <1>7, <2>1
      <3>2. sp - Frame(v) \in Int
        BY <1>6 DEF Frame
      <3> QED
        BY <3>1, <3>2 DEF StackPointer, Base
    <2>3. \A q \in Registers : q # "esp" => reg'[q] = c.reg[q]
      BY <1>1, <1>7
    <2>4. \A q \in Registers, i \in 2..8 : q # "esp" => Keeps(c, reg', 1, stack', q, i)
      BY <2>3 DEF Keeps
    <2>5. stack'[c.reg["esp"] - 3] = c.eip
      BY <1>7
    <2> HIDE DEF c
    <2> QED
      BY <2>2, <2>4, <2>5 DEF Running, Registers
  <1>9. idtr_loaded => eip' = Address(v, 1)
    <2> SUFFICES ASSUME idtr_loaded PROVE eip' = Address(v, 1)
      OBVIOUS
    <2>1. idt[v] = GateOf(v)
      BY DEF IInv, Tables
    <2> QED
      BY <1>2, <2>1, GateLeadsToStub DEF Handler
  <1>10. ~ idtr_loaded => eip' = RESET
    BY <1>2 DEF Handler
  <1> HIDE DEF c
  <1>11. Address(v, 1) \in Code \ {MAIN, RESET}
    BY AddressCode
  <1>12. TypeInv'
    <2>1. "esp" \in Registers /\ reg'["esp"] \in 0..TOP
      <3>1. "esp" \in Registers
        BY DEF Registers
      <3>2. sp - Frame(v) \in 0..TOP
        BY <1>6 DEF Frame
      <3> QED
        BY <3>1, <3>2, <1>1, <1>7
    <2>2. eip' \in Code
      <3>1. RESET \in Code
        BY DEF Code
      <3> QED
        BY <3>1, <1>1, <1>9, <1>10, <1>11
    <2>3. taken' \in 0..MaxTaken /\ Len(saved') <= taken'
      BY <1>1, <1>2, <1>4
    <2> QED
      BY <1>1, <1>2, <1>4, <1>7, <2>1, <2>2, <2>3 DEF TypeInv, tables
  <1>13. c.reg["esp"] = sp /\ c.vector = v /\ c.eip = eip /\ c.stack = stack /\ c.reg = reg
    BY DEF c
  <1>14. Roomy'
    <2>1. ASSUME NEW k \in 1..(D + 1)
          PROVE  saved'[k].reg["esp"] \in (15 * (MaxTaken - k + 1))..TOP
      <3>1. CASE k \in 1..D
        BY <3>1, <1>4 DEF IInv, Roomy
      <3>2. CASE k = D + 1
        BY <3>2, <1>4, <1>5, <1>13
      <3> QED
        BY <3>1, <3>2, <1>1
    <2>2. ASSUME NEW j \in 1..(D + 1), NEW k \in 1..(D + 1), j < k
          PROVE  saved'[k].reg["esp"] <= saved'[j].reg["esp"]
      <3>1. j \in 1..D
        BY <1>1, <2>2
      <3>2. CASE k \in 1..D
        BY <3>1, <3>2, <2>2, <1>4 DEF IInv, Roomy
      <3>3. CASE k = D + 1
        <4>1. D > 0 /\ D \in 1..D
          BY <3>1, <1>1
        <4>2. sp <= saved[D].reg["esp"] /\ saved[D].reg["esp"] <= saved[j].reg["esp"]
          <5>1. CASE j = D
            BY <5>1, <4>1, <3>1, <1>5, Contexts
          <5>2. CASE j < D
            BY <5>2, <4>1, <3>1, <1>5 DEF IInv, Roomy
          <5> QED
            BY <5>1, <5>2, <3>1, <1>1
        <4>3. saved[D].reg["esp"] \in Int /\ saved[j].reg["esp"] \in Int
          BY <4>1, <3>1, Contexts
        <4>4. sp \in Int
          BY <1>6
        <4> HIDE DEF sp
        <4>5. sp <= saved[j].reg["esp"]
          BY <4>2, <4>3, <4>4
        <4> QED
          BY <3>1, <3>3, <4>5, <1>4, <1>13
      <3> QED
        BY <3>2, <3>3, <1>1
    <2> QED
      BY <2>1, <2>2, <1>4 DEF Roomy
  <1>15. /\ D > 0 => InHandler(saved[D], reg, eip, stack')
         /\ \A k \in 1..(D - 1) :
              InHandler(saved[k], saved[k + 1].reg, saved[k + 1].eip, stack')
         /\ \A k \in 1..D : \A a \in saved[k].reg["esp"]..(TOP - 1) :
              stack'[a] = saved[k].stack[a]
    <2> SUFFICES ASSUME D > 0
                 PROVE  /\ InHandler(saved[D], reg, eip, stack')
                        /\ \A k \in 1..(D - 1) :
                             InHandler(saved[k], saved[k + 1].reg, saved[k + 1].eip, stack')
                        /\ \A k \in 1..D : \A a \in saved[k].reg["esp"]..(TOP - 1) :
                             stack'[a] = saved[k].stack[a]
      BY <1>1
    <2>1. D \in 1..D
      BY <1>1
    <2>2. saved[D] \in Context /\ Room(saved[D]) /\ saved[D].reg["esp"] \in Int
      BY <2>1, Contexts
    <2>3. \A a \in saved[D].reg["esp"]..(TOP - 1) : stack'[a] = stack[a]
      <3> HIDE DEF sp
      <3>1. saved[D].reg["esp"]..(TOP - 1) \subseteq sp..(TOP - 1)
        BY <1>5, <1>6, <2>2
      <3> QED
        BY <3>1, <1>7
    <2>4. PICK n \in 1..24 : eip = Address(saved[D].vector, n)
                             /\ Running(saved[D], reg, n, stack)
      BY DEF IInv, Handlers, InHandler
    <2>5. Running(saved[D], reg, n, stack')
      BY <2>2, <2>4, <1>7, RunningAbove DEF Room
    <2>6. InHandler(saved[D], reg, eip, stack')
      BY <2>4, <2>5 DEF InHandler
    <2> QED
      BY <2>3, <2>6, WritesBelow
  <1>16. Handlers'
    <2>1. ASSUME NEW k \in 1..(Len(saved') - 1)
          PROVE  InHandler(saved'[k], saved'[k + 1].reg, saved'[k + 1].eip, stack')
      <3>1. CASE k = D
        BY <3>1, <1>1, <1>4, <1>13, <1>15
      <3>2. CASE k \in 1..(D - 1)
        <4>1. k \in 1..D /\ k + 1 \in 1..D
          BY <3>2, <1>1
        <4> QED
          BY <3>2, <4>1, <1>4, <1>15
      <3> QED
        BY <3>1, <3>2, <1>1, <1>4
    <2>2. eip' # RESET => InHandler(saved'[Len(saved')], reg', eip', stack')
      <3> SUFFICES ASSUME eip' # RESET PROVE InHandler(c, reg', eip', stack')
        BY <1>4
      <3>1. eip' = Address(c.vector, 1) /\ 1 \in 1..24
        BY <1>1, <1>9, <1>10, <1>13
      <3> QED
        BY <3>1, <1>8 DEF InHandler
    <2> QED
      BY <2>1, <2>2 DEF Handlers
  <1>17. Outermost'
    <2>1. CASE D = 0
      BY <2>1, <1>4, <1>13 DEF IInv, Outermost
    <2>2. CASE D > 0
      <3>1. 1 \in 1..D
        BY <2>2, <1>1
      <3> QED
        BY <2>2, <3>1, <1>1, <1>4 DEF IInv, Outermost
    <2> QED
      BY <1>1, <2>1, <2>2
  <1>18. Tables'
    BY <1>1, <1>2, <1>9, <1>10, <1>11 DEF IInv, Tables, tables
  <1>19. SuspendedIntact'
    <2>1. ASSUME NEW k \in 1..(D + 1), NEW a \in saved'[k].reg["esp"]..(TOP - 1)
          PROVE  stack'[a] = saved'[k].stack[a]
      <3>1. CASE k \in 1..D
        BY <3>1, <2>1, <1>4, <1>15
      <3>2. CASE k = D + 1
        BY <3>2, <2>1, <1>4, <1>7, <1>13
      <3> QED
        BY <3>1, <3>2, <1>1
    <2> QED
      BY <2>1, <1>4 DEF SuspendedIntact
  <1> QED
    BY <1>12, <1>14, <1>16, <1>17, <1>18, <1>19 DEF IInv

\* What a register holds is an integer, and so is what a stub pushes.
LEMMA PushedValues ==
  ASSUME IInv
  PROVE  /\ reg \in [Registers -> Int]
         /\ \A q \in Registers : reg[q] \in Int
         /\ \A n \in 1..24 : At(n) => Vector \in Int /\ Address(Vector, POP_ARGS) \in Int
  <1>1. reg \in [Registers -> Int]
    BY DEF IInv, TypeInv
  <1>2. ASSUME NEW n \in 1..24, At(n) PROVE Vector \in Int /\ Address(Vector, POP_ARGS) \in Int
    <2>1. Vector \in 0..31
      BY <1>2, AtInstruction
    <2> QED
      BY <2>1 DEF Address, POP_ARGS
  <1> QED
    BY <1>1, <1>2

\* Every instruction of the stub that pushes.
LEMMA StubPushes ==
  ASSUME IInv, PushCode \/ PushAll \/ PushArgs \/ CallJunction PROVE IInv'
  <1>1. CASE PushCode
    <2>1. At(1) /\ Push(Vector) /\ Continue
      BY <1>1 DEF PushCode, PUSH_CODE
    <2>2. Vector = Top.vector /\ Vector \in Int
      <3>1. 1 \in 1..24
        OBVIOUS
      <3> QED
        BY <2>1, <3>1, AtInstruction, PushedValues
    <2>3. ToPush(Top, reg, 1, Vector)
      BY <2>2 DEF ToPush
    <2>4. 1 \in 1..11
      OBVIOUS
    <2> QED
      BY <2>1, <2>2, <2>3, <2>4, PushKeeps
  <1>2. CASE PushAll
    <2>1. PICK n \in 2..9 : At(n) /\ Push(reg[PushOrder[n - 1]]) /\ Continue
      BY <1>2 DEF PushAll, PUSH_ALL
    <2> DEFINE w == reg[PushOrder[n - 1]]
    <2>2. /\ n = 2 => PushOrder[n - 1] = "esp"
          /\ n = 3 => PushOrder[n - 1] = "ebp"
          /\ n = 4 => PushOrder[n - 1] = "edi"
          /\ n = 5 => PushOrder[n - 1] = "esi"
          /\ n = 6 => PushOrder[n - 1] = "edx"
          /\ n = 7 => PushOrder[n - 1] = "ecx"
          /\ n = 8 => PushOrder[n - 1] = "ebx"
          /\ n = 9 => PushOrder[n - 1] = "eax"
      BY DEF PushOrder
    <2>3. PushOrder[n - 1] \in Registers
      BY <2>1, <2>2 DEF Registers
    <2>4. w \in Int
      BY <2>3, PushedValues
    <2>5. ToPush(Top, reg, n, w)
      BY <2>1, <2>2 DEF ToPush
    <2>6. n \in 1..11
      BY <2>1
    <2> HIDE DEF w
    <2>7. Push(w)
      BY <2>1 DEF w
    <2> QED
      BY <2>1, <2>4, <2>5, <2>6, <2>7, PushKeeps
  <1>3. CASE PushArgs
    <2>1. At(10) /\ Push(reg["esp"]) /\ Continue
      BY <1>3 DEF PushArgs, PUSH_ARGS
    <2>2. reg["esp"] \in Int
      BY PushedValues DEF Registers
    <2>3. ToPush(Top, reg, 10, reg["esp"])
      BY DEF ToPush
    <2>4. 10 \in 1..11
      OBVIOUS
    <2> QED
      BY <2>1, <2>2, <2>3, <2>4, PushKeeps
  <1>4. CASE CallJunction
    <2> DEFINE w == Address(Vector, POP_ARGS)
    <2>1. At(11) /\ Push(w) /\ Continue
      BY <1>4 DEF CallJunction, CALL
    <2>2. Vector = Top.vector /\ w \in Int
      <3>1. 11 \in 1..24
        OBVIOUS
      <3> QED
        BY <2>1, <3>1, AtInstruction, PushedValues
    <2>3. ToPush(Top, reg, 11, w)
      BY <2>2 DEF ToPush, POP_ARGS
    <2>4. 11 \in 1..11
      OBVIOUS
    <2> HIDE DEF w
    <2> QED
      BY <2>1, <2>2, <2>3, <2>4, PushKeeps
  <1> QED
    BY <1>1, <1>2, <1>3, <1>4

\* Every instruction of the stub that pops.
LEMMA StubPops ==
  ASSUME IInv, PopArgs \/ PopAll PROVE IInv'
  <1>1. CASE PopArgs
    <2>1. At(15) /\ Pop("esp") /\ Continue
      BY <1>1 DEF PopArgs, POP_ARGS
    <2>2. "esp" \in Registers /\ ToPop(15, "esp")
      BY DEF Registers, ToPop
    <2>3. 15 \in 15..23
      OBVIOUS
    <2> QED
      BY <2>1, <2>2, <2>3, PopKeeps
  <1>2. CASE PopAll
    <2>1. PICK n \in 16..23 : At(n) /\ Pop(PopOrder[n - 15]) /\ Continue
      BY <1>2 DEF PopAll, POP_ALL
    <2> DEFINE q == PopOrder[n - 15]
    <2>2. /\ n = 16 => q = "eax"
          /\ n = 17 => q = "ebx"
          /\ n = 18 => q = "ecx"
          /\ n = 19 => q = "edx"
          /\ n = 20 => q = "esi"
          /\ n = 21 => q = "edi"
          /\ n = 22 => q = "ebp"
          /\ n = 23 => q = "esp"
      BY DEF PopOrder
    <2> HIDE DEF q
    <2>3. q \in Registers /\ ToPop(n, q)
      BY <2>1, <2>2 DEF Registers, ToPop
    <2>4. n \in 15..23
      BY <2>1
    <2>5. Pop(q)
      BY <2>1 DEF q
    <2> QED
      BY <2>1, <2>3, <2>4, <2>5, PopKeeps
  <1> QED
    BY <1>1, <1>2

\* An exception or an NMI.
LEMMA Interruptions ==
  ASSUME IInv,
         \/ \E v \in Vectors \cup HandlerVectors : Fault(v)
         \/ \E v \in AnyTime : Interrupt(v)
  PROVE  IInv'
  <1>1. CASE \E v \in Vectors \cup HandlerVectors : Fault(v)
    <2>1. PICK v \in Vectors \cup HandlerVectors : Fault(v)
      BY <1>1
    <2>2. v \in 0..31
      BY <2>1, VectorsAssumption
    <2>3. eip \in Code \ {RESET}
      BY <2>1 DEF Fault, At, MAIN, RESET, Code
    <2>4. Deliver(v) /\ nmi_blocked' \in BOOLEAN
      BY <2>1 DEF Fault, IInv, TypeInv
    <2> QED
      BY <2>2, <2>3, <2>4, DeliverKeeps
  <1>2. CASE \E v \in AnyTime : Interrupt(v)
    <2>1. PICK v \in AnyTime : Interrupt(v)
      BY <1>2
    <2>2. v \in 0..31
      BY <2>1, VectorsAssumption
    <2>3. eip \in Code \ {RESET} /\ Deliver(v)
      BY <2>1 DEF Interrupt
    <2>4. nmi_blocked' \in BOOLEAN
      BY <2>1, Zenon DEF Interrupt
    <2> QED
      BY <2>2, <2>3, <2>4, DeliverKeeps
  <1> QED
    BY <1>1, <1>2

\* init_idt() installs its gates while nothing else runs.
LEMMA InstallKeeps ==
  ASSUME IInv, InstallGate \/ InstallIdt PROVE IInv'
  <1>1. CASE InstallGate
    <2>1. /\ installed \in GATES /\ idt' = [idt EXCEPT ![installed] = GateOf(installed)]
          /\ installed' = installed + 1 /\ eip = MAIN
          /\ UNCHANGED <<stack, reg, eip, idtr_loaded, nmi_blocked, taken, saved>>
      BY <1>1 DEF InstallGate
    <2>2. idt \in [GATES -> Gate]
      BY DEF IInv, TypeInv
    <2>3. GateOf(installed) \in Gate
      <3>1. PART = 256 /\ Address(installed, PUSH_CODE) \in Int /\ CS \in Int /\ INTERRUPT \in Int
        BY <2>1 DEF PART, Address, PUSH_CODE, GATES, CS, INTERRUPT
      <3> HIDE DEF GateOf
      <3>2. \A x \in Int : x % 256 \in Int /\ (x \div 256) % 256 \in Int
        OBVIOUS
      <3> QED
        BY <3>1, <3>2 DEF GateOf, Gate
    <2>4. idt' \in [GATES -> Gate] /\ installed' \in 0..32
      BY <2>1, <2>2, <2>3 DEF GATES
    <2>5. TypeInv'
      BY <2>1, <2>4 DEF IInv, TypeInv
    <2>6. \A i \in 0..(installed' - 1) : idt'[i] = GateOf(i)
      <3> TAKE i \in 0..(installed' - 1)
      <3>1. CASE i = installed
        BY <3>1, <2>1, <2>2
      <3>2. CASE i \in 0..(installed - 1)
        <4>1. i \in GATES /\ i # installed
          BY <3>2, <2>1 DEF GATES
        <4> QED
          BY <3>2, <4>1, <2>1, <2>2 DEF IInv, Tables
      <3> QED
        BY <3>1, <3>2, <2>1 DEF GATES
    <2>7. ~ idtr_loaded
      BY <2>1 DEF IInv, Tables, GATES
    <2>8. Tables'
      BY <2>1, <2>6, <2>7 DEF Tables
    <2>9. Roomy' /\ Handlers' /\ Outermost' /\ SuspendedIntact'
      BY <2>1 DEF IInv, Roomy, Handlers, Outermost, SuspendedIntact
    <2> QED
      BY <2>5, <2>8, <2>9 DEF IInv
  <1>2. CASE InstallIdt
    <2>1. /\ installed \notin GATES /\ idtr_loaded' = TRUE /\ eip = MAIN
          /\ UNCHANGED <<stack, reg, eip, idt, installed, nmi_blocked, taken, saved>>
      BY <1>2, Zenon DEF InstallIdt
    <2>2. TypeInv'
      BY <2>1 DEF IInv, TypeInv
    <2>3. installed = 32 /\ eip # RESET
      BY <2>1 DEF IInv, TypeInv, GATES, MAIN, RESET
    <2>4. Tables'
      BY <2>1, <2>3 DEF IInv, Tables
    <2>5. Roomy' /\ Handlers' /\ Outermost' /\ SuspendedIntact'
      BY <2>1 DEF IInv, Roomy, Handlers, Outermost, SuspendedIntact
    <2> QED
      BY <2>2, <2>4, <2>5 DEF IInv
  <1> QED
    BY <1>1, <1>2

\* At the start the program runs, and no gate is there.
LEMMA StartsWell == Init => IInv
  <1> SUFFICES ASSUME Init PROVE IInv
    OBVIOUS
  <1>1. saved = <<>> /\ Len(saved) = 0 /\ saved \in Seq(Context)
    BY DEF Init
  <1>2. stack \in [0..(TOP - 1) -> Int]
    BY DEF Init
  <1>3. reg \in [Registers -> Int] /\ reg["esp"] = INITIAL_ESP
    BY DEF Init, Registers
  <1>4. idt \in [GATES -> Gate]
    BY DEF Init, NoGate, Gate
  <1>5. /\ eip = MAIN /\ installed = 0 /\ taken = 0
        /\ idtr_loaded = FALSE /\ nmi_blocked = FALSE
    <2>1. eip = MAIN /\ installed = 0 /\ taken = 0
      BY DEF Init
    <2>2. idtr_loaded = FALSE
      BY SMTT(30) DEF Init
    <2>3. nmi_blocked = FALSE
      BY SMTT(30) DEF Init
    <2> QED
      BY <2>1, <2>2, <2>3
  <1>6. MAIN \in Code /\ MAIN # RESET
    BY DEF Code, MAIN, RESET
  <1>7. TypeInv
    <2>1. idtr_loaded \in BOOLEAN /\ nmi_blocked \in BOOLEAN
      BY Zenon, <1>5
    <2>2. INITIAL_ESP \in 0..TOP
      BY StackAssumption
    <2>3. 0 \in 0..MaxTaken /\ 0 \in 0..32
      BY StackAssumption
    <2> QED
      BY <1>1, <1>2, <1>3, <1>4, <1>5, <1>6, <2>1, <2>2, <2>3 DEF TypeInv
  <1>8. Tables
    BY <1>5, <1>6 DEF Tables
  <1>9. Roomy /\ Handlers /\ Outermost /\ SuspendedIntact
    BY <1>1, <1>3, <1>5 DEF Roomy, Handlers, Outermost, SuspendedIntact
  <1> QED
    BY <1>7, <1>8, <1>9 DEF IInv

\* The invariant holds in every reachable state, whatever is interrupted.
THEOREM StackCorrect == Spec => []IInv
  <1>1. IInv /\ [Next]_vars => IInv'
    <2> SUFFICES ASSUME IInv, [Next]_vars PROVE IInv'
      OBVIOUS
    <2>1. CASE \/ \E v \in Vectors \cup HandlerVectors : Fault(v)
               \/ \E v \in AnyTime : Interrupt(v)
      BY <2>1, Interruptions
    <2>2. CASE InstallGate \/ InstallIdt
      BY <2>2, InstallKeeps
    <2>3. CASE PushCode \/ PushAll \/ PushArgs \/ CallJunction
      BY <2>3, StubPushes
    <2>4. CASE PopArgs \/ PopAll
      BY <2>4, StubPops
    <2>5. CASE DropCode
      <3>1. At(12) /\ 12 \in 12..13
        BY <2>5 DEF DropCode
      <3> QED
        BY <2>5, <3>1, JunctionKeeps
    <2>6. CASE DropErrorCode
      <3>1. At(13) /\ 13 \in 12..13
        BY <2>6 DEF DropErrorCode
      <3> QED
        BY <2>6, <3>1, JunctionKeeps
    <2>7. CASE ReturnFromJunction
      BY <2>7, ReturnKeeps
    <2>8. CASE Iret
      BY <2>8, IretKeeps
    <2>9. CASE UNCHANGED vars
      BY <2>9 DEF vars, tables, IInv, TypeInv, Roomy, Handlers, Outermost, Tables,
                  SuspendedIntact
    <2> QED
      BY <2>1, <2>2, <2>3, <2>4, <2>5, <2>6, <2>7, <2>8, <2>9 DEF Next, Step
  <1> QED
    BY <1>1, StartsWell, PTL DEF Spec

-----------------------------------------------------------------------------
(* The properties                                                          *)

\* Every variable holds a value of its type: the stack pointer stays on the
\* stack, and with the table loaded nothing resets the processor.
THEOREM TypesHold == Spec => []TypeOK
  <1>1. IInv => TypeOK
    BY DEF IInv, TypeInv, Tables, TypeOK
  <1> QED
    BY <1>1, StackCorrect, PTL

\* Nothing is written to the stack of what is interrupted.
THEOREM NothingSuspendedIsWritten == Spec => []SuspendedIntact
  <1>1. IInv => SuspendedIntact
    BY DEF IInv
  <1> QED
    BY <1>1, StackCorrect, PTL

\* interrupt_junction() reads the vector that was delivered.
THEOREM VectorIsReported == Spec => []ReportsItsVector
  <1>1. IInv => ReportsItsVector
    <2> SUFFICES ASSUME IInv, NEW n \in JUNCTION, At(n)
                 PROVE  stack[Args + FieldCode] = Top.vector
      BY DEF ReportsItsVector, Top
    <2>1. n \in 12..14 /\ n \in 1..24
      BY DEF JUNCTION
    <2>2. Top \in Context /\ Running(Top, reg, n, stack)
      BY <2>1, AtInstruction
    <2>3. Base(Top) \in Int /\ reg["esp"] = Base(Top) - 11
      BY <2>1, <2>2, BaseRange DEF Running, StackPointer
    <2>4. stack[Base(Top) - 10] = Base(Top) - 9 /\ stack[Base(Top) - 1] = Top.vector
      BY <2>1, <2>2 DEF Running
    <2>5. reg["esp"] + 1 = Base(Top) - 10 /\ Base(Top) - 9 + 8 = Base(Top) - 1
      BY <2>3
    <2> QED
      BY <2>4, <2>5 DEF Args, FieldCode
  <1> QED
    BY <1>1, StackCorrect, PTL

\* Whatever is interrupted, at any depth, goes on as if nothing had been.
THEOREM InterruptedResumes == Spec => Resumes
  <1> DEFINE R == Len(saved') < Len(saved) =>
                    LET c == saved[Len(saved)] IN reg' = c.reg /\ eip' = c.eip
  <1>1. IInv /\ [Next]_vars => [R]_vars
    <2> SUFFICES ASSUME IInv, Next, Len(saved') < Len(saved)
                 PROVE  reg' = Top.reg /\ eip' = Top.eip
      BY DEF Top
    <2>1. Len(saved) \in Nat /\ saved \in Seq(Context)
      BY DEF IInv, TypeInv
    <2>2. ~ UNCHANGED saved
      BY <2>1
    <2>3. ASSUME NEW v, Deliver(v)
          PROVE  FALSE
      <3> DEFINE e == [vector |-> v, reg |-> reg, eip |-> eip, stack |-> stack]
      <3>1. saved' = Append(saved, e)
        BY <2>3 DEF Deliver
      <3> HIDE DEF e
      <3>2. Len(Append(saved, e)) = Len(saved) + 1
        BY <2>1
      <3> QED
        BY <2>1, <3>1, <3>2
    <2>4. Iret
      BY <2>2, <2>3 DEF Next, Step, Fault, Interrupt, InstallGate, InstallIdt,
         PushCode, PushAll, PushArgs, CallJunction, PopArgs, PopAll, DropCode,
         DropErrorCode, ReturnFromJunction, Continue
    <2> QED
      BY <2>4, IretReturns
  <1> QED
    BY <1>1, StackCorrect, PTL DEF Spec, Resumes
=============================================================================
