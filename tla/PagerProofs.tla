------------------------------ MODULE PagerProofs ------------------------------
(***************************************************************************)
(* Theorems about the page tables, for every page size, every even number  *)
(* of entries, any amount of memory for tables, and every set of requests  *)
(* that are apart from each other and aligned as the large pages they get. *)
(***************************************************************************)
EXTENDS Pager, FiniteSetTheorems, TLAPS

-----------------------------------------------------------------------------
(* Division                                                                *)

\* Quotient and remainder, and that they are the only ones.
LEMMA Division ==
  ASSUME NEW a \in Nat, NEW c \in Nat \ {0}
  PROVE  /\ a \div c \in Nat /\ a % c \in 0..(c - 1)
         /\ c * (a \div c) <= a /\ a < c * (a \div c) + c
         /\ a % c = a - c * (a \div c)
  <1>1. a \div c \in Nat /\ a % c \in 0..(c - 1)
    OBVIOUS
  <1>2. c * (a \div c) <= a /\ a < c * (a \div c) + c
    OBVIOUS
  <1>3. a % c = a - c * (a \div c)
    OBVIOUS
  <1> QED
    BY <1>1, <1>2, <1>3

\* Quotient and remainder are those of the only decomposition.
LEMMA DivisionIs ==
  ASSUME NEW a \in Nat, NEW c \in Nat \ {0}, NEW q \in Nat, NEW r \in 0..(c - 1),
         a = c * q + r
  PROVE  a \div c = q /\ a % c = r
  OBVIOUS

\* The quotient is the one that leaves a remainder below the divisor.
LEMMA DivisionUnique ==
  ASSUME NEW a \in Nat, NEW c \in Nat \ {0}, NEW q \in Nat,
         c * q <= a, a < c * q + c
  PROVE  a \div c = q /\ a % c = a - c * q
  <1> DEFINE r == a - c * q
  <1>1. c * q \in Nat
    OBVIOUS
  <1>2. r \in 0..(c - 1) /\ a = c * q + r
    BY <1>1
  <1> HIDE DEF r
  <1>3. a \div c = q /\ a % c = r
    BY <1>2, DivisionIs
  <1> QED
    BY <1>3 DEF r

\* Dividing twice is dividing by the product.
LEMMA DivisionTwice ==
  ASSUME NEW a \in Nat, NEW c \in Nat \ {0}, NEW e \in Nat \ {0}
  PROVE  a \div (c * e) = (a \div c) \div e
  OBVIOUS

\* A multiple is the divisor times the quotient.
LEMMA Multiple ==
  ASSUME NEW a \in Nat, NEW c \in Nat \ {0}
  PROVE  /\ a % c = 0 => a = c * (a \div c)
         /\ \A k \in Nat : (c * k) % c = 0 /\ (c * k) \div c = k
  OBVIOUS

-----------------------------------------------------------------------------
(* Blocks of the address space                                             *)

Addresses == 0..(SPACE - 1)
Slots     == 0..(ENTRIES - 1)

\* The block of a level that an address lies in, and the block of the table
\* that has the entry of it.
Block(l, a) == a \div Covers(l)
Above(l, a) == IF l = 4 THEN 0 ELSE Block(l + 1, a)

\* What an entry of each level covers, and the address space.
LEMMA CoversIs ==
  /\ Covers(1) = PAGE /\ Covers(2) = Covers(1) * ENTRIES
  /\ Covers(3) = Covers(2) * ENTRIES /\ Covers(4) = Covers(3) * ENTRIES
  /\ SPACE = Covers(4) * ENTRIES
  <1>1. Covers(1) = PAGE
    BY DEF Covers
  <1>2. Covers(2) = PAGE * ENTRIES
    BY DEF Covers
  <1>3. Covers(3) = PAGE * ENTRIES * ENTRIES
    BY DEF Covers
  <1>4. Covers(4) = PAGE * ENTRIES * ENTRIES * ENTRIES
    BY DEF Covers
  <1> QED
    BY <1>1, <1>2, <1>3, <1>4 DEF SPACE

\* An entry covers ENTRIES times what one of the next level below covers.
LEMMA CoversNext ==
  /\ \A l \in 1..3 : Covers(l + 1) = Covers(l) * ENTRIES
  /\ \A l \in 1..4 : Covers(l) \in Nat \ {0}
  /\ \A k, l \in 1..4 : k <= l => Covers(k) <= Covers(l)
  /\ SPACE \in Nat \ {0} /\ Covers(4) < SPACE
  <1>1. \A c \in Nat \ {0} : c * ENTRIES \in Nat \ {0} /\ c < c * ENTRIES
    BY PagerAssumption
  <1>2. Covers(1) \in Nat \ {0}
    BY CoversIs, PagerAssumption
  <1>3. Covers(2) \in Nat \ {0} /\ Covers(1) < Covers(2)
    BY CoversIs, <1>1, <1>2
  <1>4. Covers(3) \in Nat \ {0} /\ Covers(2) < Covers(3)
    BY CoversIs, <1>1, <1>3
  <1>5. Covers(4) \in Nat \ {0} /\ Covers(3) < Covers(4)
    BY CoversIs, <1>1, <1>4
  <1>6. SPACE \in Nat \ {0} /\ Covers(4) < SPACE
    BY CoversIs, <1>1, <1>5
  <1>7. \A l \in 1..3 : Covers(l + 1) = Covers(l) * ENTRIES
    <2> TAKE l \in 1..3
    <2>1. CASE l = 1
      BY <2>1, CoversIs
    <2>2. CASE l = 2
      BY <2>2, CoversIs
    <2>3. CASE l = 3
      BY <2>3, CoversIs
    <2> QED
      BY <2>1, <2>2, <2>3
  <1>8. \A l \in 1..4 : l = 1 \/ l = 2 \/ l = 3 \/ l = 4
    OBVIOUS
  <1>9. \A l \in 1..4 : Covers(l) \in Nat \ {0}
    BY <1>2, <1>3, <1>4, <1>5, <1>8
  <1>10. \A k, l \in 1..4 : k <= l => Covers(k) <= Covers(l)
    BY <1>2, <1>3, <1>4, <1>5, <1>8
  <1> QED
    BY <1>6, <1>7, <1>9, <1>10

\* The block of a level is an entry of the block above it.
LEMMA BlockParts ==
  ASSUME NEW l \in 1..4, NEW a \in Addresses
  PROVE  /\ Block(l, a) \in Nat /\ Above(l, a) \in Nat /\ Index(l, a) \in Slots
         /\ Block(l, a) = ENTRIES * Above(l, a) + Index(l, a)
  <1>1. a \in Nat /\ a < SPACE /\ Covers(l) \in Nat \ {0} /\ ENTRIES \in Nat \ {0}
    BY CoversNext, PagerAssumption DEF Addresses
  <1>2. Block(l, a) \in Nat
    BY <1>1, Division DEF Block
  <1>3. Above(l, a) = Block(l, a) \div ENTRIES /\ Above(l, a) \in Nat
    <2>1. CASE l = 4
      <3>1. Block(4, a) < ENTRIES
        <4>1. Covers(4) * Block(4, a) <= a
          BY <1>1, <2>1, Division DEF Block
        <4>2. SPACE = Covers(4) * ENTRIES
          BY CoversIs
        <4>3. \A c, e \in Nat \ {0}, b, x \in Nat : c * b <= x /\ x < c * e => b < e
          OBVIOUS
        <4> QED
          BY <1>1, <1>2, <2>1, <4>1, <4>2, <4>3
      <3>2. Block(4, a) \div ENTRIES = 0
        BY <1>1, <1>2, <2>1, <3>1
      <3> QED
        BY <2>1, <3>2 DEF Above
    <2>2. CASE l # 4
      <3>1. l \in 1..3 /\ Covers(l + 1) = Covers(l) * ENTRIES
        BY <2>2, CoversNext
      <3>2. a \div (Covers(l) * ENTRIES) = (a \div Covers(l)) \div ENTRIES
        BY <1>1, DivisionTwice
      <3> QED
        BY <1>1, <1>2, <2>2, <3>1, <3>2, Division DEF Above, Block
    <2> QED
      BY <2>1, <2>2
  <1>4. Index(l, a) = Block(l, a) % ENTRIES
    BY DEF Index, Block
  <1>5. /\ Block(l, a) % ENTRIES \in 0..(ENTRIES - 1)
        /\ Block(l, a) % ENTRIES = Block(l, a) - ENTRIES * (Block(l, a) \div ENTRIES)
    BY <1>1, <1>2, Division
  <1>6. \A n, e, d \in Nat : n % e = n - e * d /\ n % e \in 0..(e - 1) => n = e * d + (n % e)
    OBVIOUS
  <1> QED
    BY <1>1, <1>2, <1>3, <1>4, <1>5, <1>6 DEF Slots

\* Two addresses are in the same block if they are in the same one above and
\* have the same index, and only then.
LEMMA SameBlock ==
  ASSUME NEW l \in 1..4, NEW a \in Addresses, NEW b \in Addresses
  PROVE  Block(l, a) = Block(l, b) <=>
           Above(l, a) = Above(l, b) /\ Index(l, a) = Index(l, b)
  <1>1. \A e \in Nat \ {0} : \A x, y \in Nat : \A i, j \in 0..(e - 1) :
          e * x + i = e * y + j => x = y /\ i = j
    <2> SUFFICES ASSUME NEW e \in Nat \ {0}, NEW x \in Nat, NEW y \in Nat,
                        NEW i \in 0..(e - 1), NEW j \in 0..(e - 1),
                        e * x + i = e * y + j
                 PROVE  x = y /\ i = j
      OBVIOUS
    <2> DEFINE n == e * x + i
    <2>1. n \in Nat /\ n = e * x + i /\ n = e * y + j
      OBVIOUS
    <2> HIDE DEF n
    <2>2. n \div e = x /\ n % e = i
      BY <2>1, DivisionIs
    <2>3. n \div e = y /\ n % e = j
      BY <2>1, DivisionIs
    <2> QED
      BY <2>2, <2>3
  <1>2. /\ Above(l, a) \in Nat /\ Index(l, a) \in 0..(ENTRIES - 1)
        /\ Block(l, a) = ENTRIES * Above(l, a) + Index(l, a)
    BY BlockParts DEF Slots
  <1>3. /\ Above(l, b) \in Nat /\ Index(l, b) \in 0..(ENTRIES - 1)
        /\ Block(l, b) = ENTRIES * Above(l, b) + Index(l, b)
    BY BlockParts DEF Slots
  <1>4. ENTRIES \in Nat \ {0}
    BY PagerAssumption
  <1>5. Block(l, a) = Block(l, b) => Above(l, a) = Above(l, b) /\ Index(l, a) = Index(l, b)
    BY <1>1, <1>2, <1>3, <1>4
  <1> QED
    BY <1>2, <1>3, <1>5

\* In the same block, in the same one of every level above.
LEMMA SameAbove ==
  ASSUME NEW a \in Addresses, NEW b \in Addresses
  PROVE  \A k, l \in 1..4 : l <= k /\ Block(l, a) = Block(l, b) => Block(k, a) = Block(k, b)
  <1>1. \A l \in 1..3 : Block(l, a) = Block(l, b) => Block(l + 1, a) = Block(l + 1, b)
    <2> TAKE l \in 1..3
    <2>1. l \in 1..4 /\ l # 4
      OBVIOUS
    <2> QED
      BY <2>1, SameBlock DEF Above
  <1>2. /\ Block(1, a) = Block(1, b) => Block(2, a) = Block(2, b)
        /\ Block(2, a) = Block(2, b) => Block(3, a) = Block(3, b)
        /\ Block(3, a) = Block(3, b) => Block(4, a) = Block(4, b)
    BY <1>1
  <1>3. \A l \in 1..4 : l = 1 \/ l = 2 \/ l = 3 \/ l = 4
    OBVIOUS
  <1> QED
    BY <1>2, <1>3

\* The block that begins at an aligned address.
LEMMA AlignedBlock ==
  ASSUME NEW l \in 1..4, NEW v \in Addresses, NEW a \in Addresses, v % Covers(l) = 0
  PROVE  /\ Block(l, a) = Block(l, v) <=> (v <= a /\ a < v + Covers(l))
         /\ Block(l, a) = Block(l, v) => a % Covers(l) = a - v
  <1>1. a \in Nat /\ v \in Nat /\ Covers(l) \in Nat \ {0}
    BY CoversNext DEF Addresses
  <1>2. v = Covers(l) * Block(l, v) /\ Block(l, v) \in Nat
    BY <1>1, Multiple, Division DEF Block
  <1>3. v <= a /\ a < v + Covers(l) => Block(l, a) = Block(l, v)
    <2> SUFFICES ASSUME v <= a, a < v + Covers(l) PROVE Block(l, a) = Block(l, v)
      OBVIOUS
    <2> DEFINE c == Covers(l)
               q == Block(l, v)
    <2>1. c \in Nat \ {0} /\ q \in Nat /\ c * q <= a /\ a < c * q + c
      BY <1>1, <1>2
    <2> HIDE DEF c, q
    <2>2. a \div c = q
      BY <1>1, <2>1, DivisionUnique
    <2> QED
      BY <2>2 DEF c, q, Block
  <1>4. Block(l, a) = Block(l, v) => v <= a /\ a < v + Covers(l) /\ a % Covers(l) = a - v
    <2> DEFINE c == Covers(l)
    <2>1. c \in Nat \ {0}
      BY <1>1
    <2>2. c * Block(l, a) <= a /\ a < c * Block(l, a) + c /\ a % c = a - c * Block(l, a)
      BY <1>1, Division DEF Block
    <2>3. v = c * Block(l, v)
      BY <1>2
    <2> HIDE DEF c
    <2>4. Block(l, a) = Block(l, v) => v <= a /\ a < v + c /\ a % c = a - v
      BY <2>2, <2>3
    <2> QED
      BY <2>4 DEF c
  <1> QED
    BY <1>3, <1>4

-----------------------------------------------------------------------------
(* Trees of tables                                                         *)

EntryType == [kind : {"none", "table", "page"}, to : Nat, bits : SUBSET (0..63)]

\* The table of a level on the way to an address, and its entry for it.
Node(ts, l, a) ==
  LET n3 == ts[Root][Index(4, a)].to
      n2 == ts[n3][Index(3, a)].to
      n1 == ts[n2][Index(2, a)].to
  IN  IF l = 4 THEN Root ELSE IF l = 3 THEN n3 ELSE IF l = 2 THEN n2 ELSE n1

Slot(ts, l, a) == ts[Node(ts, l, a)][Index(l, a)]

\* The way goes on to a table of level l; it ends there.
Reaches(ts, l, a) == \A k \in 1..4 : k > l => Slot(ts, k, a).kind = "table"
Ends(ts, l, a)    == Reaches(ts, l, a) /\ Slot(ts, l, a).kind # "table"

\* Every table has a level and a block, and its entries have theirs.
Branches(ts, lev, blk) ==
  /\ Root \in DOMAIN ts
  /\ \A t \in DOMAIN ts : ts[t] \in [Slots -> EntryType]
  /\ lev \in [DOMAIN ts -> 1..4] /\ blk \in [DOMAIN ts -> Nat]
  /\ lev[Root] = 4 /\ blk[Root] = 0
  /\ \A t \in DOMAIN ts, x \in Slots :
       ts[t][x].kind = "table" =>
         /\ ts[t][x].to \in DOMAIN ts /\ lev[t] >= 2
         /\ lev[ts[t][x].to] = lev[t] - 1
         /\ blk[ts[t][x].to] = ENTRIES * blk[t] + x

\* And pages are aligned.
Tree(ts, lev, blk) ==
  /\ Branches(ts, lev, blk)
  /\ \A t \in DOMAIN ts, x \in Slots :
       ts[t][x].kind = "page" => lev[t] <= 3 /\ ts[t][x].to % Covers(lev[t]) = 0

\* The table of a level is where the entry of the level above leads.
LEMMA NodeNext ==
  ASSUME NEW ts, NEW a
  PROVE  /\ Node(ts, 4, a) = Root
         /\ \A l \in 1..3 : Node(ts, l, a) = Slot(ts, l + 1, a).to
  <1>1. /\ Node(ts, 4, a) = Root
        /\ Node(ts, 3, a) = Slot(ts, 4, a).to
        /\ Node(ts, 2, a) = Slot(ts, 3, a).to
        /\ Node(ts, 1, a) = Slot(ts, 2, a).to
    BY DEF Node, Slot
  <1>2. \A l \in 1..3 : l = 1 \/ l = 2 \/ l = 3
    OBVIOUS
  <1> QED
    BY <1>1, <1>2

\* Who reaches a level reached the one above.
LEMMA ReachesNext ==
  ASSUME NEW ts, NEW a
  PROVE  /\ Reaches(ts, 4, a)
         /\ \A l \in 1..3 : Reaches(ts, l, a) <=>
              Reaches(ts, l + 1, a) /\ Slot(ts, l + 1, a).kind = "table"
  <1>1. Reaches(ts, 4, a)
    BY DEF Reaches
  <1>2. \A l \in 1..3 : \A k \in 1..4 : k > l <=> k > l + 1 \/ k = l + 1
    OBVIOUS
  <1>3. \A l \in 1..3 : l + 1 \in 1..4
    OBVIOUS
  <1> QED
    BY <1>1, <1>2, <1>3 DEF Reaches

\* What is reached on the way to an address has the block the address is in.
LEMMA BranchReached ==
  ASSUME NEW ts, NEW lev, NEW blk, Branches(ts, lev, blk), NEW a \in Addresses
  PROVE  \A l \in 1..4 : Reaches(ts, l, a) =>
           /\ Node(ts, l, a) \in DOMAIN ts
           /\ lev[Node(ts, l, a)] = l /\ blk[Node(ts, l, a)] = Above(l, a)
           /\ Slot(ts, l, a) \in EntryType
           /\ Slot(ts, l, a).kind = "table" => l >= 2
  <1> DEFINE P(l) == /\ Node(ts, l, a) \in DOMAIN ts
                     /\ lev[Node(ts, l, a)] = l /\ blk[Node(ts, l, a)] = Above(l, a)
  <1>1. \A l \in 1..4 : Index(l, a) \in Slots
    BY BlockParts
  <1>2. P(4)
    BY NodeNext DEF Branches, Above
  <1>3. \A l \in 1..3 : P(l + 1) /\ Slot(ts, l + 1, a).kind = "table" => P(l)
    <2> SUFFICES ASSUME NEW l \in 1..3, P(l + 1), Slot(ts, l + 1, a).kind = "table"
                 PROVE  P(l)
      OBVIOUS
    <2> DEFINE t == Node(ts, l + 1, a)
               x == Index(l + 1, a)
    <2>1. l + 1 \in 1..4 /\ l \in 1..4
      OBVIOUS
    <2>2. t \in DOMAIN ts /\ x \in Slots /\ ts[t][x].kind = "table"
      BY <1>1, <2>1 DEF Slot
    <2>3. Node(ts, l, a) = ts[t][x].to
      BY NodeNext DEF Slot
    <2>4. /\ ts[t][x].to \in DOMAIN ts
          /\ lev[ts[t][x].to] = lev[t] - 1
          /\ blk[ts[t][x].to] = ENTRIES * blk[t] + x
      BY <2>2 DEF Branches
    <2>5. Above(l, a) = Block(l + 1, a) /\ Block(l + 1, a) = ENTRIES * Above(l + 1, a) + x
      BY <2>1, BlockParts DEF Above
    <2> QED
      BY <2>3, <2>4, <2>5
  <1> HIDE DEF P
  <1>4. \A l \in 1..4 : Reaches(ts, l, a) => P(l)
    <2>1. Reaches(ts, 3, a) => P(3)
      BY <1>2, <1>3, ReachesNext
    <2>2. Reaches(ts, 2, a) => P(2)
      BY <1>3, <2>1, ReachesNext
    <2>3. Reaches(ts, 1, a) => P(1)
      BY <1>3, <2>2, ReachesNext
    <2>4. \A l \in 1..4 : l = 1 \/ l = 2 \/ l = 3 \/ l = 4
      OBVIOUS
    <2> QED
      BY <1>2, <2>1, <2>2, <2>3, <2>4
  <1>5. ASSUME NEW l \in 1..4, P(l)
        PROVE  /\ Slot(ts, l, a) \in EntryType
               /\ Slot(ts, l, a).kind = "table" => l >= 2
    <2> DEFINE t == Node(ts, l, a)
               x == Index(l, a)
    <2>1. t \in DOMAIN ts /\ lev[t] = l /\ x \in Slots
      BY <1>1, <1>5 DEF P
    <2> HIDE DEF t, x
    <2>2. ts[t][x] \in EntryType
      BY <2>1 DEF Branches
    <2>3. ts[t][x].kind = "table" => l >= 2
      BY <2>1 DEF Branches
    <2> QED
      BY <2>2, <2>3 DEF Slot, t, x
  <1> QED
    BY <1>4, <1>5 DEF P

\* Where a walk comes to in a tree: to a table of the level and of the block of the
\* address.
LEMMA Reached ==
  ASSUME NEW ts, NEW lev, NEW blk, Tree(ts, lev, blk), NEW a \in Addresses
  PROVE  \A l \in 1..4 : Reaches(ts, l, a) =>
           /\ Node(ts, l, a) \in DOMAIN ts
           /\ lev[Node(ts, l, a)] = l /\ blk[Node(ts, l, a)] = Above(l, a)
           /\ Slot(ts, l, a) \in EntryType
           /\ Slot(ts, l, a).kind = "table" => l >= 2
           /\ Slot(ts, l, a).kind = "page" => l <= 3 /\ Slot(ts, l, a).to % Covers(l) = 0
  <1> SUFFICES ASSUME NEW l \in 1..4, Reaches(ts, l, a), Slot(ts, l, a).kind = "page"
               PROVE  l <= 3 /\ Slot(ts, l, a).to % Covers(l) = 0
    BY BranchReached DEF Tree
  <1> DEFINE t == Node(ts, l, a)
             x == Index(l, a)
  <1>1. t \in DOMAIN ts /\ lev[t] = l /\ x \in Slots
    BY BranchReached, BlockParts DEF Tree
  <1>2. ts[t][x].kind = "page"
    BY DEF Slot
  <1> HIDE DEF t, x
  <1>3. l <= 3 /\ ts[t][x].to % Covers(l) = 0
    BY <1>1, <1>2 DEF Tree
  <1> QED
    BY <1>3 DEF Slot, t, x

\* Every way ends somewhere.
LEMMA WayEnds ==
  ASSUME NEW ts, NEW lev, NEW blk, Tree(ts, lev, blk), NEW a \in Addresses
  PROVE  \E l \in 1..4 : Ends(ts, l, a)
  <1>1. Reaches(ts, 1, a) => Slot(ts, 1, a).kind # "table"
    BY Reached
  <1> QED
    BY <1>1, ReachesNext DEF Ends

-----------------------------------------------------------------------------
(* The processor's walk                                                    *)

\* Tables let through whatever the pages below them allow.
OpenTables(ts) ==
  \A t \in DOMAIN ts, x \in Slots :
    ts[t][x].kind = "table" =>
      USER \in ts[t][x].bits /\ WRITE \in ts[t][x].bits /\ NO_EXEC \notin ts[t][x].bits

\* Walk(a) over the tables ts.
WalkIn(ts, a) ==
  LET e4 == ts[Root][Index(4, a)]
      e3 == ts[e4.to][Index(3, a)]
      e2 == ts[e3.to][Index(2, a)]
      e1 == ts[e2.to][Index(1, a)]
  IN  IF e4.kind # "table" THEN Unmapped
      ELSE IF e3.kind = "none" THEN Unmapped
      ELSE IF e3.kind = "page" THEN Hit({e4.bits}, e3, 3, a)
      ELSE IF e2.kind = "none" THEN Unmapped
      ELSE IF e2.kind = "page" THEN Hit({e4.bits, e3.bits}, e2, 2, a)
      ELSE IF e1.kind = "none" THEN Unmapped
      ELSE Hit({e4.bits, e3.bits, e2.bits}, e1, 1, a)

\* What the walk makes of the entry at which it ends.
Found(e, l, a) ==
  IF e.kind = "none" THEN Unmapped
  ELSE [to |-> e.to + (a % Covers(l)), rights |-> Rights({}, e.bits, l)]

\* Tables that allow everything leave the rights to the entry of the page.
LEMMA OpenPath ==
  ASSUME NEW path, NEW leafbits, NEW l,
         \A bits \in path : USER \in bits /\ WRITE \in bits /\ NO_EXEC \notin bits
  PROVE  Rights(path, leafbits, l) = Rights({}, leafbits, l)
  <1>1. (\A bits \in path \cup {leafbits} : USER \in bits)
          = (\A bits \in {} \cup {leafbits} : USER \in bits)
    OBVIOUS
  <1>2. (\A bits \in path \cup {leafbits} : WRITE \in bits)
          = (\A bits \in {} \cup {leafbits} : WRITE \in bits)
    OBVIOUS
  <1>3. (\E bits \in path \cup {leafbits} : NO_EXEC \in bits)
          = (\E bits \in {} \cup {leafbits} : NO_EXEC \in bits)
    OBVIOUS
  <1> QED
    BY <1>1, <1>2, <1>3 DEF Rights

\* So the walk gives what the entry says.
LEMMA HitOpen ==
  ASSUME NEW path, NEW l \in 1..4, NEW e \in EntryType, NEW a \in Addresses,
         e.kind = "page", e.to % Covers(l) = 0,
         \A bits \in path : USER \in bits /\ WRITE \in bits /\ NO_EXEC \notin bits
  PROVE  Hit(path, e, l, a) = Found(e, l, a)
  <1>1. e.to \in Nat /\ a \in Nat /\ Covers(l) \in Nat \ {0}
    BY CoversNext DEF EntryType, Addresses
  <1>2. Hit(path, e, l, a) = [to     |-> e.to - 0 + (a % Covers(l)),
                              rights |-> Rights(path, e.bits, l)]
    BY DEF Hit
  <1>3. e.to - 0 + (a % Covers(l)) = e.to + (a % Covers(l))
    BY <1>1, Division
  <1>4. Rights(path, e.bits, l) = Rights({}, e.bits, l)
    BY OpenPath
  <1> QED
    BY <1>2, <1>3, <1>4 DEF Found

\* The walk finds what is where it ends.
LEMMA WalkEnds ==
  ASSUME NEW ts, NEW lev, NEW blk, Tree(ts, lev, blk), OpenTables(ts),
         NEW a \in Addresses, NEW l \in 1..4, Ends(ts, l, a)
  PROVE  WalkIn(ts, a) = Found(Slot(ts, l, a), l, a)
  <1> DEFINE e4 == Slot(ts, 4, a)
             e3 == Slot(ts, 3, a)
             e2 == Slot(ts, 2, a)
             e1 == Slot(ts, 1, a)
  <1>1. WalkIn(ts, a) =
          IF e4.kind # "table" THEN Unmapped
          ELSE IF e3.kind = "none" THEN Unmapped
          ELSE IF e3.kind = "page" THEN Hit({e4.bits}, e3, 3, a)
          ELSE IF e2.kind = "none" THEN Unmapped
          ELSE IF e2.kind = "page" THEN Hit({e4.bits, e3.bits}, e2, 2, a)
          ELSE IF e1.kind = "none" THEN Unmapped
          ELSE Hit({e4.bits, e3.bits, e2.bits}, e1, 1, a)
    BY DEF WalkIn, Slot, Node
  <1>2. \A k \in 1..4 : Reaches(ts, k, a) /\ Slot(ts, k, a).kind = "table" =>
          LET bits == Slot(ts, k, a).bits
          IN  USER \in bits /\ WRITE \in bits /\ NO_EXEC \notin bits
    <2> SUFFICES ASSUME NEW k \in 1..4, Reaches(ts, k, a), Slot(ts, k, a).kind = "table"
                 PROVE  LET bits == Slot(ts, k, a).bits
                        IN  USER \in bits /\ WRITE \in bits /\ NO_EXEC \notin bits
      OBVIOUS
    <2>1. Node(ts, k, a) \in DOMAIN ts /\ Index(k, a) \in Slots
      BY Reached, BlockParts
    <2> QED
      BY <2>1 DEF OpenTables, Slot
  <1>3. /\ Reaches(ts, 4, a)
        /\ Reaches(ts, 3, a) <=> e4.kind = "table"
        /\ Reaches(ts, 2, a) <=> Reaches(ts, 3, a) /\ e3.kind = "table"
        /\ Reaches(ts, 1, a) <=> Reaches(ts, 2, a) /\ e2.kind = "table"
    BY ReachesNext
  <1>4. /\ Slot(ts, l, a) \in EntryType /\ Slot(ts, l, a).kind \in {"none", "page"}
        /\ Slot(ts, l, a).kind = "page" => l <= 3 /\ Slot(ts, l, a).to % Covers(l) = 0
    BY Reached DEF Ends, EntryType
  <1> HIDE DEF e1, e2, e3, e4
  <1>5. CASE l = 4
    BY <1>1, <1>4, <1>5 DEF e4, Found
  <1>6. CASE l = 3
    <2>1. Reaches(ts, 3, a) /\ e4.kind = "table"
      BY <1>3, <1>6 DEF Ends
    <2>2. \A bits \in {e4.bits} : USER \in bits /\ WRITE \in bits /\ NO_EXEC \notin bits
      BY <1>2, <1>3, <2>1 DEF e4
    <2>3. e3.kind = "page" => Hit({e4.bits}, e3, 3, a) = Found(e3, 3, a)
      BY <1>4, <1>6, <2>2, HitOpen DEF e3
    <2>4. WalkIn(ts, a) = Found(e3, 3, a)
      BY <1>1, <1>4, <1>6, <2>1, <2>3 DEF e3, Found
    <2> QED
      BY <1>6, <2>4 DEF e3
  <1>7. CASE l = 2
    <2>1. Reaches(ts, 3, a) /\ Reaches(ts, 2, a) /\ e4.kind = "table" /\ e3.kind = "table"
      BY <1>3, <1>7 DEF Ends
    <2>2. \A bits \in {e4.bits, e3.bits} :
            USER \in bits /\ WRITE \in bits /\ NO_EXEC \notin bits
      BY <1>2, <1>3, <2>1 DEF e4, e3
    <2> DEFINE path == {e4.bits, e3.bits}
    <2>5. ASSUME e2.kind = "page" PROVE Hit(path, e2, 2, a) = Found(e2, 2, a)
      <3>1. e2 \in EntryType /\ e2.to % Covers(2) = 0
        BY <1>4, <1>7, <2>5 DEF e2
      <3>2. \A bits \in path : USER \in bits /\ WRITE \in bits /\ NO_EXEC \notin bits
        BY <2>2
      <3>3. 2 \in 1..4
        OBVIOUS
      <3> HIDE DEF path
      <3> QED
        BY <2>5, <3>1, <3>2, <3>3, HitOpen
    <2>3. e2.kind = "page" => Hit({e4.bits, e3.bits}, e2, 2, a) = Found(e2, 2, a)
      BY <2>5
    <2>4. WalkIn(ts, a) = Found(e2, 2, a)
      BY <1>1, <1>4, <1>7, <2>1, <2>3 DEF e2, Found
    <2> QED
      BY <1>7, <2>4 DEF e2
  <1>8. CASE l = 1
    <2>1. /\ Reaches(ts, 3, a) /\ Reaches(ts, 2, a)
          /\ e4.kind = "table" /\ e3.kind = "table" /\ e2.kind = "table"
      BY <1>3, <1>8 DEF Ends
    <2>2. \A bits \in {e4.bits, e3.bits, e2.bits} :
            USER \in bits /\ WRITE \in bits /\ NO_EXEC \notin bits
      BY <1>2, <1>3, <2>1 DEF e4, e3, e2
    <2>3. e1.kind = "page" =>
            Hit({e4.bits, e3.bits, e2.bits}, e1, 1, a) = Found(e1, 1, a)
      BY SMTT(30), <1>4, <1>8, <2>2, HitOpen DEF e1
    <2>4. WalkIn(ts, a) = Found(e1, 1, a)
      BY <1>1, <1>4, <1>8, <2>1, <2>3 DEF e1, Found
    <2> QED
      BY <1>8, <2>4 DEF e1
  <1> QED
    BY <1>5, <1>6, <1>7, <1>8

-----------------------------------------------------------------------------
(* Entries and tables                                                      *)

\* The flags are bits of an entry.
LEMMA FlagsInEntry ==
  ASSUME NEW l, NEW lf, NEW a, NEW f
  PROVE  GetEntryBits(l, lf, a, f) \in SUBSET (0..63)
  <1>1. /\ PRESENT \in 0..63 /\ USER \in 0..63 /\ WRITE \in 0..63
        /\ LARGE \in 0..63 /\ NO_EXEC \in 0..63 /\ 2 \in 0..63 /\ 3 \in 0..63
    BY DEF PRESENT, USER, WRITE, LARGE, NO_EXEC
  <1>2. \A c, x : x \in 0..63 => If(c, {x}) \in SUBSET (0..63)
    BY DEF If
  <1> DEFINE s1 == If(Bit(a.pat, 0), {2})
             s2 == If(Bit(a.pat, 1), {3})
             s3 == If(a.us \/ Open(l, lf, a), {USER})
             s4 == If(a.rw \/ Open(l, lf, a), {WRITE})
             s5 == If(l = lf /\ l \in {2, 3}, {LARGE})
             s6 == If(a.nx /\ "nx" \in f, {NO_EXEC})
  <1>3. GetEntryBits(l, lf, a, f) = UNION {{PRESENT}, s1, s2, s3, s4, s5, s6}
    BY DEF GetEntryBits
  <1>4. /\ s1 \in SUBSET (0..63) /\ s2 \in SUBSET (0..63) /\ s3 \in SUBSET (0..63)
        /\ s4 \in SUBSET (0..63) /\ s5 \in SUBSET (0..63) /\ s6 \in SUBSET (0..63)
    BY <1>1, <1>2
  <1> HIDE DEF s1, s2, s3, s4, s5, s6
  <1>5. \A N : PRESENT \in N /\ s1 \in SUBSET N /\ s2 \in SUBSET N /\ s3 \in SUBSET N
               /\ s4 \in SUBSET N /\ s5 \in SUBSET N /\ s6 \in SUBSET N
               => UNION {{PRESENT}, s1, s2, s3, s4, s5, s6} \in SUBSET N
    BY Zenon
  <1> QED
    BY <1>1, <1>3, <1>4, <1>5

\* An entry for a page has its type.
LEMMA PageEntry ==
  ASSUME NEW p \in Addresses, NEW l, NEW bits \in SUBSET (0..63)
  PROVE  /\ PageAt(p, l, bits) \in EntryType /\ PageAt(p, l, bits).kind = "page"
         /\ PageAt(p, l, bits).to \in Addresses
  <1>1. AddressBits(p, PAGE) \in SUBSET (0..63)
    BY DEF AddressBits
  <1>2. If(l > 1 /\ (p \div PAGE) % 2 = 1, {PAT_BIG}) \in SUBSET (0..63)
    BY DEF If, PAT_BIG
  <1>3. p - (p % PAGE) \in Addresses
    <2>1. p \in Nat /\ p < SPACE /\ PAGE \in Nat \ {0} /\ SPACE \in Nat
      BY CoversNext, PagerAssumption DEF Addresses
    <2>2. \A n \in Nat, c \in Nat \ {0} : n % c \in Nat /\ n % c <= n
      OBVIOUS
    <2>3. p % PAGE \in Nat /\ p % PAGE <= p
      BY <2>1, <2>2
    <2> QED
      BY <2>1, <2>3 DEF Addresses
  <1> DEFINE flags == bits \cup AddressBits(p, PAGE)
                           \cup If(l > 1 /\ (p \div PAGE) % 2 = 1, {PAT_BIG})
  <1>4. flags \in SUBSET (0..63)
    BY <1>1, <1>2
  <1>5. PageAt(p, l, bits) = [kind |-> "page", to |-> p - (p % PAGE), bits |-> flags]
    BY DEF PageAt
  <1> HIDE DEF flags
  <1> QED
    BY <1>3, <1>4, <1>5 DEF EntryType, Addresses

\* So has one for a table,
LEMMA TableEntry ==
  ASSUME NEW n \in Nat, NEW bits \in SUBSET (0..63)
  PROVE  /\ TableAt(n, bits) \in EntryType
         /\ TableAt(n, bits).kind = "table" /\ TableAt(n, bits).to = n
         /\ TableAt(n, bits).bits = bits
  BY DEF TableAt, EntryType

\* and an absent one; a table begins with those.
LEMMA NoEntry ==
  /\ Absent \in EntryType /\ Absent.kind = "none" /\ Absent.to = 0
  /\ EmptyTable \in [Slots -> EntryType]
  /\ \A x \in Slots : EmptyTable[x] = Absent
  <1>1. Absent \in EntryType /\ Absent.kind = "none" /\ Absent.to = 0
    BY DEF Absent, EntryType
  <1> QED
    BY <1>1 DEF EmptyTable, Slots

\* How many tables there are is the number of the last.
LEMMA Counted ==
  ASSUME NEW n \in Nat
  PROVE  Cardinality(1..n) = n
  BY FS_Interval

\* What a table more changes, and what an entry that is written.
LEMMA TableAdded ==
  ASSUME NEW ts, NEW n, DOMAIN ts = 1..n, n \in Nat,
         \A t \in DOMAIN ts : ts[t] \in [Slots -> EntryType]
  PROVE  LET us == [t \in DOMAIN ts \cup {n + 1} |-> IF t \in DOMAIN ts THEN ts[t] ELSE EmptyTable]
         IN  /\ DOMAIN us = 1..(n + 1)
             /\ \A t \in DOMAIN ts : us[t] = ts[t]
             /\ us[n + 1] = EmptyTable
             /\ \A t \in DOMAIN us : us[t] \in [Slots -> EntryType]
  BY NoEntry

\* Writing an entry changes that entry and no other.
LEMMA EntryWritten ==
  ASSUME NEW ts, NEW t \in DOMAIN ts, NEW x \in Slots, NEW e \in EntryType,
         \A u \in DOMAIN ts : ts[u] \in [Slots -> EntryType]
  PROVE  LET us == [ts EXCEPT ![t][x] = e]
         IN  /\ DOMAIN us = DOMAIN ts
             /\ us[t][x] = e
             /\ \A u \in DOMAIN ts : us[u] \in [Slots -> EntryType]
             /\ \A u \in DOMAIN ts : \A y \in Slots :
                  u # t \/ y # x => us[u][y] = ts[u][y]
  OBVIOUS

-----------------------------------------------------------------------------
(* Type correctness                                                        *)

Asking == [virtual : Addresses, physical : Addresses, size : Addresses,
           attributes : Attributes]

\* A request has the fields of its type.
LEMMA Asked ==
  /\ Requests \subseteq Asking
  /\ \A r \in Asking : /\ r.virtual \in Addresses /\ r.physical \in Addresses
                       /\ r.size \in Addresses /\ r.attributes \in Attributes
  BY RequestsAssumption DEF Asking, Addresses

\* TypeOK of the tables, and of the rest.
TablesOK(ts, n, m) ==
  /\ n \in Nat /\ DOMAIN ts = 1..n /\ n <= m
  /\ \A t \in DOMAIN ts : ts[t] \in [Slots -> EntryType]
  /\ \A t \in DOMAIN ts : \A x \in Slots :
       ts[t][x].to \in IF ts[t][x].kind = "table" THEN DOMAIN ts ELSE Addresses

RestOK ==
  /\ asked \subseteq Asking /\ served \subseteq asked
  /\ todo \in Asking
  /\ result \in {0, -1}
  /\ leaf \in 1..3 /\ level \in 0..4
  /\ status \in {"off", "idle", "mapping", "hung", "wild"}

\* What the types rest on, whoever calls pager_map() and for what: the walk is
\* in a table that is there.
TypeInv ==
  /\ TablesOK(tables, Used, limit) /\ RestOK
  /\ limit \in Nat /\ Used \in Nat
  /\ features \in SUBSET {"gib", "nx"} /\ request \in Asking
  /\ status = "off" => tables = [t \in {} |-> EmptyTable]
  /\ status \in {"idle", "mapping", "wild"} => Root \in DOMAIN tables
  /\ status = "mapping" => request \in asked
  /\ level > 0 => table \in DOMAIN tables /\ leaf <= level

\* The invariant of the types implies TypeOK.
LEMMA TypeParts ==
  TypeInv /\ asked \subseteq Requests => TypeOK
  BY DEF TypeInv, TypeOK, TablesOK, RestOK, EntryType, Slots, Addresses, Asking

\* A request that is advanced keeps its type and its attributes.
LEMMA AskingFields ==
  ASSUME NEW V, NEW A, NEW r \in [virtual : V, physical : V, size : V, attributes : A],
         NEW v \in V, NEW p \in V, NEW n \in V,
         NEW u, u = [r EXCEPT !.virtual = v, !.physical = p, !.size = n]
  PROVE  /\ u \in [virtual : V, physical : V, size : V, attributes : A]
         /\ u.virtual = v /\ u.physical = p /\ u.size = n
         /\ u.attributes = r.attributes
  OBVIOUS

\* Addresses and sizes come back into the address space.
LEMMA AdvanceIs ==
  ASSUME todo \in Asking, NEW n \in Nat
  PROVE  /\ Advance(n) \in Asking
         /\ Advance(n).virtual = (todo.virtual + n) % SPACE
         /\ Advance(n).physical = (todo.physical + n) % SPACE
         /\ Advance(n).size = (todo.size - n) % SPACE
         /\ Advance(n).attributes = todo.attributes
  <1>1. SPACE \in Nat \ {0}
    BY CoversNext
  <1>2. \A k \in Int : k % SPACE \in Addresses
    BY <1>1 DEF Addresses
  <1>3. /\ todo.virtual + n \in Int /\ todo.physical + n \in Int /\ todo.size - n \in Int
    BY DEF Asking, Addresses
  <1>4. /\ (todo.virtual + n) % SPACE \in Addresses
        /\ (todo.physical + n) % SPACE \in Addresses
        /\ (todo.size - n) % SPACE \in Addresses
    BY <1>2, <1>3
  <1> DEFINE v == (todo.virtual + n) % SPACE
             p == (todo.physical + n) % SPACE
             s == (todo.size - n) % SPACE
  <1>5. Advance(n) = [todo EXCEPT !.virtual = v, !.physical = p, !.size = s]
    BY DEF Advance
  <1> HIDE DEF v, p, s
  <1>6. v \in Addresses /\ p \in Addresses /\ s \in Addresses
    BY <1>4 DEF v, p, s
  <1>7. todo \in [virtual : Addresses, physical : Addresses, size : Addresses,
                  attributes : Attributes]
    BY DEF Asking
  <1>8. ASSUME NEW u, u = [todo EXCEPT !.virtual = v, !.physical = p, !.size = s]
        PROVE  /\ u \in [virtual : Addresses, physical : Addresses, size : Addresses,
                         attributes : Attributes]
               /\ u.virtual = v /\ u.physical = p /\ u.size = s
               /\ u.attributes = todo.attributes
    BY <1>6, <1>7, <1>8, AskingFields, Zenon
  <1>9. /\ Advance(n) \in [virtual : Addresses, physical : Addresses, size : Addresses,
                           attributes : Attributes]
        /\ Advance(n).virtual = v /\ Advance(n).physical = p /\ Advance(n).size = s
        /\ Advance(n).attributes = todo.attributes
    BY <1>5, <1>8, Zenon
  <1> QED
    BY <1>9 DEF Asking, v, p, s

\* The initial state has the types.
LEMMA InitTypes == Init => TypeInv
  <1> SUFFICES ASSUME Init PROVE TypeInv
    OBVIOUS
  <1>1. tables = [t \in {} |-> EmptyTable] /\ DOMAIN tables = {}
    BY DEF Init
  <1>2. Used = 0 /\ DOMAIN tables = 1..Used
    BY <1>1, FS_EmptySet DEF Used
  <1>3. limit \in Nat
    BY LimitsAssumption DEF Init
  <1>4. TablesOK(tables, Used, limit)
    BY <1>1, <1>2, <1>3 DEF TablesOK
  <1>5. todo \in Asking
    <2>1. 0 \in Addresses
      BY CoversNext DEF Addresses
    <2>2. ReadWrite \in Attributes
      BY DEF ReadWrite, Attributes
    <2> QED
      BY <2>1, <2>2 DEF Init, Asking
  <1>6. RestOK
    BY <1>5 DEF Init, RestOK
  <1>7. features \in SUBSET {"gib", "nx"} /\ request \in Asking
    BY <1>5 DEF Init
  <1> QED
    BY <1>1, <1>2, <1>3, <1>4, <1>6, <1>7 DEF TypeInv, Init

\* What a table more leaves.
LEMMA TablesGrow ==
  ASSUME TablesOK(tables, Used, limit)
  PROVE  LET us == AddTable(tables)
         IN  /\ DOMAIN us = 1..(Used + 1)
             /\ \A t \in DOMAIN tables : us[t] = tables[t]
             /\ us[Used + 1] = EmptyTable
             /\ \A t \in DOMAIN us : us[t] \in [Slots -> EntryType]
             /\ \A t \in DOMAIN us : \A x \in Slots :
                  us[t][x].to \in IF us[t][x].kind = "table" THEN DOMAIN us ELSE Addresses
  <1> DEFINE us == AddTable(tables)
             n  == Used
  <1>1. /\ n \in Nat /\ DOMAIN tables = 1..n
        /\ \A t \in DOMAIN tables : tables[t] \in [Slots -> EntryType]
        /\ \A t \in DOMAIN tables : \A x \in Slots :
             tables[t][x].to \in IF tables[t][x].kind = "table" THEN DOMAIN tables
                                 ELSE Addresses
    BY DEF TablesOK
  <1>2. us = [t \in DOMAIN tables \cup {n + 1} |->
                IF t \in DOMAIN tables THEN tables[t] ELSE EmptyTable]
    BY DEF AddTable
  <1> HIDE DEF us, n
  <1>3. /\ DOMAIN us = 1..(n + 1)
        /\ \A t \in DOMAIN tables : us[t] = tables[t]
        /\ us[n + 1] = EmptyTable
        /\ \A t \in DOMAIN us : us[t] \in [Slots -> EntryType]
    BY ZenonT(30), <1>1, <1>2, TableAdded
  <1>4. ASSUME NEW t \in DOMAIN us, NEW x \in Slots
        PROVE  us[t][x].to \in IF us[t][x].kind = "table" THEN DOMAIN us ELSE Addresses
    <2>1. CASE t \in DOMAIN tables
      <3>1. us[t] = tables[t]
        BY <1>3, <2>1
      <3>2. tables[t][x].to \in IF tables[t][x].kind = "table" THEN DOMAIN tables
                                ELSE Addresses
        BY <1>1, <2>1
      <3>3. DOMAIN tables \subseteq DOMAIN us
        BY <1>1, <1>3
      <3> QED
        BY <3>1, <3>2, <3>3
    <2>2. CASE t \notin DOMAIN tables
      <3>1. t = n + 1
        BY <1>1, <1>3, <2>2
      <3>2. us[t][x] = Absent
        BY <1>3, <3>1, NoEntry
      <3>3. 0 \in Addresses
        BY CoversNext DEF Addresses
      <3> QED
        BY <3>2, <3>3, NoEntry
    <2> QED
      BY <2>1, <2>2
  <1> QED
    BY <1>3, <1>4 DEF us, n

\* An entry that leads to an address, or to a table there is, keeps the tables' type.
LEMMA TablesWritten ==
  ASSUME NEW ts, NEW n, NEW m, TablesOK(ts, n, m), NEW t \in DOMAIN ts, NEW x \in Slots,
         NEW e \in EntryType,
         e.to \in IF e.kind = "table" THEN DOMAIN ts ELSE Addresses,
         NEW us, us = [ts EXCEPT ![t][x] = e]
  PROVE  TablesOK(us, n, m)
  <1>1. \A u \in DOMAIN ts : ts[u] \in [Slots -> EntryType]
    BY DEF TablesOK
  <1>2. /\ DOMAIN us = DOMAIN ts
        /\ us[t][x] = e
        /\ \A u \in DOMAIN ts : us[u] \in [Slots -> EntryType]
        /\ \A u \in DOMAIN ts : \A y \in Slots : u # t \/ y # x => us[u][y] = ts[u][y]
    BY <1>1, EntryWritten
  <1>3. ASSUME NEW u \in DOMAIN us, NEW y \in Slots
        PROVE  us[u][y].to \in IF us[u][y].kind = "table" THEN DOMAIN us ELSE Addresses
    <2>1. CASE u = t /\ y = x
      BY <1>2, <2>1
    <2>2. CASE u # t \/ y # x
      <3>1. us[u][y] = ts[u][y]
        BY <1>2, <2>2
      <3>2. ts[u][y].to \in IF ts[u][y].kind = "table" THEN DOMAIN ts ELSE Addresses
        BY <1>2 DEF TablesOK
      <3> QED
        BY <1>2, <3>1, <3>2
    <2> QED
      BY <2>1, <2>2
  <1> QED
    BY <1>2, <1>3 DEF TablesOK

\* The entry that the walk is at.
LEMMA IndexInTable ==
  \A l \in 1..4, a \in Addresses : Index(l, a) \in Slots
  BY BlockParts

\* A new table keeps the types of the tables.
LEMMA MakeTableTypes ==
  ASSUME TypeInv, MakeTable
  PROVE  /\ TablesOK(tables', Used + 1, limit) /\ Used' = Used + 1
         /\ Used + 1 \in DOMAIN tables' /\ DOMAIN tables \subseteq DOMAIN tables'
         /\ level \in 2..4 /\ leaf <= level - 1
  <1> DEFINE us == AddTable(tables)
             n  == Used
             i  == Index(level, todo.virtual)
             b  == GetEntryBits(level, leaf, todo.attributes, features)
             e  == TableAt(n + 1, b)
  <1>1. TablesOK(tables, n, limit) /\ RestOK /\ limit \in Nat /\ n \in Nat
    BY DEF TypeInv
  <1>2. level \in 2..4 /\ leaf <= level - 1 /\ table \in DOMAIN tables
    BY <1>1 DEF MakeTable, Walking, RestOK, TypeInv
  <1>3. i \in Slots
    BY <1>1, <1>2, IndexInTable DEF RestOK, Asking
  <1>4. b \in SUBSET (0..63)
    BY FlagsInEntry
  <1>5. n < limit /\ tables' = [us EXCEPT ![table][i] = e]
    BY DEF MakeTable
  <1>6. TablesOK(us, n + 1, limit)
    <2>1. n + 1 \in Nat /\ n + 1 <= limit
      BY <1>1, <1>5
    <2> QED
      BY <1>1, <2>1, TablesGrow DEF TablesOK
  <1>7. DOMAIN us = 1..(n + 1) /\ DOMAIN tables = 1..n
    BY <1>1, <1>6 DEF TablesOK
  <1> HIDE DEF us, n, i, b
  <1>8. e \in EntryType /\ e.kind = "table" /\ e.to = n + 1
    BY <1>1, <1>4, TableEntry
  <1> HIDE DEF e
  <1>9. e.to \in DOMAIN us /\ table \in DOMAIN us
    BY <1>1, <1>2, <1>7, <1>8
  <1>10. TablesOK(tables', n + 1, limit)
    BY <1>3, <1>5, <1>6, <1>8, <1>9, TablesWritten
  <1>11. DOMAIN tables' = 1..(n + 1)
    BY <1>10 DEF TablesOK
  <1>12. Cardinality(DOMAIN tables') = n + 1
    BY <1>1, <1>11, Counted
  <1>13. Used' = n + 1
    BY <1>12 DEF Used
  <1> QED
    BY <1>1, <1>2, <1>7, <1>10, <1>11, <1>13 DEF n

\* So does a page.
LEMMA MapPageTypes ==
  ASSUME TypeInv, MapPage
  PROVE  /\ TablesOK(tables', Used, limit) /\ Used' = Used
         /\ DOMAIN tables' = DOMAIN tables
         /\ todo' \in Asking
  <1> DEFINE n == Used
             i == Index(level, todo.virtual)
             b == GetEntryBits(level, leaf, todo.attributes, features)
             e == PageAt(todo.physical, level, b)
  <1>1. TablesOK(tables, n, limit) /\ RestOK /\ limit \in Nat /\ n \in Nat
    BY DEF TypeInv
  <1>2. level \in 1..4 /\ table \in DOMAIN tables
    BY <1>1 DEF MapPage, RestOK, TypeInv
  <1>3. i \in Slots /\ todo \in Asking /\ todo.physical \in Addresses
    BY <1>1, <1>2, IndexInTable DEF RestOK, Asking
  <1>4. b \in SUBSET (0..63)
    BY FlagsInEntry
  <1>5. tables' = [tables EXCEPT ![table][i] = e]
    BY DEF MapPage
  <1> HIDE DEF b, i
  <1>6. e \in EntryType /\ e.kind = "page" /\ e.to \in Addresses
    BY <1>3, <1>4, PageEntry
  <1> HIDE DEF e
  <1>7. TablesOK(tables', n, limit)
    BY <1>1, <1>2, <1>3, <1>5, <1>6, TablesWritten
  <1>8. DOMAIN tables' = DOMAIN tables
    BY <1>5
  <1>9. Used' = n
    BY <1>8 DEF Used
  <1>10. todo' \in Asking
    <2>1. Covers(level) \in Nat
      BY <1>2, CoversNext
    <2> QED
      BY <1>3, <2>1, AdvanceIs DEF MapPage
  <1> QED
    BY <1>7, <1>8, <1>9, <1>10 DEF n

\* Each action keeps the types: the creation of the tables,
LEMMA CreateTypes ==
  ASSUME TypeInv, Create
  PROVE  TypeInv'
  <1>1. TablesOK(tables, Used, limit) /\ RestOK /\ limit \in Nat /\ Used \in Nat
    BY DEF TypeInv
  <1>2. UNCHANGED <<limit, features, asked, request, served, todo, leaf, level, table, result>>
    BY DEF Create, config, calls, walk
  <1>3. Used = 0 /\ DOMAIN tables = {} /\ level = 0
    BY <1>1, FS_EmptySet DEF TypeInv, Create, Used, RestOK
  <1>4. CASE limit > 0 /\ tables' = AddTable(tables) /\ status' = "idle"
    <2>1. TablesOK(tables', Used + 1, limit) /\ DOMAIN tables' = 1..(Used + 1)
      <3>1. Used + 1 \in Nat /\ Used + 1 <= limit
        BY <1>1, <1>3, <1>4
      <3> QED
        BY <1>1, <1>4, <3>1, TablesGrow DEF TablesOK
    <2>2. Used' = Used + 1 /\ Used' = 1
      <3>1. DOMAIN tables' = 1..1
        BY <1>3, <2>1
      <3>2. Cardinality(DOMAIN tables') = 1
        BY <3>1, Counted
      <3> QED
        BY <1>3, <3>2 DEF Used
    <2>3. TablesOK(tables, Used, limit)' /\ Used' \in Nat
      BY <1>2, <2>1, <2>2 DEF TablesOK
    <2>4. RestOK'
      BY <1>1, <1>2, <1>4 DEF RestOK
    <2>5. Root \in DOMAIN tables'
      BY <1>3, <2>1 DEF Root
    <2> QED
      BY <1>1, <1>2, <1>3, <1>4, <2>3, <2>4, <2>5 DEF TypeInv
  <1>5. CASE limit = 0 /\ status' = "hung" /\ UNCHANGED tables
    <2>1. TablesOK(tables, Used, limit)' /\ Used' \in Nat /\ RestOK'
      BY <1>1, <1>2, <1>5 DEF TablesOK, RestOK, Used
    <2> QED
      BY <1>1, <1>2, <1>3, <1>5, <2>1 DEF TypeInv
  <1> QED
    BY <1>4, <1>5 DEF Create

\* A step that leaves the tables and keeps to the rest.
LEMMA SameTables ==
  ASSUME TypeInv, UNCHANGED <<tables, limit, features>>, RestOK',
         request' \in Asking, status' # "off" \/ UNCHANGED <<status, level>>,
         status' \in {"idle", "mapping", "wild"} => status \in {"idle", "mapping", "wild"},
         status' = "mapping" => request' \in asked',
         level' > 0 => table' \in DOMAIN tables /\ leaf' <= level'
  PROVE  TypeInv'
  <1>1. TablesOK(tables, Used, limit)' /\ limit' \in Nat /\ Used' \in Nat
    BY DEF TablesOK, Used, TypeInv
  <1> QED
    BY <1>1 DEF TypeInv

\* pager_map() is called, by someone who may have taken memory for himself.
LEMMA AskTypes ==
  ASSUME TypeInv, NEW r \in Asking, Ask(r), limit' \in Nat, Used <= limit'
  PROVE  TypeInv'
  <1>1. TablesOK(tables, Used, limit) /\ RestOK /\ Used \in Nat
    BY DEF TypeInv
  <1>2. /\ status = "idle" /\ status' = "mapping" /\ level' = 0
        /\ asked' = asked \cup {r} /\ request' = r /\ todo' = r
        /\ UNCHANGED <<tables, features, served, leaf, result>>
    BY DEF Ask
  <1>3. TablesOK(tables, Used, limit)' /\ Used' \in Nat
    BY <1>1, <1>2 DEF TablesOK, Used
  <1>4. RestOK'
    BY <1>1, <1>2 DEF RestOK
  <1> QED
    BY <1>1, <1>2, <1>3, <1>4 DEF TypeInv

\* a step that changes nothing,
LEMMA StutterTypes ==
  ASSUME TypeInv, UNCHANGED vars
  PROVE  TypeInv'
  <1>1. UNCHANGED <<tables, limit, features, asked, request, served, todo, leaf, level,
                    table, result, status>>
    BY DEF vars, config, calls, walk
  <1>2. RestOK'
    BY <1>1 DEF RestOK, TypeInv
  <1> QED
    BY <1>1, <1>2, SameTables DEF TypeInv

\* a step of pager_map(),
LEMMA MapTypes ==
  ASSUME TypeInv, Map
  PROVE  TypeInv'
  <1>1. TablesOK(tables, Used, limit) /\ RestOK /\ limit \in Nat /\ Used \in Nat
    BY DEF TypeInv
  <1>2. ASSUME UNCHANGED <<tables, limit, features>>, RestOK',
               request' \in Asking, status' # "off" \/ UNCHANGED <<status, level>>,
               status' \in {"idle", "mapping", "wild"} => status \in {"idle", "mapping", "wild"},
               status' = "mapping" => request' \in asked',
               level' > 0 => table' \in DOMAIN tables /\ leaf' <= level'
        PROVE  TypeInv'
    BY <1>2, SameTables
  <1>4. CASE Round
    <2>1. LeafLevel \in 1..3
      BY DEF LeafLevel
    <2>2. table' \in DOMAIN tables /\ leaf' <= level'
      BY <1>4, <2>1 DEF Round, TypeInv
    <2> QED
      BY <1>1, <1>2, <1>4, <2>1, <2>2 DEF Round, RestOK, TypeInv, config, calls
  <1>5. CASE Return
    <2>1. RestOK'
      BY <1>1, <1>5 DEF Return, RestOK, walk, config, TypeInv
    <2> QED
      BY <1>1, <1>2, <1>5, <2>1 DEF Return, TypeInv, config, walk
  <1>6. CASE MakeTable
    <2>1. /\ TablesOK(tables', Used + 1, limit) /\ Used' = Used + 1
          /\ Used + 1 \in DOMAIN tables' /\ DOMAIN tables \subseteq DOMAIN tables'
          /\ level \in 2..4 /\ leaf <= level - 1
      BY <1>6, MakeTableTypes
    <2>2. /\ limit' = limit /\ features' = features /\ request' = request
          /\ asked' = asked /\ status' = "mapping" /\ status = "mapping"
      BY <1>6 DEF MakeTable, Walking, config, calls
    <2>3. TablesOK(tables, Used, limit)'
      BY <2>1, <2>2
    <2>4. RestOK'
      BY <1>1, <1>6, <2>1 DEF MakeTable, RestOK, config, calls
    <2>5. Root \in DOMAIN tables'
      BY <1>6, <2>1 DEF TypeInv, MakeTable, Walking
    <2>6. level' > 0 => table' \in DOMAIN tables' /\ leaf' <= level'
      BY <1>6, <2>1 DEF MakeTable
    <2>7. limit' \in Nat /\ Used' \in Nat /\ features' \in SUBSET {"gib", "nx"}
          /\ request' \in Asking /\ request' \in asked'
      BY <1>1, <2>1, <2>2 DEF TypeInv
    <2> QED
      BY <2>2, <2>3, <2>4, <2>5, <2>6, <2>7 DEF TypeInv
  <1>7. CASE GiveUp
    <2>1. RestOK'
      BY <1>1, <1>7 DEF GiveUp, RestOK, walk, config, calls
    <2> QED
      BY <1>1, <1>2, <1>7, <2>1 DEF GiveUp, Walking, TypeInv, config, calls, walk
  <1>8. CASE Enter
    <2>1. level \in 1..4 /\ table \in DOMAIN tables /\ leaf <= level - 1 /\ leaf \in 1..3
      BY <1>1, <1>8 DEF Enter, Walking, RestOK, TypeInv
    <2>2. Index(level, todo.virtual) \in Slots
      BY <1>1, <2>1, IndexInTable DEF RestOK, Asking
    <2>3. Here.kind = "table" => Here.to \in DOMAIN tables
      BY <1>1, <2>1, <2>2 DEF TablesOK, Here
    <2>6. /\ level' \in 0..4 /\ status' \in {"off", "idle", "mapping", "hung", "wild"}
          /\ UNCHANGED <<asked, served, todo, result, leaf>>
      <3>1. UNCHANGED <<asked, served, todo, result, leaf>>
        BY <1>8 DEF Enter, config, calls
      <3>2. level' = level \/ level' = level - 1
        BY <1>8 DEF Enter
      <3>3. status' = status \/ status' = "wild"
        BY <1>8 DEF Enter
      <3> QED
        BY <1>1, <2>1, <3>1, <3>2, <3>3 DEF RestOK
    <2>4. RestOK'
      BY <1>1, <2>6 DEF RestOK
    <2>5. level' > 0 => table' \in DOMAIN tables /\ leaf' <= level'
      BY <1>8, <2>1, <2>3 DEF Enter, TypeInv
    <2> QED
      BY <1>2, <1>8, <2>4, <2>5 DEF Enter, Walking, TypeInv, config, calls
  <1>9. CASE MapPage
    <2>1. /\ TablesOK(tables', Used, limit) /\ Used' = Used
          /\ DOMAIN tables' = DOMAIN tables /\ todo' \in Asking
      BY <1>9, MapPageTypes
    <2>2. /\ limit' = limit /\ features' = features /\ request' = request
          /\ asked' = asked /\ status' = "mapping" /\ status = "mapping" /\ level' = 0
      BY <1>9 DEF MapPage, config, calls
    <2>3. TablesOK(tables, Used, limit)'
      BY <2>1, <2>2
    <2>4. RestOK'
      BY <1>1, <1>9, <2>1 DEF MapPage, RestOK, config, calls
    <2> QED
      BY <1>1, <2>1, <2>2, <2>3, <2>4 DEF TypeInv
  <1> QED
    BY <1>4, <1>5, <1>6, <1>7, <1>8, <1>9 DEF Map

\* Calls that stay in the address space.
CallsKept == TypeInv /\ asked \subseteq Requests

\* and any step, which asks for nothing that is not requested.
LEMMA StepTypes == CallsKept /\ [Next]_vars => CallsKept'
  <1> SUFFICES ASSUME CallsKept, [Next]_vars PROVE CallsKept'
    OBVIOUS
  <1>1. CASE Create
    BY <1>1, CreateTypes DEF CallsKept, Create, calls
  <1>2. ASSUME NEW r \in Requests \ asked, Call(r) PROVE CallsKept'
    <2>1. r \in Asking /\ Ask(r) /\ limit' = limit
      BY <1>2, Asked DEF Call
    <2>2. limit \in Nat /\ Used <= limit
      BY DEF CallsKept, TypeInv, TablesOK
    <2> QED
      BY <2>1, <2>2, AskTypes DEF CallsKept, Ask
  <1>3. CASE Map
    <2>1. asked' = asked
      BY <1>3 DEF Map, Round, Return, MakeTable, GiveUp, Enter, MapPage, calls
    <2> QED
      BY <1>3, <2>1, MapTypes DEF CallsKept
  <1>4. CASE UNCHANGED vars
    BY <1>4, StutterTypes DEF CallsKept, vars, calls
  <1> QED
    BY <1>1, <1>2, <1>3, <1>4 DEF Next

\* So the types hold always.
LEMMA TypeInvHolds == Spec => []CallsKept
  <1>1. Init => CallsKept
    BY InitTypes DEF CallsKept, Init
  <1> QED
    BY <1>1, StepTypes, PTL DEF Spec

\* Whatever is asked and however little memory there is: tables are numbered
\* without a gap and never more than there is memory for, every entry leads to
\* a table that is there, and pager_map()'s arithmetic stays in the address space.
THEOREM TypesHold == Spec => []TypeOK
  <1>1. CallsKept => TypeOK
    BY TypeParts DEF CallsKept
  <1> QED
    BY <1>1, TypeInvHolds, PTL

-----------------------------------------------------------------------------
(* One entry is written                                                    *)

\* The ways to two addresses part below the last block they share.
LEMMA SameWay ==
  ASSUME NEW ts, NEW a \in Addresses, NEW b \in Addresses
  PROVE  \A l \in 1..4 :
           /\ Above(l, a) = Above(l, b) =>
                Node(ts, l, a) = Node(ts, l, b) /\ (Reaches(ts, l, a) <=> Reaches(ts, l, b))
           /\ Block(l, a) = Block(l, b) =>
                Node(ts, l, a) = Node(ts, l, b) /\ Slot(ts, l, a) = Slot(ts, l, b)
  <1> DEFINE Q(l) == Above(l, a) = Above(l, b) =>
                       /\ Node(ts, l, a) = Node(ts, l, b)
                       /\ Reaches(ts, l, a) <=> Reaches(ts, l, b)
             S(l) == Block(l, a) = Block(l, b) =>
                       Node(ts, l, a) = Node(ts, l, b) /\ Slot(ts, l, a) = Slot(ts, l, b)
  <1>1. \A l \in 1..4 : Q(l) => S(l)
    BY SameBlock DEF Slot
  <1>2. Q(4)
    BY NodeNext, ReachesNext
  <1>3. \A l \in 1..3 : Q(l + 1) => Q(l)
    <2> SUFFICES ASSUME NEW l \in 1..3, Q(l + 1), Above(l, a) = Above(l, b)
                 PROVE  /\ Node(ts, l, a) = Node(ts, l, b)
                        /\ Reaches(ts, l, a) <=> Reaches(ts, l, b)
      OBVIOUS
    <2>1. l + 1 \in 1..4 /\ l # 4
      OBVIOUS
    <2>2. Block(l + 1, a) = Block(l + 1, b)
      BY <2>1 DEF Above
    <2>3. Above(l + 1, a) = Above(l + 1, b) /\ Index(l + 1, a) = Index(l + 1, b)
      BY <2>1, <2>2, SameBlock
    <2>4. /\ Node(ts, l + 1, a) = Node(ts, l + 1, b)
          /\ Reaches(ts, l + 1, a) <=> Reaches(ts, l + 1, b)
          /\ Slot(ts, l + 1, a) = Slot(ts, l + 1, b)
      BY <2>3 DEF Slot
    <2> QED
      BY <2>4, NodeNext, ReachesNext
  <1> HIDE DEF Q, S
  <1>4. Q(3) /\ Q(2) /\ Q(1)
    BY <1>2, <1>3
  <1>5. \A l \in 1..4 : Q(l)
    <2>1. \A l \in 1..4 : l = 1 \/ l = 2 \/ l = 3 \/ l = 4
      OBVIOUS
    <2> QED
      BY <1>2, <1>4, <2>1
  <1> QED
    BY <1>1, <1>5 DEF Q, S

\* The tables us are the tables ts, and perhaps more, but for one entry.
Written(ts, us, t, x, e) ==
  /\ DOMAIN ts \subseteq DOMAIN us
  /\ us[t][x] = e
  /\ \A u \in DOMAIN ts : \A y \in Slots : u # t \/ y # x => us[u][y] = ts[u][y]

\* A way meets an entry that another way reached in its block only.
LEMMA Meets ==
  ASSUME NEW ts, NEW lev, NEW blk, Branches(ts, lev, blk),
         NEW L \in 1..4, NEW v \in Addresses, Reaches(ts, L, v),
         NEW k \in 1..4, NEW a \in Addresses, Reaches(ts, k, a)
  PROVE  Node(ts, k, a) = Node(ts, L, v) /\ Index(k, a) = Index(L, v)
           <=> k = L /\ Block(L, a) = Block(L, v)
  <1>1. ASSUME Node(ts, k, a) = Node(ts, L, v), Index(k, a) = Index(L, v)
        PROVE  k = L /\ Block(L, a) = Block(L, v)
    <2>1. k = L /\ Above(k, a) = Above(L, v)
      BY <1>1, BranchReached
    <2> QED
      BY <1>1, <2>1, SameBlock
  <1>2. ASSUME k = L, Block(L, a) = Block(L, v)
        PROVE  Node(ts, k, a) = Node(ts, L, v) /\ Index(k, a) = Index(L, v)
    BY <1>2, SameWay, SameBlock
  <1> QED
    BY <1>1, <1>2

\* Where there was no entry, an entry lengthens the ways of one block, and
\* leaves all others.
LEMMA WaysKept ==
  ASSUME NEW ts, NEW lev, NEW blk, Branches(ts, lev, blk),
         NEW L \in 1..4, NEW v \in Addresses, Reaches(ts, L, v),
         Slot(ts, L, v).kind = "none",
         NEW us, NEW e, Written(ts, us, Node(ts, L, v), Index(L, v), e)
  PROVE  \A a \in Addresses, k \in 1..4 : Reaches(ts, k, a) =>
           /\ Reaches(us, k, a) /\ Node(us, k, a) = Node(ts, k, a)
           /\ Slot(us, k, a) = IF k = L /\ Block(L, a) = Block(L, v) THEN e
                               ELSE Slot(ts, k, a)
  <1> TAKE a \in Addresses
  <1> DEFINE P(k) == Reaches(ts, k, a) => Reaches(us, k, a) /\ Node(us, k, a) = Node(ts, k, a)
             S(k) == Reaches(ts, k, a) =>
                       Slot(us, k, a) = IF k = L /\ Block(L, a) = Block(L, v) THEN e
                                        ELSE Slot(ts, k, a)
  <1>1. \A k \in 1..4 : P(k) => S(k)
    <2> SUFFICES ASSUME NEW k \in 1..4, Reaches(ts, k, a), Node(us, k, a) = Node(ts, k, a)
                 PROVE  Slot(us, k, a) = IF k = L /\ Block(L, a) = Block(L, v) THEN e
                                         ELSE Slot(ts, k, a)
      OBVIOUS
    <2> DEFINE t == Node(ts, L, v)
               x == Index(L, v)
               n == Node(ts, k, a)
               i == Index(k, a)
    <2>1. n = t /\ i = x <=> k = L /\ Block(L, a) = Block(L, v)
      BY Meets
    <2>2. n \in DOMAIN ts /\ i \in Slots
      BY BranchReached, IndexInTable
    <2>3. Slot(us, k, a) = us[n][i] /\ Slot(ts, k, a) = ts[n][i]
      BY DEF Slot
    <2> HIDE DEF t, x, n, i
    <2>4. us[t][x] = e /\ (n # t \/ i # x => us[n][i] = ts[n][i])
      BY <2>2 DEF Written, t, x
    <2> QED
      BY <2>1, <2>3, <2>4
  <1>2. P(4)
    BY NodeNext, ReachesNext
  <1>3. \A k \in 1..3 : P(k + 1) => P(k)
    <2> SUFFICES ASSUME NEW k \in 1..3, P(k + 1), Reaches(ts, k, a)
                 PROVE  Reaches(us, k, a) /\ Node(us, k, a) = Node(ts, k, a)
      OBVIOUS
    <2>1. k + 1 \in 1..4
      OBVIOUS
    <2>2. Reaches(ts, k + 1, a) /\ Slot(ts, k + 1, a).kind = "table"
      BY ReachesNext
    <2>3. ~ (k + 1 = L /\ Block(L, a) = Block(L, v))
      <3>1. Block(L, a) = Block(L, v) => Slot(ts, L, a) = Slot(ts, L, v)
        BY SameWay
      <3> QED
        BY <2>2, <3>1
    <2>4. Reaches(us, k + 1, a) /\ Slot(us, k + 1, a) = Slot(ts, k + 1, a)
      BY <1>1, <2>1, <2>2, <2>3
    <2> QED
      BY <2>2, <2>4, NodeNext, ReachesNext
  <1> HIDE DEF P, S
  <1>4. P(3) /\ P(2) /\ P(1)
    BY <1>2, <1>3
  <1>5. \A k \in 1..4 : P(k)
    <2>1. \A k \in 1..4 : k = 1 \/ k = 2 \/ k = 3 \/ k = 4
      OBVIOUS
    <2> QED
      BY <1>2, <1>4, <2>1
  <1> QED
    BY <1>1, <1>5 DEF P, S

\* A page in an entry of the tree takes nothing away but what was below it.
LEMMA BranchesWithPage ==
  ASSUME NEW ts, NEW lev, NEW blk, Branches(ts, lev, blk), NEW t, NEW x,
         t \in DOMAIN ts, x \in Slots,
         NEW us, NEW e, Written(ts, us, t, x, e),
         DOMAIN us = DOMAIN ts, \A u \in DOMAIN us : us[u] \in [Slots -> EntryType],
         e.kind = "page"
  PROVE  Branches(us, lev, blk)
  <1>1. ASSUME NEW u \in DOMAIN us, NEW y \in Slots, us[u][y].kind = "table"
        PROVE  /\ us[u][y].to \in DOMAIN us /\ lev[u] >= 2
               /\ lev[us[u][y].to] = lev[u] - 1
               /\ blk[us[u][y].to] = ENTRIES * blk[u] + y
    <2>1. u # t \/ y # x
      BY <1>1 DEF Written
    <2>2. us[u][y] = ts[u][y]
      BY <2>1 DEF Written
    <2> QED
      BY <1>1, <2>2 DEF Branches
  <1> QED
    BY <1>1 DEF Branches

\* A page in an entry of a tree, at its level, leaves the tree what it is.
LEMMA TreeWithPage ==
  ASSUME NEW ts, NEW lev, NEW blk, Tree(ts, lev, blk), NEW L \in 1..3, NEW t, NEW x,
         t \in DOMAIN ts, lev[t] = L, x \in Slots,
         NEW us, NEW e, Written(ts, us, t, x, e),
         DOMAIN us = DOMAIN ts, \A u \in DOMAIN us : us[u] \in [Slots -> EntryType],
         e.kind = "page", e.to % Covers(L) = 0
  PROVE  Tree(us, lev, blk)
  <1>1. ASSUME NEW u \in DOMAIN us, NEW y \in Slots, us[u][y].kind = "page"
        PROVE  lev[u] <= 3 /\ us[u][y].to % Covers(lev[u]) = 0
    <2>1. CASE u = t /\ y = x
      BY <2>1 DEF Written
    <2>2. CASE u # t \/ y # x
      <3>1. us[u][y] = ts[u][y]
        BY <2>2 DEF Written
      <3> QED
        BY <1>1, <3>1 DEF Tree
    <2> QED
      BY <2>1, <2>2
  <1>2. Branches(us, lev, blk)
    BY BranchesWithPage DEF Tree
  <1> QED
    BY <1>1, <1>2 DEF Tree

\* The tables us are ts, an empty one, n, and the entry e that leads to it.
Grown(ts, us, n, t, x, e) ==
  /\ Written(ts, us, t, x, e)
  /\ DOMAIN us = DOMAIN ts \cup {n} /\ n \notin DOMAIN ts
  /\ \A u \in DOMAIN us : us[u] \in [Slots -> EntryType]
  /\ us[n] = EmptyTable
  /\ e.kind = "table" /\ e.to = n

\* A new, empty table below an entry of the tree, which is a block of its own.
LEMMA BranchesWithTable ==
  ASSUME NEW ts, NEW lev, NEW blk, Branches(ts, lev, blk), NEW L \in 2..4, NEW t, NEW x,
         t \in DOMAIN ts, lev[t] = L, x \in Slots,
         NEW us, NEW e, NEW n, Grown(ts, us, n, t, x, e)
  PROVE  \E lev2, blk2 : /\ Branches(us, lev2, blk2)
                         /\ \A u \in DOMAIN ts : lev2[u] = lev[u] /\ blk2[u] = blk[u]
  <1> /\ Written(ts, us, t, x, e)
      /\ DOMAIN us = DOMAIN ts \cup {n} /\ n \notin DOMAIN ts
      /\ \A u \in DOMAIN us : us[u] \in [Slots -> EntryType]
      /\ us[n] = EmptyTable
      /\ e.kind = "table" /\ e.to = n
    BY DEF Grown
  <1> DEFINE lev2 == [u \in DOMAIN us |-> IF u = n THEN L - 1 ELSE lev[u]]
             blk2 == [u \in DOMAIN us |-> IF u = n THEN ENTRIES * blk[t] + x ELSE blk[u]]
  <1>1. \A u \in DOMAIN ts : u # n /\ u \in DOMAIN us /\ lev2[u] = lev[u] /\ blk2[u] = blk[u]
    OBVIOUS
  <1>2. n \in DOMAIN us /\ lev2[n] = L - 1 /\ blk2[n] = ENTRIES * blk[t] + x
    OBVIOUS
  <1>3. ENTRIES * blk[t] + x \in Nat
    <2>1. blk[t] \in Nat /\ x \in Nat /\ ENTRIES \in Nat
      BY PagerAssumption DEF Branches, Slots
    <2> QED
      BY <2>1
  <1>4. lev2 \in [DOMAIN us -> 1..4] /\ blk2 \in [DOMAIN us -> Nat]
    BY <1>3 DEF Branches
  <1> HIDE DEF lev2, blk2
  <1>5. ASSUME NEW u \in DOMAIN us, NEW y \in Slots, us[u][y].kind = "table"
        PROVE  /\ us[u][y].to \in DOMAIN us /\ lev2[u] >= 2
               /\ lev2[us[u][y].to] = lev2[u] - 1
               /\ blk2[us[u][y].to] = ENTRIES * blk2[u] + y
    <2>1. CASE u = t /\ y = x
      BY <1>1, <1>2, <2>1 DEF Written
    <2>2. CASE u = n
      BY <1>5, <2>2, NoEntry
    <2>3. CASE u # n /\ (u # t \/ y # x)
      <3>1. us[u][y] = ts[u][y] /\ u \in DOMAIN ts
        BY <2>3 DEF Written
      <3>2. /\ ts[u][y].to \in DOMAIN ts /\ lev[u] >= 2
            /\ lev[ts[u][y].to] = lev[u] - 1
            /\ blk[ts[u][y].to] = ENTRIES * blk[u] + y
        BY <1>5, <3>1 DEF Branches
      <3> QED
        BY <1>1, <3>1, <3>2
    <2> QED
      BY <2>1, <2>2, <2>3
  <1>6. Root \in DOMAIN us /\ lev2[Root] = 4 /\ blk2[Root] = 0
    BY <1>1 DEF Branches
  <1>7. Branches(us, lev2, blk2)
    BY <1>4, <1>5, <1>6 DEF Branches
  <1> QED
    BY <1>1, <1>7

\* A new table takes its level and block from the entry that leads to it.
LEMMA TreeWithTable ==
  ASSUME NEW ts, NEW lev, NEW blk, Tree(ts, lev, blk), NEW L \in 2..4, NEW t, NEW x,
         t \in DOMAIN ts, lev[t] = L, x \in Slots,
         NEW us, NEW e, NEW n, Grown(ts, us, n, t, x, e)
  PROVE  \E lev2, blk2 : Tree(us, lev2, blk2)
  <1>1. PICK lev2, blk2 : /\ Branches(us, lev2, blk2)
                          /\ \A u \in DOMAIN ts : lev2[u] = lev[u] /\ blk2[u] = blk[u]
    BY BranchesWithTable DEF Tree
  <1>2. ASSUME NEW u \in DOMAIN us, NEW y \in Slots, us[u][y].kind = "page"
        PROVE  lev2[u] <= 3 /\ us[u][y].to % Covers(lev2[u]) = 0
    <2>1. u # n /\ (u # t \/ y # x) /\ u \in DOMAIN ts
      BY <1>2, NoEntry DEF Grown, Written
    <2>2. us[u][y] = ts[u][y] /\ lev2[u] = lev[u]
      BY <1>1, <2>1 DEF Grown, Written
    <2> QED
      BY <1>2, <2>1, <2>2 DEF Tree
  <1> QED
    BY <1>1, <1>2 DEF Tree

\* Every table but the root hangs from one entry.
Hangs(ts, n, t, x) == ts[t][x].kind = "table" /\ ts[t][x].to = n
Parents(ts) ==
  /\ \A n \in DOMAIN ts \ {Root} : \E t \in DOMAIN ts : \E x \in Slots : Hangs(ts, n, t, x)
  /\ \A n \in DOMAIN ts, t, u \in DOMAIN ts, x, y \in Slots :
       Hangs(ts, n, t, x) /\ Hangs(ts, n, u, y) => t = u /\ x = y

\* A page in an absent entry takes no table its referrer.
LEMMA ParentsWithPage ==
  ASSUME NEW ts, Parents(ts), NEW t \in DOMAIN ts, NEW x \in Slots, ts[t][x].kind = "none",
         NEW us, NEW e, Written(ts, us, t, x, e), DOMAIN us = DOMAIN ts, e.kind = "page"
  PROVE  Parents(us)
  <1>1. ASSUME NEW n, NEW u \in DOMAIN ts, NEW y \in Slots
        PROVE  Hangs(us, n, u, y) <=> Hangs(ts, n, u, y)
    BY DEF Hangs, Written
  <1>2. ASSUME NEW n \in DOMAIN us \ {Root}
        PROVE  \E u \in DOMAIN us : \E y \in Slots : Hangs(us, n, u, y)
    BY <1>1, Zenon DEF Parents
  <1>3. ASSUME NEW n \in DOMAIN us, NEW u \in DOMAIN us, NEW w \in DOMAIN us,
               NEW y \in Slots, NEW z \in Slots, Hangs(us, n, u, y), Hangs(us, n, w, z)
        PROVE  u = w /\ y = z
    <2>1. Hangs(ts, n, u, y) /\ Hangs(ts, n, w, z)
      BY <1>1, <1>3
    <2> QED
      BY <2>1, Zenon DEF Parents
  <1> QED
    BY <1>2, <1>3, Zenon DEF Parents

\* A new table has the one entry that leads to it.
LEMMA ParentsWithTable ==
  ASSUME NEW ts, Parents(ts), NEW t \in DOMAIN ts, NEW x \in Slots, ts[t][x].kind = "none",
         NEW us, NEW e, NEW n, Grown(ts, us, n, t, x, e),
         \A u \in DOMAIN ts, y \in Slots : ts[u][y].kind = "table" => ts[u][y].to \in DOMAIN ts
  PROVE  Parents(us)
  <1> /\ Written(ts, us, t, x, e)
      /\ DOMAIN us = DOMAIN ts \cup {n} /\ n \notin DOMAIN ts /\ us[n] = EmptyTable
      /\ e.kind = "table" /\ e.to = n
    BY DEF Grown
  <1>1. ASSUME NEW m \in DOMAIN us, NEW u \in DOMAIN us, NEW y \in Slots
        PROVE  Hangs(us, m, u, y) <=> \/ m = n /\ u = t /\ y = x
                                      \/ m # n /\ u \in DOMAIN ts /\ Hangs(ts, m, u, y)
    <2>1. CASE u = n
      <3>1. us[u][y].kind = "none" /\ u # t /\ u \notin DOMAIN ts
        BY <2>1, NoEntry
      <3> QED
        BY <3>1 DEF Hangs
    <2>2. CASE u = t /\ y = x
      BY <2>2 DEF Hangs, Written
    <2>3. CASE u # n /\ (u # t \/ y # x)
      <3>1. us[u][y] = ts[u][y] /\ u \in DOMAIN ts
        BY <2>3 DEF Written
      <3>2. Hangs(ts, m, u, y) => m # n
        BY <3>1 DEF Hangs
      <3> QED
        BY <2>3, <3>1, <3>2 DEF Hangs
    <2> QED
      BY <2>1, <2>2, <2>3
  <1>2. ASSUME NEW m \in DOMAIN us \ {Root}
        PROVE  \E u \in DOMAIN us : \E y \in Slots : Hangs(us, m, u, y)
    <2>1. CASE m = n
      BY <1>1, <2>1
    <2>2. CASE m # n
      <3>1. PICK u \in DOMAIN ts : \E y \in Slots : Hangs(ts, m, u, y)
        BY <2>2 DEF Parents
      <3>2. PICK y \in Slots : Hangs(ts, m, u, y)
        BY <3>1
      <3> QED
        BY <1>1, <2>2, <3>2
    <2> QED
      BY <2>1, <2>2
  <1>3. ASSUME NEW m \in DOMAIN us, NEW u \in DOMAIN us, NEW w \in DOMAIN us,
               NEW y \in Slots, NEW z \in Slots, Hangs(us, m, u, y), Hangs(us, m, w, z)
        PROVE  u = w /\ y = z
    <2>1. CASE m = n
      BY <1>1, <1>3, <2>1
    <2>2. CASE m # n
      <3>1. /\ m \in DOMAIN ts /\ u \in DOMAIN ts /\ w \in DOMAIN ts
            /\ Hangs(ts, m, u, y) /\ Hangs(ts, m, w, z)
        BY <1>1, <1>3, <2>2
      <3> QED
        BY <3>1, Zenon DEF Parents
    <2> QED
      BY <2>1, <2>2
  <1> QED
    BY <1>2, <1>3, Zenon DEF Parents

\* What the processor finds after a page was put in a free entry.
LEMMA WalkWithPage ==
  ASSUME NEW ts, NEW lev, NEW blk, Tree(ts, lev, blk), OpenTables(ts),
         NEW L \in 1..3, NEW v \in Addresses, Reaches(ts, L, v),
         Slot(ts, L, v).kind = "none",
         NEW us, NEW e, Written(ts, us, Node(ts, L, v), Index(L, v), e), e.kind = "page",
         Tree(us, lev, blk), OpenTables(us), NEW a \in Addresses
  PROVE  /\ WalkIn(us, a) = IF Block(L, a) = Block(L, v) THEN Found(e, L, a)
                            ELSE WalkIn(ts, a)
         /\ \A k \in 1..4 : Reaches(us, k, a) => Reaches(ts, k, a)
  <1>1. PICK m \in 1..4 : Ends(ts, m, a)
    BY WayEnds
  <1>2. L \in 1..4
    OBVIOUS
  <1>3. \A k \in 1..4 : Reaches(ts, k, a) =>
          /\ Reaches(us, k, a) /\ Node(us, k, a) = Node(ts, k, a)
          /\ Slot(us, k, a) = IF k = L /\ Block(L, a) = Block(L, v) THEN e
                              ELSE Slot(ts, k, a)
    BY <1>2, WaysKept DEF Tree
  <1>4. /\ Reaches(ts, m, a) /\ Slot(ts, m, a).kind # "table"
        /\ Reaches(us, m, a)
        /\ Slot(us, m, a) = IF m = L /\ Block(L, a) = Block(L, v) THEN e ELSE Slot(ts, m, a)
    BY <1>1, <1>3 DEF Ends
  <1>5. Ends(us, m, a)
    BY <1>1, <1>4 DEF Ends
  <1>6. Block(L, a) = Block(L, v) => m = L
    <2> SUFFICES ASSUME Block(L, a) = Block(L, v) PROVE m = L
      OBVIOUS
    <2>1. Slot(ts, L, a) = Slot(ts, L, v) /\ Above(L, a) = Above(L, v)
      BY <1>2, SameWay, SameBlock
    <2>2. Reaches(ts, L, a) /\ Slot(ts, L, a).kind # "table"
      BY <1>2, <2>1, SameWay
    <2>3. ~ (m > L) /\ ~ (L > m)
      BY <1>1, <1>2, <1>4, <2>2 DEF Reaches
    <2> QED
      BY <1>1, <2>3
  <1>7. WalkIn(us, a) = Found(Slot(us, m, a), m, a) /\ WalkIn(ts, a) = Found(Slot(ts, m, a), m, a)
    BY <1>1, <1>5, WalkEnds
  <1>8. ASSUME NEW k \in 1..4, Reaches(us, k, a) PROVE Reaches(ts, k, a)
    <2>1. ~ (m > k)
      BY <1>1, <1>5, <1>8 DEF Ends, Reaches
    <2> QED
      BY <1>1, <1>4, <2>1 DEF Reaches
  <1>9. CASE Block(L, a) = Block(L, v)
    BY <1>4, <1>6, <1>7, <1>8, <1>9
  <1>10. CASE Block(L, a) # Block(L, v)
    BY <1>4, <1>7, <1>8, <1>10
  <1> QED
    BY <1>9, <1>10

\* A new table changes nothing the processor finds.
LEMMA WalkWithTable ==
  ASSUME NEW ts, NEW lev, NEW blk, Tree(ts, lev, blk), OpenTables(ts),
         NEW L \in 2..4, NEW v \in Addresses, Reaches(ts, L, v),
         Slot(ts, L, v).kind = "none",
         NEW us, NEW e, Grown(ts, us, e.to, Node(ts, L, v), Index(L, v), e),
         NEW lev2, NEW blk2, Tree(us, lev2, blk2), OpenTables(us), NEW a \in Addresses
  PROVE  /\ WalkIn(us, a) = WalkIn(ts, a)
         /\ \A k \in 1..4 : Reaches(us, k, a) =>
              Reaches(ts, k, a) \/ (k = L - 1 /\ Block(L, a) = Block(L, v))
         /\ Reaches(us, L - 1, v) /\ Node(us, L - 1, v) = e.to
  <1> /\ Written(ts, us, Node(ts, L, v), Index(L, v), e) /\ e.kind = "table"
      /\ us[e.to] = EmptyTable
    BY DEF Grown
  <1>1. L \in 1..4 /\ L - 1 \in 1..3 /\ L - 1 \in 1..4 /\ (L - 1) + 1 = L
    OBVIOUS
  <1>2. \A c \in Addresses, k \in 1..4 : Reaches(ts, k, c) =>
          /\ Reaches(us, k, c) /\ Node(us, k, c) = Node(ts, k, c)
          /\ Slot(us, k, c) = IF k = L /\ Block(L, c) = Block(L, v) THEN e
                              ELSE Slot(ts, k, c)
    BY <1>1, WaysKept DEF Tree
  <1>3. ASSUME NEW c \in Addresses, Block(L, c) = Block(L, v)
        PROVE  /\ Ends(ts, L, c) /\ Slot(ts, L, c).kind = "none"
               /\ Ends(us, L - 1, c) /\ Slot(us, L - 1, c) = Absent /\ Node(us, L - 1, c) = e.to
    <2>1. Slot(ts, L, c) = Slot(ts, L, v) /\ Above(L, c) = Above(L, v)
      BY <1>1, <1>3, SameWay, SameBlock
    <2>2. Reaches(ts, L, c) /\ Slot(ts, L, c).kind = "none"
      BY <1>1, <2>1, SameWay
    <2>3. Reaches(us, L, c) /\ Slot(us, L, c) = e
      BY <1>1, <1>2, <1>3, <2>2
    <2>4. Reaches(us, L - 1, c) /\ Node(us, L - 1, c) = e.to
      BY <1>1, <2>3, ReachesNext, NodeNext
    <2>5. Slot(us, L - 1, c) = Absent
      BY <1>1, <2>4, IndexInTable, NoEntry DEF Slot
    <2> QED
      BY <2>2, <2>4, <2>5, NoEntry DEF Ends
  <1>4. CASE Block(L, a) = Block(L, v)
    <2>1. WalkIn(ts, a) = Found(Slot(ts, L, a), L, a)
      BY <1>1, <1>3, <1>4, WalkEnds
    <2>2. WalkIn(us, a) = Found(Slot(us, L - 1, a), L - 1, a)
      BY <1>1, <1>3, <1>4, WalkEnds
    <2>3. WalkIn(us, a) = WalkIn(ts, a)
      BY <1>3, <1>4, <2>1, <2>2, NoEntry DEF Found
    <2>4. ASSUME NEW k \in 1..4, Reaches(us, k, a), k # L - 1 PROVE Reaches(ts, k, a)
      <3>1. ~ (L - 1 > k)
        BY <1>1, <1>3, <1>4, <2>4, NoEntry DEF Reaches
      <3>2. k >= L
        BY <1>1, <2>4, <3>1
      <3> QED
        BY <1>1, <1>3, <1>4, <3>2 DEF Ends, Reaches
    <2> QED
      BY <1>3, <1>4, <2>3, <2>4 DEF Ends
  <1>5. CASE Block(L, a) # Block(L, v)
    <2>1. PICK m \in 1..4 : Ends(ts, m, a)
      BY WayEnds
    <2>2. Reaches(us, m, a) /\ Slot(us, m, a) = Slot(ts, m, a)
      BY <1>2, <1>5, <2>1 DEF Ends
    <2>3. Ends(us, m, a)
      BY <2>1, <2>2 DEF Ends
    <2>4. WalkIn(us, a) = Found(Slot(us, m, a), m, a) /\ WalkIn(ts, a) = Found(Slot(ts, m, a), m, a)
      BY <2>1, <2>3, WalkEnds
    <2>5. ASSUME NEW k \in 1..4, Reaches(us, k, a) PROVE Reaches(ts, k, a)
      <3>1. ~ (m > k)
        BY <2>1, <2>3, <2>5 DEF Ends, Reaches
      <3> QED
        BY <2>1, <3>1 DEF Ends, Reaches
    <2> QED
      BY <1>3, <2>2, <2>4, <2>5 DEF Ends
  <1> QED
    BY <1>4, <1>5

-----------------------------------------------------------------------------
(* Flags                                                                   *)

\* Which flags get_entry_bits() sets.
LEMMA FlagIs ==
  ASSUME NEW l, NEW lf, NEW a, NEW f, NEW x
  PROVE  x \in GetEntryBits(l, lf, a, f) <=>
           \/ x = PRESENT
           \/ Bit(a.pat, 0) /\ x = 2
           \/ Bit(a.pat, 1) /\ x = 3
           \/ (a.us \/ Open(l, lf, a)) /\ x = USER
           \/ (a.rw \/ Open(l, lf, a)) /\ x = WRITE
           \/ (l = lf /\ l \in {2, 3}) /\ x = LARGE
           \/ (a.nx /\ "nx" \in f) /\ x = NO_EXEC
  <1>1. \A c, y : x \in If(c, {y}) <=> c /\ x = y
    BY DEF If
  <1> DEFINE s1 == If(Bit(a.pat, 0), {2})
             s2 == If(Bit(a.pat, 1), {3})
             s3 == If(a.us \/ Open(l, lf, a), {USER})
             s4 == If(a.rw \/ Open(l, lf, a), {WRITE})
             s5 == If(l = lf /\ l \in {2, 3}, {LARGE})
             s6 == If(a.nx /\ "nx" \in f, {NO_EXEC})
  <1>2. GetEntryBits(l, lf, a, f) = UNION {{PRESENT}, s1, s2, s3, s4, s5, s6}
    BY DEF GetEntryBits
  <1>3. /\ x \in s1 <=> Bit(a.pat, 0) /\ x = 2
        /\ x \in s2 <=> Bit(a.pat, 1) /\ x = 3
        /\ x \in s3 <=> (a.us \/ Open(l, lf, a)) /\ x = USER
        /\ x \in s4 <=> (a.rw \/ Open(l, lf, a)) /\ x = WRITE
        /\ x \in s5 <=> (l = lf /\ l \in {2, 3}) /\ x = LARGE
        /\ x \in s6 <=> (a.nx /\ "nx" \in f) /\ x = NO_EXEC
    BY <1>1, Zenon
  <1> HIDE DEF s1, s2, s3, s4, s5, s6
  <1>4. x \in UNION {{PRESENT}, s1, s2, s3, s4, s5, s6} <=>
          x = PRESENT \/ x \in s1 \/ x \in s2 \/ x \in s3 \/ x \in s4 \/ x \in s5 \/ x \in s6
    BY Zenon
  <1> QED
    BY <1>2, <1>3, <1>4, Zenon

\* Zero has no bit set.
LEMMA ZeroBits == \A i \in 0..11 : ~ Bit(0, i)
  <1>1. /\ 2^0 \in Nat \ {0} /\ 2^1 \in Nat \ {0} /\ 2^2 \in Nat \ {0} /\ 2^3 \in Nat \ {0}
        /\ 2^4 \in Nat \ {0} /\ 2^5 \in Nat \ {0} /\ 2^6 \in Nat \ {0} /\ 2^7 \in Nat \ {0}
        /\ 2^8 \in Nat \ {0} /\ 2^9 \in Nat \ {0} /\ 2^10 \in Nat \ {0} /\ 2^11 \in Nat \ {0}
    OBVIOUS
  <1>2. \A i \in 0..11 : \/ i = 0 \/ i = 1 \/ i = 2 \/ i = 3 \/ i = 4 \/ i = 5
                         \/ i = 6 \/ i = 7 \/ i = 8 \/ i = 9 \/ i = 10 \/ i = 11
    OBVIOUS
  <1>3. \A c \in Nat \ {0} : 0 \div c = 0
    OBVIOUS
  <1>4. \A i \in 0..11 : 0 \div 2^i = 0
    BY <1>1, <1>2, <1>3
  <1>5. \A q : q = 0 => ~ (q % 2 = 1)
    OBVIOUS
  <1> QED
    BY <1>4, <1>5, Zenon DEF Bit

\* The tables on the way to a page let everything through.
LEMMA TableFlags ==
  ASSUME NEW a, a.keep = 0, ~ a.nx, NEW l \in 2..4, NEW lf, lf # l, NEW f
  PROVE  LET bits == GetEntryBits(l, lf, a, f)
         IN  USER \in bits /\ WRITE \in bits /\ NO_EXEC \notin bits
  <1>1. Open(l, lf, a)
    BY DEF Open
  <1>2. NO_EXEC # PRESENT /\ NO_EXEC # 2 /\ NO_EXEC # 3 /\ NO_EXEC # USER
        /\ NO_EXEC # WRITE /\ NO_EXEC # LARGE
    BY DEF NO_EXEC, PRESENT, USER, WRITE, LARGE
  <1> QED
    BY <1>1, <1>2, FlagIs, Zenon

\* An aligned address leaves no flag behind.
LEMMA NoAddressBits ==
  ASSUME NEW l \in 1..3, NEW p \in Addresses, p % Covers(l) = 0, NEW bits
  PROVE  /\ PageAt(p, l, bits).to = p /\ PageAt(p, l, bits).bits = bits
         /\ PageAt(p, l, bits).kind = "page"
  <1>1. p \in Nat /\ PAGE \in Nat \ {0} /\ ENTRIES \in Nat \ {0}
    BY PagerAssumption DEF Addresses
  <1>2. Covers(1) = PAGE /\ Covers(2) = PAGE * ENTRIES /\ Covers(3) = PAGE * ENTRIES * ENTRIES
    BY CoversIs
  <1>3. l = 1 \/ l = 2 \/ l = 3
    OBVIOUS
  <1>4. \E k \in Nat : p = Covers(l) * k
    <2>1. Covers(l) \in Nat \ {0}
      BY CoversNext
    <2> QED
      BY <1>1, <2>1, Multiple, Division
  <1>5. PICK k \in Nat : p = Covers(l) * k
    BY <1>4
  <1>6. \E q \in Nat : p = PAGE * q /\ (l > 1 => \E j \in Nat : q = ENTRIES * j)
    <2>1. CASE l = 1
      BY <1>2, <1>5, <2>1
    <2>2. CASE l = 2
      <3>1. p = PAGE * (ENTRIES * k) /\ ENTRIES * k \in Nat
        BY <1>1, <1>2, <1>5, <2>2
      <3> QED
        BY <3>1
    <2>3. CASE l = 3
      <3>1. ENTRIES * k \in Nat
        BY <1>1
      <3>2. ENTRIES * (ENTRIES * k) \in Nat
        BY <1>1, <3>1
      <3>3. p = PAGE * (ENTRIES * (ENTRIES * k))
        BY <1>1, <1>2, <1>5, <2>3
      <3> QED
        BY <3>1, <3>2, <3>3
    <2> QED
      BY <1>3, <2>1, <2>2, <2>3
  <1>7. PICK q \in Nat : p = PAGE * q /\ (l > 1 => \E j \in Nat : q = ENTRIES * j)
    BY <1>6
  <1>8. p % PAGE = 0 /\ p \div PAGE = q
    BY <1>1, <1>7, Multiple
  <1>9. l > 1 => ~ ((p \div PAGE) % 2 = 1)
    <2> SUFFICES ASSUME l > 1 PROVE (p \div PAGE) % 2 = 0
      OBVIOUS
    <2>1. PICK j \in Nat : q = ENTRIES * j
      BY <1>7
    <2>2. ENTRIES = 2 * (ENTRIES \div 2) /\ ENTRIES \div 2 \in Nat
      BY <1>1, PagerAssumption
    <2> DEFINE h == ENTRIES \div 2
    <2>3. q = 2 * (h * j) /\ h * j \in Nat
      <3>1. ENTRIES = 2 * h /\ h \in Nat
        BY <2>2
      <3> HIDE DEF h
      <3>2. h * j \in Nat
        BY <3>1
      <3>3. q = (2 * h) * j
        BY <2>1, <3>1
      <3> QED
        BY <3>1, <3>2, <3>3
    <2> HIDE DEF h
    <2> DEFINE m == h * j
    <2>4. q = 2 * m /\ m \in Nat
      BY <2>3
    <2> HIDE DEF m
    <2> QED
      BY <1>8, <2>4
  <1>10. AddressBits(p, PAGE) = {}
    BY <1>8, ZeroBits DEF AddressBits
  <1>11. If(l > 1 /\ (p \div PAGE) % 2 = 1, {PAT_BIG}) = {}
    BY <1>9 DEF If
  <1>12. p - (p % PAGE) = p
    BY <1>1, <1>8
  <1> QED
    BY <1>10, <1>11, <1>12, Zenon DEF PageAt

\* A page of memory type 0 has the rights that were asked for.
LEMMA LeafRights ==
  ASSUME NEW a \in Attributes, a.pat = 0, NEW l \in 1..3, NEW f
  PROVE  Rights({}, GetEntryBits(l, l, a, f), l) = Wanted(a, f)
  <1> DEFINE bits == GetEntryBits(l, l, a, f)
  <1>1. ~ Open(l, l, a) /\ ~ Bit(a.pat, 0) /\ ~ Bit(a.pat, 1)
    <2>1. ~ Bit(0, 0) /\ ~ Bit(0, 1)
      BY ZeroBits
    <2> QED
      BY <2>1 DEF Open
  <1>2. \A x : x \in bits <=>
          \/ x = PRESENT
          \/ a.us /\ x = USER
          \/ a.rw /\ x = WRITE
          \/ l \in {2, 3} /\ x = LARGE
          \/ (a.nx /\ "nx" \in f) /\ x = NO_EXEC
    <2> TAKE x
    <2>1. x \in bits <=>
           \/ x = PRESENT
           \/ Bit(a.pat, 0) /\ x = 2
           \/ Bit(a.pat, 1) /\ x = 3
           \/ (a.us \/ Open(l, l, a)) /\ x = USER
           \/ (a.rw \/ Open(l, l, a)) /\ x = WRITE
           \/ (l = l /\ l \in {2, 3}) /\ x = LARGE
           \/ (a.nx /\ "nx" \in f) /\ x = NO_EXEC
      BY FlagIs
    <2> HIDE DEF bits
    <2> QED
      BY <1>1, <2>1, Zenon
  <1> HIDE DEF bits
  <1>3. /\ USER \in bits <=> a.us
        /\ WRITE \in bits <=> a.rw
        /\ NO_EXEC \in bits <=> a.nx /\ "nx" \in f
    <2>1. /\ USER # PRESENT /\ USER # WRITE /\ USER # LARGE /\ USER # NO_EXEC
          /\ WRITE # PRESENT /\ WRITE # LARGE /\ WRITE # NO_EXEC
          /\ NO_EXEC # PRESENT /\ NO_EXEC # LARGE
      BY DEF NO_EXEC, PRESENT, USER, WRITE, LARGE
    <2> QED
      BY <1>2, <2>1, Zenon
  <1>4. PWT \notin bits /\ PCD \notin bits
    <2>1. /\ PWT # PRESENT /\ PWT # USER /\ PWT # WRITE /\ PWT # LARGE /\ PWT # NO_EXEC
          /\ PCD # PRESENT /\ PCD # USER /\ PCD # WRITE /\ PCD # LARGE /\ PCD # NO_EXEC
      BY DEF NO_EXEC, PRESENT, USER, WRITE, LARGE, PWT, PCD
    <2> QED
      BY <1>2, <2>1, Zenon
  <1>5. (IF l = 1 THEN PAT_4K ELSE PAT_BIG) \notin bits
    <2>1. /\ PAT_4K # PRESENT /\ PAT_4K # USER /\ PAT_4K # WRITE /\ PAT_4K # NO_EXEC
          /\ PAT_BIG # PRESENT /\ PAT_BIG # USER /\ PAT_BIG # WRITE /\ PAT_BIG # NO_EXEC
          /\ PAT_BIG # LARGE
      BY DEF NO_EXEC, PRESENT, USER, WRITE, LARGE, PAT_4K, PAT_BIG
    <2>2. l = 1 => l \notin {2, 3}
      OBVIOUS
    <2> QED
      BY <1>2, <2>1, <2>2, Zenon
  <1>6. MemoryType(bits, l) = 0
    BY <1>4, <1>5 DEF MemoryType, Value
  <1>7. a.us \in BOOLEAN /\ a.rw \in BOOLEAN /\ a.nx \in BOOLEAN
    BY DEF Attributes
  <1>8. /\ (\A b \in {} \cup {bits} : USER \in b) = a.us
        /\ (\A b \in {} \cup {bits} : WRITE \in b) = a.rw
        /\ (\E b \in {} \cup {bits} : NO_EXEC \in b) = (a.nx /\ "nx" \in f)
    <2>1. \A b : b \in {} \cup {bits} <=> b = bits
      OBVIOUS
    <2> QED
      BY <1>3, <1>7, <2>1, Zenon
  <1> QED
    BY <1>6, <1>8, Zenon DEF Rights, Wanted, bits

\* What the processor finds at the entry of a page.
LEMMA LeafFound ==
  ASSUME NEW a \in Attributes, a.pat = 0, NEW l \in 1..3, NEW f,
         NEW p \in Addresses, p % Covers(l) = 0, NEW x
  PROVE  Found(PageAt(p, l, GetEntryBits(l, l, a, f)), l, x)
           = [to |-> p + (x % Covers(l)), rights |-> Wanted(a, f)]
  <1> DEFINE e == PageAt(p, l, GetEntryBits(l, l, a, f))
  <1>1. e.to = p /\ e.bits = GetEntryBits(l, l, a, f) /\ e.kind = "page"
    BY NoAddressBits
  <1> HIDE DEF e
  <1>2. Rights({}, e.bits, l) = Wanted(a, f)
    BY <1>1, LeafRights
  <1>3. Found(e, l, x) = [to |-> p + (x % Covers(l)), rights |-> Wanted(a, f)]
    BY <1>1, <1>2 DEF Found
  <1> QED
    BY <1>3 DEF e

-----------------------------------------------------------------------------
(* The page tables as a whole                                              *)

Sound(ts) == (\E lev, blk : Tree(ts, lev, blk)) /\ Parents(ts) /\ OpenTables(ts)

\* The entry of level L on the way to v in ts is written in ss.
Puts(ts, ss, us, L, v, e) == us = [ss EXCEPT ![Node(ts, L, v)][Index(L, v)] = e]

\* ss is ts with one more, empty table.
OneMore(ts, ss, n) ==
  /\ n \notin DOMAIN ts /\ DOMAIN ss = DOMAIN ts \cup {n} /\ ss[n] = EmptyTable
  /\ \A u \in DOMAIN ts : ss[u] = ts[u]

\* A page is put in a free entry.
LEMMA SoundWithPage ==
  ASSUME NEW ts, Sound(ts), NEW L \in 1..3, NEW v \in Addresses, Reaches(ts, L, v),
         Slot(ts, L, v).kind = "none",
         NEW e \in EntryType, e.kind = "page", e.to % Covers(L) = 0,
         NEW us, Puts(ts, ts, us, L, v, e)
  PROVE  /\ Sound(us)
         /\ \A a \in Addresses :
              /\ WalkIn(us, a) = IF Block(L, a) = Block(L, v) THEN Found(e, L, a)
                                 ELSE WalkIn(ts, a)
              /\ \A k \in 1..4 : Reaches(us, k, a) => Reaches(ts, k, a)
  <1>1. PICK lev, blk : Tree(ts, lev, blk)
    BY DEF Sound
  <1> DEFINE t == Node(ts, L, v)
             x == Index(L, v)
  <1>2. L \in 1..4
    OBVIOUS
  <1>3. t \in DOMAIN ts /\ lev[t] = L /\ x \in Slots /\ ts[t][x].kind = "none"
    BY <1>1, <1>2, Reached, IndexInTable DEF Slot
  <1>4. \A u \in DOMAIN ts : ts[u] \in [Slots -> EntryType]
    BY <1>1 DEF Tree, Branches
  <1> HIDE DEF t, x
  <1>5. us = [ts EXCEPT ![t][x] = e]
    BY DEF Puts, t, x
  <1>6. /\ DOMAIN us = DOMAIN ts /\ Written(ts, us, t, x, e)
        /\ \A u \in DOMAIN us : us[u] \in [Slots -> EntryType]
    BY <1>3, <1>4, <1>5, EntryWritten DEF Written
  <1>7. Tree(us, lev, blk)
    BY <1>1, <1>3, <1>6, TreeWithPage
  <1>8. Parents(us)
    BY <1>3, <1>6, ParentsWithPage DEF Sound
  <1>9. OpenTables(us)
    <2>1. ASSUME NEW u \in DOMAIN us, NEW y \in Slots, us[u][y].kind = "table"
          PROVE  USER \in us[u][y].bits /\ WRITE \in us[u][y].bits /\ NO_EXEC \notin us[u][y].bits
      <3>1. us[u][y] = ts[u][y] /\ u \in DOMAIN ts
        BY <1>6, <2>1 DEF Written
      <3> QED
        BY <2>1, <3>1, Zenon DEF Sound, OpenTables
    <2> QED
      BY <2>1, Zenon DEF OpenTables
  <1>10. Written(ts, us, Node(ts, L, v), Index(L, v), e)
    BY <1>6 DEF t, x
  <1>11. ASSUME NEW a \in Addresses
         PROVE  /\ WalkIn(us, a) = IF Block(L, a) = Block(L, v) THEN Found(e, L, a)
                                   ELSE WalkIn(ts, a)
                /\ \A k \in 1..4 : Reaches(us, k, a) => Reaches(ts, k, a)
    BY <1>1, <1>7, <1>9, <1>10, WalkWithPage DEF Sound
  <1>12. Sound(us)
    BY <1>7, <1>8, <1>9 DEF Sound
  <1> QED
    BY <1>11, <1>12

\* A table is made where there was none.
LEMMA SoundWithTable ==
  ASSUME NEW ts, Sound(ts), NEW L \in 2..4, NEW v \in Addresses, Reaches(ts, L, v),
         Slot(ts, L, v).kind = "none",
         NEW e \in EntryType, e.kind = "table",
         USER \in e.bits, WRITE \in e.bits, NO_EXEC \notin e.bits,
         NEW ss, OneMore(ts, ss, e.to), NEW us, Puts(ts, ss, us, L, v, e)
  PROVE  /\ Sound(us)
         /\ \A a \in Addresses :
              /\ WalkIn(us, a) = WalkIn(ts, a)
              /\ \A k \in 1..4 : Reaches(us, k, a) =>
                   Reaches(ts, k, a) \/ (k = L - 1 /\ Block(L, a) = Block(L, v))
         /\ Reaches(us, L - 1, v) /\ Node(us, L - 1, v) = e.to
  <1>1. PICK lev, blk : Tree(ts, lev, blk)
    BY DEF Sound
  <1> DEFINE t == Node(ts, L, v)
             x == Index(L, v)
             n == e.to
  <1>2. L \in 1..4
    OBVIOUS
  <1>3. t \in DOMAIN ts /\ lev[t] = L /\ x \in Slots /\ ts[t][x].kind = "none"
    BY <1>1, <1>2, Reached, IndexInTable DEF Slot
  <1>4. \A u \in DOMAIN ts : ts[u] \in [Slots -> EntryType]
    BY <1>1 DEF Tree, Branches
  <1>5. /\ n \notin DOMAIN ts /\ DOMAIN ss = DOMAIN ts \cup {n} /\ ss[n] = EmptyTable
        /\ \A u \in DOMAIN ts : ss[u] = ts[u]
    BY DEF OneMore
  <1> HIDE DEF t, x, n
  <1>6. us = [ss EXCEPT ![t][x] = e]
    BY DEF Puts, t, x
  <1>7. \A u \in DOMAIN ss : ss[u] \in [Slots -> EntryType]
    BY <1>4, <1>5, NoEntry
  <1>8. /\ DOMAIN us = DOMAIN ss
        /\ us[t][x] = e
        /\ \A u \in DOMAIN us : us[u] \in [Slots -> EntryType]
        /\ \A u \in DOMAIN ss : \A y \in Slots : u # t \/ y # x => us[u][y] = ss[u][y]
    BY <1>3, <1>5, <1>6, <1>7, EntryWritten
  <1>9. Written(ts, us, t, x, e) /\ us[n] = EmptyTable
    <2>1. n # t
      BY <1>3, <1>5
    <2>2. us[n] = ss[n]
      BY <1>5, <1>6, <2>1
    <2> QED
      BY <1>5, <1>8, <2>2 DEF Written
  <1>10. DOMAIN us = DOMAIN ts \cup {n} /\ e.to = n
    BY <1>5, <1>8 DEF n
  <1>17. Grown(ts, us, n, t, x, e)
    BY <1>5, <1>8, <1>9, <1>10 DEF Grown
  <1>18. \E lev2, blk2 : Tree(us, lev2, blk2)
    BY <1>1, <1>3, <1>17, TreeWithTable
  <1>11. PICK lev2, blk2 : Tree(us, lev2, blk2)
    BY <1>18
  <1>12. Parents(us)
    <2>1. \A u \in DOMAIN ts, y \in Slots : ts[u][y].kind = "table" => ts[u][y].to \in DOMAIN ts
      BY <1>1 DEF Tree, Branches
    <2>2. Parents(ts)
      BY DEF Sound
    <2> QED
      BY <1>3, <1>17, <2>1, <2>2, ParentsWithTable
  <1>13. OpenTables(us)
    <2>1. ASSUME NEW u \in DOMAIN us, NEW y \in Slots, us[u][y].kind = "table"
          PROVE  USER \in us[u][y].bits /\ WRITE \in us[u][y].bits /\ NO_EXEC \notin us[u][y].bits
      <3>1. CASE u = t /\ y = x
        BY <1>8, <3>1
      <3>2. CASE u = n
        BY <1>9, <2>1, <3>2, NoEntry
      <3>3. CASE u # n /\ (u # t \/ y # x)
        <4>1. us[u][y] = ts[u][y] /\ u \in DOMAIN ts
          BY <1>9, <1>10, <3>3 DEF Written
        <4> QED
          BY <2>1, <4>1, Zenon DEF Sound, OpenTables
      <3> QED
        BY <3>1, <3>2, <3>3
    <2> QED
      BY <2>1, Zenon DEF OpenTables
  <1>14. Grown(ts, us, e.to, Node(ts, L, v), Index(L, v), e)
    BY <1>17 DEF t, x, n
  <1>15. ASSUME NEW a \in Addresses
         PROVE  /\ WalkIn(us, a) = WalkIn(ts, a)
                /\ \A k \in 1..4 : Reaches(us, k, a) =>
                     Reaches(ts, k, a) \/ (k = L - 1 /\ Block(L, a) = Block(L, v))
                /\ Reaches(us, L - 1, v) /\ Node(us, L - 1, v) = e.to
    BY <1>1, <1>11, <1>13, <1>14, WalkWithTable DEF Sound
  <1>16. Sound(us)
    BY <1>11, <1>12, <1>13 DEF Sound
  <1> QED
    BY <1>15, <1>16

\* The root alone.
LEMMA SoundRoot ==
  ASSUME NEW ts, DOMAIN ts = {Root}, ts[Root] = EmptyTable
  PROVE  /\ Sound(ts)
         /\ \A a \in Addresses : WalkIn(ts, a) = Unmapped
         /\ \A a \in Addresses, l \in 1..3 : ~ Reaches(ts, l, a)
  <1> DEFINE lev == [u \in {Root} |-> 4]
             blk == [u \in {Root} |-> 0]
  <1>1. \A x \in Slots : ts[Root][x] = Absent /\ ts[Root][x].kind = "none"
    BY NoEntry
  <1>2. Tree(ts, lev, blk)
    BY <1>1, NoEntry DEF Tree, Branches
  <1>3. Parents(ts)
    BY <1>1 DEF Parents, Hangs
  <1>4. OpenTables(ts)
    BY <1>1 DEF OpenTables
  <1>5. ASSUME NEW a \in Addresses
        PROVE  Slot(ts, 4, a).kind = "none"
    BY <1>1, IndexInTable, NodeNext DEF Slot
  <1>6. ASSUME NEW a \in Addresses
        PROVE  WalkIn(ts, a) = Unmapped /\ \A l \in 1..3 : ~ Reaches(ts, l, a)
    <2>1. ts[Root][Index(4, a)].kind = "none"
      BY <1>1, IndexInTable
    <2>2. WalkIn(ts, a) = Unmapped
      BY <2>1 DEF WalkIn
    <2>3. \A l \in 1..3 : 4 > l /\ 4 \in 1..4
      OBVIOUS
    <2> QED
      BY <1>5, <2>2, <2>3 DEF Reaches
  <1>7. Sound(ts)
    BY <1>2, <1>3, <1>4 DEF Sound
  <1> QED
    BY <1>6, <1>7

-----------------------------------------------------------------------------
(* The progress of a request                                               *)

\* Sums and differences of multiples are multiples.
LEMMA SumMultiple ==
  ASSUME NEW c \in Nat \ {0}, NEW a \in Nat, NEW b \in Nat, a % c = 0, b % c = 0
  PROVE  (a + b) % c = 0 /\ (a >= b => (a - b) % c = 0)
  <1>1. PICK j \in Nat : a = c * j
    BY Multiple, Division
  <1>2. PICK k \in Nat : b = c * k
    BY Multiple, Division
  <1>3. a + b = c * (j + k) /\ j + k \in Nat
    BY <1>1, <1>2
  <1>4. (c * (j + k)) % c = 0
    BY <1>3, Multiple
  <1>5. a >= b => (a - b) % c = 0
    <2> SUFFICES ASSUME a >= b PROVE (a - b) % c = 0
      OBVIOUS
    <2>1. c * j >= c * k => j >= k
      OBVIOUS
    <2>2. a - b = c * (j - k) /\ j - k \in Nat
      BY <1>1, <1>2, <2>1
    <2> QED
      BY <2>2, Multiple
  <1> QED
    BY <1>3, <1>4, <1>5

\* A multiple of a multiple is one.
LEMMA MultipleTwice ==
  ASSUME NEW a \in Nat, NEW b \in Nat \ {0}, NEW c \in Nat \ {0}, a % b = 0, b % c = 0
  PROVE  a % c = 0
  <1>1. PICK j \in Nat : a = b * j
    BY Multiple, Division
  <1>2. PICK k \in Nat : b = c * k
    BY ZenonT(30), Multiple, Division
  <1>3. k * j \in Nat /\ a = c * (k * j)
    BY <1>1, <1>2
  <1> QED
    BY <1>3, Multiple

\* What the levels cover divides one another.
LEMMA CoversDivide ==
  \A k, l \in 1..4 : k <= l => Covers(l) % Covers(k) = 0
  <1>1. \A c \in Nat \ {0}, d \in Nat : d % c = 0 => (d * ENTRIES) % c = 0
    <2> SUFFICES ASSUME NEW c \in Nat \ {0}, NEW d \in Nat, d % c = 0
                 PROVE  (d * ENTRIES) % c = 0
      OBVIOUS
    <2>1. PICK j \in Nat : d = c * j
      BY Multiple, Division
    <2>2. j * ENTRIES \in Nat /\ d * ENTRIES = c * (j * ENTRIES)
      BY <2>1, PagerAssumption
    <2> QED
      BY <2>2, Multiple
  <1>2. \A l \in 1..4 : Covers(l) \in Nat \ {0} /\ Covers(l) % Covers(l) = 0
    <2>1. \A c \in Nat \ {0} : c % c = 0
      OBVIOUS
    <2> QED
      BY <2>1, CoversNext
  <1>3. /\ Covers(2) % Covers(1) = 0 /\ Covers(3) % Covers(2) = 0 /\ Covers(4) % Covers(3) = 0
    BY <1>1, <1>2, CoversIs
  <1>4. Covers(3) % Covers(1) = 0 /\ Covers(4) % Covers(2) = 0
    BY <1>1, <1>2, <1>3, CoversIs
  <1>5. Covers(4) % Covers(1) = 0
    BY <1>1, <1>2, <1>4, CoversIs
  <1>6. \A l \in 1..4 : l = 1 \/ l = 2 \/ l = 3 \/ l = 4
    OBVIOUS
  <1> QED
    BY <1>2, <1>3, <1>4, <1>5, <1>6

\* LeafLevel of what is left of a request, on a processor with these features.
LeafOf(d, f) ==
  IF d.attributes.only4k THEN 1
  ELSE IF "gib" \in f /\ d.size >= Covers(3) THEN 3
  ELSE IF d.size >= Covers(2) THEN 2
  ELSE 1

Large(d, f, l) ==
  ~ d.attributes.only4k /\ (l = 3 => "gib" \in f) /\ d.size >= Covers(l)

\* Where the page of an address begins, and the first page of a request.
PageOf(a) == a - (a % PAGE)
First(r)  == PageOf(r.virtual)

\* Requests whose pages are apart from each other and in the address space, and
\* which are aligned as the large pages they get.  They may begin in a page.
InOrder(as) ==
  \A r \in as :
    /\ First(r) + r.size <= SPACE /\ r.physical + r.size < SPACE
    /\ r.size % PAGE = 0 /\ Plain(r.attributes)
    /\ \A l \in {2, 3} :
         ~ r.attributes.only4k /\ r.size >= Covers(l) =>
           r.virtual % Covers(l) = 0 /\ r.physical % Covers(l) = 0
    /\ \A s \in as \ {r} : First(r) + r.size <= First(s) \/ First(s) + s.size <= First(r)

\* The page of an address begins at or below it, by less than a page.
LEMMA PageOfIs ==
  ASSUME NEW a \in Nat
  PROVE  /\ PageOf(a) \in Nat /\ PageOf(a) % PAGE = 0
         /\ PageOf(a) <= a /\ a < PageOf(a) + PAGE
         /\ \A n \in Nat : n % PAGE = 0 => PageOf(a + n) = PageOf(a) + n
  <1>1. PAGE \in Nat \ {0}
    BY PagerAssumption
  <1>2. \A c \in Nat \ {0} : \A b \in Nat : b % c \in 0..(c - 1) /\ b % c <= b
    OBVIOUS
  <1>3. PageOf(a) \in Nat /\ PageOf(a) <= a /\ a < PageOf(a) + PAGE
    BY <1>1, <1>2 DEF PageOf
  <1> DEFINE q == a \div PAGE
  <1>4. PageOf(a) = PAGE * q /\ q \in Nat
    BY <1>1, <1>3, Division DEF PageOf
  <1>5. PageOf(a) % PAGE = 0
    BY <1>1, <1>4, Multiple
  <1>6. ASSUME NEW n \in Nat, n % PAGE = 0
        PROVE  PageOf(a + n) = PageOf(a) + n
    <2> DEFINE k == n \div PAGE
    <2>1. n = PAGE * k /\ k \in Nat
      BY <1>1, <1>6, Multiple, Division
    <2>2. a % PAGE \in 0..(PAGE - 1) /\ a = PAGE * q + (a % PAGE)
      BY <1>1, Division
    <2> HIDE DEF q, k
    <2>3. a + n = PAGE * (q + k) + (a % PAGE) /\ q + k \in Nat /\ a + n \in Nat
      BY <1>1, <1>4, <2>1, <2>2
    <2>4. (a + n) % PAGE = a % PAGE
      BY <1>1, <2>2, <2>3, DivisionIs
    <2>5. a % PAGE \in Nat
      BY <2>2
    <2> QED
      BY <2>4, <2>5 DEF PageOf
  <1> QED
    BY <1>3, <1>5, <1>6

\* The first page of a request.
LEMMA FirstIs ==
  ASSUME NEW r \in Asking
  PROVE  /\ r.virtual \in Nat /\ r.physical \in Nat /\ r.size \in Nat
         /\ First(r) \in Nat /\ First(r) <= r.virtual /\ r.virtual < First(r) + PAGE
         /\ PageOf(r.physical) \in Nat
  <1>1. r.virtual \in Nat /\ r.physical \in Nat /\ r.size \in Nat
    BY DEF Asking, Addresses
  <1>2. /\ First(r) \in Nat /\ First(r) <= r.virtual /\ r.virtual < First(r) + PAGE
    BY <1>1, PageOfIs DEF First
  <1>3. PageOf(r.physical) \in Nat
    BY <1>1, PageOfIs
  <1> QED
    BY <1>1, <1>2, <1>3

\* An aligned address is the beginning of its page.
LEMMA PageOfAligned ==
  ASSUME NEW a \in Nat
  PROVE  /\ a % PAGE = 0 => PageOf(a) = a
         /\ \A l \in 1..4 : a % Covers(l) = 0 => a % PAGE = 0
  <1>1. a % PAGE = 0 => PageOf(a) = a
    BY DEF PageOf
  <1>2. ASSUME NEW l \in 1..4, a % Covers(l) = 0
        PROVE  a % PAGE = 0
    <2>1. 1 \in 1..4 /\ 1 <= l
      OBVIOUS
    <2>2. Covers(l) \in Nat \ {0} /\ PAGE \in Nat \ {0} /\ Covers(l) % PAGE = 0
      BY <2>1, CoversNext, CoversDivide, CoversIs, PagerAssumption
    <2> QED
      BY <1>2, <2>2, MultipleTwice
  <1> QED
    BY <1>1, <1>2

\* The page that is written for an address begins where the address's page does.
LEMMA LeafBlock ==
  ASSUME NEW v \in Addresses, NEW L \in 1..3, L > 1 => v % Covers(L) = 0
  PROVE  /\ PageOf(v) \in Addresses /\ PageOf(v) % Covers(L) = 0
         /\ Block(L, PageOf(v)) = Block(L, v)
  <1>1. v \in Nat /\ v < SPACE /\ SPACE \in Nat
    BY CoversNext DEF Addresses
  <1>2. PageOf(v) \in Addresses
    <2>1. PageOf(v) \in Nat /\ PageOf(v) <= v
      BY <1>1, PageOfIs
    <2> QED
      BY <1>1, <2>1 DEF Addresses
  <1>3. CASE L = 1
    <2>1. PageOf(v) % Covers(1) = 0 /\ PAGE \in Nat \ {0} /\ Covers(1) = PAGE /\ 1 \in 1..4
      BY <1>1, PageOfIs, CoversIs, PagerAssumption
    <2>2. PageOf(v) <= v /\ v < PageOf(v) + PAGE
      BY <1>1, PageOfIs
    <2>3. Block(1, v) = Block(1, PageOf(v))
      BY <1>2, <2>1, <2>2, AlignedBlock
    <2> QED
      BY <1>2, <1>3, <2>1, <2>3
  <1>4. CASE L # 1
    <2>1. L > 1 /\ L \in 1..4
      BY <1>4
    <2>2. v % PAGE = 0
      BY <1>1, <2>1, PageOfAligned
    <2>3. PageOf(v) = v
      BY <1>1, <2>2, PageOfAligned
    <2> QED
      BY <1>2, <2>1, <2>3
  <1> QED
    BY <1>3, <1>4

\* What is left of a request: its end, aligned as the pages it will get.
EndOf(r, d, f) ==
  /\ d.attributes = r.attributes /\ d.size <= r.size
  /\ d.size > 0 => /\ d.virtual = r.virtual + (r.size - d.size)
                   /\ d.physical = r.physical + (r.size - d.size)
  /\ d.size % PAGE = 0
  /\ \A l \in {2, 3} :
       Large(d, f, l) => d.virtual % Covers(l) = 0 /\ d.physical % Covers(l) = 0

\* At first all of a request is left.
LEMMA EndAtFirst ==
  ASSUME NEW as, InOrder(as), NEW r \in as, r \in Asking, NEW f
  PROVE  EndOf(r, r, f)
  <1>1. r.size \in Nat /\ r.virtual \in Nat /\ r.physical \in Nat
    BY DEF Asking, Addresses
  <1>2. r.size % PAGE = 0
    BY DEF InOrder
  <1>3. \A l \in {2, 3} : Large(r, f, l) => r.virtual % Covers(l) = 0 /\ r.physical % Covers(l) = 0
    BY DEF InOrder, Large
  <1> QED
    BY <1>1, <1>2, <1>3 DEF EndOf

\* The page that a round maps is aligned, and no larger one would be taken.
LEMMA LeafFits ==
  ASSUME NEW r, NEW f, NEW d \in Asking, EndOf(r, d, f), d.size # 0,
         NEW L, L = LeafOf(d, f)
  PROVE  /\ L \in 1..3 /\ Covers(L) <= d.size
         /\ L > 1 => d.virtual % Covers(L) = 0 /\ d.physical % Covers(L) = 0
         /\ \A l \in {2, 3} : l > L => ~ Large(d, f, l)
  <1>1. d.size \in Nat
    BY DEF Asking, Addresses
  <1>2. PAGE <= d.size
    <2>1. \A c \in Nat \ {0}, n \in Nat : n % c = 0 /\ n # 0 => c <= n
      OBVIOUS
    <2> QED
      BY <1>1, <2>1, PagerAssumption DEF EndOf
  <1>3. /\ Covers(1) = PAGE /\ Covers(2) \in Nat /\ Covers(3) \in Nat
        /\ Covers(2) <= Covers(3)
    BY CoversIs, CoversNext
  <1>4. CASE d.attributes.only4k
    BY <1>2, <1>3, <1>4 DEF LeafOf, EndOf, Large
  <1>5. CASE ~ d.attributes.only4k /\ "gib" \in f /\ d.size >= Covers(3)
    BY <1>1, <1>3, <1>5 DEF LeafOf, EndOf, Large
  <1>6. CASE /\ ~ d.attributes.only4k /\ ~ ("gib" \in f /\ d.size >= Covers(3))
             /\ d.size >= Covers(2)
    BY <1>1, <1>3, <1>6 DEF LeafOf, EndOf, Large
  <1>7. CASE /\ ~ d.attributes.only4k /\ ~ ("gib" \in f /\ d.size >= Covers(3))
             /\ ~ d.size >= Covers(2)
    BY <1>1, <1>2, <1>3, <1>7 DEF LeafOf, EndOf, Large
  <1> QED
    BY <1>4, <1>5, <1>6, <1>7

\* The next round has the rest of the request before it.
LEMMA EndAdvances ==
  ASSUME NEW as, InOrder(as), NEW r \in as, r \in Asking,
         NEW f, NEW d \in Asking, EndOf(r, d, f),
         d.size # 0, NEW L, L = LeafOf(d, f),
         NEW u, u.virtual = (d.virtual + Covers(L)) % SPACE,
         u.physical = (d.physical + Covers(L)) % SPACE,
         u.size = (d.size - Covers(L)) % SPACE, u.attributes = d.attributes
  PROVE  /\ EndOf(r, u, f)
         /\ d.virtual = r.virtual + (r.size - d.size)
         /\ d.physical = r.physical + (r.size - d.size)
         /\ PageOf(d.virtual) = First(r) + (r.size - d.size)
         /\ PageOf(d.physical) = PageOf(r.physical) + (r.size - d.size)
         /\ u.size = d.size - Covers(L) /\ Covers(L) <= d.size
         /\ u.physical = d.physical + Covers(L)
         /\ PageOf(d.virtual) + d.size <= SPACE
  <1> DEFINE c == Covers(L)
             n == r.size - d.size
  <1>1. /\ L \in 1..3 /\ c <= d.size
        /\ L > 1 => d.virtual % c = 0 /\ d.physical % c = 0
        /\ \A l \in {2, 3} : l > L => ~ Large(d, f, l)
    BY LeafFits
  <1>2. c \in Nat \ {0} /\ SPACE \in Nat \ {0} /\ L \in 1..4 /\ PAGE \in Nat \ {0}
    BY <1>1, CoversNext, PagerAssumption
  <1>3. /\ First(r) + r.size <= SPACE /\ r.physical + r.size < SPACE /\ r.size % PAGE = 0
    BY DEF InOrder
  <1>4. /\ r.virtual \in Nat /\ r.physical \in Nat /\ r.size \in Nat
        /\ d.virtual \in Nat /\ d.physical \in Nat /\ d.size \in Nat /\ d.size < SPACE
    BY <1>2 DEF Asking, Addresses
  <1>5. /\ d.attributes = r.attributes /\ d.size <= r.size
        /\ d.virtual = r.virtual + n /\ d.physical = r.physical + n
        /\ n \in Nat /\ d.size % PAGE = 0
    BY <1>4 DEF EndOf
  <1>6. n % PAGE = 0
    BY <1>2, <1>3, <1>4, <1>5, SumMultiple
  <1> HIDE DEF c, n
  <1>7. /\ PageOf(d.virtual) = First(r) + n /\ PageOf(d.physical) = PageOf(r.physical) + n
        /\ First(r) \in Nat
    <2>1. PageOf(r.virtual + n) = PageOf(r.virtual) + n
      BY <1>4, <1>5, <1>6, PageOfIs
    <2>2. PageOf(r.physical + n) = PageOf(r.physical) + n
      BY <1>4, <1>5, <1>6, PageOfIs
    <2> QED
      BY <1>5, <2>1, <2>2, FirstIs DEF First
  <1>8. PageOf(d.virtual) + d.size <= SPACE
    BY <1>2, <1>3, <1>4, <1>5, <1>7 DEF n
  <1>9. c % PAGE = 0
    <2>1. 1 \in 1..4 /\ 1 <= L
      BY <1>1
    <2> QED
      BY <1>2, <2>1, CoversDivide, CoversIs DEF c
  <1>10. \A k \in Nat : k < SPACE => k % SPACE = k
    BY <1>2
  <1>11. u.size = d.size - c
    BY <1>1, <1>2, <1>4, <1>10 DEF c
  <1>12. u.physical = d.physical + c
    <2>1. d.physical + c \in Nat /\ d.physical + c < SPACE
      BY <1>1, <1>2, <1>3, <1>4, <1>5 DEF n
    <2> QED
      BY <1>10, <2>1 DEF c
  <1>13. u.size \in Nat /\ u.size % PAGE = 0
    BY <1>1, <1>2, <1>4, <1>5, <1>9, <1>11, SumMultiple
  <1>14. u.size > 0 => u.virtual = d.virtual + c
    <2> SUFFICES ASSUME u.size > 0 PROVE u.virtual = d.virtual + c
      OBVIOUS
    <2>1. PAGE <= u.size
      <3>1. \A p \in Nat \ {0}, k \in Nat : k % p = 0 /\ k # 0 => p <= k
        OBVIOUS
      <3> QED
        BY <1>2, <1>13, <3>1
    <2>2. d.virtual < PageOf(d.virtual) + PAGE /\ PageOf(d.virtual) \in Nat
      BY <1>4, PageOfIs
    <2>3. d.virtual + c \in Nat /\ d.virtual + c < SPACE
      BY <1>2, <1>4, <1>8, <1>11, <2>1, <2>2
    <2> QED
      BY <1>10, <2>3 DEF c
  <1>15. u.size > 0 => /\ u.virtual = r.virtual + (r.size - u.size)
                       /\ u.physical = r.physical + (r.size - u.size)
    BY <1>2, <1>4, <1>5, <1>11, <1>12, <1>14 DEF n
  <1>16. ASSUME NEW l \in {2, 3}, Large(u, f, l)
         PROVE  u.virtual % Covers(l) = 0 /\ u.physical % Covers(l) = 0
    <2>1. Covers(l) \in Nat \ {0} /\ u.size > 0
      <3>1. Covers(l) \in Nat \ {0}
        BY CoversNext
      <3> QED
        BY <1>13, <1>16, <3>1 DEF Large
    <2>2. Large(d, f, l)
      <3>1. d.size >= Covers(l)
        BY <1>2, <1>4, <1>11, <1>13, <1>16, <2>1 DEF Large
      <3> QED
        BY <1>5, <1>16, <3>1 DEF Large
    <2>3. ~ (l > L) /\ L > 1
      BY <1>1, <2>2
    <2>4. c % Covers(l) = 0
      <3>1. l \in 1..4 /\ l <= L
        BY <1>1, <2>3
      <3> QED
        BY <1>2, <3>1, CoversDivide DEF c
    <2>5. d.virtual % c = 0 /\ d.physical % c = 0
      BY <1>1, <2>3 DEF c
    <2>6. d.virtual % Covers(l) = 0 /\ d.physical % Covers(l) = 0
      BY <1>2, <1>4, <2>1, <2>4, <2>5, MultipleTwice
    <2>7. (d.virtual + c) % Covers(l) = 0
      BY <1>2, <1>4, <2>1, <2>4, <2>6, SumMultiple
    <2>8. (d.physical + c) % Covers(l) = 0
      BY <1>2, <1>4, <2>1, <2>4, <2>6, SumMultiple
    <2> QED
      BY <1>12, <1>14, <2>1, <2>7, <2>8
  <1>17. u.size <= r.size
    BY <1>2, <1>4, <1>5, <1>11
  <1>18. EndOf(r, u, f)
    BY <1>5, <1>13, <1>15, <1>16, <1>17 DEF EndOf
  <1> QED
    BY <1>1, <1>5, <1>7, <1>8, <1>11, <1>12, <1>18 DEF c, n

-----------------------------------------------------------------------------
(* What is mapped, and by whom                                             *)

In(r, a) == First(r) <= a /\ a < First(r) + r.size

\* The requests as but r are over, and the first n bytes of r are.
DoneBy(as, r, n, a) ==
  (\E q \in as \ {r} : In(q, a)) \/ (First(r) <= a /\ a < First(r) + n)

\* What a request asks for at an address, and whether w is it: of a request
\* whose memory begins in a page only where, as the low bits become flags.
Target(r, a, f) ==
  [to |-> PageOf(r.physical) + (a - First(r)), rights |-> Wanted(r.attributes, f)]

Hits(w, r, a, f) ==
  IF r.physical % PAGE = 0 THEN w = Target(r, a, f) ELSE w.to = Target(r, a, f).to

\* Only what is done is mapped; every table was made for an address that is
\* done, or for v, at which the walk has come down to level k.
OnlyDone(ts, as, r, n) ==
  \A a \in Addresses : WalkIn(ts, a) # Unmapped => DoneBy(as, r, n, a)
Roads(ts, as, r, n, v, k) ==
  \A a \in Addresses, l \in 1..3 : Reaches(ts, l, a) =>
    \E b \in Addresses : /\ Block(l + 1, b) = Block(l + 1, a)
                         /\ DoneBy(as, r, n, b) \/ (b = v /\ l >= k)

Serves(ts, sv, f) ==
  \A q \in sv, a \in Addresses : In(q, a) => Hits(WalkIn(ts, a), q, a, f)
MappedSoFar(ts, r, n, f) ==
  \A a \in Addresses : First(r) <= a /\ a < First(r) + n => Hits(WalkIn(ts, a), r, a, f)

\* What is left of a request is nobody's.
LEMMA Fresh ==
  ASSUME NEW as, InOrder(as), as \subseteq Asking, NEW r \in as, NEW f,
         NEW d \in Asking, EndOf(r, d, f), d.size # 0, NEW a \in Addresses,
         PageOf(d.virtual) <= a, a < PageOf(d.virtual) + d.size
  PROVE  /\ ~ DoneBy(as, r, r.size - d.size, a)
         /\ In(r, a) /\ \A q \in as \ {r} : ~ In(q, a)
  <1>1. /\ r \in Asking
    OBVIOUS
  <1>2. /\ r.virtual \in Nat /\ r.size \in Nat /\ d.virtual \in Nat /\ d.size \in Nat /\ a \in Nat
    BY <1>1 DEF Asking, Addresses
  <1>3. d.virtual = r.virtual + (r.size - d.size) /\ d.size <= r.size
        /\ d.size % PAGE = 0 /\ r.size % PAGE = 0
    <2>1. d.size > 0
      BY <1>2
    <2>2. d.virtual = r.virtual + (r.size - d.size) /\ d.size <= r.size /\ d.size % PAGE = 0
      BY <2>1 DEF EndOf
    <2>3. r.size % PAGE = 0
      BY DEF InOrder
    <2> QED
      BY <2>2, <2>3
  <1> DEFINE n == r.size - d.size
  <1>4. n \in Nat /\ n % PAGE = 0
    BY <1>2, <1>3, PagerAssumption, SumMultiple
  <1> HIDE DEF n
  <1>5. PageOf(d.virtual) = First(r) + n /\ First(r) \in Nat
    <2>1. d.virtual = r.virtual + n
      BY <1>3 DEF n
    <2> QED
      BY <1>2, <1>4, <2>1, PageOfIs DEF First
  <1>6. In(r, a)
    BY <1>2, <1>4, <1>5 DEF In, n
  <1>7. ASSUME NEW q \in as \ {r} PROVE ~ In(q, a)
    <2>1. First(r) + r.size <= First(q) \/ First(q) + q.size <= First(r)
      BY DEF InOrder
    <2>2. q \in Asking
      OBVIOUS
    <2>3. First(q) \in Nat /\ q.size \in Nat
      <3>1. q.virtual \in Nat /\ q.size \in Nat
        BY <2>2 DEF Asking, Addresses
      <3> QED
        BY <3>1, PageOfIs DEF First
    <2>4. First(r) <= a /\ a < First(r) + r.size
      BY <1>6 DEF In
    <2>5. ~ (First(q) <= a /\ a < First(q) + q.size)
      BY <1>2, <1>5, <2>1, <2>3, <2>4
    <2> QED
      BY <2>5 DEF In
  <1>8. ~ (a < First(r) + n)
    BY <1>2, <1>4, <1>5
  <1> QED
    BY <1>6, <1>7, <1>8 DEF DoneBy, n

\* A page that is not done for any request is not mapped.
LEMMA NoPageYet ==
  ASSUME NEW ts, Sound(ts), NEW as, NEW r, NEW n, OnlyDone(ts, as, r, n),
         NEW l \in 1..4, NEW v \in Addresses, Reaches(ts, l, v), ~ DoneBy(as, r, n, v)
  PROVE  Slot(ts, l, v).kind # "page"
  <1> SUFFICES ASSUME Slot(ts, l, v).kind = "page" PROVE FALSE
    OBVIOUS
  <1>1. PICK lev, blk : Tree(ts, lev, blk)
    BY DEF Sound
  <1>2. Ends(ts, l, v) /\ OpenTables(ts)
    BY DEF Ends, Sound
  <1>3. WalkIn(ts, v) = Found(Slot(ts, l, v), l, v)
    BY <1>1, <1>2, WalkEnds
  <1> DEFINE e == Slot(ts, l, v)
  <1>4. e \in EntryType /\ e.kind = "page"
    BY <1>1, Reached
  <1> HIDE DEF e
  <1>5. Found(e, l, v).to = e.to + (v % Covers(l))
    BY <1>4 DEF Found
  <1>6. e.to \in Nat /\ v % Covers(l) \in Nat
    BY <1>4, CoversNext DEF EntryType, Addresses
  <1>7. Found(e, l, v).to # -1
    BY <1>5, <1>6
  <1>8. WalkIn(ts, v) # Unmapped
    BY <1>3, <1>7 DEF Unmapped, e
  <1> QED
    BY <1>8 DEF OnlyDone

\* The block of a large page that is next has no table: all roads lead elsewhere.
LEMMA NoTableYet ==
  ASSUME NEW ts, Sound(ts), NEW as, NEW r, NEW n, NEW k, NEW L \in 1..3, NEW v \in Addresses,
         Roads(ts, as, r, n, v, k), k = L, v % Covers(L) = 0, Reaches(ts, L, v),
         \A b \in Addresses : v <= b /\ b < v + Covers(L) => ~ DoneBy(as, r, n, b)
  PROVE  Slot(ts, L, v).kind # "table"
  <1> SUFFICES ASSUME Slot(ts, L, v).kind = "table" PROVE FALSE
    OBVIOUS
  <1>1. PICK lev, blk : Tree(ts, lev, blk)
    BY DEF Sound
  <1>2. L \in 1..4
    OBVIOUS
  <1>3. L >= 2
    BY <1>1, <1>2, Reached
  <1>4. L - 1 \in 1..3 /\ (L - 1) + 1 = L /\ ~ (L - 1 >= L)
    BY <1>3
  <1>5. Reaches(ts, L - 1, v)
    BY <1>4, ReachesNext
  <1>6. PICK b \in Addresses : Block(L, b) = Block(L, v) /\ DoneBy(as, r, n, b)
    <2>1. \E b \in Addresses : /\ Block((L - 1) + 1, b) = Block((L - 1) + 1, v)
                               /\ DoneBy(as, r, n, b) \/ (b = v /\ L - 1 >= k)
      BY <1>4, <1>5 DEF Roads
    <2> QED
      BY <1>4, <2>1
  <1>7. v <= b /\ b < v + Covers(L)
    BY <1>2, <1>6, AlignedBlock
  <1> QED
    BY <1>6, <1>7

\* A round of request r, of which d is left, is at the entry it writes.
Writes(as, r, f, d, L, ts, n, sv) ==
  /\ InOrder(as) /\ as \subseteq Asking /\ r \in as
  /\ d \in Asking /\ EndOf(r, d, f) /\ d.size # 0 /\ L = LeafOf(d, f)
  /\ Sound(ts) /\ Reaches(ts, L, d.virtual) /\ n = r.size - d.size
  /\ Roads(ts, as, r, n, d.virtual, L) /\ OnlyDone(ts, as, r, n)
  /\ sv \subseteq as \ {r} /\ Serves(ts, sv, f) /\ MappedSoFar(ts, r, n, f)

\* What a request has where its memory does not begin on a page: the address.
LEMMA LeafHits ==
  ASSUME NEW r, NEW f, NEW d \in Asking, r.physical \in Nat,
         d.attributes = r.attributes, r.attributes.pat = 0,
         NEW n \in Nat, n % PAGE = 0, d.physical = r.physical + n,
         NEW L \in 1..3, L > 1 => d.physical % Covers(L) = 0,
         NEW a \in Nat, NEW k \in Nat, a % Covers(L) = k, k + n = a - First(r),
         NEW e, e = PageAt(d.physical, L, GetEntryBits(L, L, d.attributes, f))
  PROVE  Hits(Found(e, L, a), r, a, f)
  <1>1. /\ d.physical \in Addresses /\ d.attributes \in Attributes
        /\ PAGE \in Nat \ {0} /\ Covers(1) = PAGE
    BY Asked, PagerAssumption, CoversIs
  <1>2. PageOf(d.physical) = PageOf(r.physical) + n
    <2>1. PageOf(r.physical + n) = PageOf(r.physical) + n
      BY PageOfIs
    <2> QED
      BY <2>1
  <1>3. e.to = PageOf(d.physical) /\ e.kind = "page"
    BY DEF PageAt, PageOf
  <1>4. Target(r, a, f).to = PageOf(r.physical) + (a - First(r))
    BY DEF Target
  <1>5. Found(e, L, a).to = Target(r, a, f).to
    <2>1. Found(e, L, a).to = e.to + k
      BY <1>3 DEF Found
    <2>2. PageOf(r.physical) \in Nat
      BY PageOfIs
    <2> QED
      BY <1>2, <1>3, <1>4, <2>1, <2>2
  <1>6. CASE r.physical % PAGE = 0
    <2>1. d.physical % PAGE = 0
      BY <1>1, <1>6, SumMultiple
    <2>2. d.physical % Covers(L) = 0
      BY <1>1, <2>1
    <2>3. Found(e, L, a) = [to |-> d.physical + (a % Covers(L)), rights |-> Wanted(d.attributes, f)]
      BY <1>1, <2>2, LeafFound
    <2>4. Found(e, L, a) = [to |-> Found(e, L, a).to, rights |-> Wanted(r.attributes, f)]
      BY <2>3
    <2> HIDE DEF First, PageOf
    <2>5. Found(e, L, a) = Target(r, a, f)
      BY <1>4, <1>5, <2>4 DEF Target
    <2> QED
      BY <1>6, <2>5 DEF Hits
  <1>7. CASE r.physical % PAGE # 0
    BY <1>5, <1>7 DEF Hits
  <1> QED
    BY <1>6, <1>7

\* A page that a request gets is where nothing was, and is what it asked for.
LEMMA PageDone ==
  ASSUME NEW as, NEW r, NEW f, NEW d, NEW L, NEW ts, NEW n, NEW sv,
         Writes(as, r, f, d, L, ts, n, sv), NEW us, Puts(ts, ts, us, L, d.virtual,
                      PageAt(d.physical, L, GetEntryBits(L, L, d.attributes, f))),
         NEW m, m = n + Covers(L), NEW w
  PROVE  /\ Sound(us) /\ Roads(us, as, r, m, w, 4) /\ OnlyDone(us, as, r, m)
         /\ Serves(us, sv, f) /\ MappedSoFar(us, r, m, f)
         /\ \A a \in Addresses :
              IF PageOf(d.virtual) <= a /\ a < PageOf(d.virtual) + Covers(L)
              THEN Hits(WalkIn(us, a), r, a, f) ELSE WalkIn(us, a) = WalkIn(ts, a)
  <1> /\ InOrder(as) /\ as \subseteq Asking /\ r \in as
      /\ d \in Asking /\ EndOf(r, d, f) /\ d.size # 0 /\ L = LeafOf(d, f)
      /\ Sound(ts) /\ Reaches(ts, L, d.virtual) /\ n = r.size - d.size
      /\ Roads(ts, as, r, n, d.virtual, L) /\ OnlyDone(ts, as, r, n)
      /\ sv \subseteq as \ {r} /\ Serves(ts, sv, f) /\ MappedSoFar(ts, r, n, f)
    BY DEF Writes
  <1> DEFINE v == d.virtual
             p == PageOf(d.virtual)
             c == Covers(L)
             e == PageAt(d.physical, L, GetEntryBits(L, L, d.attributes, f))
  <1>1. /\ L \in 1..3 /\ L \in 1..4 /\ c <= d.size /\ c \in Nat \ {0}
        /\ L > 1 => v % c = 0 /\ d.physical % c = 0
    <2>1. L \in 1..3 /\ c <= d.size /\ (L > 1 => v % c = 0 /\ d.physical % c = 0)
      BY LeafFits
    <2>2. L \in 1..4
      BY <2>1
    <2> QED
      BY <2>1, <2>2, CoversNext
  <1>2. /\ v \in Addresses /\ d.physical \in Addresses /\ d.attributes \in Attributes
        /\ d.size \in Nat /\ r \in Asking
    <2>1. d.size \in Nat
      BY Asked DEF Addresses
    <2> QED
      BY <2>1, Asked
  <1>3. /\ v \in Nat /\ r.virtual \in Nat /\ r.physical \in Nat /\ r.size \in Nat
        /\ d.physical \in Nat /\ First(r) \in Nat
    <2>1. /\ v \in Nat /\ r.virtual \in Nat /\ r.physical \in Nat /\ r.size \in Nat
          /\ d.physical \in Nat
      BY <1>2 DEF Asking, Addresses
    <2> QED
      BY <2>1, PageOfIs DEF First
  <1>4. /\ d.attributes = r.attributes /\ d.size <= r.size
        /\ v = r.virtual + n /\ d.physical = r.physical + n /\ n \in Nat
    BY <1>2, <1>3 DEF EndOf
  <1>5. r.attributes.pat = 0
    BY <1>4 DEF InOrder, Plain
  <1>6. n % PAGE = 0
    <2>1. d.size % PAGE = 0 /\ r.size % PAGE = 0 /\ PAGE \in Nat \ {0}
      BY PagerAssumption DEF EndOf, InOrder
    <2> QED
      BY <1>2, <1>3, <1>4, <2>1, SumMultiple
  <1>7. p = First(r) + n /\ p \in Addresses /\ p % c = 0 /\ Block(L, p) = Block(L, v)
    <2>1. p \in Addresses /\ p % c = 0 /\ Block(L, p) = Block(L, v)
      BY <1>1, <1>2, LeafBlock
    <2>2. PageOf(r.virtual + n) = PageOf(r.virtual) + n
      BY <1>3, <1>4, <1>6, PageOfIs
    <2>3. p = First(r) + n
      BY <1>4, <2>2 DEF First
    <2> QED
      BY <2>1, <2>3
  <1>8. /\ e \in EntryType /\ e.kind = "page" /\ e.to % c = 0
    <2>1. e \in EntryType /\ e.kind = "page"
      BY <1>2, PageEntry, FlagsInEntry
    <2>2. e.to = PageOf(d.physical)
      BY DEF PageAt, PageOf
    <2> HIDE DEF e
    <2> QED
      BY <1>1, <1>2, <2>1, <2>2, LeafBlock
  <1>9. \A a \in Addresses : p <= a /\ a < p + c =>
          ~ DoneBy(as, r, n, a) /\ In(r, a) /\ \A q \in as \ {r} : ~ In(q, a)
    <2> SUFFICES ASSUME NEW a \in Addresses, p <= a, a < p + c
                 PROVE  ~ DoneBy(as, r, n, a) /\ In(r, a) /\ \A q \in as \ {r} : ~ In(q, a)
      OBVIOUS
    <2>1. a < p + d.size
      BY <1>1, <1>2, <1>7 DEF Addresses
    <2> QED
      BY <2>1, Fresh
  <1> HIDE DEF e, c, p, v
  <1>10. p <= p /\ p < p + c /\ p \in Nat
    BY <1>1, <1>7 DEF Addresses
  <1>11. Reaches(ts, L, p) /\ Slot(ts, L, p) = Slot(ts, L, v) /\ Above(L, p) = Above(L, v)
    <2>1. Above(L, p) = Above(L, v)
      BY <1>1, <1>2, <1>7, SameBlock
    <2>2. Reaches(ts, L, v)
      BY DEF v
    <2>3. Reaches(ts, L, p) <=> Reaches(ts, L, v)
      BY <1>1, <1>2, <1>7, <2>1, SameWay
    <2>4. Slot(ts, L, p) = Slot(ts, L, v)
      BY <1>1, <1>2, <1>7, SameWay
    <2> QED
      BY <2>1, <2>2, <2>3, <2>4
  <1>12. Roads(ts, as, r, n, p, L)
    <2> SUFFICES ASSUME NEW a \in Addresses, NEW l \in 1..3, Reaches(ts, l, a)
                 PROVE  \E b \in Addresses : /\ Block(l + 1, b) = Block(l + 1, a)
                                             /\ DoneBy(as, r, n, b) \/ (b = p /\ l >= L)
      BY DEF Roads
    <2>1. PICK b \in Addresses : /\ Block(l + 1, b) = Block(l + 1, a)
                                 /\ DoneBy(as, r, n, b) \/ (b = v /\ l >= L)
      BY DEF Roads, v
    <2>2. CASE b = v /\ l >= L
      <3>1. L <= l + 1 /\ l + 1 \in 1..4
        BY <1>1, <2>2
      <3>2. Block(l + 1, p) = Block(l + 1, v)
        BY <1>1, <1>2, <1>7, <3>1, SameAbove
      <3> QED
        BY <1>7, <2>1, <2>2, <3>2
    <2> QED
      BY <2>1, <2>2
  <1>13. Slot(ts, L, v).kind = "none"
    <2>1. ~ DoneBy(as, r, n, p)
      BY <1>7, <1>9, <1>10
    <2>2. Slot(ts, L, p).kind # "page"
      BY <1>1, <1>7, <1>11, <2>1, NoPageYet
    <2>3. Slot(ts, L, p).kind # "table"
      <3>1. \A b \in Addresses : p <= b /\ b < p + Covers(L) => ~ DoneBy(as, r, n, b)
        BY <1>9 DEF c
      <3>2. p % Covers(L) = 0 /\ L \in 1..3 /\ p \in Addresses /\ Reaches(ts, L, p)
        BY <1>1, <1>7, <1>11 DEF c
      <3> QED
        BY <1>12, <3>1, <3>2, NoTableYet
    <2>4. Slot(ts, L, p) \in EntryType
      <3>1. PICK lev, blk : Tree(ts, lev, blk)
        BY DEF Sound
      <3> QED
        BY <1>1, <1>7, <1>11, <3>1, Reached
    <2> QED
      BY <1>11, <2>2, <2>3, <2>4 DEF EntryType
  <1>14. /\ Sound(us)
         /\ \A a \in Addresses :
              /\ WalkIn(us, a) = IF Block(L, a) = Block(L, v) THEN Found(e, L, a)
                                 ELSE WalkIn(ts, a)
              /\ \A k \in 1..4 : Reaches(us, k, a) => Reaches(ts, k, a)
    <2>1. Puts(ts, ts, us, L, v, e)
      BY DEF e, v
    <2>2. e.to % Covers(L) = 0
      BY <1>8 DEF c
    <2>3. Sound(ts) /\ Reaches(ts, L, v) /\ Slot(ts, L, v).kind = "none"
      BY <1>13 DEF v
    <2>4. L \in 1..3 /\ v \in Addresses /\ e \in EntryType /\ e.kind = "page"
      BY <1>1, <1>2, <1>8
    <2> QED
      BY <2>1, <2>2, <2>3, <2>4, SoundWithPage
  <1>15. ASSUME NEW a \in Addresses
         PROVE  IF p <= a /\ a < p + c THEN Hits(WalkIn(us, a), r, a, f)
                ELSE WalkIn(us, a) = WalkIn(ts, a)
    <2>1. /\ Block(L, a) = Block(L, v) <=> (p <= a /\ a < p + c)
          /\ Block(L, a) = Block(L, v) => a % c = a - p
      BY <1>1, <1>7, AlignedBlock DEF c
    <2>2. CASE p <= a /\ a < p + c
      <3>1. WalkIn(us, a) = Found(e, L, a)
        BY <1>14, <2>1, <2>2
      <3>2. a \in Nat
        BY DEF Addresses
      <3> DEFINE k == a - p
      <3>3. k \in Nat /\ a % Covers(L) = k /\ k + n = a - First(r)
        <4>1. k \in Nat /\ k + n = a - First(r)
          BY <1>3, <1>4, <1>7, <1>10, <2>2, <3>2
        <4> QED
          BY <2>1, <2>2, <4>1 DEF c
      <3> HIDE DEF k
      <3>4. L > 1 => d.physical % Covers(L) = 0
        BY <1>1 DEF c
      <3>5. e = PageAt(d.physical, L, GetEntryBits(L, L, d.attributes, f))
        BY DEF e
      <3>6. Hits(Found(e, L, a), r, a, f)
        BY <1>1, <1>3, <1>4, <1>5, <1>6, <3>2, <3>3, <3>4, <3>5, LeafHits
      <3> QED
        BY <2>2, <3>1, <3>6
    <2>3. CASE ~ (p <= a /\ a < p + c)
      BY <1>14, <2>1, <2>3
    <2> QED
      BY <2>2, <2>3
  <1>16. \A a \in Addresses : /\ DoneBy(as, r, n, a) => DoneBy(as, r, m, a)
                              /\ p <= a /\ a < p + c => DoneBy(as, r, m, a)
    <2> SUFFICES ASSUME NEW a \in Addresses
                 PROVE  /\ First(r) <= a /\ a < First(r) + n => a < First(r) + m
                        /\ p <= a /\ a < p + c => First(r) <= a /\ a < First(r) + m
      BY DEF DoneBy
    <2>1. a \in Nat /\ m = n + c
      BY DEF Addresses, c
    <2> QED
      BY <1>1, <1>3, <1>4, <1>7, <2>1
  <1>17. Roads(us, as, r, m, w, 4)
    <2> SUFFICES ASSUME NEW a \in Addresses, NEW l \in 1..3, Reaches(us, l, a)
                 PROVE  \E b \in Addresses : Block(l + 1, b) = Block(l + 1, a) /\ DoneBy(as, r, m, b)
      BY DEF Roads
    <2>1. Reaches(ts, l, a)
      <3>1. l \in 1..4
        OBVIOUS
      <3> QED
        BY <1>14, <3>1
    <2>2. PICK b \in Addresses : /\ Block(l + 1, b) = Block(l + 1, a)
                                 /\ DoneBy(as, r, n, b) \/ (b = p /\ l >= L)
      BY <1>12, <2>1 DEF Roads
    <2>3. DoneBy(as, r, m, p)
      BY <1>7, <1>10, <1>16
    <2> QED
      BY <1>16, <2>2, <2>3
  <1>18. OnlyDone(us, as, r, m)
    <2> SUFFICES ASSUME NEW a \in Addresses, WalkIn(us, a) # Unmapped
                 PROVE  DoneBy(as, r, m, a)
      BY DEF OnlyDone
    <2>1. CASE p <= a /\ a < p + c
      BY <1>16, <2>1
    <2>2. CASE ~ (p <= a /\ a < p + c)
      <3>1. WalkIn(ts, a) # Unmapped
        BY <1>15, <2>2
      <3> QED
        BY <1>16, <3>1 DEF OnlyDone
    <2> QED
      BY <2>1, <2>2
  <1>19. Serves(us, sv, f)
    <2> SUFFICES ASSUME NEW q \in sv, NEW a \in Addresses, In(q, a)
                 PROVE  Hits(WalkIn(us, a), q, a, f)
      BY DEF Serves
    <2>1. ~ (p <= a /\ a < p + c)
      BY <1>9
    <2>2. WalkIn(us, a) = WalkIn(ts, a)
      BY <1>15, <2>1
    <2> QED
      BY <2>2 DEF Serves
  <1>20. MappedSoFar(us, r, m, f)
    <2> SUFFICES ASSUME NEW a \in Addresses, First(r) <= a, a < First(r) + m
                 PROVE  Hits(WalkIn(us, a), r, a, f)
      BY DEF MappedSoFar
    <2>1. CASE p <= a /\ a < p + c
      BY <1>15, <2>1
    <2>2. CASE ~ (p <= a /\ a < p + c)
      <3>1. a < First(r) + n
        <4>1. a \in Nat /\ m = n + c
          BY DEF Addresses, c
        <4> QED
          BY <1>1, <1>3, <1>4, <1>7, <2>2, <4>1
      <3>2. WalkIn(us, a) = WalkIn(ts, a)
        BY <1>15, <2>2
      <3> QED
        BY <3>1, <3>2 DEF MappedSoFar
    <2> QED
      BY <2>1, <2>2
  <1> QED
    BY <1>14, <1>15, <1>17, <1>18, <1>19, <1>20 DEF c, p

\* A new table on the way of a request leaves what is mapped.
LEMMA TableDone ==
  ASSUME NEW ts, Sound(ts), NEW L \in 2..4, NEW v \in Addresses, Reaches(ts, L, v),
         Slot(ts, L, v).kind = "none",
         NEW e \in EntryType, e.kind = "table",
         USER \in e.bits, WRITE \in e.bits, NO_EXEC \notin e.bits,
         NEW ss, OneMore(ts, ss, e.to), NEW us, Puts(ts, ss, us, L, v, e),
         NEW as, NEW r, NEW n, Roads(ts, as, r, n, v, L), OnlyDone(ts, as, r, n),
         NEW sv, NEW f, Serves(ts, sv, f), MappedSoFar(ts, r, n, f)
  PROVE  /\ Sound(us) /\ Roads(us, as, r, n, v, L - 1) /\ OnlyDone(us, as, r, n)
         /\ Serves(us, sv, f) /\ MappedSoFar(us, r, n, f)
         /\ \A a \in Addresses : WalkIn(us, a) = WalkIn(ts, a)
         /\ Reaches(us, L - 1, v) /\ Node(us, L - 1, v) = e.to
  <1>2. /\ Sound(us)
        /\ \A a \in Addresses :
             /\ WalkIn(us, a) = WalkIn(ts, a)
             /\ \A k \in 1..4 : Reaches(us, k, a) =>
                  Reaches(ts, k, a) \/ (k = L - 1 /\ Block(L, a) = Block(L, v))
        /\ Reaches(us, L - 1, v) /\ Node(us, L - 1, v) = e.to
    BY SoundWithTable
  <1>3. Roads(us, as, r, n, v, L - 1)
    <2> SUFFICES ASSUME NEW a \in Addresses, NEW l \in 1..3, Reaches(us, l, a)
                 PROVE  \E b \in Addresses : /\ Block(l + 1, b) = Block(l + 1, a)
                                             /\ DoneBy(as, r, n, b) \/ (b = v /\ l >= L - 1)
      BY DEF Roads
    <2>1. l \in 1..4
      OBVIOUS
    <2>2. Reaches(ts, l, a) \/ (l = L - 1 /\ Block(L, a) = Block(L, v))
      BY <1>2, <2>1
    <2>3. CASE Reaches(ts, l, a)
      <3>1. PICK b \in Addresses : /\ Block(l + 1, b) = Block(l + 1, a)
                                   /\ DoneBy(as, r, n, b) \/ (b = v /\ l >= L)
        BY <2>3 DEF Roads
      <3>2. l >= L => l >= L - 1
        OBVIOUS
      <3> QED
        BY <3>1, <3>2
    <2>4. CASE l = L - 1 /\ Block(L, a) = Block(L, v)
      <3>1. l + 1 = L /\ l >= L - 1
        BY <2>4
      <3> QED
        BY <2>4, <3>1
    <2> QED
      BY <2>2, <2>3, <2>4
  <1>4. OnlyDone(us, as, r, n)
    BY <1>2 DEF OnlyDone
  <1>5. Serves(us, sv, f)
    BY <1>2 DEF Serves
  <1>6. MappedSoFar(us, r, n, f)
    BY <1>2 DEF MappedSoFar
  <1> QED
    BY <1>2, <1>3, <1>4, <1>5, <1>6

-----------------------------------------------------------------------------
(* The inductive invariant                                                 *)

\* How many bytes of the request at hand are over, all if it is no more.
Gone == IF status = "mapping" THEN request.size - todo.size ELSE request.size

\* The level down to which tables may have been made for todo.virtual alone.
Down == IF status = "mapping" /\ level > 0 THEN level ELSE 4

\* The tables are sound, made and filled for the requests so far and nothing
\* else, and what was asked for is mapped.
TablesInv ==
  status \in {"idle", "mapping"} =>
    /\ Sound(tables)
    /\ Roads(tables, asked, request, Gone, todo.virtual, Down)
    /\ OnlyDone(tables, asked, request, Gone)
    /\ Serves(tables, served, features)

\* pager_map() has the end of the request before it, and what lies before the
\* end is mapped.
RequestInv ==
  IF status = "mapping"
  THEN /\ request \notin served
       /\ EndOf(request, todo, features)
       /\ MappedSoFar(tables, request, Gone, features)
  ELSE request \in asked \/ request.size = 0

\* The walk is on the way to the address it maps next.
WalkInv ==
  status = "mapping" /\ level > 0 =>
    /\ todo.size # 0 /\ leaf = LeafOf(todo, features)
    /\ Reaches(tables, level, todo.virtual) /\ table = Node(tables, level, todo.virtual)

IInv ==
  /\ TypeInv /\ InOrder(asked) /\ TablesInv /\ RequestInv /\ WalkInv
  /\ status # "wild" /\ (status \in {"off", "hung"} => asked = {} /\ DOMAIN tables = {})

\* What the parts of the invariant say while a request is mapped.
LEMMA WhileMapping ==
  ASSUME IInv, status = "mapping"
  PROVE  /\ request \in asked /\ InOrder(asked) /\ asked \subseteq Asking
         /\ served \subseteq asked \ {request}
         /\ request \in Asking /\ todo \in Asking /\ todo.virtual \in Addresses
         /\ Plain(todo.attributes)
         /\ EndOf(request, todo, features)
         /\ Gone = request.size - todo.size
         /\ Sound(tables) /\ Roads(tables, asked, request, Gone, todo.virtual, Down)
         /\ OnlyDone(tables, asked, request, Gone) /\ Serves(tables, served, features)
         /\ MappedSoFar(tables, request, Gone, features)
         /\ level \in 0..4 /\ leaf \in 1..3
  <1>1. RestOK /\ request \in asked /\ InOrder(asked)
    BY DEF IInv, TypeInv
  <1>2. asked \subseteq Asking /\ served \subseteq asked \ {request} /\ todo \in Asking
    BY <1>1 DEF RestOK, IInv, RequestInv
  <1>3. Sound(tables) /\ Roads(tables, asked, request, Gone, todo.virtual, Down)
         /\ OnlyDone(tables, asked, request, Gone) /\ Serves(tables, served, features)
    BY DEF IInv, TablesInv
  <1>4. EndOf(request, todo, features) /\ MappedSoFar(tables, request, Gone, features)
    BY DEF IInv, RequestInv
  <1>5. request \in Asking /\ todo.virtual \in Addresses
    BY <1>1, <1>2, Asked
  <1>6. Plain(todo.attributes)
    BY <1>1, <1>4 DEF InOrder, EndOf
  <1>7. Gone = request.size - todo.size
    BY DEF Gone
  <1>8. level \in 0..4 /\ leaf \in 1..3
    BY <1>1 DEF RestOK
  <1> QED
    BY <1>1, <1>2, <1>3, <1>4, <1>5, <1>6, <1>7, <1>8

\* And while it walks.
LEMMA Walked ==
  ASSUME IInv, status = "mapping", level > 0
  PROVE  /\ level \in 1..4 /\ leaf <= level
         /\ todo.size # 0 /\ todo.size \in Nat /\ leaf = LeafOf(todo, features)
         /\ Reaches(tables, level, todo.virtual) /\ table = Node(tables, level, todo.virtual)
         /\ Here = Slot(tables, level, todo.virtual) /\ Here \in EntryType
         /\ Here.kind # "page" /\ Down = level
         /\ In(request, todo.virtual) /\ In(request, PageOf(todo.virtual))
  <1>1. level \in 1..4 /\ leaf <= level
    BY WhileMapping DEF IInv, TypeInv
  <1>2. /\ todo.size # 0 /\ leaf = LeafOf(todo, features)
        /\ Reaches(tables, level, todo.virtual) /\ table = Node(tables, level, todo.virtual)
    BY DEF IInv, WalkInv
  <1>3. Here = Slot(tables, level, todo.virtual)
    BY <1>2 DEF Here, Slot
  <1>4. Here \in EntryType
    <2>1. PICK lev, blk : Tree(tables, lev, blk)
      BY WhileMapping DEF Sound
    <2> QED
      BY <1>1, <1>2, <1>3, <2>1, WhileMapping, Reached
  <1>5. todo.size \in Nat
    BY WhileMapping, Asked DEF Addresses
  <1>6. /\ todo.virtual \in Nat /\ PageOf(todo.virtual) \in Addresses
        /\ PageOf(todo.virtual) \in Nat /\ PageOf(todo.virtual) <= todo.virtual
        /\ todo.virtual < PageOf(todo.virtual) + PAGE /\ PAGE \in Nat \ {0}
    <2>1. todo.virtual \in Nat /\ todo.virtual < SPACE /\ SPACE \in Nat
      BY WhileMapping, CoversNext DEF Addresses
    <2>2. /\ PageOf(todo.virtual) \in Nat /\ PageOf(todo.virtual) <= todo.virtual
          /\ todo.virtual < PageOf(todo.virtual) + PAGE
      BY <2>1, PageOfIs
    <2> QED
      BY <2>1, <2>2, PagerAssumption DEF Addresses
  <1>7. PAGE <= todo.size
    <2>1. Covers(1) = PAGE /\ leaf \in 1..4 /\ 1 \in 1..4 /\ 1 <= leaf
      BY WhileMapping, CoversIs
    <2>2. Covers(leaf) <= todo.size
      BY <1>2, WhileMapping, LeafFits
    <2>3. PAGE <= Covers(leaf) /\ Covers(leaf) \in Nat
      BY <2>1, CoversNext
    <2> QED
      BY <1>5, <1>6, <2>2, <2>3
  <1>8. \A a \in Addresses :
          PageOf(todo.virtual) <= a /\ a < PageOf(todo.virtual) + todo.size
            => ~ DoneBy(asked, request, Gone, a) /\ In(request, a)
    <2>1. /\ request \in asked /\ InOrder(asked) /\ asked \subseteq Asking
          /\ EndOf(request, todo, features) /\ todo \in Asking /\ Gone = request.size - todo.size
      BY WhileMapping
    <2> QED
      BY <1>2, <2>1, Fresh
  <1>9. ~ DoneBy(asked, request, Gone, todo.virtual) /\ In(request, todo.virtual)
    <2>1. todo.virtual < PageOf(todo.virtual) + todo.size
      BY <1>5, <1>6, <1>7
    <2> QED
      BY <1>6, <1>8, <2>1, WhileMapping
  <1>10. In(request, PageOf(todo.virtual))
    <2>1. PageOf(todo.virtual) < PageOf(todo.virtual) + todo.size
      BY <1>5, <1>6, <1>7
    <2> QED
      BY <1>6, <1>8, <2>1
  <1>11. Here.kind # "page"
    BY <1>1, <1>2, <1>3, <1>9, WhileMapping, NoPageYet
  <1>12. Down = level
    BY DEF Down
  <1> QED
    BY <1>1, <1>2, <1>3, <1>4, <1>5, <1>9, <1>10, <1>11, <1>12

\* What IInv says of the next state, but for types and the requests.
Rest == TablesInv /\ RequestInv /\ WalkInv /\ status # "wild"
          /\ (status \in {"off", "hung"} => asked = {} /\ DOMAIN tables = {})

\* Each action keeps the rest of the invariant: the creation of the tables,
LEMMA CreateKeeps ==
  ASSUME IInv, Create PROVE Rest'
  <1>1. UNCHANGED <<limit, features, asked, request, served, todo, leaf, level, table, result>>
    BY DEF Create, config, calls, walk
  <1>2. /\ tables = [t \in {} |-> EmptyTable] /\ asked = {} /\ served = {} /\ status = "off"
        /\ (request \in asked \/ request.size = 0)
    <2>1. status = "off"
      BY DEF Create
    <2>2. asked = {} /\ RestOK
      BY <2>1 DEF IInv, TypeInv
    <2> QED
      BY <2>1, <2>2 DEF IInv, TypeInv, RequestInv, RestOK
  <1>3. CASE limit > 0 /\ tables' = AddTable(tables) /\ status' = "idle"
    <2>1. DOMAIN tables' = {Root} /\ tables'[Root] = EmptyTable
      <3>1. Used = 0 /\ DOMAIN tables = {}
        BY <1>2, FS_EmptySet DEF Used
      <3>2. tables' = [t \in {} \cup {Used + 1} |-> IF t \in {} THEN tables[t] ELSE EmptyTable]
        BY <1>3, <3>1 DEF AddTable
      <3> QED
        BY <3>1, <3>2 DEF Root
    <2>2. /\ Sound(tables')
          /\ \A a \in Addresses : WalkIn(tables', a) = Unmapped
          /\ \A a \in Addresses, l \in 1..3 : ~ Reaches(tables', l, a)
      BY <2>1, SoundRoot
    <2>3. TablesInv'
      BY <1>1, <1>2, <2>2 DEF TablesInv, Roads, OnlyDone, Serves
    <2>4. RequestInv' /\ WalkInv'
      BY <1>1, <1>2, <1>3 DEF RequestInv, WalkInv
    <2> QED
      BY <1>3, <2>3, <2>4 DEF Rest
  <1>4. CASE limit = 0 /\ status' = "hung" /\ UNCHANGED tables
    <2>1. DOMAIN tables = {}
      BY <1>2
    <2> QED
      BY <1>1, <1>2, <1>4, <2>1 DEF Rest, TablesInv, RequestInv, WalkInv
  <1> QED
    BY <1>3, <1>4 DEF Create

\* A request that is over is one of the others when the next comes.
LEMMA NextRequest ==
  ASSUME NEW as, NEW q \in Asking, q \in as \/ q.size = 0, NEW r, r \notin as
  PROVE  \A a \in Addresses : DoneBy(as, q, q.size, a) => DoneBy(as \cup {r}, r, 0, a)
  <1> SUFFICES ASSUME NEW a \in Addresses, DoneBy(as, q, q.size, a)
               PROVE  \E p \in (as \cup {r}) \ {r} : In(p, a)
    BY DEF DoneBy
  <1>1. CASE \E p \in as \ {q} : In(p, a)
    BY <1>1
  <1>2. CASE First(q) <= a /\ a < First(q) + q.size
    <2>1. q.size # 0
      <3>1. First(q) \in Nat /\ a \in Nat
        BY FirstIs DEF Addresses
      <3> QED
        BY <1>2, <3>1
    <2> QED
      BY <1>2, <2>1 DEF In
  <1> QED
    BY <1>1, <1>2 DEF DoneBy

\* pager_map() is called for something that does not meet what it did before.
LEMMA AskKeeps ==
  ASSUME IInv, NEW r \in Asking, r \notin asked, InOrder(asked \cup {r}), Ask(r)
  PROVE  Rest'
  <1>1. /\ status = "idle" /\ status' = "mapping" /\ level' = 0
        /\ asked' = asked \cup {r} /\ request' = r /\ todo' = r
        /\ UNCHANGED <<tables, features, served>>
    BY DEF Ask
  <1>2. RestOK /\ request \in Asking /\ (request \in asked \/ request.size = 0)
    BY <1>1 DEF IInv, TypeInv, RequestInv
  <1>3. /\ Sound(tables) /\ Roads(tables, asked, request, request.size, todo.virtual, 4)
        /\ OnlyDone(tables, asked, request, request.size) /\ Serves(tables, served, features)
    BY <1>1 DEF IInv, TablesInv, Gone, Down
  <1>4. \A a \in Addresses : DoneBy(asked, request, request.size, a) =>
                             DoneBy(asked \cup {r}, r, 0, a)
    BY <1>2, NextRequest
  <1>5. r.size \in Nat /\ First(r) \in Nat /\ r.size - r.size = 0
    <2>1. r.size \in Nat /\ First(r) \in Nat
      BY FirstIs
    <2> QED
      BY <2>1
  <1>6. Gone' = 0 /\ Down' = 4
    BY <1>1, <1>5 DEF Gone, Down
  <1>7. Roads(tables, asked \cup {r}, r, 0, r.virtual, 4)
    <2> SUFFICES ASSUME NEW a \in Addresses, NEW l \in 1..3, Reaches(tables, l, a)
                 PROVE  \E b \in Addresses : /\ Block(l + 1, b) = Block(l + 1, a)
                                             /\ DoneBy(asked \cup {r}, r, 0, b)
      BY DEF Roads
    <2>1. PICK b \in Addresses : /\ Block(l + 1, b) = Block(l + 1, a)
                                 /\ DoneBy(asked, request, request.size, b)
      BY <1>3 DEF Roads
    <2> QED
      BY <1>4, <2>1
  <1>8. OnlyDone(tables, asked \cup {r}, r, 0)
    BY <1>3, <1>4 DEF OnlyDone
  <1>9. TablesInv'
    BY <1>1, <1>3, <1>6, <1>7, <1>8 DEF TablesInv
  <1>10. RequestInv'
    <2>1. EndOf(r, r, features)
      BY EndAtFirst
    <2>2. MappedSoFar(tables, r, 0, features)
      <3>1. \A a \in Addresses : ~ (First(r) <= a /\ a < First(r) + 0)
        BY <1>5 DEF Addresses
      <3> QED
        BY <3>1 DEF MappedSoFar
    <2>3. r \notin served
      BY <1>2 DEF RestOK
    <2> QED
      BY <1>1, <1>6, <2>1, <2>2, <2>3 DEF RequestInv
  <1>11. WalkInv'
    BY <1>1 DEF WalkInv
  <1> QED
    BY <1>1, <1>9, <1>10, <1>11 DEF Rest

\* the beginning of a page,
LEMMA RoundKeeps ==
  ASSUME IInv, Round PROVE Rest'
  <1>1. /\ status = "mapping" /\ status' = "mapping" /\ level = 0 /\ level' = 4
        /\ todo.size # 0 /\ leaf' = LeafLevel /\ table' = Root
        /\ UNCHANGED <<tables, features, asked, request, served, todo>>
    BY DEF Round, config, calls
  <1>2. Gone' = Gone /\ Down' = Down
    BY <1>1 DEF Gone, Down
  <1>3. TablesInv'
    BY <1>1, <1>2 DEF IInv, TablesInv
  <1>4. RequestInv'
    BY <1>1, <1>2 DEF IInv, RequestInv
  <1>5. leaf' = LeafOf(todo, features)
    BY <1>1 DEF LeafLevel, LeafOf
  <1>6. Reaches(tables, 4, todo.virtual) /\ Node(tables, 4, todo.virtual) = Root
    BY NodeNext, ReachesNext
  <1>7. WalkInv'
    BY <1>1, <1>5, <1>6 DEF WalkInv
  <1> QED
    BY <1>1, <1>3, <1>4, <1>7 DEF Rest

\* the return,
LEMMA ReturnKeeps ==
  ASSUME IInv, Return PROVE Rest'
  <1>1. /\ status = "mapping" /\ status' = "idle" /\ level = 0
        /\ todo.size = 0 /\ served' = served \cup {request}
        /\ UNCHANGED <<tables, features, asked, request, todo, level>>
    BY DEF Return, config, walk
  <1>2. /\ request \in asked
        /\ Sound(tables) /\ Roads(tables, asked, request, Gone, todo.virtual, Down)
        /\ OnlyDone(tables, asked, request, Gone) /\ Serves(tables, served, features)
        /\ MappedSoFar(tables, request, Gone, features)
        /\ request \in Asking
    BY <1>1, WhileMapping
  <1>3. Gone = request.size /\ Gone' = request.size /\ Down' = Down
    <2>1. request.size \in Nat
      BY <1>2, Asked DEF Addresses
    <2> QED
      BY <1>1, <2>1 DEF Gone, Down
  <1>4. Serves(tables, served \cup {request}, features)
    BY <1>2, <1>3 DEF Serves, MappedSoFar, In
  <1>5. TablesInv'
    BY <1>1, <1>2, <1>3, <1>4 DEF TablesInv
  <1>6. RequestInv' /\ WalkInv'
    BY <1>1, <1>2 DEF RequestInv, WalkInv
  <1> QED
    BY <1>1, <1>5, <1>6 DEF Rest

\* a table that cannot be had,
LEMMA GiveUpKeeps ==
  ASSUME IInv, GiveUp PROVE Rest'
  <1>1. /\ status = "mapping" /\ status' = "idle" /\ level > leaf
        /\ UNCHANGED <<tables, features, asked, request, served, todo, level>>
    BY DEF GiveUp, Walking, config, calls, walk
  <1>2. /\ request \in asked
        /\ Sound(tables) /\ Roads(tables, asked, request, Gone, todo.virtual, Down)
        /\ OnlyDone(tables, asked, request, Gone) /\ Serves(tables, served, features)
        /\ request \in Asking /\ todo \in Asking /\ todo.virtual \in Addresses
        /\ Gone = request.size - todo.size /\ leaf \in 1..3 /\ level \in 0..4
    BY <1>1, WhileMapping
  <1>3. level > 0
    BY <1>1, <1>2
  <1>4. In(request, todo.virtual)
    BY <1>1, <1>3, Walked
  <1>5. Gone' = request.size /\ Down' = 4
    BY <1>1 DEF Gone, Down
  <1>6. \A a \in Addresses : DoneBy(asked, request, Gone, a) => DoneBy(asked, request, request.size, a)
    <2>1. First(request) \in Nat /\ request.size \in Nat /\ todo.size \in Nat
      BY <1>2, FirstIs
    <2>2. \A a \in Addresses : a < First(request) + Gone => a < First(request) + request.size
      BY <1>2, <2>1 DEF Addresses
    <2> QED
      BY <2>2 DEF DoneBy
  <1>7. DoneBy(asked, request, request.size, todo.virtual)
    BY <1>4 DEF DoneBy, In
  <1>8. Roads(tables, asked, request, request.size, todo.virtual, 4)
    <2> SUFFICES ASSUME NEW a \in Addresses, NEW l \in 1..3, Reaches(tables, l, a)
                 PROVE  \E b \in Addresses : /\ Block(l + 1, b) = Block(l + 1, a)
                                             /\ DoneBy(asked, request, request.size, b)
      BY DEF Roads
    <2>1. PICK b \in Addresses : /\ Block(l + 1, b) = Block(l + 1, a)
                                 /\ DoneBy(asked, request, Gone, b) \/ b = todo.virtual
      BY <1>2 DEF Roads
    <2> QED
      BY <1>6, <1>7, <2>1
  <1>9. OnlyDone(tables, asked, request, request.size)
    BY <1>2, <1>6 DEF OnlyDone
  <1>10. TablesInv'
    BY <1>1, <1>2, <1>5, <1>8, <1>9 DEF TablesInv
  <1>11. RequestInv' /\ WalkInv'
    BY <1>1, <1>2 DEF RequestInv, WalkInv
  <1> QED
    BY <1>1, <1>10, <1>11 DEF Rest

\* A new table changes nothing that is mapped.
LEMMA MakeTableDoes ==
  ASSUME IInv, MakeTable
  PROVE  Rest' /\ \A a \in Addresses : WalkIn(tables', a) = WalkIn(tables, a)
  <1> DEFINE n    == Used + 1
             v    == todo.virtual
             bits == GetEntryBits(level, leaf, todo.attributes, features)
             e    == TableAt(n, bits)
             ss   == AddTable(tables)
  <1>1. /\ status = "mapping" /\ status' = "mapping" /\ level' = level - 1 /\ table' = n
        /\ Here.kind = "none" /\ tables' = [ss EXCEPT ![table][Index(level, v)] = e]
        /\ UNCHANGED <<limit, features, asked, request, served, todo, leaf>>
    BY DEF MakeTable, Walking, Missing, config, calls
  <1>2. TypeInv /\ level \in 2..4 /\ leaf <= level - 1 /\ TablesOK(tables, Used, limit)
        /\ Used \in Nat
    BY MakeTableTypes DEF IInv, TypeInv
  <1>3. level > 0 /\ leaf # level /\ level - 1 > 0
    BY <1>1, <1>2, WhileMapping
  <1>4. /\ Reaches(tables, level, v) /\ table = Node(tables, level, v)
        /\ Slot(tables, level, v).kind = "none" /\ Down = level
        /\ todo.size # 0 /\ leaf = LeafOf(todo, features)
    BY <1>1, <1>3, Walked
  <1>5. /\ v \in Addresses /\ Plain(todo.attributes) /\ Sound(tables)
        /\ Roads(tables, asked, request, Gone, v, level)
        /\ OnlyDone(tables, asked, request, Gone) /\ Serves(tables, served, features)
        /\ MappedSoFar(tables, request, Gone, features)
        /\ request \notin served /\ EndOf(request, todo, features)
    BY <1>1, <1>4, WhileMapping
  <1>6. USER \in bits /\ WRITE \in bits /\ NO_EXEC \notin bits
    BY <1>2, <1>3, <1>5, TableFlags DEF Plain
  <1>7. bits \in SUBSET (0..63)
    BY FlagsInEntry
  <1> HIDE DEF bits
  <1>8. e \in EntryType /\ e.kind = "table" /\ e.to = n /\ e.bits = bits
    BY <1>2, <1>7, TableEntry
  <1>9. OneMore(tables, ss, n)
    <2>1. DOMAIN tables = 1..Used
      BY <1>2 DEF TablesOK
    <2>2. /\ DOMAIN ss = 1..(Used + 1) /\ \A t \in DOMAIN tables : ss[t] = tables[t]
          /\ ss[n] = EmptyTable
      BY <1>2, TablesGrow
    <2>3. n \notin DOMAIN tables /\ 1..(Used + 1) = DOMAIN tables \cup {n}
      BY <1>2, <2>1
    <2> HIDE DEF ss, n
    <2> QED
      BY <2>2, <2>3 DEF OneMore, n
  <1> HIDE DEF e, ss, n
  <1>10. OneMore(tables, ss, e.to)
    BY <1>8, <1>9
  <1>11. Puts(tables, ss, tables', level, v, e)
    BY <1>1, <1>4 DEF Puts
  <1>12. USER \in e.bits /\ WRITE \in e.bits /\ NO_EXEC \notin e.bits
    BY <1>6, <1>8
  <1>13. /\ Sound(tables') /\ Roads(tables', asked, request, Gone, v, level - 1)
         /\ OnlyDone(tables', asked, request, Gone)
         /\ Serves(tables', served, features) /\ MappedSoFar(tables', request, Gone, features)
         /\ Reaches(tables', level - 1, v) /\ Node(tables', level - 1, v) = e.to
         /\ \A a \in Addresses : WalkIn(tables', a) = WalkIn(tables, a)
    <2> HIDE DEF v
    <2> QED
      BY SMTT(30), <1>2, <1>4, <1>5, <1>8, <1>10, <1>11, <1>12, TableDone
  <1>14. Gone' = Gone /\ Down' = level - 1
    BY <1>1, <1>3 DEF Gone, Down
  <1>15. TablesInv'
    BY <1>1, <1>13, <1>14 DEF TablesInv
  <1>16. RequestInv'
    BY <1>1, <1>5, <1>13, <1>14 DEF RequestInv
  <1>17. WalkInv'
    BY <1>1, <1>4, <1>8, <1>13 DEF WalkInv
  <1> QED
    BY <1>1, <1>13, <1>15, <1>16, <1>17 DEF Rest

\* a step down,
LEMMA EnterKeeps ==
  ASSUME IInv, Enter PROVE Rest'
  <1> DEFINE v == todo.virtual
  <1>1. /\ status = "mapping" /\ level > leaf /\ Here.kind # "none"
        /\ IF Here.kind = "table"
           THEN table' = Here.to /\ level' = level - 1 /\ status' = status
           ELSE status' = "wild" /\ table' = table /\ level' = level
        /\ UNCHANGED <<tables, features, asked, request, served, todo, leaf>>
    BY DEF Enter, Walking, Missing, config, calls
  <1>2. level \in 0..4 /\ leaf \in 1..3
    BY <1>1, WhileMapping
  <1>3. level > 0 /\ level - 1 \in 1..3 /\ (level - 1) + 1 = level /\ level - 1 > 0
    BY <1>1, <1>2
  <1>4. /\ Reaches(tables, level, v) /\ Here = Slot(tables, level, v)
        /\ Here \in EntryType /\ Here.kind # "page" /\ Down = level
        /\ todo.size # 0 /\ leaf = LeafOf(todo, features)
    BY <1>1, <1>3, Walked
  <1>5. Here.kind = "table"
    BY <1>1, <1>4 DEF EntryType
  <1>6. status' = "mapping" /\ level' = level - 1 /\ table' = Here.to
    BY <1>1, <1>5
  <1>7. Reaches(tables, level - 1, v) /\ Node(tables, level - 1, v) = Here.to
    <2>1. Slot(tables, (level - 1) + 1, v).kind = "table" /\ Reaches(tables, (level - 1) + 1, v)
      BY <1>3, <1>4, <1>5
    <2>2. Node(tables, level - 1, v) = Slot(tables, (level - 1) + 1, v).to
      BY <1>3, NodeNext
    <2> QED
      BY <1>3, <1>4, <2>1, <2>2, ReachesNext
  <1>8. /\ Sound(tables) /\ Roads(tables, asked, request, Gone, v, level)
        /\ OnlyDone(tables, asked, request, Gone) /\ Serves(tables, served, features)
        /\ MappedSoFar(tables, request, Gone, features)
        /\ request \notin served /\ EndOf(request, todo, features)
    BY <1>1, <1>4, WhileMapping
  <1>9. Roads(tables, asked, request, Gone, v, level - 1)
    <2>1. \A l \in 1..3 : l >= level => l >= level - 1
      BY <1>3
    <2> HIDE DEF v
    <2> QED
      BY <1>8, <2>1 DEF Roads
  <1>10. Gone' = Gone /\ Down' = level - 1
    BY <1>1, <1>3, <1>6 DEF Gone, Down
  <1>11. TablesInv'
    BY <1>1, <1>6, <1>8, <1>9, <1>10 DEF TablesInv
  <1>12. RequestInv'
    BY <1>1, <1>6, <1>8, <1>10 DEF RequestInv
  <1>13. WalkInv'
    BY <1>1, <1>4, <1>6, <1>7 DEF WalkInv
  <1> QED
    BY <1>6, <1>11, <1>12, <1>13 DEF Rest

\* What a page more maps, in tables and request.
LEMMA MapPageDoes ==
  ASSUME IInv, MapPage
  PROVE  /\ UNCHANGED <<limit, features, asked, request, served, leaf>>
         /\ status = "mapping" /\ status' = "mapping" /\ level' = 0
         /\ level \in 1..3 /\ Covers(level) \in Nat \ {0} /\ Covers(level) <= todo.size
         /\ Gone \in Nat /\ Gone' = Gone + Covers(level)
         /\ Sound(tables') /\ OnlyDone(tables', asked, request, Gone')
         /\ Roads(tables', asked, request, Gone', todo'.virtual, 4)
         /\ Serves(tables', served, features) /\ MappedSoFar(tables', request, Gone', features)
         /\ EndOf(request, todo', features)
         /\ todo'.virtual = (todo.virtual + Covers(level)) % SPACE
         /\ todo'.physical = todo.physical + Covers(level)
         /\ todo'.size = todo.size - Covers(level)
         /\ todo'.attributes = todo.attributes
         /\ PageOf(todo.virtual) = First(request) + Gone
         /\ todo.physical = request.physical + Gone
         /\ PageOf(todo.virtual) + todo.size <= SPACE
         /\ \A a \in Addresses :
              IF PageOf(todo.virtual) <= a /\ a < PageOf(todo.virtual) + Covers(level)
              THEN Hits(WalkIn(tables', a), request, a, features)
              ELSE WalkIn(tables', a) = WalkIn(tables, a)
  <1> DEFINE L == level
             c == Covers(L)
  <1>1. /\ status = "mapping" /\ status' = "mapping" /\ level > 0 /\ level = leaf /\ level' = 0
        /\ tables' = [tables EXCEPT ![table][Index(L, todo.virtual)]
                        = PageAt(todo.physical, L, GetEntryBits(L, leaf, todo.attributes, features))]
        /\ todo' = Advance(c)
        /\ UNCHANGED <<limit, features, asked, request, served, leaf>>
    BY DEF MapPage, config, calls
  <1>2. /\ request \in asked /\ InOrder(asked) /\ asked \subseteq Asking /\ served \subseteq asked \ {request}
        /\ request \in Asking /\ todo \in Asking
        /\ EndOf(request, todo, features) /\ Gone = request.size - todo.size
        /\ Sound(tables) /\ OnlyDone(tables, asked, request, Gone)
        /\ Serves(tables, served, features) /\ MappedSoFar(tables, request, Gone, features)
    BY <1>1, WhileMapping
  <1>3. /\ todo.size # 0 /\ L = LeafOf(todo, features)
        /\ Reaches(tables, L, todo.virtual) /\ table = Node(tables, L, todo.virtual)
        /\ Roads(tables, asked, request, Gone, todo.virtual, L)
    BY <1>1, WhileMapping, Walked
  <1>4. L \in 1..3 /\ c <= todo.size /\ c \in Nat \ {0}
    <2>1. L \in 1..3 /\ c <= todo.size
      BY <1>2, <1>3, LeafFits
    <2>2. L \in 1..4
      BY <2>1
    <2> QED
      BY <2>1, <2>2, CoversNext
  <1>5. /\ todo' \in Asking
        /\ todo'.virtual = (todo.virtual + c) % SPACE
        /\ todo'.physical = (todo.physical + c) % SPACE
        /\ todo'.size = (todo.size - c) % SPACE
        /\ todo'.attributes = todo.attributes
    BY <1>1, <1>2, <1>4, AdvanceIs
  <1>6. InOrder(asked) /\ request \in Asking
    BY <1>2
  <1>7. /\ EndOf(request, todo', features)
        /\ todo.physical = request.physical + (request.size - todo.size)
        /\ PageOf(todo.virtual) = First(request) + (request.size - todo.size)
        /\ todo'.size = todo.size - c /\ c <= todo.size
        /\ todo'.physical = todo.physical + c
        /\ PageOf(todo.virtual) + todo.size <= SPACE
    BY <1>2, <1>3, <1>5, <1>6, EndAdvances
  <1>8. Gone \in Nat /\ Gone' = Gone + c
    <2>1. request.size \in Nat /\ todo.size \in Nat /\ todo.size <= request.size
      BY <1>2, Asked DEF Addresses, EndOf
    <2>2. Gone' = request.size - todo'.size
      BY <1>1 DEF Gone
    <2> HIDE DEF c
    <2> QED
      BY <1>2, <1>4, <1>7, <2>1, <2>2
  <1>9. Puts(tables, tables, tables', L, todo.virtual,
             PageAt(todo.physical, L, GetEntryBits(L, L, todo.attributes, features)))
    BY <1>1, <1>3 DEF Puts
  <1>10. /\ Sound(tables') /\ Roads(tables', asked, request, Gone + c, todo'.virtual, 4)
         /\ OnlyDone(tables', asked, request, Gone + c)
         /\ Serves(tables', served, features)
         /\ MappedSoFar(tables', request, Gone + c, features)
         /\ \A a \in Addresses :
              IF PageOf(todo.virtual) <= a /\ a < PageOf(todo.virtual) + c
              THEN Hits(WalkIn(tables', a), request, a, features)
              ELSE WalkIn(tables', a) = WalkIn(tables, a)
    <2> DEFINE m == Gone + Covers(L)
    <2>1. Writes(asked, request, features, todo, L, tables, Gone, served)
      BY <1>2, <1>3 DEF Writes
    <2>2. m = Gone + Covers(L)
      OBVIOUS
    <2> HIDE DEF L, m
    <2>3. Puts(tables, tables, tables', L, todo.virtual,
               PageAt(todo.physical, L, GetEntryBits(L, L, todo.attributes, features)))
      BY <1>9
    <2>4. \A w : /\ Sound(tables') /\ Roads(tables', asked, request, m, w, 4)
                /\ OnlyDone(tables', asked, request, m)
                /\ Serves(tables', served, features)
                /\ MappedSoFar(tables', request, m, features)
                /\ \A a \in Addresses :
                     IF PageOf(todo.virtual) <= a /\ a < PageOf(todo.virtual) + Covers(L)
                     THEN Hits(WalkIn(tables', a), request, a, features)
                     ELSE WalkIn(tables', a) = WalkIn(tables, a)
      BY SMTT(60), <2>1, <2>2, <2>3, PageDone
    <2> QED
      BY <2>4 DEF m
  <1>11. /\ PageOf(todo.virtual) = First(request) + Gone
         /\ todo.physical = request.physical + Gone
    BY <1>2, <1>7
  <1> QED
    BY <1>1, <1>4, <1>5, <1>7, <1>8, <1>10, <1>11

\* and a page.
LEMMA MapPageKeeps ==
  ASSUME IInv, MapPage PROVE Rest'
  <1>1. Down' = 4
    BY MapPageDoes DEF Down
  <1>2. TablesInv'
    BY <1>1, MapPageDoes DEF TablesInv
  <1>3. RequestInv'
    <2>1. request \notin served
      BY MapPageDoes, WhileMapping
    <2> QED
      BY <2>1, MapPageDoes DEF RequestInv
  <1>4. WalkInv'
    BY MapPageDoes DEF WalkInv
  <1> QED
    BY <1>2, <1>3, <1>4, MapPageDoes DEF Rest

\* The invariant holds at first.
LEMMA InitKeeps == Init => IInv
  <1> SUFFICES ASSUME Init PROVE IInv
    OBVIOUS
  <1>1. TypeInv
    BY InitTypes
  <1>2. /\ status = "off" /\ level = 0 /\ asked = {} /\ request.size = 0 /\ DOMAIN tables = {}
    BY DEF Init
  <1>3. InOrder(asked)
    BY <1>2 DEF InOrder
  <1> QED
    BY <1>1, <1>2, <1>3 DEF IInv, TablesInv, RequestInv, WalkInv

\* What the steps of pager_map(), and the call of it, keep of the invariant.
LEMMA MapKeeps == IInv /\ Map => IInv' /\ asked' = asked
  <1> SUFFICES ASSUME IInv, Map PROVE IInv' /\ asked' = asked
    OBVIOUS
  <1>1. TypeInv'
    BY MapTypes DEF IInv
  <1>2. asked' = asked
    BY DEF Map, Round, Return, MakeTable, GiveUp, Enter, MapPage, calls
  <1>3. Rest'
    BY RoundKeeps, MakeTableDoes, GiveUpKeeps, EnterKeeps, MapPageKeeps, ReturnKeeps DEF Map
  <1> QED
    BY <1>1, <1>2, <1>3 DEF IInv, Rest

\* A call keeps it if the request is in order with those made before.
LEMMA CallKeeps ==
  ASSUME IInv, NEW r \in Asking, r \notin asked, InOrder(asked \cup {r}), Ask(r),
         limit' \in Nat, Used <= limit'
  PROVE  IInv'
  <1>1. TypeInv'
    BY AskTypes DEF IInv
  <1>2. Rest' /\ asked' = asked \cup {r}
    BY AskKeeps DEF Ask
  <1> QED
    BY <1>1, <1>2 DEF IInv, Rest

\* The creation of the tables keeps all of it,
LEMMA CreationKeeps == IInv /\ Create => IInv' /\ asked' = asked
  <1> SUFFICES ASSUME IInv, Create PROVE IInv' /\ asked' = asked
    OBVIOUS
  <1>1. TypeInv' /\ Rest' /\ asked' = asked
    BY CreateTypes, CreateKeeps DEF IInv, Create, calls
  <1> QED
    BY <1>1 DEF IInv, Rest

\* and so does a step that changes nothing.
LEMMA StutterKeeps == IInv /\ UNCHANGED vars => IInv' /\ asked' = asked
  <1> SUFFICES ASSUME IInv, UNCHANGED vars PROVE IInv' /\ asked' = asked
    OBVIOUS
  <1>1. UNCHANGED <<tables, features, asked, request, served, todo, leaf, level, table, status>>
    BY DEF vars, config, calls, walk
  <1>2. Gone' = Gone /\ Down' = Down
    BY <1>1 DEF Gone, Down
  <1>3. Rest'
    BY <1>1, <1>2 DEF IInv, Rest, TablesInv, RequestInv, WalkInv
  <1>4. TypeInv'
    BY StutterTypes DEF IInv
  <1> QED
    BY <1>1, <1>3, <1>4 DEF IInv, Rest

\* Orderly requests are in order, and begin on a page.
LEMMA OrderlyIs ==
  ASSUME Orderly
  PROVE  /\ \A as \in SUBSET Requests : InOrder(as)
         /\ \A r \in Requests : First(r) = r.virtual /\ PageOf(r.physical) = r.physical
                                  /\ r.physical % PAGE = 0
  <1>1. ASSUME NEW r \in Requests
        PROVE  First(r) = r.virtual /\ PageOf(r.physical) = r.physical /\ r.physical % PAGE = 0
    <2>1. r.virtual \in Nat /\ r.physical \in Nat
      BY Asked DEF Addresses
    <2>2. r.virtual % PAGE = 0 /\ r.physical % PAGE = 0
      BY DEF Orderly, Aligned
    <2> QED
      BY <2>1, <2>2, PageOfAligned DEF First
  <1>2. ASSUME NEW as \in SUBSET Requests PROVE InOrder(as)
    <2> SUFFICES ASSUME NEW r \in as
        PROVE  /\ First(r) + r.size <= SPACE /\ r.physical + r.size < SPACE
               /\ r.size % PAGE = 0 /\ Plain(r.attributes)
               /\ \A l \in {2, 3} :
                    ~ r.attributes.only4k /\ r.size >= Covers(l) =>
                      r.virtual % Covers(l) = 0 /\ r.physical % Covers(l) = 0
               /\ \A s \in as \ {r} : \/ First(r) + r.size <= First(s)
                                      \/ First(s) + s.size <= First(r)
      BY DEF InOrder
    <2>1. /\ r.virtual + r.size <= SPACE /\ r.physical + r.size < SPACE
          /\ r.size % PAGE = 0 /\ Plain(r.attributes)
          /\ \A l \in {2, 3} :
               ~ r.attributes.only4k /\ r.size >= Covers(l) =>
                 r.virtual % Covers(l) = 0 /\ r.physical % Covers(l) = 0
      BY DEF Orderly, InSpace, Aligned
    <2>2. \A s \in as \ {r} : r.virtual + r.size <= s.virtual \/ s.virtual + s.size <= r.virtual
      BY DEF Orderly, Apart
    <2>3. First(r) = r.virtual /\ \A s \in as : First(s) = s.virtual
      BY <1>1
    <2> QED
      BY <2>1, <2>2, <2>3
  <1> QED
    BY <1>1, <1>2

\* IInv, with the requests those that the pager may be asked for.
CallsInv == IInv /\ asked \subseteq Requests

\* Every step keeps the invariant.
LEMMA StepKeeps == Orderly /\ CallsInv /\ [Next]_vars => CallsInv'
  <1> SUFFICES ASSUME Orderly, CallsInv, [Next]_vars PROVE CallsInv'
    OBVIOUS
  <1>1. CASE Create
    BY <1>1, CreationKeeps DEF CallsInv
  <1>2. ASSUME NEW r \in Requests \ asked, Call(r) PROVE CallsInv'
    <2>1. r \in Asking /\ Ask(r) /\ limit' = limit /\ asked' = asked \cup {r}
      BY <1>2, Asked DEF Call, Ask
    <2>2. limit \in Nat /\ Used <= limit
      BY DEF CallsInv, IInv, TypeInv, TablesOK
    <2>3. InOrder(asked \cup {r})
      BY OrderlyIs DEF CallsInv
    <2>4. IInv'
      BY <2>1, <2>2, <2>3, CallKeeps DEF CallsInv
    <2> QED
      BY <2>1, <2>4 DEF CallsInv
  <1>3. CASE Map
    BY <1>3, MapKeeps DEF CallsInv
  <1>4. CASE UNCHANGED vars
    BY <1>4, StutterKeeps DEF CallsInv
  <1> QED
    BY <1>1, <1>2, <1>3, <1>4 DEF Next

-----------------------------------------------------------------------------
(* The theorems, for requests as bsp() makes them                          *)

\* The inductive invariant holds in every run of the pager: the tables are a
\* tree of open tables made and filled for the requests so far and no others.
THEOREM PagerCorrect == ASSUME Orderly PROVE Spec => []CallsInv
  <1>1. Init => CallsInv
    BY InitKeeps DEF CallsInv, Init
  <1>2. CallsInv /\ [Next]_vars => CallsInv'
    BY StepKeeps
  <1> QED
    BY <1>1, <1>2, PTL DEF Spec

\* Under no large page does pager_map() look for a table: requests that are
\* apart and aligned never meet a page on the way down.
THEOREM NeverRunsWild == ASSUME Orderly PROVE Spec => []NeverWild
  <1>1. CallsInv => NeverWild
    BY DEF CallsInv, IInv, NeverWild
  <1> QED
    BY <1>1, PagerCorrect, PTL

\* One entry alone leads to a table that is not the root.
LEMMA OneParent ==
  ASSUME NEW ts, Parents(ts), NEW n \in DOMAIN ts \ {Root}
  PROVE  Cardinality({x \in (DOMAIN ts) \X Slots :
                        ts[x[1]][x[2]].kind = "table" /\ ts[x[1]][x[2]].to = n}) = 1
  <1> DEFINE S == {x \in (DOMAIN ts) \X Slots :
                     ts[x[1]][x[2]].kind = "table" /\ ts[x[1]][x[2]].to = n}
  <1>1. PICK t \in DOMAIN ts, x \in Slots : Hangs(ts, n, t, x)
    BY DEF Parents
  <1>2. <<t, x>> \in S
    BY <1>1 DEF Hangs
  <1>3. ASSUME NEW p \in S PROVE p = <<t, x>>
    <2>1. /\ p[1] \in DOMAIN ts /\ p[2] \in Slots /\ p = <<p[1], p[2]>>
          /\ Hangs(ts, n, p[1], p[2]) /\ n \in DOMAIN ts
      BY DEF Hangs
    <2>2. p[1] = t /\ p[2] = x
      BY <1>1, <2>1 DEF Parents
    <2> QED
      BY <2>1, <2>2
  <1> HIDE DEF S
  <1>4. S = {<<t, x>>}
    BY <1>2, <1>3
  <1>5. Cardinality(S) = 1
    BY <1>4, FS_Singleton
  <1> QED
    BY <1>5 DEF S

\* No table is lost, and none is shared by two parts of the address space.
THEOREM TablesFormATree == ASSUME Orderly PROVE Spec => []TablesFormTree
  <1>1. ASSUME CallsInv PROVE TablesFormTree
    <2> SUFFICES ASSUME NEW n \in DOMAIN tables \ {Root}
                 PROVE  Cardinality({x \in (DOMAIN tables) \X (0..(ENTRIES - 1)) :
                          tables[x[1]][x[2]].kind = "table" /\ tables[x[1]][x[2]].to = n}) = 1
      BY DEF TablesFormTree
    <2>1. status \in {"idle", "mapping"}
      BY <1>1 DEF CallsInv, IInv, TypeInv, RestOK
    <2>2. Parents(tables)
      BY <1>1, <2>1 DEF CallsInv, IInv, TablesInv, Sound
    <2> QED
      BY <2>2, OneParent DEF Slots
  <1> QED
    BY <1>1, PagerCorrect, PTL

\* Walk is the walk over the tables at hand.
LEMMA WalkHere ==
  ASSUME NEW a
  PROVE  Walk(a) = IF Root \in DOMAIN tables THEN WalkIn(tables, a) ELSE Unmapped
  BY DEF Walk, WalkIn

\* The offset of an address in a range is what it says.
LEMMA OffsetIn ==
  ASSUME NEW v \in Addresses, NEW n \in Nat, v + n <= SPACE, NEW a \in Addresses
  PROVE  /\ (a - v) % SPACE < n <=> v <= a /\ a < v + n
         /\ v <= a => (a - v) % SPACE = a - v
  <1>1. /\ v \in Nat /\ a \in Nat /\ a < SPACE /\ v < SPACE /\ SPACE \in Nat \ {0}
    BY CoversNext DEF Addresses
  <1>2. \A k \in Nat : k < SPACE => k % SPACE = k
    BY <1>1
  <1>3. \A k \in 1..(SPACE - 1) : (- k) % SPACE = SPACE - k
    BY <1>1
  <1>4. CASE a >= v
    <2>1. (a - v) % SPACE = a - v
      BY <1>1, <1>2, <1>4
    <2> QED
      BY <1>1, <1>4, <2>1
  <1>5. CASE a < v
    <2> DEFINE k == v - a
    <2>1. k \in 1..(SPACE - 1) /\ a - v = - k
      BY <1>1, <1>5
    <2>2. (a - v) % SPACE = SPACE - k
      BY <1>3, <2>1
    <2> QED
      BY <1>1, <1>5, <2>2
  <1> QED
    BY <1>1, <1>4, <1>5

\* What a pager_map() that returned 0 was asked for stays mapped as asked.
THEOREM AnsweredStaysMapped == ASSUME Orderly PROVE Spec => []MappedAsAsked
  <1>1. ASSUME CallsInv PROVE MappedAsAsked
    <2> SUFFICES ASSUME NEW r \in served, NEW a \in Pages, (a - r.virtual) % SPACE < r.size
                 PROVE  Walk(a) = [to     |-> r.physical + ((a - r.virtual) % SPACE),
                                   rights |-> Wanted(r.attributes, features)]
      BY DEF MappedAsAsked
    <2>1. RestOK /\ asked # {} /\ asked \subseteq Requests /\ IInv
      BY <1>1 DEF CallsInv, IInv, TypeInv, RestOK
    <2>2. status \in {"idle", "mapping"}
      BY <2>1 DEF IInv, RestOK
    <2>3. Serves(tables, served, features) /\ Root \in DOMAIN tables
      BY <2>1, <2>2 DEF IInv, TablesInv, TypeInv
    <2>4. r \in Requests /\ a \in Addresses
      BY <2>1 DEF RestOK, Pages, Addresses
    <2>5. r.virtual \in Addresses /\ r.size \in Nat /\ r.virtual + r.size <= SPACE
      BY <2>4, Asked DEF Orderly, InSpace, Addresses
    <2>6. /\ First(r) = r.virtual /\ PageOf(r.physical) = r.physical
          /\ r.physical % PAGE = 0
      BY <2>4, OrderlyIs
    <2>7. In(r, a) /\ (a - r.virtual) % SPACE = a - r.virtual
      BY <2>4, <2>5, <2>6, OffsetIn DEF In
    <2>8. Hits(WalkIn(tables, a), r, a, features)
      BY <2>3, <2>4, <2>7 DEF Serves
    <2>9. Walk(a) = Target(r, a, features)
      BY <2>3, <2>6, <2>8, WalkHere DEF Hits
    <2> QED
      BY <2>6, <2>7, <2>9 DEF Target
  <1> QED
    BY <1>1, PagerCorrect, PTL

-----------------------------------------------------------------------------
(* The refinement of AbsPager                                              *)

\* What a processor finds with the tables ts.
Maps(ts) == [a \in Pages |-> IF Root \in DOMAIN ts THEN WalkIn(ts, a) ELSE Unmapped]

\* The abstract translation is what the walk finds in the tables.
LEMMA TranslationIs == Translation = Maps(tables) /\ Translation' = Maps(tables')
  <1>1. \A a : Walk(a) = IF Root \in DOMAIN tables THEN WalkIn(tables, a) ELSE Unmapped
    BY ZenonT(60) DEF Walk, WalkIn
  <1>2. \A a : Walk(a)' = IF Root \in DOMAIN tables' THEN WalkIn(tables', a) ELSE Unmapped
    BY ZenonT(60) DEF Walk, WalkIn
  <1> QED
    BY <1>1, <1>2 DEF Translation, Maps

\* Both modules mean the same by their names.
LEMMA SameNames ==
  /\ Abs!Pages = Pages /\ Abs!Unmapped = Unmapped /\ Pages \subseteq Addresses
  /\ \A d, f : Abs!Wanted(d, f) = Wanted(d, f)
  /\ \A d, a : Abs!Offset(d, a) = (a - d.virtual) % SPACE
  <1>1. Abs!Pages = Pages /\ Pages \subseteq Addresses
    BY DEF Abs!Pages, Pages, Addresses
  <1>2. Abs!Unmapped = Unmapped
    BY DEF Abs!Unmapped, Unmapped, Abs!NoRights, NoRights
  <1>3. \A d, f : Abs!Wanted(d, f) = Wanted(d, f)
    BY DEF Abs!Wanted, Wanted
  <1>4. \A d, a : Abs!Offset(d, a) = (a - d.virtual) % SPACE
    BY DEF Abs!Offset
  <1> QED
    BY <1>1, <1>2, <1>3, <1>4

\* The initial states are those of the abstract pager.
LEMMA InitMaps == Init => Abs!AbsInit
  <1> SUFFICES ASSUME Init PROVE Abs!AbsInit
    OBVIOUS
  <1>1. Translation = [a \in Abs!Pages |-> Abs!Unmapped]
    <2>1. DOMAIN tables = {}
      BY DEF Init
    <2>2. Maps(tables) = [a \in Pages |-> Unmapped]
      BY <2>1 DEF Maps
    <2> QED
      BY <2>2, TranslationIs, SameNames
  <1>2. ReadWrite = Abs!ReadWrite
    BY DEF ReadWrite, Abs!ReadWrite
  <1> QED
    BY <1>1, <1>2 DEF Init, Abs!AbsInit

\* Tables with the same walks are the same to the processor.
LEMMA SameMaps ==
  ASSUME NEW ts, NEW us, Root \in DOMAIN ts, Root \in DOMAIN us,
         \A a \in Addresses : WalkIn(us, a) = WalkIn(ts, a)
  PROVE  Maps(us) = Maps(ts)
  BY SameNames DEF Maps

\* A page mapped is a run of the request, of the bytes the page covers.
LEMMA MapPageMaps ==
  ASSUME Orderly, CallsInv, MapPage
  PROVE  \E n \in Abs!Pages \ {0} : Abs!AbsMapRun(n)
  <1> DEFINE n == Covers(level)
             v == todo.virtual
  <1> IInv /\ asked \subseteq Requests
    BY DEF CallsInv
  <1>0. PageOf(v) = v /\ First(request) = request.virtual
        /\ request.physical % PAGE = 0 /\ PageOf(request.physical) = request.physical
    <2>1. /\ request \in asked /\ todo \in Asking /\ EndOf(request, todo, features)
          /\ request \in Requests /\ todo.size # 0 /\ v \in Addresses
      BY MapPageDoes, WhileMapping, Walked
    <2>2. /\ First(request) = request.virtual /\ request.physical % PAGE = 0
          /\ PageOf(request.physical) = request.physical
      BY <2>1, OrderlyIs
    <2>3. /\ PageOf(v) = First(request) + Gone /\ Gone = request.size - todo.size
      BY MapPageDoes, WhileMapping
    <2>4. v = request.virtual + (request.size - todo.size)
      <3>1. todo.size > 0
        BY <2>1, Asked DEF Addresses
      <3> QED
        BY <2>1, <3>1 DEF EndOf
    <2> QED
      BY <2>2, <2>3, <2>4
  <1>1. /\ n \in Nat \ {0} /\ n <= todo.size /\ todo \in Asking
        /\ v \in Addresses /\ todo.size \in Nat /\ todo.size < SPACE /\ v + todo.size <= SPACE
    <2>1. todo \in Asking /\ v \in Addresses
      BY MapPageDoes, WhileMapping
    <2>2. todo.size \in Nat /\ todo.size < SPACE
      BY <2>1, Asked, CoversNext DEF Addresses
    <2> QED
      BY <1>0, <2>1, <2>2, MapPageDoes
  <1>2. n \in Abs!Pages \ {0}
    <2>1. level \in 1..4 /\ 1 \in 1..4 /\ 1 <= level
      BY MapPageDoes
    <2>2. n % PAGE = 0
      BY <2>1, CoversDivide, CoversIs
    <2>3. n \in 0..(SPACE - 1)
      <3> HIDE DEF n
      <3> QED
        BY <1>1, CoversNext
    <2> QED
      BY <1>1, <2>2, <2>3, SameNames DEF Pages
  <1>3. /\ status = "mapping" /\ UNCHANGED <<features, served, status>>
    BY MapPageDoes
  <1>4. todo' = [todo EXCEPT !.virtual  = (@ + n) % SPACE,
                             !.physical = @ + n,
                             !.size     = @ - n]
    <2>1. todo' = Advance(n)
      BY DEF MapPage
    <2>2. /\ Advance(n).physical = (todo.physical + n) % SPACE
          /\ Advance(n).size = (todo.size - n) % SPACE
      BY <1>1, AdvanceIs
    <2>3. Advance(n).physical = todo.physical + n /\ Advance(n).size = todo.size - n
      BY <2>1, MapPageDoes
    <2> DEFINE w == (todo.virtual + n) % SPACE
               q == todo.physical + n
               z == todo.size - n
    <2>4. Advance(n) = [todo EXCEPT !.virtual = w, !.physical = q % SPACE, !.size = z % SPACE]
      BY DEF Advance
    <2>5. q % SPACE = q /\ z % SPACE = z
      BY <2>2, <2>3
    <2>6. todo' = [todo EXCEPT !.virtual = w, !.physical = q, !.size = z]
      <3> HIDE DEF w, q, z
      <3> QED
        BY <2>1, <2>4, <2>5
    <2> QED
      BY <2>6
  <1> HIDE DEF n
  <1>5. ASSUME NEW a \in Pages
        PROVE  Maps(tables')[a] = IF (a - v) % SPACE < n
                                  THEN [to     |-> todo.physical + ((a - v) % SPACE),
                                        rights |-> Wanted(todo.attributes, features)]
                                  ELSE Maps(tables)[a]
    <2>1. a \in Addresses
      BY SameNames
    <2>2. Root \in DOMAIN tables /\ Root \in DOMAIN tables'
      <3>1. IInv'
        BY MapKeeps DEF Map
      <3>2. status = "mapping" /\ status' = "mapping"
        BY <1>3
      <3>3. Root \in DOMAIN tables
        BY <3>2 DEF IInv, TypeInv
      <3>4. Root \in DOMAIN tables'
        BY <3>1, <3>2 DEF IInv, TypeInv
      <3> QED
        BY <3>3, <3>4
    <2>3. /\ Maps(tables')[a] = WalkIn(tables', a) /\ Maps(tables)[a] = WalkIn(tables, a)
      BY <2>2 DEF Maps
    <2>4. v + n <= SPACE
      <3> HIDE DEF v
      <3> QED
        BY <1>1, CoversNext DEF Addresses
    <2>5. /\ (a - v) % SPACE < n <=> v <= a /\ a < v + n
          /\ v <= a => (a - v) % SPACE = a - v
      <3> HIDE DEF v
      <3> QED
        BY <1>1, <2>1, <2>4, OffsetIn
    <2>6. WalkIn(tables', a) = IF v <= a /\ a < v + n THEN Target(request, a, features)
                               ELSE WalkIn(tables, a)
      BY <1>0, <2>1, MapPageDoes DEF n, Hits
    <2>7. v <= a => Target(request, a, features)
                      = [to |-> todo.physical + (a - v), rights |-> Wanted(todo.attributes, features)]
      <3>1. /\ v = request.virtual + Gone /\ todo.physical = request.physical + Gone
            /\ Gone \in Nat
        BY <1>0, MapPageDoes
      <3>2. todo.attributes = request.attributes
        BY MapPageDoes, WhileMapping DEF EndOf
      <3>3. request.virtual \in Nat /\ request.physical \in Nat /\ a \in Nat
        BY <2>1, MapPageDoes, WhileMapping, Asked DEF Addresses
      <3>4. request.physical + (a - request.virtual) = todo.physical + (a - v)
        <4> HIDE DEF v
        <4> QED
          BY <3>1, <3>3
      <3> QED
        BY <1>0, <3>2, <3>4 DEF Target
    <2> QED
      <3> HIDE DEF v
      <3> QED
        BY <2>3, <2>5, <2>6, <2>7
  <1>6. Translation' = [a \in Abs!Pages |->
                          IF Abs!Offset(todo, a) < n
                          THEN [to     |-> todo.physical + Abs!Offset(todo, a),
                                rights |-> Abs!Wanted(todo.attributes, features)]
                          ELSE Translation[a]]
    <2>1. Translation' = Maps(tables') /\ Translation = Maps(tables)
      BY TranslationIs
    <2>2. Maps(tables') = [a \in Pages |-> Maps(tables')[a]]
      BY DEF Maps
    <2> QED
      BY <1>5, <2>1, <2>2, SameNames
  <1>7. Abs!AbsMapRun(n)
    BY <1>1, <1>3, <1>4, <1>6 DEF Abs!AbsMapRun
  <1> QED
    BY <1>2, <1>7

\* Every step is one of the abstract pager, or nothing it sees.
LEMMA StepMaps ==
  ASSUME Orderly, CallsInv, [Next]_vars
  PROVE  [Abs!AbsNext]_(Abs!absvars)
  <1> IInv /\ asked \subseteq Requests
    BY DEF CallsInv
  <1> USE TranslationIs
  <1>1. CASE Create
    <2>1. status = "off" /\ status' \in {"idle", "hung"} /\ UNCHANGED <<todo, features, served>>
      BY <1>1 DEF Create, config, calls
    <2>2. Maps(tables) = [a \in Pages |-> Unmapped]
      <3>1. DOMAIN tables = {}
        BY <2>1 DEF IInv
      <3> QED
        BY <3>1 DEF Maps
    <2>3. Maps(tables') = [a \in Pages |-> Unmapped]
      <3>1. CASE tables' = tables
        BY <2>2, <3>1
      <3>2. CASE tables' = AddTable(tables)
        <4>1. DOMAIN tables = {} /\ Used = 0
          BY <2>1, FS_EmptySet DEF IInv, Used
        <4>2. tables' = [t \in {} \cup {Used + 1} |-> IF t \in {} THEN tables[t] ELSE EmptyTable]
          BY <3>2, <4>1 DEF AddTable
        <4>3. DOMAIN tables' = {Root} /\ tables'[Root] = EmptyTable
          BY <4>1, <4>2 DEF Root
        <4>4. \A a \in Addresses : WalkIn(tables', a) = Unmapped
          BY <4>3, SoundRoot
        <4> QED
          BY <4>3, <4>4, SameNames DEF Maps
      <3> QED
        BY <1>1, <3>1, <3>2 DEF Create
    <2>4. Abs!AbsCreate
      BY <2>1, <2>2, <2>3 DEF Abs!AbsCreate
    <2> QED
      BY <2>4 DEF Abs!AbsNext
  <1>2. ASSUME NEW r \in Requests \ asked, Call(r) PROVE [Abs!AbsNext]_(Abs!absvars)
    <2>1. Abs!AbsCall(r)
      BY <1>2 DEF Call, Ask, Abs!AbsCall
    <2> QED
      BY <2>1 DEF Abs!AbsNext
  <1>3. CASE Round
    BY <1>3 DEF Round, config, calls, Abs!absvars
  <1>4. CASE MakeTable
    <2>1. Translation' = Translation
      <3>1. \A a \in Addresses : WalkIn(tables', a) = WalkIn(tables, a)
        BY <1>4, MakeTableDoes
      <3>2. status = "mapping" /\ status' = "mapping"
        BY <1>4 DEF MakeTable, Walking
      <3>3. IInv'
        BY <1>4, MapKeeps DEF Map
      <3>4. Root \in DOMAIN tables /\ Root \in DOMAIN tables'
        BY <3>2, <3>3 DEF IInv, TypeInv
      <3> QED
        BY <3>1, <3>4, SameMaps
    <2> QED
      BY <1>4, <2>1 DEF MakeTable, config, calls, Abs!absvars
  <1>5. CASE GiveUp
    <2>1. /\ status = "mapping" /\ status' = "idle" /\ level > leaf
          /\ UNCHANGED <<tables, features, served, todo>>
      BY <1>5 DEF GiveUp, Walking, config, calls
    <2>2. todo.size > 0
      <3>1. level > 0
        BY <2>1, WhileMapping
      <3>2. todo.size # 0 /\ todo.size \in Nat
        BY <2>1, <3>1, Walked
      <3> QED
        BY <3>2
    <2>3. Abs!AbsFail
      BY <2>1, <2>2 DEF Abs!AbsFail
    <2> QED
      BY <2>3 DEF Abs!AbsNext
  <1>6. CASE Enter
    <2>1. status' # "wild"
      BY <1>6, EnterKeeps DEF Rest
    <2> QED
      BY <1>6, <2>1 DEF Enter, config, calls, Abs!absvars
  <1>7. CASE MapPage
    BY <1>7, MapPageMaps DEF Abs!AbsNext
  <1>8. CASE Return
    <2>1. /\ status = "mapping" /\ todo.size = 0 /\ served' = served \cup {request}
          /\ status' = "idle" /\ UNCHANGED <<tables, features, todo>>
      BY <1>8 DEF Return, config
    <2>2. request \in Requests
      BY <2>1, WhileMapping
    <2>3. Abs!AbsSucceed(request)
      BY <2>1 DEF Abs!AbsSucceed
    <2> QED
      BY <2>2, <2>3 DEF Abs!AbsNext
  <1>9. CASE UNCHANGED vars
    BY <1>9 DEF vars, config, calls, Abs!absvars
  <1> QED
    BY <1>1, <1>2, <1>3, <1>4, <1>5, <1>6, <1>7, <1>8, <1>9 DEF Next, Map

\* The page tables implement the abstract address space.
THEOREM PagerImplementsAbsPager == ASSUME Orderly PROVE Spec => ImplementsAbsPager
  <1>1. Init => Abs!AbsInit
    BY InitMaps
  <1>2. CallsInv /\ [Next]_vars => [Abs!AbsNext]_(Abs!absvars)
    BY StepMaps
  <1> QED
    BY <1>1, <1>2, PagerCorrect, PTL DEF Spec, ImplementsAbsPager, Abs!AbsSpec
=============================================================================
