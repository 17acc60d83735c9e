---------------------------- MODULE TerminalProofs ----------------------------
(***************************************************************************)
(* Theorems about the serial port and the screen, for every screen, any    *)
(* number of NMIs and any number of characters that their handlers print.  *)
(***************************************************************************)
EXTENDS Terminal, TLAPS

-----------------------------------------------------------------------------
(* The inductive invariant                                                 *)

SetUp   == {"lcr", "open", "low", "high", "close", "mcr"}
Sending == {"idle", "read", "test", "send"}
Drawing == {"wrap", "wrap_y", "wrap_store", "wrap_x", "page", "page_y", "page_x",
            "clear", "place_x", "place_y", "newline", "line_y", "line_store",
            "tab", "tab_store", "nul", "glyph", "next_x", "next_store"}

\* The steps of a character before its column and its line are known to be
\* inside: WITH the column, and with the line.
ColumnOpen == Sending \cup {"wrap", "wrap_y", "wrap_store", "wrap_x"}
LineOpen   == Sending \cup {"wrap", "wrap_y", "wrap_store"}

AllLabels == {"out"} \cup SetUp \cup Sending \cup Drawing

UartType == [present : BOOLEAN, lcr : SUBSET ALL_BITS, divisor : Nat,
             mcr : SUBSET ALL_BITS, thr : BOOLEAN]

PortType ==
  /\ uart \in UartType
  /\ uart.divisor < 65536
  /\ uart.thr => uart.present
  /\ dlab \in SUBSET ALL_BITS

Places ==
  /\ pc \in [Both -> AllLabels]
  /\ pc["main"] # "out" /\ pc["nmi"] \notin SetUp
  /\ pc["main"] \in SetUp => pc["nmi"] = "out"

LocalsType ==
  /\ c \in [Both -> Chars \cup {"nul"}]
  /\ lsr \in [Both -> BOOLEAN]
  /\ acc \in [Both -> Nat] /\ sx \in [Both -> Nat] /\ sy \in [Both -> Nat]

CountsType ==
  /\ overruns \in Nat /\ cuts \in Nat
  /\ nmis \in Nat /\ prints \in 0..MaxPrints /\ cuts <= nmis
  /\ pc["nmi"] # "out" => nmis > 0

Types ==
  PortType /\ Places /\ LocalsType /\ CountsType /\ term \in Screens \cup {None}

\* How far init_uart() is.
PortSetUp ==
  uart.present =>
    /\ pc["main"] \in {"low", "high", "close"} => DLAB \in uart.lcr
    /\ pc["main"] = "high" => uart.divisor % 256 = 1
    /\ pc["main"] \notin {"lcr", "open", "low", "high"} => uart.divisor = 1
    /\ pc["main"] \notin SetUp => 4 \notin uart.mcr
    /\ pc["main"] \notin {"lcr", "open", "low", "high", "close"} => DLAB \notin uart.lcr

\* Who has seen the port ready finds it so, or an NMI came in between.
Polled(p) == pc[p] = "send" \/ (pc[p] = "test" /\ lsr[p])

Losses ==
  /\ \A p \in Both : pc[p] = "send" => lsr[p]
  /\ Polled("nmi") => ~ uart.thr
  /\ overruns <= cuts
  /\ Polled("main") /\ (uart.thr \/ pc["nmi"] # "out") => overruns < cuts

\* How far the cursor may be out, by where the program is.
MainX == IF pc["main"] \in ColumnOpen THEN Columns + 15 ELSE Columns + 7

MainY ==
  IF pc["main"] \in {"wrap_x", "page", "page_y"} THEN Rows + 2
  ELSE IF pc["main"] \in LineOpen THEN Rows + 1 ELSE Rows

\* Where the program is in its loads and stores.
MainLoads ==
  /\ pc["main"] = "wrap_store" => acc["main"] <= Rows + 1
  /\ pc["main"] = "line_store" => acc["main"] <= Rows
  /\ pc["main"] \in {"tab_store", "next_store"} => acc["main"] <= Columns + 7

\* While the handler prints, it has the cursor to itself.
NmiCursor ==
  IF pc["nmi"] \in {"out"} \cup LineOpen
  THEN /\ term_x <= MainX /\ term_y <= MainY
       /\ pc["nmi"] = "wrap_store" => acc["nmi"] <= MainY
  ELSE IF pc["nmi"] = "wrap_x" THEN term_x <= MainX /\ term_y <= MainY + 1
  ELSE /\ term_x < Columns
       /\ term_y <= IF pc["nmi"] \in {"page", "page_y"} THEN MainY + 1 ELSE Rows - 1
       /\ pc["nmi"] = "line_store" => acc["nmi"] < Rows
       /\ pc["nmi"] \in {"tab_store", "next_store"} => acc["nmi"] < Columns

Cursor ==
  /\ term_x \in Nat /\ term_y \in Nat
  /\ IF term = None
     THEN /\ term_x = 0 /\ term_y = 0
          /\ \A p \in Both : pc[p] \notin Drawing /\ sx[p] = 0 /\ sy[p] = 0
     ELSE /\ pc["main"] \notin SetUp
          /\ MainLoads /\ NmiCursor
          /\ \A p \in Both : sx[p] <= 8 * (Columns + 7) /\ sy[p] <= 8 * Rows

IInv == Types /\ PortSetUp /\ Losses /\ Cursor /\ beyond = {}

-----------------------------------------------------------------------------
(* The screen                                                              *)

\* A screen has a column and a line, and five lines of text that are free.
LEMMA ScreenFacts ==
  ASSUME term \in Screens
  PROVE  /\ term # None
         /\ Columns \in Nat /\ Columns >= 1 /\ 8 * Columns <= term.width
         /\ Rows \in Nat /\ Rows >= 1 /\ 8 * (Rows + 5) <= term.height
         /\ term.width \in Nat /\ term.height \in Nat /\ term.width >= 8
  <1>1. /\ term.width \in Nat /\ term.height \in Nat
        /\ term.width >= 8 /\ term.height >= 48
    BY ScreensAssumption
  <1>2. term # None
    BY <1>1 DEF None
  <1>3. \A n \in Nat : n >= 8 => n \div 8 \in Nat /\ n \div 8 >= 1 /\ 8 * (n \div 8) <= n
    OBVIOUS
  <1>4. \A n \in Nat : n >= 48 =>
          n \div 8 - 5 \in Nat /\ n \div 8 - 5 >= 1 /\ 8 * ((n \div 8 - 5) + 5) <= n
    OBVIOUS
  <1> QED
    BY <1>1, <1>2, <1>3, <1>4 DEF Columns, Rows

\* The last pixel of a cell that begins inside the free lines is on the screen.
LEMMA CellInside ==
  ASSUME term \in Screens, NEW p \in Both,
         sx[p] \in Nat, sy[p] \in Nat,
         sx[p] <= 8 * (Columns + 7), sy[p] <= 8 * Rows
  PROVE  LastPixel(p) < term.width * term.height
  <1> DEFINE w == term.width
             h == term.height
  <1>1. /\ w \in Nat /\ h \in Nat /\ w >= 8
        /\ sx[p] + 7 <= w + 63 /\ sy[p] + 7 <= h - 33 /\ h >= 48
    BY ScreenFacts
  <1>2. \A a, b, m, n \in Nat :
          m >= 8 /\ n >= 48 /\ a <= m + 63 /\ b <= n - 33 => a + b * m < m * n
    <2> TAKE a, b, m, n \in Nat
    <2> HAVE m >= 8 /\ n >= 48 /\ a <= m + 63 /\ b <= n - 33
    <2>1. b * m <= (n - 33) * m
      OBVIOUS
    <2>2. (n - 33) * m = m * n - 33 * m
      OBVIOUS
    <2> QED
      BY <2>1, <2>2
  <1>3. (sx[p] + 7) \in Nat /\ (sy[p] + 7) \in Nat
    OBVIOUS
  <1>4. (sx[p] + 7) + (sy[p] + 7) * w < w * h
    BY <1>1, <1>2, <1>3
  <1> QED
    BY <1>4, <1>1 DEF LastPixel

-----------------------------------------------------------------------------
(* The steps                                                               *)

\* The labels are what they are.
LEMMA Labels ==
  /\ "out" \notin SetUp \cup Sending \cup Drawing
  /\ \A l \in Drawing \cup {"idle"} :
       /\ l \notin SetUp /\ l \notin {"test", "send", "out"}
       /\ l \notin {"lcr", "open", "low", "high", "close"}
  /\ \A l \in Drawing \cup {"idle"} : l \in AllLabels
  /\ \A l \in Drawing : l \notin Sending
  /\ {"idle", "read", "test", "send"} = Sending
  /\ \A l \in Sending : l \in AllLabels /\ l \notin SetUp /\ l \notin Drawing /\ l # "out"
  BY DEF SetUp, Sending, Drawing, AllLabels

\* A step of a character on the screen leaves the port and who waits for it.
LEMMA DrawingStep ==
  ASSUME IInv, NEW p \in Both, NEW from \in Drawing, NEW to \in Drawing \cup {"idle"},
         Step(p, from, to),
         UNCHANGED <<c, lsr, prints>>,
         acc' \in [Both -> Nat], sx' \in [Both -> Nat], sy' \in [Both -> Nat]
  PROVE  /\ Types' /\ PortSetUp' /\ Losses'
         /\ pc[p] = from /\ pc'[p] = to
         /\ \A q \in Both : q # p => pc'[q] = pc[q]
         /\ p = "main" => pc["nmi"] = "out"
         /\ p = "nmi" => pc["nmi"] # "out"
         /\ term \in Screens /\ UNCHANGED term
  <1>1. /\ pc["nmi"] = "out" => p = "main"
        /\ pc["nmi"] # "out" => p = "nmi"
        /\ pc[p] = from /\ pc' = [pc EXCEPT ![p] = to]
        /\ UNCHANGED <<uart, term, dlab, overruns, nmis, cuts>>
    BY DEF Step, Running, Goto
  <1>2. /\ to \in AllLabels /\ to \notin SetUp /\ to # "out"
        /\ from \notin SetUp /\ from # "out"
        /\ to \notin {"test", "send"} /\ from \notin {"test", "send"}
    BY Labels
  <1>3. /\ pc'[p] = to /\ pc' \in [Both -> AllLabels]
        /\ \A q \in Both : q # p => pc'[q] = pc[q]
    BY <1>1, <1>2 DEF IInv, Types, Places
  <1>4. /\ p = "main" => pc["nmi"] = "out"
        /\ p = "nmi" => pc["nmi"] # "out"
    BY <1>1
  <1>5. term # None
    BY <1>1 DEF IInv, Cursor
  <1>6. term \in Screens
    BY <1>5 DEF IInv, Types
  <1>7. "main" \in Both /\ "nmi" \in Both /\ (p = "main" \/ p = "nmi")
    BY DEF Both
  <1>8. pc["main"] \notin SetUp /\ pc'["main"] \notin SetUp
    BY <1>1, <1>2, <1>3, <1>4, <1>7 DEF IInv, Types, Places
  <1>9. Places'
    <2>1. pc'["main"] # "out" /\ pc'["nmi"] \notin SetUp
      BY <1>2, <1>3, <1>7 DEF IInv, Types, Places
    <2> QED
      BY <1>3, <1>8, <2>1 DEF Places
  <1>10. pc'["nmi"] # "out" => pc["nmi"] # "out"
    BY <1>3, <1>4, <1>7
  <1>11. CountsType'
    BY <1>1, <1>10 DEF IInv, Types, CountsType
  <1>12. Types'
    <2>1. PortType'
      BY <1>1 DEF IInv, Types, PortType
    <2>2. LocalsType'
      BY DEF IInv, Types, LocalsType
    <2> QED
      BY <1>1, <1>9, <1>11, <2>1, <2>2 DEF IInv, Types
  <1>13. PortSetUp'
    <2>1. /\ pc'["main"] \notin {"lcr", "open", "low", "high", "close"}
          /\ pc["main"] \notin {"lcr", "open", "low", "high", "close"}
      BY <1>8 DEF SetUp
    <2> QED
      BY <1>1, <1>8, <2>1 DEF IInv, PortSetUp
  <1>14. Losses'
    <2>1. \A q \in Both : Polled(q)' => q # p /\ Polled(q)
      BY <1>1, <1>2, <1>3 DEF Polled
    <2>2. \A q \in Both : pc'[q] = "send" => lsr'[q]
      BY <1>1, <1>2, <1>3 DEF IInv, Losses
    <2> QED
      BY <1>1, <1>7, <1>10, <2>1, <2>2 DEF IInv, Losses
  <1> QED
    BY <1>1, <1>3, <1>4, <1>6, <1>12, <1>13, <1>14

\* The cursor of a screen, which no step of a character takes away.
LEMMA OnScreen ==
  ASSUME IInv, NEW p \in Both, pc[p] \in Drawing
  PROVE  /\ term \in Screens
         /\ Columns \in Nat /\ Columns >= 1 /\ Rows \in Nat /\ Rows >= 1
         /\ term_x \in Nat /\ term_y \in Nat
         /\ MainLoads /\ NmiCursor
         /\ acc \in [Both -> Nat] /\ sx \in [Both -> Nat] /\ sy \in [Both -> Nat]
         /\ \A q \in Both : sx[q] <= 8 * (Columns + 7) /\ sy[q] <= 8 * Rows
         /\ UNCHANGED term => UNCHANGED <<Columns, Rows>>
  <1>1. term # None
    BY DEF IInv, Cursor
  <1>2. term \in Screens
    BY <1>1 DEF IInv, Types
  <1> QED
    BY <1>1, <1>2, ScreenFacts DEF IInv, Cursor, Types, LocalsType, Columns, Rows

\* On a screen the invariant holds again if the place of the cursor does.
LEMMA StillInside ==
  ASSUME IInv, NEW p \in Both, NEW from \in Drawing, NEW to \in Drawing \cup {"idle"},
         Step(p, from, to),
         UNCHANGED <<c, lsr, prints, beyond>>,
         acc' \in [Both -> Nat], sx' \in [Both -> Nat], sy' \in [Both -> Nat],
         term_x' \in Nat, term_y' \in Nat,
         MainLoads', NmiCursor',
         \A q \in Both : sx'[q] <= 8 * (Columns + 7) /\ sy'[q] <= 8 * Rows
  PROVE  IInv'
  <1>1. /\ Types' /\ PortSetUp' /\ Losses' /\ term' = term /\ term \in Screens
        /\ pc[p] = from
    BY DrawingStep
  <1>2. term' # None /\ Columns' = Columns /\ Rows' = Rows
    BY <1>1, ScreenFacts, OnScreen
  <1>3. pc'["main"] \notin SetUp
    <2>1. pc["main"] \notin SetUp
      BY <1>1, ScreenFacts DEF IInv, Cursor
    <2> QED
      BY <2>1, DrawingStep, Labels DEF Both
  <1>4. Cursor'
    BY <1>2, <1>3 DEF Cursor
  <1> QED
    BY <1>1, <1>4 DEF IInv

\* What is left to show of a step that moves the cursor, or draws.
Moves(p, from, to) ==
  /\ pc[p] = from /\ pc'[p] = to
  /\ \A q \in Both : q # p => pc'[q] = pc[q] /\ acc'[q] = acc[q]
  /\ p = "main" => pc["nmi"] = "out"
  /\ UNCHANGED <<Columns, Rows>>
  /\ Columns \in Nat /\ Columns >= 1 /\ Rows \in Nat /\ Rows >= 1
  /\ term_x \in Nat /\ term_y \in Nat /\ acc[p] \in Nat
  /\ MainLoads /\ NmiCursor
  /\ MainLoads' /\ NmiCursor' => IInv'

LEMMA StepMoves ==
  ASSUME IInv, NEW p \in Both, NEW from \in Drawing, NEW to \in Drawing \cup {"idle"},
         Step(p, from, to),
         UNCHANGED <<c, lsr, prints, beyond>>,
         acc' \in [Both -> Nat], \A q \in Both : q # p => acc'[q] = acc[q],
         term_x' \in Nat, term_y' \in Nat,
         sx' \in [Both -> Nat], sy' \in [Both -> Nat],
         \A q \in Both : sx'[q] <= 8 * (Columns + 7) /\ sy'[q] <= 8 * Rows
  PROVE  Moves(p, from, to)
  <1>1. pc[p] = from /\ pc[p] \in Drawing
    BY DEF Step
  <1>2. MainLoads' /\ NmiCursor' => IInv'
    BY StillInside
  <1> QED
    BY <1>1, <1>2, DrawingStep, OnScreen DEF Moves

\* A step that only tests.
LEMMA QuietMoves ==
  ASSUME IInv, NEW p \in Both, NEW from \in Drawing, NEW to \in Drawing \cup {"idle"},
         Step(p, from, to), Quiet
  PROVE  /\ Moves(p, from, to)
         /\ UNCHANGED <<term_x, term_y, acc>>
  <1>1. UNCHANGED <<c, lsr, prints, beyond, acc, sx, sy, term_x, term_y>>
    BY DEF Quiet, cursor
  <1>2. pc[p] = from /\ pc[p] \in Drawing
    BY DEF Step
  <1> QED
    BY <1>1, <1>2, OnScreen, StepMoves

\* A step that loads the column or the line.
LEMMA LoadMoves ==
  ASSUME IInv, NEW p \in Both, NEW from \in Drawing, NEW to \in Drawing,
         LoadX(p, from, to) \/ LoadY(p, from, to)
  PROVE  /\ Moves(p, from, to)
         /\ UNCHANGED <<term_x, term_y>>
         /\ LoadX(p, from, to) => acc'[p] = term_x
         /\ LoadY(p, from, to) => acc'[p] = term_y
  <1>1. /\ Step(p, from, to)
        /\ UNCHANGED <<c, lsr, prints, beyond, sx, sy, term_x, term_y>>
        /\ LoadX(p, from, to) => acc' = [acc EXCEPT ![p] = term_x]
        /\ LoadY(p, from, to) => acc' = [acc EXCEPT ![p] = term_y]
    BY DEF LoadX, LoadY, cursor
  <1>2. pc[p] = from /\ pc[p] \in Drawing
    BY <1>1 DEF Step
  <1>3. /\ acc' \in [Both -> Nat] /\ \A q \in Both : q # p => acc'[q] = acc[q]
        /\ LoadX(p, from, to) => acc'[p] = term_x
        /\ LoadY(p, from, to) => acc'[p] = term_y
    BY <1>1, <1>2, OnScreen
  <1> QED
    BY <1>1, <1>2, <1>3, OnScreen, StepMoves

\* A step that stores one of them.
LEMMA StoreMoves ==
  ASSUME IInv, NEW p \in Both, NEW from \in Drawing, NEW to \in Drawing \cup {"idle"},
         NEW v \in Nat, StoreX(p, from, to, v) \/ StoreY(p, from, to, v)
  PROVE  /\ Moves(p, from, to)
         /\ UNCHANGED acc
         /\ StoreX(p, from, to, v) => term_x' = v /\ UNCHANGED term_y
         /\ StoreY(p, from, to, v) => term_y' = v /\ UNCHANGED term_x
  <1>1. /\ Step(p, from, to)
        /\ UNCHANGED <<c, lsr, prints, beyond, acc, sx, sy>>
        /\ StoreX(p, from, to, v) => term_x' = v /\ UNCHANGED term_y
        /\ StoreY(p, from, to, v) => term_y' = v /\ UNCHANGED term_x
    BY DEF StoreX, StoreY
  <1>2. pc[p] = from /\ pc[p] \in Drawing
    BY <1>1 DEF Step
  <1>3. term_x' \in Nat /\ term_y' \in Nat
    BY <1>1, <1>2, OnScreen
  <1> QED
    BY <1>1, <1>2, <1>3, OnScreen, StepMoves

\* The tests of the column and of the line, the clearing of the screen, and
\* a character that is nothing.
LEMMA TestsKeep ==
  ASSUME IInv, NEW p \in Both,
         \/ Wrap(p) \/ Page(p) \/ Nul(p)
         \/ Step(p, "clear", "place_x") /\ Quiet
  PROVE  IInv'
  <1> USE DEF NmiCursor, MainLoads, MainX, MainY, Both, ColumnOpen, LineOpen, Sending
  <1>1. CASE Wrap(p)
    <2> DEFINE to == IF Full THEN "wrap_y" ELSE "page"
    <2>1. Moves(p, "wrap", to) /\ UNCHANGED <<term_x, term_y, acc>>
      BY <1>1, QuietMoves DEF Wrap, Drawing
    <2>2. MainLoads'
      BY <2>1 DEF Moves
    <2>3. NmiCursor'
      BY <2>1 DEF Moves, Full
    <2> QED
      BY <2>1, <2>2, <2>3 DEF Moves
  <1>2. CASE Page(p)
    <2> DEFINE to == IF term_y >= Rows THEN "page_y" ELSE "place_x"
    <2>1. Moves(p, "page", to) /\ UNCHANGED <<term_x, term_y, acc>>
      BY <1>2, QuietMoves DEF Page, Drawing
    <2>2. MainLoads'
      BY <2>1 DEF Moves
    <2>3. NmiCursor'
      BY <2>1 DEF Moves
    <2> QED
      BY <2>1, <2>2, <2>3 DEF Moves
  <1>3. CASE Nul(p)
    <2>1. Moves(p, "nul", "idle") /\ UNCHANGED <<term_x, term_y, acc>>
      BY <1>3, QuietMoves DEF Nul, Drawing
    <2>2. MainLoads'
      BY <2>1 DEF Moves
    <2>3. NmiCursor'
      BY <2>1 DEF Moves
    <2> QED
      BY <2>1, <2>2, <2>3 DEF Moves
  <1>4. CASE Step(p, "clear", "place_x") /\ Quiet
    <2>1. Moves(p, "clear", "place_x") /\ UNCHANGED <<term_x, term_y, acc>>
      BY <1>4, QuietMoves DEF Drawing
    <2>2. MainLoads'
      BY <2>1 DEF Moves
    <2>3. NmiCursor'
      BY <2>1 DEF Moves
    <2> QED
      BY <2>1, <2>2, <2>3 DEF Moves
  <1> QED
    BY <1>1, <1>2, <1>3, <1>4

\* To the next line.
LEMMA WrapLineKeeps == ASSUME IInv, NEW p \in Both, WrapLine(p) PROVE IInv'
  <1> USE DEF NmiCursor, MainLoads, MainX, MainY, Both, ColumnOpen, LineOpen, Sending
  <1>1. CASE LoadY(p, "wrap_y", "wrap_store")
    <2>1. Moves(p, "wrap_y", "wrap_store")
          /\ acc'[p] = term_y /\ UNCHANGED <<term_x, term_y>>
      BY <1>1, LoadMoves DEF Drawing
    <2>2. MainLoads'
      BY <2>1 DEF Moves
    <2>3. NmiCursor'
      BY <2>1 DEF Moves
    <2> QED
      BY <2>1, <2>2, <2>3 DEF Moves
  <1>2. CASE StoreY(p, "wrap_store", "wrap_x", acc[p] + 1)
    <2>0. acc[p] + 1 \in Nat
      BY <1>2, OnScreen DEF StoreX, StoreY, Step, Drawing
    <2>1. Moves(p, "wrap_store", "wrap_x")
          /\ term_y' = acc[p] + 1 /\ UNCHANGED <<term_x, acc>>
      BY <1>2, <2>0, StoreMoves DEF Drawing
    <2>2. MainLoads'
      BY <2>1 DEF Moves
    <2>3. NmiCursor'
      BY <2>1 DEF Moves
    <2> QED
      BY <2>1, <2>2, <2>3 DEF Moves
  <1>3. CASE StoreX(p, "wrap_x", "page", 0)
    <2>1. Moves(p, "wrap_x", "page")
          /\ term_x' = 0 /\ UNCHANGED <<term_y, acc>>
      BY <1>3, StoreMoves DEF Drawing
    <2>2. MainLoads'
      BY <2>1 DEF Moves
    <2>3. NmiCursor'
      BY <2>1 DEF Moves
    <2> QED
      BY <2>1, <2>2, <2>3 DEF Moves
  <1> QED
    BY <1>1, <1>2, <1>3 DEF WrapLine

\* Back to the first line.
LEMMA ClearPageKeeps == ASSUME IInv, NEW p \in Both, ClearPage(p) PROVE IInv'
  <1> USE DEF NmiCursor, MainLoads, MainX, MainY, Both, ColumnOpen, LineOpen, Sending
  <1>1. CASE StoreY(p, "page_y", "page_x", 0)
    <2>1. Moves(p, "page_y", "page_x")
          /\ term_y' = 0 /\ UNCHANGED <<term_x, acc>>
      BY <1>1, StoreMoves DEF Drawing
    <2>2. MainLoads'
      BY <2>1 DEF Moves
    <2>3. NmiCursor'
      BY <2>1 DEF Moves
    <2> QED
      BY <2>1, <2>2, <2>3 DEF Moves
  <1>2. CASE StoreX(p, "page_x", "clear", 0)
    <2>1. Moves(p, "page_x", "clear")
          /\ term_x' = 0 /\ UNCHANGED <<term_y, acc>>
      BY <1>2, StoreMoves DEF Drawing
    <2>2. MainLoads'
      BY <2>1 DEF Moves
    <2>3. NmiCursor'
      BY <2>1 DEF Moves
    <2> QED
      BY <2>1, <2>2, <2>3 DEF Moves
  <1> QED
    BY <1>1, <1>2, TestsKeep DEF ClearPage

\* A newline takes the cursor at most one line below the last.
LEMMA NewlineKeeps == ASSUME IInv, NEW p \in Both, Newline(p) PROVE IInv'
  <1> USE DEF NmiCursor, MainLoads, MainX, MainY, Both, ColumnOpen, LineOpen, Sending
  <1>1. CASE StoreX(p, "newline", "line_y", 0)
    <2>1. Moves(p, "newline", "line_y")
          /\ term_x' = 0 /\ UNCHANGED <<term_y, acc>>
      BY <1>1, StoreMoves DEF Drawing
    <2>2. MainLoads'
      BY <2>1 DEF Moves
    <2>3. NmiCursor'
      BY <2>1 DEF Moves
    <2> QED
      BY <2>1, <2>2, <2>3 DEF Moves
  <1>2. CASE LoadY(p, "line_y", "line_store")
    <2>1. Moves(p, "line_y", "line_store")
          /\ acc'[p] = term_y /\ UNCHANGED <<term_x, term_y>>
      BY <1>2, LoadMoves DEF Drawing
    <2>2. MainLoads'
      BY <2>1 DEF Moves
    <2>3. NmiCursor'
      BY <2>1 DEF Moves
    <2> QED
      BY <2>1, <2>2, <2>3 DEF Moves
  <1>3. CASE StoreY(p, "line_store", "idle", acc[p] + 1)
    <2>0. acc[p] + 1 \in Nat
      BY <1>3, OnScreen DEF StoreX, StoreY, Step, Drawing
    <2>1. Moves(p, "line_store", "idle")
          /\ term_y' = acc[p] + 1 /\ UNCHANGED <<term_x, acc>>
      BY <1>3, <2>0, StoreMoves DEF Drawing
    <2>2. MainLoads'
      BY <2>1 DEF Moves
    <2>3. NmiCursor'
      BY <2>1 DEF Moves
    <2> QED
      BY <2>1, <2>2, <2>3 DEF Moves
  <1> QED
    BY <1>1, <1>2, <1>3 DEF Newline

\* A tab takes it less than two tabs beyond the last column.
LEMMA TabKeeps == ASSUME IInv, NEW p \in Both, Tab(p) PROVE IInv'
  <1> USE DEF NmiCursor, MainLoads, MainX, MainY, Both, ColumnOpen, LineOpen, Sending
  <1>1. CASE LoadX(p, "tab", "tab_store")
    <2>1. Moves(p, "tab", "tab_store")
          /\ acc'[p] = term_x /\ UNCHANGED <<term_x, term_y>>
      BY <1>1, LoadMoves DEF Drawing
    <2>2. MainLoads'
      BY <2>1 DEF Moves
    <2>3. NmiCursor'
      BY <2>1 DEF Moves
    <2> QED
      BY <2>1, <2>2, <2>3 DEF Moves
  <1>2. CASE StoreX(p, "tab_store", "idle", acc[p] + 8)
    <2>0. acc[p] + 8 \in Nat
      BY <1>2, OnScreen DEF StoreX, StoreY, Step, Drawing
    <2>1. Moves(p, "tab_store", "idle")
          /\ term_x' = acc[p] + 8 /\ UNCHANGED <<term_y, acc>>
      BY <1>2, <2>0, StoreMoves DEF Drawing
    <2>2. MainLoads'
      BY <2>1 DEF Moves
    <2>3. NmiCursor'
      BY <2>1 DEF Moves
    <2> QED
      BY <2>1, <2>2, <2>3 DEF Moves
  <1> QED
    BY <1>1, <1>2 DEF Tab

\* A glyph is drawn on the screen, and moves the cursor by one.
LEMMA GlyphKeeps == ASSUME IInv, NEW p \in Both, Glyph(p) PROVE IInv'
  <1> USE DEF NmiCursor, MainLoads, MainX, MainY, Both, ColumnOpen, LineOpen, Sending
  <1>1. CASE LoadX(p, "next_x", "next_store")
    <2>1. Moves(p, "next_x", "next_store")
          /\ acc'[p] = term_x /\ UNCHANGED <<term_x, term_y>>
      BY <1>1, LoadMoves DEF Drawing
    <2>2. MainLoads'
      BY <2>1 DEF Moves
    <2>3. NmiCursor'
      BY <2>1 DEF Moves
    <2> QED
      BY <2>1, <2>2, <2>3 DEF Moves
  <1>2. CASE StoreX(p, "next_store", "idle", acc[p] + 1)
    <2>0. acc[p] + 1 \in Nat
      BY <1>2, OnScreen DEF StoreX, StoreY, Step, Drawing
    <2>1. Moves(p, "next_store", "idle")
          /\ term_x' = acc[p] + 1 /\ UNCHANGED <<term_y, acc>>
      BY <1>2, <2>0, StoreMoves DEF Drawing
    <2>2. MainLoads'
      BY <2>1 DEF Moves
    <2>3. NmiCursor'
      BY <2>1 DEF Moves
    <2> QED
      BY <2>1, <2>2, <2>3 DEF Moves
  <1>3. CASE /\ Step(p, "glyph", "next_x")
             /\ beyond' = IF LastPixel(p) >= term.width * term.height
                          THEN beyond \cup {LastPixel(p)} ELSE beyond
             /\ UNCHANGED <<cursor, c, lsr, acc, sx, sy, prints>>
    <2>1. pc[p] = "glyph" /\ pc[p] \in Drawing
      BY <1>3 DEF Step, Drawing
    <2>2. LastPixel(p) < term.width * term.height /\ LastPixel(p) \in Int
          /\ term.width * term.height \in Int
      <3>1. sx[p] \in Nat /\ sy[p] \in Nat /\ term.width \in Nat /\ term.height \in Nat
        BY <2>1, OnScreen, ScreenFacts
      <3>2. LastPixel(p) < term.width * term.height
        BY <2>1, <3>1, OnScreen, CellInside
      <3> QED
        BY <3>1, <3>2 DEF LastPixel
    <2>3. UNCHANGED beyond
      BY <1>3, <2>2
    <2>4. Step(p, "glyph", "next_x") /\ Quiet /\ "glyph" \in Drawing /\ "next_x" \in Drawing
      BY <1>3, <2>3 DEF Quiet, Drawing
    <2>5. Moves(p, "glyph", "next_x") /\ UNCHANGED <<term_x, term_y, acc>>
      BY <2>4, QuietMoves
    <2>6. MainLoads'
      BY <2>5 DEF Moves
    <2>7. NmiCursor'
      BY <2>5 DEF Moves
    <2> QED
      BY <2>5, <2>6, <2>7 DEF Moves
  <1> QED
    BY <1>1, <1>2, <1>3 DEF Glyph

\* The place to draw at is inside the free lines.
LEMMA PlaceKeeps == ASSUME IInv, NEW p \in Both, PlaceX(p) \/ PlaceY(p) PROVE IInv'
  <1> USE DEF NmiCursor, MainLoads, MainX, MainY, Both, ColumnOpen, LineOpen, Sending
  <1>1. CASE PlaceX(p)
    <2>1. /\ pc[p] = "place_x" /\ pc[p] \in Drawing
          /\ Step(p, "place_x", "place_y") /\ "place_x" \in Drawing /\ "place_y" \in Drawing
          /\ sx' = [sx EXCEPT ![p] = term_x * 8]
          /\ UNCHANGED <<term_x, term_y, c, lsr, acc, sy, beyond, prints>>
      BY <1>1 DEF PlaceX, Step, Drawing, cursor
    <2>2. pc["nmi"] = "out" => p = "main"
      BY <2>1 DEF Step, Running
    <2>3. pc["nmi"] # "out" => p = "nmi"
      BY <2>1 DEF Step, Running
    <2>4. term_x <= Columns + 7
      BY <2>1, <2>2, <2>3, OnScreen
    <2>5. /\ sx' \in [Both -> Nat]
          /\ \A q \in Both : sx'[q] <= 8 * (Columns + 7)
      BY <2>1, <2>4, OnScreen
    <2>6. Moves(p, "place_x", "place_y")
      BY <2>1, <2>5, OnScreen, StepMoves
    <2>7. MainLoads'
      BY <2>1, <2>6 DEF Moves
    <2>8. NmiCursor'
      BY <2>1, <2>6 DEF Moves
    <2> QED
      BY <2>6, <2>7, <2>8 DEF Moves
  <1>2. CASE PlaceY(p)
    <2>1. /\ pc[p] = "place_y" /\ pc[p] \in Drawing
          /\ Step(p, "place_y", c[p]) /\ "place_y" \in Drawing
          /\ sy' = [sy EXCEPT ![p] = term_y * 8]
          /\ UNCHANGED <<term_x, term_y, c, lsr, acc, sx, beyond, prints>>
      BY <1>2 DEF PlaceY, Step, Drawing, cursor
    <2>2. pc["nmi"] = "out" => p = "main"
      BY <2>1 DEF Step, Running
    <2>3. pc["nmi"] # "out" => p = "nmi"
      BY <2>1 DEF Step, Running
    <2>4. term_y <= Rows
      BY <2>1, <2>2, <2>3, OnScreen
    <2>5. /\ sy' \in [Both -> Nat]
          /\ \A q \in Both : sy'[q] <= 8 * Rows
      BY <2>1, <2>4, OnScreen
    <2>6. c[p] \in {"newline", "tab", "nul", "glyph"} /\ c[p] \in Drawing
      <3>1. c[p] \in {"newline", "tab", "nul", "glyph"}
        BY CharsAssumption DEF IInv, Types, LocalsType
      <3> QED
        BY <3>1 DEF Drawing
    <2>7. Moves(p, "place_y", c[p])
      BY <2>1, <2>5, <2>6, OnScreen, StepMoves
    <2>8. MainLoads'
      BY <2>1, <2>6, <2>7 DEF Moves
    <2>9. NmiCursor'
      BY <2>1, <2>6, <2>7 DEF Moves
    <2> QED
      BY <2>7, <2>8, <2>9 DEF Moves
  <1> QED
    BY <1>1, <1>2

-----------------------------------------------------------------------------
(* The port                                                                *)

\* A step before anything is drawn leaves the cursor where it may be.
LEMMA SendingStep ==
  ASSUME IInv, NEW p \in Both, Running = p, pc[p] \in Sending,
         NEW to \in Sending \cup {"wrap"}, Goto(p, to),
         to = "wrap" => term # None,
         UNCHANGED <<term, cursor>>,
         \A q \in Both : \/ acc'[q] = acc[q] /\ sx'[q] = sx[q] /\ sy'[q] = sy[q]
                         \/ acc'[q] = 0 /\ sx'[q] = 0 /\ sy'[q] = 0 /\ q = p
  PROVE  /\ Places' /\ Cursor'
         /\ pc'[p] = to /\ \A q \in Both : q # p => pc'[q] = pc[q]
         /\ p = "main" => pc["nmi"] = "out"
         /\ p = "nmi" => pc["nmi"] # "out"
         /\ pc["main"] \notin SetUp /\ pc'["main"] \notin SetUp
  <1>1. /\ p = "main" => pc["nmi"] = "out"
        /\ p = "nmi" => pc["nmi"] # "out"
    BY DEF Running
  <1>2. /\ to \in AllLabels /\ to \notin SetUp /\ to # "out" /\ pc[p] \notin SetUp
    BY Labels DEF Drawing
  <1>3. /\ pc'[p] = to /\ pc' \in [Both -> AllLabels]
        /\ \A q \in Both : q # p => pc'[q] = pc[q]
    BY <1>2 DEF Goto, IInv, Types, Places
  <1>4. "main" \in Both /\ "nmi" \in Both /\ (p = "main" \/ p = "nmi")
    BY DEF Both
  <1>5. pc["main"] \notin SetUp /\ pc'["main"] \notin SetUp
    BY <1>1, <1>2, <1>3, <1>4 DEF IInv, Types, Places
  <1>6. Places'
    <2>1. pc'["main"] # "out" /\ pc'["nmi"] \notin SetUp
      BY <1>2, <1>3, <1>4 DEF IInv, Types, Places
    <2> QED
      BY <1>3, <1>5, <2>1 DEF Places
  <1>7. Cursor'
    <2>1. UNCHANGED <<term_x, term_y, Columns, Rows>>
      BY DEF cursor, Columns, Rows
    <2>2. CASE term = None
      <3>1. to \notin Drawing
        BY <2>2, Labels
      <3>2. \A q \in Both : pc'[q] \notin Drawing
        BY <1>3, <2>2, <3>1 DEF IInv, Cursor
      <3> QED
        BY <2>1, <2>2, <3>2 DEF IInv, Cursor
    <2>3. CASE term # None
      <3>1. term \in Screens
        BY <2>3 DEF IInv, Types
      <3>2. Columns \in Nat /\ Rows \in Nat
        BY <3>1, ScreenFacts
      <3>3. /\ MainLoads /\ NmiCursor
            /\ \A q \in Both : sx[q] <= 8 * (Columns + 7) /\ sy[q] <= 8 * Rows
        BY <2>3 DEF IInv, Cursor
      <3>4. \A q \in Both : sx'[q] <= 8 * (Columns + 7) /\ sy'[q] <= 8 * Rows
        BY <3>2, <3>3
      <3>5. \A q \in Both : q # p => acc'[q] = acc[q]
        OBVIOUS
      <3>6. pc[p] \in {"idle", "read", "test", "send"}
            /\ pc'[p] \in {"idle", "read", "test", "send", "wrap"}
        BY <1>3 DEF Sending
      <3>7. MainLoads'
        BY <1>1, <1>3, <1>4, <2>1, <3>3, <3>5, <3>6 DEF MainLoads
      <3>8. MainX' = MainX /\ MainY' = MainY
        BY <1>3, <1>4, <2>1, <3>6 DEF MainX, MainY, ColumnOpen, LineOpen, Sending
      <3>9. NmiCursor'
        BY <1>1, <1>3, <1>4, <2>1, <3>3, <3>5, <3>6, <3>8 DEF NmiCursor, LineOpen, Sending
      <3> QED
        BY <1>5, <2>1, <2>3, <3>4, <3>7, <3>9 DEF IInv, Cursor
    <2> QED
      BY <2>2, <2>3
  <1> QED
    BY <1>1, <1>3, <1>5, <1>6, <1>7

\* What one access changes of the port.
LEMMA UartChanges ==
  ASSUME NEW u \in UartType
  PROVE  /\ /\ u.present \in BOOLEAN /\ u.thr \in BOOLEAN /\ u.divisor \in Nat
            /\ u.lcr \in SUBSET ALL_BITS /\ u.mcr \in SUBSET ALL_BITS
         /\ LET n == [u EXCEPT !.thr = TRUE] IN
              /\ n \in UartType
              /\ n.present = u.present /\ n.lcr = u.lcr /\ n.divisor = u.divisor
              /\ n.mcr = u.mcr
         /\ LET n == [u EXCEPT !.thr = FALSE] IN
              /\ n \in UartType /\ ~ n.thr
              /\ n.present = u.present /\ n.lcr = u.lcr /\ n.divisor = u.divisor
              /\ n.mcr = u.mcr
         /\ \A l \in SUBSET ALL_BITS : LET n == [u EXCEPT !.lcr = l] IN
              /\ n \in UartType /\ n.lcr = l
              /\ n.present = u.present /\ n.thr = u.thr /\ n.divisor = u.divisor
              /\ n.mcr = u.mcr
         /\ \A d \in Nat : LET n == [u EXCEPT !.divisor = d] IN
              /\ n \in UartType /\ n.divisor = d
              /\ n.present = u.present /\ n.thr = u.thr /\ n.lcr = u.lcr
              /\ n.mcr = u.mcr
         /\ \A m \in SUBSET ALL_BITS : LET n == [u EXCEPT !.mcr = m] IN
              /\ n \in UartType /\ n.mcr = m
              /\ n.present = u.present /\ n.thr = u.thr /\ n.lcr = u.lcr
              /\ n.divisor = u.divisor
  BY DEF UartType

\* Where the port is not touched, what was made of it stays.
LEMMA PortKept ==
  ASSUME IInv, UNCHANGED <<uart, dlab>>, pc["main"] \notin SetUp, pc'["main"] \notin SetUp
  PROVE  PortType' /\ PortSetUp'
  <1>1. PortType'
    BY DEF IInv, Types, PortType
  <1> QED
    BY <1>1 DEF IInv, PortSetUp, SetUp

\* A character begins.
LEMMA PutcharKeeps ==
  ASSUME IInv, NEW p \in Both, NEW ch \in Chars, Putchar(p, ch)
  PROVE  IInv'
  <1>1. /\ Step(p, "idle", "read") /\ NewLocals(p)
        /\ c' = [c EXCEPT ![p] = ch] /\ UNCHANGED <<cursor, beyond>>
        /\ prints' = prints \/ (prints < MaxPrints /\ prints' = prints + 1)
    BY DEF Putchar
  <1>2. /\ Running = p /\ pc[p] = "idle" /\ Goto(p, "read")
        /\ UNCHANGED <<uart, term, dlab, overruns, nmis, cuts>>
    BY <1>1 DEF Step
  <1>3. /\ lsr' = [lsr EXCEPT ![p] = FALSE] /\ acc' = [acc EXCEPT ![p] = 0]
        /\ sx' = [sx EXCEPT ![p] = 0] /\ sy' = [sy EXCEPT ![p] = 0]
    BY <1>1 DEF NewLocals
  <1>4. /\ LocalsType'
        /\ \A q \in Both : \/ acc'[q] = acc[q] /\ sx'[q] = sx[q] /\ sy'[q] = sy[q]
                           \/ acc'[q] = 0 /\ sx'[q] = 0 /\ sy'[q] = 0 /\ q = p
        /\ \A q \in Both : q # p => lsr'[q] = lsr[q]
    BY <1>1, <1>3 DEF IInv, Types, LocalsType
  <1>5. /\ Places' /\ Cursor'
        /\ pc'[p] = "read" /\ \A q \in Both : q # p => pc'[q] = pc[q]
        /\ p = "main" => pc["nmi"] = "out"
        /\ p = "nmi" => pc["nmi"] # "out"
        /\ pc["main"] \notin SetUp /\ pc'["main"] \notin SetUp
    BY <1>1, <1>2, <1>4, SendingStep DEF Sending
  <1>6. PortType' /\ PortSetUp'
    BY <1>2, <1>5, PortKept
  <1>7. pc'["nmi"] # "out" => pc["nmi"] # "out"
    BY <1>5 DEF Both
  <1>8. CountsType'
    <2>1. prints' \in 0..MaxPrints
      BY <1>1, BoundsAssumption DEF IInv, Types, CountsType
    <2> QED
      BY <1>2, <1>7, <2>1 DEF IInv, Types, CountsType
  <1>9. Losses'
    <2>1. \A q \in Both : Polled(q)' => Polled(q)
      BY <1>4, <1>5 DEF Polled
    <2>2. \A q \in Both : pc'[q] = "send" => lsr'[q]
      BY <1>4, <1>5 DEF IInv, Losses
    <2> QED
      BY <1>2, <1>7, <2>1, <2>2 DEF IInv, Losses, Both
  <1> QED
    BY <1>1, <1>2, <1>4, <1>5, <1>6, <1>8, <1>9 DEF IInv, Types

\* Who reads that the port is ready finds no character waiting.
LEMMA ReadStatusKeeps ==
  ASSUME IInv, NEW p \in Both, ReadStatus(p)
  PROVE  IInv'
  <1>1. /\ Step(p, "read", "test")
        /\ lsr' = [lsr EXCEPT ![p] = 5 \in InB(IF uart.thr THEN {} ELSE {5, 6})]
        /\ UNCHANGED <<cursor, c, acc, sx, sy, beyond, prints>>
    BY DEF ReadStatus
  <1>2. /\ Running = p /\ pc[p] = "read" /\ Goto(p, "test")
        /\ UNCHANGED <<uart, term, dlab, overruns, nmis, cuts>>
    BY <1>1 DEF Step
  <1>3. 5 \in InB(IF uart.thr THEN {} ELSE {5, 6}) => ~ uart.thr
    <2>1. uart.thr => uart.present
      BY DEF IInv, Types, PortType
    <2> QED
      BY <2>1 DEF InB
  <1>4. /\ lsr'[p] => ~ uart.thr
        /\ \A q \in Both : q # p => lsr'[q] = lsr[q]
    BY <1>1, <1>3 DEF IInv, Types, LocalsType
  <1>5. LocalsType'
    <2>1. (5 \in InB(IF uart.thr THEN {} ELSE {5, 6})) \in BOOLEAN
      OBVIOUS
    <2>2. lsr' \in [Both -> BOOLEAN]
      BY <1>1, <2>1 DEF IInv, Types, LocalsType
    <2> QED
      BY <1>1, <2>2 DEF IInv, Types, LocalsType
  <1>6. /\ Places' /\ Cursor'
        /\ pc'[p] = "test" /\ \A q \in Both : q # p => pc'[q] = pc[q]
        /\ p = "main" => pc["nmi"] = "out"
        /\ p = "nmi" => pc["nmi"] # "out"
        /\ pc["main"] \notin SetUp /\ pc'["main"] \notin SetUp
    BY <1>1, <1>2, SendingStep DEF Sending
  <1>7. PortType' /\ PortSetUp'
    BY <1>2, <1>6, PortKept
  <1>8. pc'["nmi"] # "out" => pc["nmi"] # "out"
    BY <1>6 DEF Both
  <1>9. CountsType'
    BY <1>1, <1>2, <1>8 DEF IInv, Types, CountsType
  <1>10. Losses'
    <2>1. Polled(p)' => ~ uart.thr
      BY <1>4, <1>6 DEF Polled
    <2>2. \A q \in Both : q # p => (Polled(q)' => Polled(q))
      BY <1>4, <1>6 DEF Polled
    <2>3. \A q \in Both : pc'[q] = "send" => lsr'[q]
      BY <1>4, <1>6 DEF IInv, Losses
    <2>4. p = "main" => pc'["nmi"] = "out"
      BY <1>6 DEF Both
    <2> QED
      BY <1>2, <1>8, <2>1, <2>2, <2>3, <2>4 DEF IInv, Losses, Both
  <1> QED
    BY <1>1, <1>2, <1>5, <1>6, <1>7, <1>9, <1>10 DEF IInv, Types

\* Nobody sends without having seen the port ready.
LEMMA TestStatusKeeps ==
  ASSUME IInv, NEW p \in Both, TestStatus(p)
  PROVE  IInv'
  <1> DEFINE to == IF lsr[p] THEN "send" ELSE "read"
  <1>1. Step(p, "test", to) /\ UNCHANGED <<cursor, c, lsr, acc, sx, sy, beyond, prints>>
    BY DEF TestStatus, Ready, Retry, Quiet
  <1>2. /\ Running = p /\ pc[p] = "test" /\ Goto(p, to)
        /\ UNCHANGED <<uart, term, dlab, overruns, nmis, cuts>>
    BY <1>1 DEF Step
  <1>3. /\ Places' /\ Cursor'
        /\ pc'[p] = to /\ \A q \in Both : q # p => pc'[q] = pc[q]
        /\ p = "main" => pc["nmi"] = "out"
        /\ p = "nmi" => pc["nmi"] # "out"
        /\ pc["main"] \notin SetUp /\ pc'["main"] \notin SetUp
    BY <1>1, <1>2, SendingStep DEF Sending
  <1>4. PortType' /\ PortSetUp'
    BY <1>2, <1>3, PortKept
  <1>5. pc'["nmi"] # "out" => pc["nmi"] # "out"
    BY <1>3 DEF Both
  <1>6. CountsType' /\ LocalsType'
    BY <1>1, <1>2, <1>5 DEF IInv, Types, CountsType, LocalsType
  <1>7. Losses'
    <2>1. \A q \in Both : Polled(q)' => Polled(q)
      BY <1>1, <1>2, <1>3 DEF Polled
    <2>2. \A q \in Both : pc'[q] = "send" => lsr'[q]
      BY <1>1, <1>3 DEF IInv, Losses
    <2> QED
      BY <1>2, <1>5, <2>1, <2>2 DEF IInv, Losses, Both
  <1> QED
    BY <1>1, <1>2, <1>3, <1>4, <1>6, <1>7 DEF IInv, Types

\* A character goes to the line, and takes the place of another only if the
\* handler came in between.
LEMMA SendKeeps ==
  ASSUME IInv, NEW p \in Both, Send(p)
  PROVE  IInv'
  <1> DEFINE to == IF term = None THEN "idle" ELSE "wrap"
  <1>1. /\ Running = p /\ pc[p] = "send" /\ Goto(p, to)
        /\ UNCHANGED <<term, cursor, c, lsr, acc, sx, sy, dlab, beyond, nmis, prints, cuts>>
    BY DEF Send, locals, counts
  <1>2. /\ Places' /\ Cursor'
        /\ pc'[p] = to /\ \A q \in Both : q # p => pc'[q] = pc[q]
        /\ p = "main" => pc["nmi"] = "out"
        /\ p = "nmi" => pc["nmi"] # "out"
        /\ pc["main"] \notin SetUp /\ pc'["main"] \notin SetUp
    BY <1>1, SendingStep DEF Sending
  <1>3. uart.present => DLAB \notin uart.lcr
    BY <1>2 DEF IInv, PortSetUp, SetUp
  <1>4. /\ uart' = IF uart.present THEN [uart EXCEPT !.thr = TRUE] ELSE uart
        /\ overruns' = IF uart.present /\ uart.thr THEN overruns + 1 ELSE overruns
    BY <1>3 DEF Send, OutData
  <1>5. /\ uart' \in UartType /\ (uart'.thr => uart'.present)
        /\ uart'.present = uart.present /\ uart'.lcr = uart.lcr
        /\ uart'.divisor = uart.divisor /\ uart'.mcr = uart.mcr
    <2>1. uart \in UartType /\ (uart.thr => uart.present)
      BY DEF IInv, Types, PortType
    <2>2. CASE uart.present
      <3> DEFINE n == [uart EXCEPT !.thr = TRUE]
      <3>1. /\ n \in UartType /\ n.present = uart.present /\ n.lcr = uart.lcr
            /\ n.divisor = uart.divisor /\ n.mcr = uart.mcr
        BY <2>1, UartChanges
      <3>2. uart' = n
        BY <1>4, <2>2
      <3> HIDE DEF n
      <3> QED
        BY <2>2, <3>1, <3>2
    <2>3. CASE ~ uart.present
      BY <1>4, <2>1, <2>3
    <2> QED
      BY <2>2, <2>3
  <1>6. PortType'
    BY <1>1, <1>5 DEF IInv, Types, PortType
  <1>7. PortSetUp'
    BY <1>1, <1>2, <1>5 DEF IInv, PortSetUp, SetUp
  <1>8. pc'["nmi"] # "out" => pc["nmi"] # "out"
    BY <1>2 DEF Both
  <1>9. overruns \in Nat /\ cuts \in Nat /\ overruns' \in Nat
    BY <1>4 DEF IInv, Types, CountsType
  <1>10. CountsType' /\ LocalsType'
    BY <1>1, <1>8, <1>9 DEF IInv, Types, CountsType, LocalsType
  <1>11. Losses'
    <2>1. \A q \in Both : Polled(q)' => Polled(q) /\ q # p
      BY <1>1, <1>2 DEF Polled
    <2>2. \A q \in Both : pc'[q] = "send" => lsr'[q]
      BY <1>1, <1>2 DEF IInv, Losses
    <2>3. Polled(p)
      BY <1>1 DEF Polled
    <2>4. CASE p = "main"
      <3>1. ~ Polled("nmi")' /\ ~ Polled("main")'
        BY <1>2, <2>1, <2>4 DEF Polled, Both
      <3>2. overruns' <= cuts'
        BY <1>1, <1>4, <1>9, <2>3, <2>4 DEF IInv, Losses
      <3> QED
        BY <2>2, <3>1, <3>2 DEF Losses
    <2>5. CASE p = "nmi"
      <3>1. ~ Polled("nmi")' /\ overruns' = overruns
        BY <1>4, <2>1, <2>3, <2>5 DEF IInv, Losses, Both
      <3>2. Polled("main")' => overruns < cuts
        BY <1>2, <2>1, <2>5 DEF IInv, Losses, Both
      <3>3. overruns <= cuts
        BY DEF IInv, Losses
      <3> QED
        BY <1>1, <2>2, <3>1, <3>2, <3>3 DEF Losses
    <2> QED
      BY <2>4, <2>5 DEF Both
  <1> QED
    BY <1>1, <1>2, <1>6, <1>7, <1>10, <1>11 DEF IInv, Types

\* The port sends what waits.
LEMMA TransmitKeeps == ASSUME IInv, Transmit PROVE IInv'
  <1> DEFINE n == [uart EXCEPT !.thr = FALSE]
  <1>1. /\ uart' = n
        /\ UNCHANGED <<term, cursor, pc, locals, beyond, overruns, counts>>
    BY DEF Transmit
  <1>2. UNCHANGED <<term, term_x, term_y, pc, c, lsr, acc, sx, sy, dlab, beyond,
                    overruns, nmis, prints, cuts>>
    BY <1>1 DEF cursor, locals, counts
  <1>3. uart \in UartType /\ uart.divisor < 65536
    BY DEF IInv, Types, PortType
  <1>4. /\ n \in UartType /\ ~ n.thr /\ n.present = uart.present
        /\ n.lcr = uart.lcr /\ n.divisor = uart.divisor /\ n.mcr = uart.mcr
    <2>1. uart \in UartType
      BY <1>3
    <2> QED
      BY <2>1, UartChanges
  <1> HIDE DEF n
  <1>5. PortType'
    BY <1>1, <1>2, <1>3, <1>4 DEF IInv, Types, PortType
  <1>6. Types'
    BY <1>2, <1>5 DEF IInv, Types, Places, LocalsType, CountsType
  <1>7. PortSetUp'
    BY <1>1, <1>2, <1>4 DEF IInv, PortSetUp
  <1>8. Losses'
    BY <1>1, <1>2, <1>4 DEF IInv, Losses, Polled
  <1>9. Cursor'
    BY <1>2 DEF IInv, Cursor, MainLoads, NmiCursor, MainX, MainY, Columns, Rows
  <1> QED
    BY <1>2, <1>6, <1>7, <1>8, <1>9 DEF IInv

\* A screen is found.
LEMMA SetTermKeeps == ASSUME IInv, SetTerm PROVE IInv'
  <1>1. /\ pc["main"] = "idle" /\ nmis = 0 /\ term = None /\ term' \in Screens
        /\ UNCHANGED <<uart, cursor, pc, locals, beyond, overruns, counts>>
    BY DEF SetTerm
  <1>2. UNCHANGED <<uart, term_x, term_y, pc, c, lsr, acc, sx, sy, dlab, beyond,
                    overruns, nmis, prints, cuts>>
    BY <1>1 DEF cursor, locals, counts
  <1>3. Types'
    BY <1>1, <1>2 DEF IInv, Types, PortType, Places, LocalsType, CountsType
  <1>4. PortSetUp' /\ Losses'
    BY <1>2 DEF IInv, PortSetUp, Losses, Polled
  <1>5. pc["nmi"] = "out"
    BY <1>1 DEF IInv, Types, CountsType
  <1>6. /\ term' # None
        /\ term'.width \div 8 \in Nat /\ term'.height \div 8 - 5 \in Nat
    <2>1. \A s \in Screens : /\ s.width \in Nat /\ s.height \in Nat
                             /\ s.width >= 8 /\ s.height >= 48
      BY ScreensAssumption
    <2>2. \A n \in Nat : n >= 8 => n \div 8 \in Nat
      OBVIOUS
    <2>3. \A n \in Nat : n >= 48 => n \div 8 - 5 \in Nat
      OBVIOUS
    <2> QED
      BY <1>1, <2>1, <2>2, <2>3 DEF None
  <1>7. /\ term_x = 0 /\ term_y = 0 /\ \A q \in Both : sx[q] = 0 /\ sy[q] = 0
    BY <1>1 DEF IInv, Cursor
  <1>8. (\A q \in Both : sx[q] <= 8 * (Columns + 7) /\ sy[q] <= 8 * Rows)'
    BY <1>2, <1>6, <1>7 DEF Columns, Rows
  <1>9. MainLoads'
    BY <1>1, <1>2 DEF MainLoads
  <1>10. NmiCursor'
    <2>1. pc'["nmi"] = "out" /\ pc'["main"] = "idle" /\ term_x' = 0 /\ term_y' = 0
      BY <1>1, <1>2, <1>5, <1>7
    <2> QED
      BY <1>6, <2>1 DEF NmiCursor, MainX, MainY, ColumnOpen, LineOpen, Sending, Columns, Rows
  <1>11. Cursor'
    BY <1>1, <1>2, <1>6, <1>7, <1>8, <1>9, <1>10 DEF Cursor, SetUp
  <1> QED
    BY <1>2, <1>3, <1>4, <1>11 DEF IInv

\* A handler begins, with the cursor of the program as it is.
LEMMA NmiKeeps == ASSUME IInv, Nmi PROVE IInv'
  <1>1. /\ Running = "main" /\ nmis < MaxNmis
        /\ pc["main"] \notin {"lcr", "open", "low", "high", "close", "mcr"}
        /\ pc' = [pc EXCEPT !["nmi"] = "idle"]
        /\ nmis' = nmis + 1 /\ prints' = 0
        /\ cuts' = IF pc["main"] \in {"test", "send"} THEN cuts + 1 ELSE cuts
        /\ UNCHANGED <<uart, term, term_x, term_y, c, lsr, acc, sx, sy, dlab, beyond, overruns>>
    BY DEF Nmi, Goto, locals, cursor
  <1>2. pc["nmi"] = "out" /\ pc["main"] \notin SetUp
    BY <1>1 DEF Running, SetUp
  <1>3. /\ pc' \in [Both -> AllLabels] /\ pc'["nmi"] = "idle" /\ pc'["main"] = pc["main"]
    BY <1>1, Labels DEF IInv, Types, Places, Both
  <1>4. nmis \in Nat /\ cuts \in Nat /\ overruns \in Nat /\ cuts <= nmis
    BY DEF IInv, Types, CountsType
  <1>5. CountsType'
    BY <1>1, <1>4, BoundsAssumption DEF CountsType
  <1>6. Places'
    BY <1>2, <1>3, Labels DEF IInv, Types, Places
  <1>7. PortType' /\ LocalsType' /\ term' \in Screens \cup {None}
    BY <1>1 DEF IInv, Types, PortType, LocalsType
  <1>8. PortSetUp'
    BY <1>1, <1>3 DEF IInv, PortSetUp
  <1>9. Losses'
    <2>1. ~ Polled("nmi")'
      BY <1>3 DEF Polled
    <2>2. \A q \in Both : pc'[q] = "send" => lsr'[q]
      BY <1>1, <1>3 DEF IInv, Losses, Both
    <2>3. overruns <= cuts
      BY DEF IInv, Losses
    <2>4. Polled("main")' => pc["main"] \in {"test", "send"}
      BY <1>3 DEF Polled
    <2> QED
      BY <1>1, <1>4, <2>1, <2>2, <2>3, <2>4 DEF Losses
  <1>10. Cursor'
    <2>1. UNCHANGED <<Columns, Rows>>
      BY <1>1 DEF Columns, Rows
    <2>2. CASE term = None
      <3>1. \A q \in Both : pc'[q] \notin Drawing
        BY <1>3, <2>2, Labels DEF IInv, Cursor, Both
      <3> QED
        BY <1>1, <2>2, <3>1 DEF IInv, Cursor
    <2>3. CASE term # None
      <3>1. MainLoads /\ NmiCursor
        BY <2>3 DEF IInv, Cursor
      <3>2. MainLoads'
        BY <1>1, <1>3, <2>1, <3>1 DEF MainLoads
      <3>3. NmiCursor'
        BY <1>1, <1>2, <1>3, <2>1, <3>1 DEF NmiCursor, MainX, MainY, LineOpen, Sending
      <3> QED
        BY <1>1, <1>2, <1>3, <2>1, <2>3, <3>2, <3>3 DEF IInv, Cursor
    <2> QED
      BY <2>2, <2>3
  <1> QED
    BY <1>1, <1>5, <1>6, <1>7, <1>8, <1>9, <1>10 DEF IInv, Types

\* A handler returns, and leaves the cursor where the program may have left it.
LEMMA NmiReturnKeeps == ASSUME IInv, NmiReturn PROVE IInv'
  <1>1. /\ pc["nmi"] = "idle" /\ pc' = [pc EXCEPT !["nmi"] = "out"]
        /\ c' = [c EXCEPT !["nmi"] = "nul"]
        /\ lsr' = [lsr EXCEPT !["nmi"] = FALSE] /\ acc' = [acc EXCEPT !["nmi"] = 0]
        /\ sx' = [sx EXCEPT !["nmi"] = 0] /\ sy' = [sy EXCEPT !["nmi"] = 0]
        /\ UNCHANGED <<uart, term, term_x, term_y, dlab, beyond, overruns, nmis, prints, cuts>>
    BY DEF NmiReturn, NewLocals, Goto, cursor, counts
  <1>2. /\ pc' \in [Both -> AllLabels] /\ pc'["nmi"] = "out" /\ pc'["main"] = pc["main"]
    BY <1>1 DEF IInv, Types, Places, Both, AllLabels
  <1>3. Places'
    BY <1>2, Labels DEF IInv, Types, Places
  <1>4. LocalsType'
    BY <1>1 DEF IInv, Types, LocalsType
  <1>5. PortType' /\ CountsType' /\ term' \in Screens \cup {None}
    BY <1>1, <1>2 DEF IInv, Types, PortType, CountsType
  <1>6. PortSetUp'
    BY <1>1, <1>2 DEF IInv, PortSetUp
  <1>7. /\ lsr'["main"] = lsr["main"] /\ acc'["main"] = acc["main"]
        /\ \A q \in Both : \/ sx'[q] = sx[q] /\ sy'[q] = sy[q]
                           \/ sx'[q] = 0 /\ sy'[q] = 0
    BY <1>1 DEF IInv, Types, LocalsType, Both
  <1>8. Losses'
    <2>1. ~ Polled("nmi")' /\ Polled("main")' = Polled("main")
      BY <1>2, <1>7 DEF Polled
    <2>2. \A q \in Both : pc'[q] = "send" => lsr'[q]
      BY <1>2, <1>7 DEF IInv, Losses, Both
    <2> QED
      BY <1>1, <1>2, <2>1, <2>2 DEF IInv, Losses
  <1>9. Cursor'
    <2>1. UNCHANGED <<Columns, Rows>>
      BY <1>1 DEF Columns, Rows
    <2>2. CASE term = None
      <3>1. \A q \in Both : pc'[q] \notin Drawing
        BY <1>2, <2>2, Labels DEF IInv, Cursor, Both
      <3> QED
        BY <1>1, <1>7, <2>2, <3>1 DEF IInv, Cursor
    <2>3. CASE term # None
      <3>1. MainLoads /\ NmiCursor /\ Columns \in Nat /\ Rows \in Nat
        BY <2>3, ScreenFacts DEF IInv, Cursor, Types
      <3>2. MainLoads'
        BY <1>2, <1>7, <2>1, <3>1 DEF MainLoads
      <3>3. NmiCursor'
        BY <1>1, <1>2, <2>1, <3>1 DEF NmiCursor, MainX, MainY, LineOpen, Sending
      <3>4. \A q \in Both : sx'[q] <= 8 * (Columns' + 7) /\ sy'[q] <= 8 * Rows'
        BY <1>7, <2>1, <2>3, <3>1 DEF IInv, Cursor
      <3> QED
        BY <1>1, <1>2, <2>3, <3>2, <3>3, <3>4 DEF IInv, Cursor
    <2> QED
      BY <2>2, <2>3
  <1> QED
    BY <1>1, <1>3, <1>4, <1>5, <1>6, <1>8, <1>9 DEF IInv, Types

-----------------------------------------------------------------------------
(* The set-up                                                              *)

\* During the set-up nothing but the port changes.
LEMMA SetUpStep ==
  ASSUME IInv, NEW from \in SetUp, NEW to \in SetUp \cup {"idle"}, Uart(from, to),
         UNCHANGED overruns, PortType', PortSetUp'
  PROVE  IInv'
  <1>1. /\ pc["main"] = from /\ pc' = [pc EXCEPT !["main"] = to]
        /\ UNCHANGED <<term, term_x, term_y, c, lsr, acc, sx, sy, beyond, nmis, prints, cuts>>
    BY DEF Uart, Goto, cursor, counts
  <1>2. pc["nmi"] = "out"
    BY <1>1 DEF IInv, Types, Places
  <1>3. to \in AllLabels /\ to \notin Drawing /\ to \notin {"out", "test", "send"}
    BY DEF SetUp, Drawing, AllLabels, Sending
  <1>4. /\ pc' \in [Both -> AllLabels] /\ pc'["nmi"] = "out" /\ pc'["main"] = to
    BY <1>1, <1>2, <1>3 DEF IInv, Types, Places, Both
  <1>5. Places'
    BY <1>3, <1>4, Labels DEF Places
  <1>6. LocalsType' /\ CountsType' /\ term' \in Screens \cup {None}
    BY <1>1, <1>4 DEF IInv, Types, LocalsType, CountsType
  <1>7. Losses'
    <2>1. \A q \in Both : pc'[q] \notin {"test", "send"}
      BY <1>3, <1>4 DEF Both
    <2>2. ~ Polled("nmi")' /\ ~ Polled("main")'
      BY <2>1 DEF Polled, Both
    <2> QED
      BY <1>1, <2>1, <2>2 DEF IInv, Losses
  <1>8. Cursor'
    <2>1. term = None
      BY <1>1 DEF IInv, Cursor
    <2>2. \A q \in Both : pc'[q] \notin Drawing
      BY <1>3, <1>4, Labels DEF Both
    <2> QED
      BY <1>1, <2>1, <2>2 DEF IInv, Cursor
  <1> QED
    BY <1>1, <1>5, <1>6, <1>7, <1>8 DEF IInv, Types

\* What the divisor is after its low half, and after its high half.
LEMMA DivisorHalves ==
  /\ \A d \in Nat : d < 65536 =>
       LET l == 256 * (d \div 256) + 1 IN l \in Nat /\ l < 65536 /\ l % 256 = 1
  /\ \A d \in Nat : d % 256 \in Nat /\ d % 256 < 65536
  <1>1. \A d \in Nat : d < 65536 => d \div 256 \in Nat /\ d \div 256 <= 255
    OBVIOUS
  <1>2. \A x \in Nat : x <= 255 =>
          256 * x + 1 \in Nat /\ 256 * x + 1 < 65536 /\ (256 * x + 1) % 256 = 1
    OBVIOUS
  <1>3. \A d \in Nat : d % 256 \in Nat /\ d % 256 < 256
    OBVIOUS
  <1> QED
    BY <1>1, <1>2, <1>3

\* The set-up of the port, access by access.
LEMMA InitUartKeeps == ASSUME IInv, InitUart PROVE IInv'
  <1>1. /\ uart \in UartType /\ dlab \in SUBSET ALL_BITS /\ DLAB \in ALL_BITS
        /\ uart.thr => uart.present
    BY DEF IInv, Types, PortType, DLAB, ALL_BITS
  <1>2. uart.divisor < 65536 /\ uart.divisor \in Nat /\ uart.lcr \in SUBSET ALL_BITS
        /\ uart.mcr \in SUBSET ALL_BITS
    <2>1. uart.divisor < 65536
      BY DEF IInv, Types, PortType
    <2>2. uart \in UartType
      BY <1>1
    <2>3. /\ uart.divisor \in Nat /\ uart.lcr \in SUBSET ALL_BITS
          /\ uart.mcr \in SUBSET ALL_BITS
      BY <2>2, UartChanges
    <2> QED
      BY <2>1, <2>3
  <1>3. PortSetUp
    BY DEF IInv
  <1>4. CASE ReadLcr
    <2>1. /\ Uart("lcr", "open") /\ UNCHANGED <<uart, overruns>>
          /\ dlab' = InB(uart.lcr)
      BY <1>4 DEF ReadLcr
    <2>2. pc["main"] = "lcr" /\ pc'["main"] = "open"
      BY <2>1 DEF Uart, Goto, IInv, Types, Places, Both
    <2>3. PortType'
      BY <1>1, <1>2, <2>1 DEF IInv, Types, PortType, InB
    <2>4. PortSetUp'
      BY <1>3, <2>1, <2>2 DEF PortSetUp, SetUp
    <2> QED
      BY <2>1, <2>3, <2>4, SetUpStep DEF SetUp
  <1>5. CASE OpenDivisor
    <2> DEFINE l == dlab \cup {DLAB}
    <2>1. /\ Uart("open", "low") /\ UNCHANGED overruns
          /\ dlab' = l
          /\ uart' = [uart EXCEPT !.lcr = IF uart.present THEN l ELSE @]
      BY <1>5 DEF OpenDivisor, OutLcr
    <2>2. l \in SUBSET ALL_BITS /\ DLAB \in l
      BY <1>1
    <2> HIDE DEF l
    <2>3. pc["main"] = "open" /\ pc'["main"] = "low"
      BY <2>1 DEF Uart, Goto, IInv, Types, Places, Both
    <2>4. /\ uart' \in UartType /\ uart'.present = uart.present /\ uart'.thr = uart.thr
          /\ uart'.divisor = uart.divisor /\ uart'.mcr = uart.mcr
          /\ uart.present => uart'.lcr = l
      BY <1>1, <2>1, <2>2 DEF UartType
    <2>5. PortType'
      BY <1>1, <1>2, <2>1, <2>2, <2>4 DEF PortType
    <2>6. PortSetUp'
      BY <2>2, <2>3, <2>4 DEF PortSetUp, SetUp
    <2> QED
      BY <2>1, <2>5, <2>6, SetUpStep DEF SetUp
  <1>6. CASE DivisorLow
    <2> DEFINE d == 256 * (uart.divisor \div 256) + 1
    <2>1. pc["main"] = "low" /\ pc'["main"] = "high" /\ Uart("low", "high")
      BY <1>6 DEF DivisorLow, Uart, Goto, IInv, Types, Places, Both
    <2>2. uart.present => DLAB \in uart.lcr
      BY <1>3, <2>1 DEF PortSetUp
    <2>3. /\ uart' = IF uart.present THEN [uart EXCEPT !.divisor = d] ELSE uart
          /\ UNCHANGED <<overruns, dlab>>
      BY <1>6, <2>2 DEF DivisorLow, OutData
    <2>4. d \in Nat /\ d < 65536 /\ d % 256 = 1
      BY <1>2, DivisorHalves
    <2> HIDE DEF d
    <2>5. /\ uart' \in UartType /\ uart'.present = uart.present /\ uart'.thr = uart.thr
          /\ uart'.lcr = uart.lcr /\ uart'.mcr = uart.mcr
          /\ uart.present => uart'.divisor = d
          /\ ~ uart.present => uart'.divisor = uart.divisor
      BY <1>1, <2>3, <2>4 DEF UartType
    <2>6. PortType'
      BY <1>1, <1>2, <2>3, <2>4, <2>5 DEF PortType
    <2>7. PortSetUp'
      BY <2>1, <2>2, <2>4, <2>5 DEF PortSetUp, SetUp
    <2> QED
      BY <2>1, <2>3, <2>6, <2>7, SetUpStep DEF SetUp
  <1>7. CASE DivisorHigh
    <2> DEFINE d == uart.divisor % 256
    <2>1. pc["main"] = "high" /\ pc'["main"] = "close" /\ Uart("high", "close")
      BY <1>7 DEF DivisorHigh, Uart, Goto, IInv, Types, Places, Both
    <2>2. uart.present => DLAB \in uart.lcr /\ d = 1
      BY <1>3, <2>1 DEF PortSetUp
    <2>3. /\ uart' = IF uart.present THEN [uart EXCEPT !.divisor = d] ELSE uart
          /\ UNCHANGED <<overruns, dlab>>
      BY <1>7, <2>2 DEF DivisorHigh
    <2>4. d \in Nat /\ d < 65536
      BY <1>2, DivisorHalves
    <2> HIDE DEF d
    <2>5. /\ uart' \in UartType /\ uart'.present = uart.present /\ uart'.thr = uart.thr
          /\ uart'.lcr = uart.lcr /\ uart'.mcr = uart.mcr
          /\ uart.present => uart'.divisor = d
          /\ ~ uart.present => uart'.divisor = uart.divisor
      BY <1>1, <2>3, <2>4 DEF UartType
    <2>6. PortType'
      BY <1>1, <1>2, <2>3, <2>4, <2>5 DEF PortType
    <2>7. PortSetUp'
      BY <2>1, <2>2, <2>3, <2>5 DEF PortSetUp, SetUp
    <2> QED
      BY <2>1, <2>3, <2>6, <2>7, SetUpStep DEF SetUp
  <1>8. CASE CloseDivisor
    <2> DEFINE l == dlab \ {DLAB}
    <2>1. /\ Uart("close", "mcr") /\ UNCHANGED overruns
          /\ dlab' = l
          /\ uart' = [uart EXCEPT !.lcr = IF uart.present THEN l ELSE @]
      BY <1>8 DEF CloseDivisor, OutLcr, Closed
    <2>2. l \in SUBSET ALL_BITS /\ DLAB \notin l
      BY <1>1
    <2> HIDE DEF l
    <2>3. pc["main"] = "close" /\ pc'["main"] = "mcr"
      BY <2>1 DEF Uart, Goto, IInv, Types, Places, Both
    <2>4. /\ uart' \in UartType /\ uart'.present = uart.present /\ uart'.thr = uart.thr
          /\ uart'.divisor = uart.divisor /\ uart'.mcr = uart.mcr
          /\ uart.present => uart'.lcr = l
      BY <1>1, <2>1, <2>2 DEF UartType
    <2>5. PortType'
      BY <1>1, <1>2, <2>1, <2>2, <2>4 DEF PortType
    <2>6. PortSetUp'
      BY <1>3, <2>2, <2>3, <2>4 DEF PortSetUp, SetUp
    <2> QED
      BY <2>1, <2>5, <2>6, SetUpStep DEF SetUp
  <1>9. CASE NoLoopback
    <2> DEFINE m == uart.mcr \ {4}
    <2>1. /\ Uart("mcr", "idle") /\ UNCHANGED overruns
          /\ dlab' = {}
          /\ uart' = [uart EXCEPT !.mcr = IF uart.present THEN m ELSE @]
      BY <1>9 DEF NoLoopback
    <2>2. m \in SUBSET ALL_BITS /\ 4 \notin m
      BY <1>2
    <2> HIDE DEF m
    <2>3. pc["main"] = "mcr" /\ pc'["main"] = "idle"
      BY <2>1 DEF Uart, Goto, IInv, Types, Places, Both
    <2>4. /\ uart' \in UartType /\ uart'.present = uart.present /\ uart'.thr = uart.thr
          /\ uart'.divisor = uart.divisor /\ uart'.lcr = uart.lcr
          /\ uart.present => uart'.mcr = m
      BY <1>1, <2>1, <2>2 DEF UartType
    <2>5. PortType'
      BY <1>1, <1>2, <2>1, <2>4 DEF PortType
    <2>6. PortSetUp'
      BY <1>3, <2>2, <2>3, <2>4 DEF PortSetUp, SetUp
    <2> QED
      BY <2>1, <2>5, <2>6, SetUpStep DEF SetUp
  <1> QED
    BY <1>4, <1>5, <1>6, <1>7, <1>8, <1>9 DEF InitUart

-----------------------------------------------------------------------------
(* The invariant                                                           *)

\* At the start nothing is set up, and the screen is not known.
LEMMA StartsWell == Init => IInv
  <1> SUFFICES ASSUME Init PROVE IInv
    OBVIOUS
  <1>1. PICK present \in BOOLEAN, l \in Found :
          uart = [present |-> present, lcr |-> l, divisor |-> 3 * 256 + 12, mcr |-> {3, 4},
                  thr |-> FALSE]
    BY DEF Init
  <1>2. uart \in UartType /\ uart.divisor = 3 * 256 + 12 /\ ~ uart.thr
    <2>1. l \in SUBSET ALL_BITS /\ {3, 4} \in SUBSET ALL_BITS
      BY <1>1, FoundAssumption DEF ALL_BITS
    <2> QED
      BY <1>1, <2>1 DEF UartType
  <1>3. /\ term = None /\ term_x = 0 /\ term_y = 0
        /\ dlab = {} /\ beyond = {} /\ overruns = 0 /\ cuts = 0 /\ nmis = 0 /\ prints = 0
        /\ c = [p \in Both |-> "nul"] /\ lsr = [p \in Both |-> FALSE]
        /\ acc = [p \in Both |-> 0] /\ sx = [p \in Both |-> 0] /\ sy = [p \in Both |-> 0]
    BY DEF Init
  <1>4. pc \in [Both -> AllLabels] /\ pc["main"] = "lcr" /\ pc["nmi"] = "out"
    <2>1. pc = [p \in Both |-> IF p = "main" THEN "lcr" ELSE "out"]
      BY DEF Init
    <2> QED
      BY <2>1 DEF Both, AllLabels, SetUp
  <1>5. PortType
    <2>1. uart.divisor < 65536
      BY <1>2
    <2> QED
      BY <1>2, <1>3, <2>1 DEF PortType
  <1>6. Places
    BY <1>4, Labels DEF Places
  <1>7. LocalsType
    <2>1. lsr \in [Both -> BOOLEAN]
      BY <1>3
    <2> QED
      BY <1>3, <2>1 DEF LocalsType
  <1>8. CountsType
    BY <1>3, <1>4, BoundsAssumption DEF CountsType
  <1>9. PortSetUp
    BY <1>4 DEF PortSetUp, SetUp
  <1>10. Losses
    BY <1>3, <1>4 DEF Losses, Polled, Both
  <1>11. Cursor
    <2>1. \A p \in Both : pc[p] \notin Drawing
      BY <1>4 DEF Both, Drawing
    <2> QED
      BY <1>3, <2>1 DEF Cursor
  <1> QED
    BY <1>3, <1>5, <1>6, <1>7, <1>8, <1>9, <1>10, <1>11 DEF IInv, Types

\* The invariant holds in every reachable state, whatever the handlers print.
THEOREM TerminalCorrect == Spec => []IInv
  <1>1. IInv /\ [Next]_vars => IInv'
    <2> SUFFICES ASSUME IInv, [Next]_vars PROVE IInv'
      OBVIOUS
    <2>1. CASE InitUart
      BY <2>1, InitUartKeeps
    <2>2. CASE NmiReturn
      BY <2>2, NmiReturnKeeps
    <2>3. ASSUME NEW p \in Both, PutcharStep(p)
          PROVE  IInv'
      BY <2>3, ReadStatusKeeps, TestStatusKeeps, SendKeeps, TestsKeep, WrapLineKeeps,
         ClearPageKeeps, PlaceKeeps, NewlineKeeps, TabKeeps, GlyphKeeps DEF PutcharStep
    <2>4. CASE Transmit
      BY <2>4, TransmitKeeps
    <2>5. CASE SetTerm
      BY <2>5, SetTermKeeps
    <2>6. CASE Nmi
      BY <2>6, NmiKeeps
    <2>7. ASSUME NEW p \in Both, NEW ch \in Chars, Putchar(p, ch)
          PROVE  IInv'
      BY <2>7, PutcharKeeps
    <2>8. CASE UNCHANGED vars
      <3>1. UNCHANGED <<uart, term, term_x, term_y, pc, c, lsr, acc, sx, sy, dlab, beyond,
                        overruns, nmis, prints, cuts>>
        BY <2>8 DEF vars, cursor, locals, counts
      <3>2. Types'
        BY <3>1 DEF IInv, Types, PortType, Places, LocalsType, CountsType
      <3>3. PortSetUp' /\ Losses'
        BY <3>1 DEF IInv, PortSetUp, Losses, Polled
      <3>4. Cursor'
        BY <3>1 DEF IInv, Cursor, MainLoads, NmiCursor, MainX, MainY, Columns, Rows
      <3> QED
        BY <3>1, <3>2, <3>3, <3>4 DEF IInv
    <2> QED
      BY <2>1, <2>2, <2>3, <2>4, <2>5, <2>6, <2>7, <2>8 DEF Next, Run
  <1> QED
    BY <1>1, StartsWell, PTL DEF Spec

-----------------------------------------------------------------------------
(* The properties                                                          *)

\* Every variable holds a value of its type: the cursor is less than two tabs
\* beyond the last column and at most three lines below the last.
THEOREM TypesHold == Spec => []TypeOK
  <1>1. IInv => TypeOK
    <2> SUFFICES ASSUME IInv PROVE TypeOK
      OBVIOUS
    <2>1. /\ uart \in UartType /\ (uart.thr => uart.present)
      BY DEF IInv, Types, PortType
    <2>2. /\ uart.lcr \subseteq ALL_BITS /\ uart.mcr \subseteq ALL_BITS
          /\ uart.divisor \in Nat
      BY <2>1, UartChanges
    <2>3. uart.divisor < 65536
      BY DEF IInv, Types, PortType
    <2>4. \A p \in Both : c[p] \in Chars \cup {"nul"} /\ lsr[p] \in BOOLEAN
      BY DEF IInv, Types, LocalsType
    <2>5. /\ pc["nmi"] # "out" => nmis > 0
          /\ cuts \in 0..nmis /\ prints \in 0..MaxPrints
      BY DEF IInv, Types, CountsType
    <2>6. IF term = None THEN term_x = 0 /\ term_y = 0
          ELSE term_x \in 0..(Columns + 15) /\ term_y \in 0..(Rows + 3)
      <3>1. CASE term # None
        <4>1. Columns \in Nat /\ Rows \in Nat
          BY <3>1, ScreenFacts DEF IInv, Types
        <4>2. term_x \in Nat /\ term_y \in Nat /\ NmiCursor
          BY <3>1 DEF IInv, Cursor
        <4>3. MainX \in Nat /\ MainX <= Columns + 15 /\ MainY \in Nat /\ MainY <= Rows + 2
          BY <4>1 DEF MainX, MainY
        <4>4. term_x <= Columns + 15 /\ term_y <= Rows + 3
          BY <4>1, <4>2, <4>3 DEF NmiCursor
        <4> QED
          BY <3>1, <4>1, <4>2, <4>4
      <3> QED
        BY <3>1 DEF IInv, Cursor
    <2>7. term \in Screens \cup {None}
      BY DEF IInv, Types
    <2> QED
      BY <2>1, <2>2, <2>3, <2>4, <2>5, <2>6, <2>7 DEF TypeOK
  <1> QED
    BY <1>1, TerminalCorrect, PTL

\* No pixel is drawn behind the end of the frame buffer.
THEOREM DrawsInside == Spec => []PixelsInside
  <1>1. IInv => PixelsInside
    BY DEF IInv, PixelsInside
  <1> QED
    BY <1>1, TerminalCorrect, PTL

\* A character is lost only to an NMI between the poll and the write.
THEOREM LossesExplained == Spec => []LossExplained
  <1>1. IInv => LossExplained
    BY DEF IInv, Losses, LossExplained
  <1> QED
    BY <1>1, TerminalCorrect, PTL

\* From init_uart() on the port takes characters at the highest rate.
THEOREM PortStaysReady == Spec => []PortReady
  <1>1. IInv => PortReady
    BY DEF IInv, PortSetUp, PortReady, SetUp
  <1> QED
    BY <1>1, TerminalCorrect, PTL
=============================================================================
