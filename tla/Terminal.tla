------------------------------ MODULE Terminal ------------------------------
(***************************************************************************)
(* interface/terminal.c: characters for the serial port and the screen,    *)
(* and the set-up of the port; with the port itself (a 16550) as a device  *)
(* that works on its own, and exceptions (NMI) whose handler prints in the *)
(* middle of a term_putchar() of the program.                              *)
(*                                                                         *)
(* The build does not optimise: every access of term_x and term_y reads or *)
(* writes memory, and an increment is a load and a store.  The glyphs are  *)
(* left out; drawing touches at most the 8 x 8 pixels of a cell.           *)
(***************************************************************************)
EXTENDS Integers, FiniteSets

CONSTANTS
  Screens,       \* frame buffers GRUB may report: [width, height] in pixels
  Found,         \* what the line control register may hold at the start
  Chars,         \* characters printed, of "newline", "tab", "nul", "glyph"
  MaxNmis,       \* bound on the number of NMIs
  MaxPrints      \* characters that the handler prints, at most

ASSUME ScreensAssumption ==
  \A s \in Screens : s.width \in Nat /\ s.height \in Nat /\ s.width >= 8 /\ s.height >= 48

ASSUME FoundAssumption == Found \subseteq SUBSET (0..7)

ASSUME CharsAssumption == Chars \subseteq {"newline", "tab", "nul", "glyph"}

ASSUME BoundsAssumption == MaxNmis \in Nat /\ MaxPrints \in Nat

\* term.base is 0.
None == [width |-> 0, height |-> 0]

VARIABLES
  uart,          \* the port: [present, lcr, divisor, mcr, thr]
  term,          \* Arc_BootMeta.term, or None
  term_x, term_y,
  pc, c, lsr,    \* of "main" and "nmi": next step, argument, status read
  acc, sx, sy,   \* of both: the value loaded, the place to draw
  dlab,          \* of init_uart()
  beyond,        \* history: pixels drawn behind the end of the frame buffer
  overruns,      \* history: characters written over one not yet sent
  cuts,          \* history: NMIs between the poll of the port and the write
  nmis, prints   \* NMIs so far, characters printed in this one

locals == <<c, lsr, acc, sx, sy, dlab>>
cursor == <<term_x, term_y>>
counts == <<nmis, prints, cuts>>
vars   == <<uart, term, cursor, pc, locals, beyond, overruns, counts>>

Both == {"main", "nmi"}

\* Who runs: the handler until it returns.
Running == IF pc["nmi"] = "out" THEN "main" ELSE "nmi"

Goto(p, l) == pc' = [pc EXCEPT ![p] = l]

-----------------------------------------------------------------------------
(* The port.  A register is the set of its bits that are set.              *)

DLAB == 7
ALL_BITS == 0..7

\* inb(): nothing drives the bus where there is no port.
InB(value) == IF uart.present THEN value ELSE ALL_BITS

\* outb() to the line control register.
OutLcr(v) == uart' = [uart EXCEPT !.lcr = IF uart.present THEN v ELSE @]

\* outb() to the data register: half of the divisor while DLAB is set, else a
\* character, which takes the place of one that waits.
OutData(v) ==
  /\ uart' = IF ~ uart.present THEN uart
             ELSE IF DLAB \in uart.lcr
             THEN [uart EXCEPT !.divisor = 256 * (@ \div 256) + v]
             ELSE [uart EXCEPT !.thr = TRUE]
  /\ overruns' = IF uart.present /\ DLAB \notin uart.lcr /\ uart.thr
                 THEN overruns + 1 ELSE overruns

\* The port sends the character that waits.
Transmit ==
  /\ uart.thr
  /\ uart' = [uart EXCEPT !.thr = FALSE]
  /\ UNCHANGED <<term, cursor, pc, locals, beyond, overruns, counts>>

-----------------------------------------------------------------------------
(* init_uart(), before anything else: no handler is installed yet.         *)

\* Mutant: the bit that leads to the divisor stays set.
ClosedNot(l) == l

Closed(l) == l \ {DLAB}

Uart(from, to) ==
  /\ pc["main"] = from /\ Goto("main", to)
  /\ UNCHANGED <<term, cursor, c, lsr, acc, sx, sy, beyond, counts>>

\* lcr is read and changed to 8N1 as well, but never written.
ReadLcr ==
  /\ Uart("lcr", "open")
  /\ dlab' = InB(uart.lcr)
  /\ UNCHANGED <<uart, overruns>>

OpenDivisor ==
  /\ Uart("open", "low")
  /\ dlab' = dlab \cup {DLAB} /\ OutLcr(dlab')
  /\ UNCHANGED overruns

DivisorLow ==
  /\ Uart("low", "high")
  /\ OutData(1) /\ UNCHANGED dlab

\* With DLAB set, the next register is the other half of the divisor.
DivisorHigh ==
  /\ Uart("high", "close")
  /\ uart' = IF uart.present /\ DLAB \in uart.lcr
             THEN [uart EXCEPT !.divisor = @ % 256] ELSE uart
  /\ UNCHANGED <<overruns, dlab>>

CloseDivisor ==
  /\ Uart("close", "mcr")
  /\ dlab' = Closed(dlab) /\ OutLcr(dlab')
  /\ UNCHANGED overruns

\* Bit 4 of the modem control register is the loopback mode.
NoLoopback ==
  /\ Uart("mcr", "idle")
  /\ uart' = [uart EXCEPT !.mcr = IF uart.present THEN @ \ {4} ELSE @]
  /\ dlab' = {} /\ UNCHANGED overruns

InitUart ==
  ReadLcr \/ OpenDivisor \/ DivisorLow \/ DivisorHigh \/ CloseDivisor \/ NoLoopback

-----------------------------------------------------------------------------
(* term_putchar(), by main and by the handler.                             *)

\* Step of p from one label to another, that does not touch the port.
Step(p, from, to) ==
  /\ Running = p /\ pc[p] = from /\ Goto(p, to)
  /\ UNCHANGED <<uart, term, dlab, overruns, nmis, cuts>>

Quiet == UNCHANGED <<cursor, c, lsr, acc, sx, sy, beyond, prints>>

\* The locals of a call are not those of the last one.
NewLocals(p) ==
  /\ lsr' = [lsr EXCEPT ![p] = FALSE] /\ acc' = [acc EXCEPT ![p] = 0]
  /\ sx' = [sx EXCEPT ![p] = 0] /\ sy' = [sy EXCEPT ![p] = 0]

Putchar(p, ch) ==
  /\ Step(p, "idle", "read")
  /\ c' = [c EXCEPT ![p] = ch] /\ NewLocals(p)
  /\ IF p = "nmi" THEN prints < MaxPrints /\ prints' = prints + 1 ELSE UNCHANGED prints
  /\ UNCHANGED <<cursor, beyond>>

\* Mutant: the status is read once.
RetryStale == "test"

Retry == "read"

\* Bit 5 of the line status register: there is room for a character.
ReadStatus(p) ==
  /\ Step(p, "read", "test")
  /\ lsr' = [lsr EXCEPT ![p] = 5 \in InB(IF uart.thr THEN {} ELSE {5, 6})]
  /\ UNCHANGED <<cursor, c, acc, sx, sy, beyond, prints>>

\* Mutant: the port is taken to be ready.
ReadyAlways(p) == TRUE

Ready(p) == lsr[p]

TestStatus(p) ==
  /\ Step(p, "test", IF Ready(p) THEN "send" ELSE Retry)
  /\ Quiet

\* Without a screen that is all.
Send(p) ==
  /\ Running = p /\ pc[p] = "send"
  /\ Goto(p, IF term = None THEN "idle" ELSE "wrap")
  /\ OutData(2)
  /\ UNCHANGED <<term, cursor, locals, beyond, counts>>

Columns == term.width \div 8

\* Mutant: the screen is used to its last line.
RowsAll == term.height \div 8

Rows == term.height \div 8 - 5

\* Mutant: one column too many.
FullBeyond == term_x > Columns

Full == term_x >= Columns

Wrap(p) ==
  /\ Step(p, "wrap", IF Full THEN "wrap_y" ELSE "page")
  /\ Quiet

Page(p) ==
  /\ Step(p, "page", IF term_y >= Rows THEN "page_y" ELSE "place_x")
  /\ Quiet

\* Loads and stores of the two static variables.
LoadY(p, from, to) ==
  /\ Step(p, from, to) /\ acc' = [acc EXCEPT ![p] = term_y]
  /\ UNCHANGED <<cursor, c, lsr, sx, sy, beyond, prints>>

LoadX(p, from, to) ==
  /\ Step(p, from, to) /\ acc' = [acc EXCEPT ![p] = term_x]
  /\ UNCHANGED <<cursor, c, lsr, sx, sy, beyond, prints>>

StoreX(p, from, to, v) ==
  /\ Step(p, from, to) /\ term_x' = v
  /\ UNCHANGED <<term_y, c, lsr, acc, sx, sy, beyond, prints>>

StoreY(p, from, to, v) ==
  /\ Step(p, from, to) /\ term_y' = v
  /\ UNCHANGED <<term_x, c, lsr, acc, sx, sy, beyond, prints>>

\* term_y++; term_x = 0
WrapLine(p) ==
  \/ LoadY(p, "wrap_y", "wrap_store")
  \/ StoreY(p, "wrap_store", "wrap_x", acc[p] + 1)
  \/ StoreX(p, "wrap_x", "page", 0)

\* term_y = 0; term_x = 0; memset()
ClearPage(p) ==
  \/ StoreY(p, "page_y", "page_x", 0)
  \/ StoreX(p, "page_x", "clear", 0)
  \/ Step(p, "clear", "place_x") /\ Quiet

\* sx and sy, each from the cursor as it is by then.
PlaceX(p) ==
  /\ Step(p, "place_x", "place_y") /\ sx' = [sx EXCEPT ![p] = term_x * 8]
  /\ UNCHANGED <<cursor, c, lsr, acc, sy, beyond, prints>>

PlaceY(p) ==
  /\ Step(p, "place_y", c[p]) /\ sy' = [sy EXCEPT ![p] = term_y * 8]
  /\ UNCHANGED <<cursor, c, lsr, acc, sx, beyond, prints>>

Newline(p) ==
  \/ StoreX(p, "newline", "line_y", 0)
  \/ LoadY(p, "line_y", "line_store")
  \/ StoreY(p, "line_store", "idle", acc[p] + 1)

Tab(p) ==
  \/ LoadX(p, "tab", "tab_store")
  \/ StoreX(p, "tab_store", "idle", acc[p] + 8)

Nul(p) == Step(p, "nul", "idle") /\ Quiet

\* The last pixel of the cell.
LastPixel(p) == sx[p] + 7 + (7 + sy[p]) * term.width

Glyph(p) ==
  \/ /\ Step(p, "glyph", "next_x")
     /\ beyond' = IF LastPixel(p) >= term.width * term.height
                  THEN beyond \cup {LastPixel(p)} ELSE beyond
     /\ UNCHANGED <<cursor, c, lsr, acc, sx, sy, prints>>
  \/ LoadX(p, "next_x", "next_store")
  \/ StoreX(p, "next_store", "idle", acc[p] + 1)

PutcharStep(p) ==
  \/ ReadStatus(p) \/ TestStatus(p) \/ Send(p)
  \/ Wrap(p) \/ WrapLine(p) \/ Page(p) \/ ClearPage(p)
  \/ PlaceX(p) \/ PlaceY(p)
  \/ Newline(p) \/ Tab(p) \/ Nul(p) \/ Glyph(p)

-----------------------------------------------------------------------------

\* set_term(), from the tags, before the handlers are installed.
SetTerm ==
  /\ pc["main"] = "idle" /\ nmis = 0 /\ Running = "main" /\ term = None
  /\ term' \in Screens
  /\ UNCHANGED <<uart, cursor, pc, locals, beyond, overruns, counts>>

\* The handler, once the port is set up; NMI waits until it returns.
Nmi ==
  /\ Running = "main" /\ nmis < MaxNmis
  /\ pc["main"] \notin {"lcr", "open", "low", "high", "close", "mcr"}
  /\ Goto("nmi", "idle")
  /\ nmis' = nmis + 1 /\ prints' = 0
  /\ cuts' = IF pc["main"] \in {"test", "send"} THEN cuts + 1 ELSE cuts
  /\ UNCHANGED <<uart, term, cursor, locals, beyond, overruns>>

NmiReturn ==
  /\ pc["nmi"] = "idle" /\ Goto("nmi", "out")
  /\ NewLocals("nmi") /\ c' = [c EXCEPT !["nmi"] = "nul"]
  /\ UNCHANGED <<uart, term, cursor, dlab, beyond, overruns, counts>>

Init ==
  /\ \E present \in BOOLEAN, l \in Found :
       uart = [present |-> present, lcr |-> l, divisor |-> 3 * 256 + 12, mcr |-> {3, 4},
               thr |-> FALSE]
  /\ term = None /\ term_x = 0 /\ term_y = 0
  /\ pc = [p \in Both |-> IF p = "main" THEN "lcr" ELSE "out"]
  /\ c = [p \in Both |-> "nul"] /\ lsr = [p \in Both |-> FALSE]
  /\ acc = [p \in Both |-> 0] /\ sx = [p \in Both |-> 0] /\ sy = [p \in Both |-> 0]
  /\ dlab = {} /\ beyond = {} /\ overruns = 0 /\ cuts = 0 /\ nmis = 0 /\ prints = 0

\* What the processor goes on with.
Run == InitUart \/ NmiReturn \/ \E p \in Both : PutcharStep(p)

Next ==
  \/ Run \/ Transmit \/ SetTerm \/ Nmi
  \/ \E p \in Both, ch \in Chars : Putchar(p, ch)

Spec == Init /\ [][Next]_vars /\ WF_vars(Run) /\ WF_vars(Transmit)
-----------------------------------------------------------------------------
(* Properties                                                              *)

\* A character is sent only by who prints one; nothing waits in a port that is
\* not there; the cursor is less than two tabs beyond the last column, and at
\* most three lines below the last: a handler may find the program one line
\* down, in the middle of a step to the next, and takes one more itself.
TypeOK ==
  /\ uart.lcr \subseteq ALL_BITS /\ uart.mcr \subseteq ALL_BITS
  /\ uart.divisor \in Nat /\ uart.divisor < 65536 /\ (uart.thr => uart.present)
  /\ term \in Screens \cup {None}
  /\ \A p \in Both : c[p] \in Chars \cup {"nul"} /\ lsr[p] \in BOOLEAN
  /\ pc["nmi"] # "out" => nmis > 0
  /\ IF term = None THEN term_x = 0 /\ term_y = 0
     ELSE term_x \in 0..(Columns + 15) /\ term_y \in 0..(Rows + 3)
  /\ cuts \in 0..nmis /\ prints \in 0..MaxPrints

\* No pixel is drawn behind the last of the frame buffer, even when a handler
\* moves the cursor between the tests of a character and the drawing of it: the
\* five lines of text that are kept free are enough for that.
PixelsInside == beyond = {}

\* A character is lost only if an NMI came between the poll and the write of
\* another, and no more than one for each.
LossExplained == overruns <= cuts

\* From init_uart() on the port takes characters at the highest rate: what is
\* written to it goes to the line, never to its divisor or back.
PortReady ==
  (uart.present /\ pc["main"] \notin {"lcr", "open", "low", "high", "close", "mcr"})
    => DLAB \notin uart.lcr /\ uart.divisor = 1 /\ 4 \notin uart.mcr

\* Every term_putchar() of the program returns, however often NMIs print in
\* between, as long as the port sends what it is given, or is not there.
PutcharReturns == pc["main"] = "read" ~> pc["main"] = "idle"
=============================================================================
