---------------------------------- MODULE Idt ----------------------------------
(***************************************************************************)
(* Exceptions: what the processor, the stubs of idt.asm and                *)
(* interrupt_junction() of idt.c do to the one stack and the registers,    *)
(* instruction by instruction, so that a further interruption may come     *)
(* between any two, and how init_idt() puts the gates there.  Maskable     *)
(* interrupts are off from _entry on, and the gates keep them off; NMI     *)
(* comes anywhere, and the C code may fault.                               *)
(*                                                                         *)
(* A word of the stack is an integer and an address counts words.  What    *)
(* the handler prints and its end-of-interrupt writes to the ports are     *)
(* left out: neither touches the stack.                                    *)
(***************************************************************************)
EXTENDS Integers, Sequences

CONSTANTS
  Vectors,         \* exceptions that the interrupted program may cause
  HandlerVectors,  \* exceptions that interrupt_junction() may cause
  AnyTime,         \* what may come between any two instructions
  TOP,             \* words of stack
  INITIAL_ESP,     \* where the interrupted program's stack begins
  MaxTaken         \* bound on the number of interruptions

ASSUME VectorsAssumption ==
  Vectors \cup HandlerVectors \cup AnyTime \subseteq 0..31

ASSUME StackAssumption ==
  TOP \in Nat /\ INITIAL_ESP \in 0..TOP /\ MaxTaken \in Nat

\* The stack has room for every interruption: up to four words from the
\* processor, ten from the stub and the return address.
ASSUME RoomAssumption == 15 * MaxTaken <= INITIAL_ESP

VARIABLES
  stack, reg, eip,
  idt,             \* the gates of idt_entries
  installed,       \* gates that init_idt() has installed
  idtr_loaded,     \* lidt
  nmi_blocked,     \* from the delivery of an NMI to the next iret
  taken,           \* number of interruptions so far
  saved            \* history: the interrupted contexts, outermost first

tables == <<idt, installed, idtr_loaded>>
vars == <<stack, reg, eip, tables, nmi_blocked, taken, saved>>

NMI == 2
Registers == {"eax", "ebx", "ecx", "edx", "esi", "edi", "ebp", "esp"}

-----------------------------------------------------------------------------
(* The stub of a vector: where each instruction is.                        *)

PushOrder == <<"esp", "ebp", "edi", "esi", "edx", "ecx", "ebx", "eax">>

\* Mutant: the first two are exchanged.
PopOrderSwapped ==
  <<"ebx", "eax", "ecx", "edx", "esi", "edi", "ebp", "esp">>

PopOrder == <<"eax", "ebx", "ecx", "edx", "esi", "edi", "ebp", "esp">>

PUSH_CODE == 1
PUSH_ALL  == 2..9
PUSH_ARGS == 10
CALL      == 11
JUNCTION  == 12..14
POP_ARGS  == 15
POP_ALL   == 16..23
IRET      == 24

MAIN == 0
Address(v, n) == 32 * (v + 1000) + n
RESET == 1         \* nothing to deliver an exception to
Code == {MAIN, RESET} \cup {Address(v, n) : v \in 0..31, n \in PUSH_CODE..IRET}

At(n)  == eip \in Code \ {MAIN, RESET} /\ eip % 32 = n
Vector == (eip \div 32) - 1000

\* The stack with word w pushed, and the stack pointer after it.
Pushed(st, sp, w) == [st EXCEPT ![sp - 1] = w]

Push(w) ==
  /\ stack' = Pushed(stack, reg["esp"], w)
  /\ reg' = [reg EXCEPT !["esp"] = @ - 1]

\* pop esp takes what is on top, and nothing is added to it.
Pop(r) ==
  /\ reg' = [reg EXCEPT !["esp"] = @ + 1, ![r] = stack[reg["esp"]]]
  /\ UNCHANGED stack

Continue == eip' = eip + 1 /\ UNCHANGED <<tables, nmi_blocked, taken, saved>>

-----------------------------------------------------------------------------
(* struct junction_args, from the pushed stack pointer on                  *)

\* Mutants: a register is missing in the structure, or two change places.
FieldCodeShort == 7
FieldEspSwapped == 6

FieldCode == 8
FieldEsp  == 7

\* The argument of interrupt_junction(), above its return address.
Args == stack[reg["esp"] + 1]

\* Mutant: the stack pointer is moved by four words, not by four bytes.
DropFourWords == [stack EXCEPT ![Args + FieldEsp] = @ + 4]

\* args->esp moved past one word.
DropWord == [stack EXCEPT ![Args + FieldEsp] = @ + 1]

\* Mutant: alignment checks are forgotten.
HasErrorCodeNo17(code) == code \in {8, 10, 11, 12, 13, 14, 21}

\* The vectors whose error code interrupt_junction() takes off the stack.
HasErrorCode(code) == code \in {8, 10, 11, 12, 13, 14, 17, 21}

-----------------------------------------------------------------------------
(* init_idt()                                                              *)

GATES     == 0..31     \* of 256; the others stay absent
CS        == 8
INTERRUPT == 142       \* 0x8E: present, privilege 0, 32-bit interrupt gate
PART      == 2^8       \* 2^16: values of half an offset, reduced as the addresses are

NoGate == [offset1 |-> 0, offset2 |-> 0, segment |-> 0, attrs |-> 0]

\* Mutant: the gates begin with the second stub.
GateOfNext(i) == LET offset == Address((i + 1) % 32, PUSH_CODE) IN
  [offset1 |-> offset % PART, offset2 |-> (offset \div PART) % PART,
   segment |-> CS, attrs |-> INTERRUPT]

GateOf(i) == LET offset == Address(i, PUSH_CODE) IN
  [offset1 |-> offset % PART, offset2 |-> (offset \div PART) % PART,
   segment |-> CS, attrs |-> INTERRUPT]

InstallGate ==
  /\ eip = MAIN /\ installed \in GATES
  /\ idt' = [idt EXCEPT ![installed] = GateOf(installed)]
  /\ installed' = installed + 1
  /\ UNCHANGED <<stack, reg, eip, idtr_loaded, nmi_blocked, taken, saved>>

InstallIdt ==
  /\ eip = MAIN /\ installed \notin GATES /\ ~ idtr_loaded
  /\ idtr_loaded' = TRUE
  /\ UNCHANGED <<stack, reg, eip, idt, installed, nmi_blocked, taken, saved>>

-----------------------------------------------------------------------------
(* The processor                                                           *)

\* The vectors with which the processor pushes an error code.
PushesError == {8, 10, 11, 12, 13, 14, 17, 21}
ERROR  == 5000
EFLAGS == 6000

\* Until lidt the processor has no table for protected mode of its own program.
Handler(v) ==
  LET gate == idt[v] IN
  IF idtr_loaded /\ gate.attrs = INTERRUPT /\ gate.segment = CS
  THEN gate.offset1 + PART * gate.offset2
  ELSE RESET

\* Delivery through a gate: flags, code segment, return address, error code.
Deliver(v) ==
  /\ taken < MaxTaken /\ taken' = taken + 1
  /\ saved' = Append(saved, [vector |-> v, reg |-> reg, eip |-> eip, stack |-> stack])
  /\ LET sp == reg["esp"]
         st == Pushed(Pushed(Pushed(stack, sp, EFLAGS), sp - 1, CS), sp - 2, eip)
     IN  IF v \in PushesError
         THEN /\ stack' = Pushed(st, sp - 3, ERROR)
              /\ reg' = [reg EXCEPT !["esp"] = @ - 4]
         ELSE /\ stack' = st
              /\ reg' = [reg EXCEPT !["esp"] = @ - 3]
  /\ eip' = Handler(v)
  /\ UNCHANGED tables

Fault(v) ==
  /\ \/ v \in Vectors /\ eip = MAIN
     \/ v \in HandlerVectors /\ \E n \in JUNCTION : At(n)
  /\ Deliver(v)
  /\ UNCHANGED nmi_blocked

Interrupt(v) ==
  /\ v \in AnyTime /\ eip \in Code \ {RESET}
  /\ v = NMI => ~ nmi_blocked
  /\ Deliver(v)
  /\ nmi_blocked' = (nmi_blocked \/ v = NMI)

\* The context is taken from where the stack pointer is.  NMI is possible again.
Iret ==
  /\ At(IRET)
  /\ eip' = stack[reg["esp"]]
  /\ reg' = [reg EXCEPT !["esp"] = @ + 3]
  /\ saved' = SubSeq(saved, 1, Len(saved) - 1)
  /\ nmi_blocked' = FALSE
  /\ UNCHANGED <<stack, tables, taken>>

-----------------------------------------------------------------------------
(* The stub                                                                *)

PushCode == At(PUSH_CODE) /\ Push(Vector) /\ Continue

PushAll ==
  \E n \in PUSH_ALL :
    At(n) /\ Push(reg[PushOrder[n - 1]]) /\ Continue

PushArgs == At(PUSH_ARGS) /\ Push(reg["esp"]) /\ Continue

CallJunction == At(CALL) /\ Push(Address(Vector, POP_ARGS)) /\ Continue

PopArgs == At(POP_ARGS) /\ Pop("esp") /\ Continue

PopAll ==
  \E n \in POP_ALL :
    At(n) /\ Pop(PopOrder[n - 15]) /\ Continue

-----------------------------------------------------------------------------
(* interrupt_junction()                                                    *)

\* args->esp is moved past the vector.
DropCode ==
  /\ At(12)
  /\ stack' = DropWord
  /\ Continue /\ UNCHANGED reg

\* args->esp is moved past the error code, if there should be one.
DropErrorCode ==
  /\ At(13)
  /\ stack' = IF HasErrorCode(stack[Args + FieldCode])
              THEN DropWord
              ELSE stack
  /\ Continue /\ UNCHANGED reg

\* C code keeps no value in eax, ecx and edx.
ReturnFromJunction ==
  /\ At(14)
  /\ eip' = stack[reg["esp"]]
  /\ reg' = [reg EXCEPT !["esp"] = @ + 1, !["eax"] = 0, !["ecx"] = 0, !["edx"] = 0]
  /\ UNCHANGED <<stack, tables, nmi_blocked, taken, saved>>

-----------------------------------------------------------------------------

Init ==
  /\ stack = [a \in 0..(TOP - 1) |-> 7000 + a]
  /\ reg = [eax |-> 101, ebx |-> 102, ecx |-> 103, edx |-> 104,
            esi |-> 105, edi |-> 106, ebp |-> 107, esp |-> INITIAL_ESP]
  /\ eip = MAIN
  /\ idt = [i \in GATES |-> NoGate] /\ installed = 0 /\ idtr_loaded = FALSE
  /\ nmi_blocked = FALSE /\ taken = 0 /\ saved = <<>>

\* What the processor does of itself, one instruction at a time.
Step ==
  \/ PushCode \/ PushAll \/ PushArgs \/ CallJunction
  \/ DropCode \/ DropErrorCode \/ ReturnFromJunction
  \/ PopArgs \/ PopAll \/ Iret

Next ==
  \/ \E v \in Vectors \cup HandlerVectors : Fault(v)
  \/ \E v \in AnyTime : Interrupt(v)
  \/ InstallGate \/ InstallIdt
  \/ Step

Spec == Init /\ [][Next]_vars /\ WF_vars(Step)
-----------------------------------------------------------------------------
(* Properties                                                              *)

\* The processor never leaves the program and the stubs, with the table loaded
\* nothing resets it, and the stack pointer never leaves the stack.
TypeOK ==
  /\ stack \in [0..(TOP - 1) -> Int]
  /\ reg \in [Registers -> Int] /\ reg["esp"] \in 0..TOP
  /\ eip \in Code /\ (idtr_loaded => eip # RESET)
  /\ installed \in 0..32 /\ idtr_loaded \in BOOLEAN
  /\ nmi_blocked \in BOOLEAN /\ taken \in 0..MaxTaken
  /\ Len(saved) <= taken

\* Whatever is interrupted, the program or a handler at any instruction, goes
\* on where it was with every register, the stack pointer too, as it was.
Resumes ==
  [][Len(saved') < Len(saved) =>
       LET c == saved[Len(saved)] IN reg' = c.reg /\ eip' = c.eip]_vars

\* While something is interrupted, nothing is written to its part of the stack.
SuspendedIntact ==
  \A k \in 1..Len(saved) : \A a \in saved[k].reg["esp"]..(TOP - 1) :
    stack[a] = saved[k].stack[a]

\* interrupt_junction() reads the vector that the processor delivered, through
\* the gate init_idt() installed and the stub it leads to, however many
\* interruptions came between the push of the vector and the read.
ReportsItsVector ==
  \A n \in JUNCTION : At(n) => stack[Args + FieldCode] = saved[Len(saved)].vector

\* Once interruptions stop coming, the program runs again, unless one came
\* before init_idt() was done.
HandlersFinish == <>[](eip \in {MAIN, RESET})
=============================================================================
