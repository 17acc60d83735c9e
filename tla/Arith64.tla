------------------------------- MODULE Arith64 -------------------------------
(***************************************************************************)
(* arith64.c: what the compiler calls for 64-bit integers on a 32-bit      *)
(* machine.  The width is a constant W, a power of two, and words have two *)
(* halves of W / 2 bits as they have two of 32 in the code.                *)
(*                                                                         *)
(* A word is a number in 0..(2^W - 1); Signed() is what it means as a      *)
(* signed one.  `|' of words without a common bit is written `+'.          *)
(***************************************************************************)
EXTENDS Integers, FiniteSets, SequencesExt, Bitwise

CONSTANTS
  W,             \* bits of a word (64)
  Calls          \* [fn, a, b]: function and arguments

ASSUME ArithWidthAssumption == W \in {4, 8, 16}

VARIABLES
  call, at,      \* the call, and where it is
  a, rem, wrap, bits,    \* locals of __divmoddi4()
  num, den,      \* its arguments
  quo            \* result; of a division also rem

arithvars == <<call, at, a, rem, wrap, bits, num, den, quo>>

H    == W \div 2
ALL  == 2^W
HALF == 2^H

Word   == 0..(ALL - 1)
Hi(w)  == w \div HALF
Lo(w)  == w % HALF
Pair(hi, lo) == (hi % HALF) * HALF + (lo % HALF)

Negative(w) == w >= ALL \div 2
Signed(w)   == IF Negative(w) THEN w - ALL ELSE w

\* arith64_neg(): invert and increment if b is negative.
Neg(w, b) == IF Negative(b) THEN ((ALL - 1 - w) + 1) % ALL ELSE w
Abs(w)    == Neg(w, w)

-----------------------------------------------------------------------------
(* Shifts, by halves.                                                      *)

\* Mutant: the bits that cross from the lower half are dropped.
AshlNoCarry(w, n) ==
  LET b == n % W IN
  IF b >= H THEN Pair(Lo(w) * 2^(b - H), 0) ELSE Pair(Hi(w) * 2^b, Lo(w) * 2^b)

Ashl(w, n) ==
  LET b == n % W IN
  IF b >= H THEN Pair(Lo(w) * 2^(b - H), 0)
  ELSE IF b # 0 THEN Pair((Lo(w) \div 2^(H - b)) + Hi(w) * 2^b, Lo(w) * 2^b)
  ELSE w

Lshr(w, n) ==
  LET b == n % W IN
  IF b >= H THEN Pair(0, Hi(w) \div 2^(b - H))
  ELSE IF b # 0 THEN Pair(Hi(w) \div 2^b, Hi(w) * 2^(H - b) + (Lo(w) \div 2^b))
  ELSE w

\* >> of a signed half rounds down.
SignedHi(w) == IF Negative(w) THEN Hi(w) - HALF ELSE Hi(w)

Ashr(w, n) ==
  LET b == n % W IN
  IF b >= H THEN Pair(SignedHi(w) \div 2^(H - 1), SignedHi(w) \div 2^(b - H))
  ELSE IF b # 0 THEN Pair(SignedHi(w) \div 2^b, Hi(w) * 2^(H - b) + (Lo(w) \div 2^b))
  ELSE w

-----------------------------------------------------------------------------
(* Counts, by halving.                                                     *)

\* W/2, W/4, .. 2
Halvings == SelectSeq(<<32, 16, 8, 4, 2>>, LAMBDA s : s < W)

\* If the upper s bits are clear: count them, and shift them out.
ClzStep(x, s) ==
  IF x.w < 2^(W - s) THEN [n |-> x.n + s, w |-> (x.w * 2^s) % ALL] ELSE x
CtzStep(x, s) ==
  IF x.w % 2^s = 0 THEN [n |-> x.n + s, w |-> x.w \div 2^s] ELSE x

Clz(w) ==
  LET x == FoldLeft(ClzStep, [n |-> 0, w |-> w], Halvings)
  IN  x.n + (IF Negative(x.w) THEN 0 ELSE 1)
Ctz(w) ==
  LET x == FoldLeft(CtzStep, [n |-> 0, w |-> w], Halvings)
  IN  x.n + (IF x.w % 2 = 1 THEN 0 ELSE 1)
Ffs(w) == IF w # 0 THEN Ctz(w) + 1 ELSE 0

\* A pattern of n bits, repeated: 0x55.., 0x33.., 0x0F..
Pattern(p, n) == p * ((ALL - 1) \div (2^n - 1))

Popcount(w) ==
  LET x2 == w - ((w \div 2) & Pattern(1, 2))
      x4 == ((x2 \div 4) & Pattern(3, 4)) + (x2 & Pattern(3, 4))
      x8 == ((x4 + x4 \div 16) % ALL) & Pattern(15, 8)
      bytes == SelectSeq(<<32, 16, 8>>, LAMBDA s : s < W)
  IN  FoldLeft(LAMBDA x, s : (x + x \div 2^s) % ALL, x8, bytes) % (2 * W)

-----------------------------------------------------------------------------
(* __divmoddi4(), and the division functions that call it.                 *)

IsDivision == call.fn \in {"unsigned", "signed"}

Local == <<a, rem, wrap, bits>>

\* __divdi3() and __moddi3() divide absolute values.
Divide ==
  /\ at = "called" /\ IsDivision /\ at' = "divide"
  /\ num' = IF call.fn = "signed" THEN Abs(call.a) ELSE call.a
  /\ den' = IF call.fn = "signed" THEN Abs(call.b) ELSE call.b
  /\ UNCHANGED <<call, Local, quo>>

Answer(q, r) ==
  /\ quo' = q /\ rem' = r /\ at' = "divided"
  /\ UNCHANGED <<call, a, wrap, bits, num, den>>

DivideSmaller == at = "divide" /\ den > num /\ Answer(0, num)

DivideByZero ==
  /\ at = "divide" /\ den = 0 /\ at' = "exception"
  /\ UNCHANGED <<call, Local, num, den, quo>>

DivideByOne == at = "divide" /\ den = 1 /\ num >= 1 /\ Answer(num, 0)

\* The processor's own division.
DivideHalves ==
  /\ at = "divide" /\ den <= num /\ den > 1 /\ Hi(den) = 0 /\ Hi(num) = 0
  /\ Answer(Lo(num) \div Lo(den), Lo(num) % Lo(den))

\* Mutant: a bit less.
IterationsLess == Clz(den) - Clz(num)

Iterations == Clz(den) - Clz(num) + 1

LongDivision ==
  /\ at = "divide" /\ den <= num /\ den > 1 /\ (Hi(den) # 0 \/ Hi(num) # 0)
  /\ at' = "loop"
  /\ bits' = Iterations
  /\ rem' = num \div 2^bits'
  /\ a' = (num * 2^(W - bits')) % ALL
  /\ wrap' = 0
  /\ UNCHANGED <<call, num, den, quo>>

\* wrap is all ones if the remainder is at least the divisor: the sign of
\* b - rem - 1, which must not overflow.
NextBit ==
  LET r == ((rem * 2) % ALL) + (a \div 2^(W - 1))
      w == IF Negative((den - r - 1) % ALL) THEN 1 ELSE 0
  IN  /\ at = "loop" /\ bits > 0
      /\ a' = ((a * 2) % ALL) + wrap
      /\ wrap' = w
      /\ rem' = (r - w * den) % ALL
      /\ bits' = bits - 1
      /\ UNCHANGED <<call, at, num, den, quo>>

LastBit ==
  /\ at = "loop" /\ bits = 0
  /\ Answer(((a * 2) % ALL) + wrap, rem)

\* The signs: the quotient's from both, the remainder's from the numerator.
ReturnDivision ==
  /\ at = "divided" /\ at' = "returned"
  /\ IF call.fn = "signed"
     THEN quo' = Neg(quo, call.a ^^ call.b) /\ rem' = Neg(rem, call.a)
     ELSE UNCHANGED <<quo, rem>>
  /\ UNCHANGED <<call, a, wrap, bits, num, den>>

Return(fn, value) ==
  /\ at = "called" /\ call.fn = fn /\ at' = "returned"
  /\ quo' = value
  /\ UNCHANGED <<call, Local, num, den>>

ShiftOrCount ==
  \/ Return("ashl", Ashl(call.a, call.b)) \/ Return("ashr", Ashr(call.a, call.b))
  \/ Return("lshr", Lshr(call.a, call.b)) \/ Return("abs", Abs(call.a))
  \/ Return("clz", Clz(call.a)) \/ Return("ctz", Ctz(call.a))
  \/ Return("ffs", Ffs(call.a)) \/ Return("popcount", Popcount(call.a))

ArithNext ==
  \/ Divide \/ DivideSmaller \/ DivideByZero \/ DivideByOne \/ DivideHalves
  \/ LongDivision \/ NextBit \/ LastBit \/ ReturnDivision
  \/ ShiftOrCount

ArithIdle ==
  /\ at = "none" /\ call = [fn |-> "none", a |-> 0, b |-> 0]
  /\ a = 0 /\ rem = 0 /\ wrap = 0 /\ bits = 0 /\ num = 0 /\ den = 0 /\ quo = 0

ArithInit ==
  /\ at = "called" /\ call \in Calls
  /\ a = 0 /\ rem = 0 /\ wrap = 0 /\ bits = 0 /\ num = 0 /\ den = 0 /\ quo = 0

-----------------------------------------------------------------------------
(* Properties                                                              *)

\* What the loop has done: the quotient bits so far, in a and wrap, times the
\* divisor, plus the remainder, is the numerator without the bits to come.
LoopHolds ==
  at = "loop" =>
    LET k    == (Clz(den) - Clz(num) + 1) - bits
        q    == 2 * (a % 2^k) + wrap
        left == a \div 2^(W - bits)
    IN  /\ num = (q * den + rem) * 2^bits + left
        /\ rem < den \/ k = 0

Magnitude(n) == IF n < 0 THEN -n ELSE n

\* Division as C defines it; the least number by -1 is left undefined there.
ResultExact ==
  (at = "returned" /\ IsDivision) =>
    LET S(w) == IF call.fn = "signed" THEN Signed(w) ELSE w
    IN  \/ S(call.b) = -1 /\ S(call.a) = -(ALL \div 2)
        \/ /\ S(call.a) = S(quo) * S(call.b) + S(rem)
           /\ Magnitude(S(rem)) < Magnitude(S(call.b))
           /\ S(rem) # 0 => (S(rem) < 0 <=> S(call.a) < 0)

\* The division of 64-bit numbers on a machine that has none is exact for every
\* pair of operands, through the early returns and every step of the loop.
DivisionCorrect == LoopHolds /\ ResultExact

BitSet(w, i) == (w \div 2^i) % 2 = 1
OneBits(w)   == {i \in 0..(W - 1) : BitSet(w, i)}

\* Shifts by halves and counts by halving give what shifting and counting the
\* whole word would, for every count of bits and across the halves.
ShiftsAndCountsExact ==
  at = "returned" =>
    LET w == call.a  n == call.b % W  ones == OneBits(call.a)
    IN  CASE call.fn = "ashl"     -> quo = (w * 2^n) % ALL
          [] call.fn = "lshr"     -> quo = w \div 2^n
          [] call.fn = "ashr"     -> Signed(quo) = Signed(w) \div 2^n
          [] call.fn = "abs"      -> Negative(w) => quo = ALL - w
          [] call.fn = "clz"      -> ones # {} => BitSet(w, W - 1 - quo) /\ w < 2^(W - quo)
          [] call.fn = "ctz"      -> ones # {} => BitSet(w, quo) /\ w % 2^quo = 0
          [] call.fn = "ffs"      -> IF ones = {} THEN quo = 0
                                     ELSE BitSet(w, quo - 1) /\ w % 2^(quo - 1) = 0
          [] call.fn = "popcount" -> quo = Cardinality(ones)
          [] OTHER                -> TRUE
=============================================================================
