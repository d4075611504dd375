----------------------------- MODULE Arithmetic -----------------------------
(***************************************************************************)
(* The arithmetic instructions of compyter/cpu.py on the register file,    *)
(* with the long division of _divmod one round at a time.  The second      *)
(* operand is any word: an immediate, or the content of a register.  The   *)
(* bitwise instructions are left out.                                      *)
(***************************************************************************)
EXTENDS Integers

CONSTANTS
  WordBits,  \* bits in a word: 32 in the code
  NumRegs    \* number of registers; the last one is REG_CARRY

ASSUME WidthAssumption == WordBits \in Nat \ {0}
ASSUME RegsAssumption  == NumRegs \in Nat \ {0} /\ NumRegs <= 2 ^ WordBits

Size == 2 ^ WordBits          \* MAXVAL + 1
Half == 2 ^ (WordBits - 1)    \* the sign bit

(* What proofs use of powers of two.                                       *)
ASSUME PowersAssumption ==
  /\ 2 ^ 0 = 1
  /\ \A n \in 0 .. WordBits : 2 ^ n \in Nat \ {0}
  /\ \A n \in 1 .. WordBits : 2 ^ n = 2 * 2 ^ (n - 1)

Number == 0 .. Size - 1
Reg  == 0 .. NumRegs - 1
Carry == NumRegs - 1

VARIABLES
  reg,        \* the registers
  at,         \* "idle", or which of "div" and "mod" is being computed
  dest,       \* the register for its result
  dividend, divisor,
  quotient, remainder, \* the variables of _divmod
  round       \* rounds of its loop that are done

division  == <<at, dest, dividend, divisor, quotient, remainder, round>>
arithVars == <<reg, division>>

ArithInit ==
  /\ reg = [r \in Reg |-> 0]
  /\ at = "idle" /\ dest = 0
  /\ dividend = 0 /\ divisor = 1
  /\ quotient = 0 /\ remainder = 0 /\ round = 0

-----------------------------------------------------------------------------
(* A mistaken result that is not cut to a word.                            *)
ResultUncut(d, result) ==
  reg' = [reg EXCEPT ![d] = result, ![Carry] = IF result >= Size THEN 1 ELSE 0]

(* The result is written first and the carry after it, which matters when  *)
(* the result goes to REG_CARRY.                                           *)
Result(d, result) ==
  reg' = [reg EXCEPT ![d] = result % Size,
                     ![Carry] = IF result >= Size THEN 1 ELSE 0]

Add(a, b, d) == Result(d, reg[a] + b)

(* sub adds ~b + 1, which Python does not wrap to a word.                  *)
Sub(a, b, d) == Result(d, reg[a] - b)

Mul(a, b, d) == Result(d, reg[a] * b)

(* swap assigns the number of the second register to the first.            *)
Swapped(a, b) == [reg EXCEPT ![a] = b, ![b] = reg[a]]

Swap(a, b) == reg' = Swapped(a, b)

Copy(a, b) == reg' = [reg EXCEPT ![a] = reg[b]]

LoadImmediate(a, b) == reg' = [reg EXCEPT ![a] = b]

Not(a, d) == reg' = [reg EXCEPT ![d] = Size - 1 - reg[a]]

Shl(a, n, d) == reg' = [reg EXCEPT ![d] = (reg[a] * 2 ^ n) % Size]

Shr(a, n, d) == reg' = [reg EXCEPT ![d] = reg[a] \div 2 ^ n]

Calculate ==
  /\ at = "idle"
  /\ \E a, d \in Reg :
       \/ \E b \in Number : Add(a, b, d) \/ Sub(a, b, d) \/ Mul(a, b, d)
       \/ \E b \in Number : LoadImmediate(a, b)
       \/ \E n \in 0 .. WordBits : Shl(a, n, d) \/ Shr(a, n, d)
       \/ Not(a, d) \/ Swap(a, d) \/ Copy(a, d)
  /\ UNCHANGED division

-----------------------------------------------------------------------------
(* div and mod.  A divisor of 0 traps and changes no register.             *)
BeginDivision ==
  /\ at = "idle"
  /\ \E a \in Reg, b \in Number \ {0} : dividend' = reg[a] /\ divisor' = b
  /\ at' \in {"div", "mod"}
  /\ dest' \in Reg
  /\ quotient' = dividend'
  /\ remainder' = 0
  /\ round' = 0
  /\ UNCHANGED reg

(* One round: a bit of the dividend goes from the top of quotient to the   *)
(* bottom of remainder, and the divisor is subtracted if the difference    *)
(* has its sign bit clear.                                                 *)
Shifted == ((2 * remainder) % Size) + quotient \div Half

(* A mistaken difference: the ones' complement of the divisor is added.    *)
TestOnes == (Shifted - divisor - 1) % Size

Test == (Shifted - divisor) % Size

Round ==
  /\ at # "idle" /\ round < WordBits
  /\ remainder' = IF Test < Half THEN Test ELSE Shifted
  /\ quotient' = ((2 * quotient) % Size) + (IF Test < Half THEN 1 ELSE 0)
  /\ round' = round + 1
  /\ UNCHANGED <<reg, at, dest, dividend, divisor>>

EndDivision ==
  /\ at # "idle" /\ round = WordBits
  /\ reg' = [reg EXCEPT ![dest] = IF at = "div" THEN quotient ELSE remainder,
                        ![Carry] = 0]
  /\ at' = "idle" /\ dest' = 0
  /\ dividend' = 0 /\ divisor' = 1
  /\ quotient' = 0 /\ remainder' = 0 /\ round' = 0

ArithNext == Calculate \/ BeginDivision \/ Round \/ EndDivision

ArithSpec == ArithInit /\ [][ArithNext]_arithVars

-----------------------------------------------------------------------------
(* A mistaken conversion, off by one at the most negative number.          *)
SignedOff(x) == IF x > Half THEN x - Size ELSE x

(* A word as a signed number, and the comparisons of the jumps.            *)
Signed(x) == IF x >= Half THEN x - Size ELSE x

JmpGt(x, y) == Signed(x) > Signed(y)
JmpGe(x, y) == Signed(x) >= Signed(y)
JmpLt(x, y) == Signed(x) < Signed(y)
JmpLe(x, y) == Signed(x) <= Signed(y)
JmpEq(x, y) == x = y
JmpNe(x, y) == x # y

-----------------------------------------------------------------------------
NumbersOK ==
  /\ reg \in [Reg -> Number]
  /\ at \in {"idle", "div", "mod"} /\ dest \in Reg
  /\ dividend \in Number /\ divisor \in Number \ {0}
  /\ quotient \in Number /\ remainder \in Number
  /\ round \in 0 .. WordBits

(* cpu.py:202.  After every round, quotient and remainder are those of the *)
(* bits of the dividend shifted out so far, and the others wait at the top *)
(* of quotient; at the end they are those of the dividend.  This needs a   *)
(* divisor of at most 2^31.                                                *)
LongDivision ==
  at # "idle" /\ divisor <= Half =>
    LET done == dividend \div 2 ^ (WordBits - round)
        left == dividend % 2 ^ (WordBits - round)
    IN  /\ remainder = done % divisor
        /\ quotient = left * 2 ^ round + done \div divisor

(* README:9.  "It is a two's complement architecture": the jumps order     *)
(* words as two's complement numbers, the sign bit counting as -2^31, and  *)
(* exactly one of jmplt, jmpeq and jmpgt is taken.                         *)
TwosComplement(x) == (x % Half) - (x \div Half) * Half
JumpsOrder ==
  \A x \in {reg[r] : r \in Reg}, y \in {0, Half, Size - 1} :
    LET s == TwosComplement(x)
        t == TwosComplement(y)
    IN  /\ JmpLt(x, y) <=> s < t
        /\ JmpGt(x, y) <=> t < s
        /\ JmpGe(x, y) <=> ~JmpLt(x, y)
        /\ JmpLe(x, y) <=> ~JmpGt(x, y)
        /\ JmpNe(x, y) <=> JmpLt(x, y) \/ JmpGt(x, y)
        /\ JmpEq(x, y) <=> ~JmpNe(x, y)
=============================================================================
