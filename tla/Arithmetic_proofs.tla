-------------------------- MODULE Arithmetic_proofs --------------------------
(***************************************************************************)
(* Theorems about Arithmetic, for words of any width and any number of     *)
(* registers: registers hold words, the jumps order them as two's          *)
(* complement numbers, and the long division is a division.                *)
(***************************************************************************)
EXTENDS Arithmetic, TLAPS

LEMMA Sizes ==
  /\ Half \in Nat \ {0} /\ Size \in Nat \ {0}
  /\ Size = Half + Half
  /\ Carry \in Reg /\ Reg \subseteq Number
  /\ 0 \in Number /\ 1 \in Number
<1>1. WordBits - 1 \in 0 .. WordBits /\ WordBits \in 0 .. WordBits
  BY WidthAssumption
<1>2. Half \in Nat \ {0} /\ Size \in Nat \ {0}
  BY <1>1, PowersAssumption DEF Half, Size
<1>3. Size = Half + Half
  <2>1. WordBits \in 1 .. WordBits
    BY WidthAssumption
  <2>2. Size = 2 * Half
    BY <2>1, PowersAssumption DEF Half, Size
  <2>. QED
    BY <1>2, <2>2
<1>4. Carry \in Reg /\ Reg \subseteq Number
  BY <1>2, RegsAssumption DEF Carry, Reg, Number, Size
<1>5. 0 \in Number /\ 1 \in Number
  BY <1>2, <1>3 DEF Number
<1>. QED
  BY <1>2, <1>3, <1>4, <1>5

(* What is cut to a word is one.                                           *)
LEMMA CutToNumber ==
  ASSUME NEW n \in Int
  PROVE  n % Size \in Number
<1>. DEFINE size == Size
<1>1. size \in Nat \ {0}
  BY Sizes
<1>. HIDE DEF size
<1>2. n % size \in 0 .. size - 1
  BY <1>1
<1>. QED
  BY <1>2 DEF size, Number

(* A shift to the right makes a word no larger.                            *)
LEMMA ShiftRight ==
  ASSUME NEW x \in Nat, NEW p \in Nat \ {0}
  PROVE  x \div p \in Nat /\ x \div p <= x
<1>1. x \div p \in Nat
  OBVIOUS
<1>2. p * (x \div p) <= x
  OBVIOUS
<1>3. x \div p <= p * (x \div p)
  BY <1>1
<1>. QED
  BY <1>1, <1>2, <1>3

LEMMA ResultNumbers ==
  ASSUME NumbersOK, NEW d \in Reg, NEW n \in Int, Result(d, n)
  PROVE  reg' \in [Reg -> Number]
BY CutToNumber, Sizes DEF NumbersOK, Result

LEMMA CalculateStep ==
  ASSUME NumbersOK, Calculate
  PROVE  NumbersOK'
<1>0. reg \in [Reg -> Number]
  BY DEF NumbersOK
<1>1. PICK a \in Reg, d \in Reg :
       \/ \E b \in Number : Add(a, b, d) \/ Sub(a, b, d) \/ Mul(a, b, d)
       \/ \E b \in Number : LoadImmediate(a, b)
       \/ \E n \in 0 .. WordBits : Shl(a, n, d) \/ Shr(a, n, d)
       \/ Not(a, d) \/ Swap(a, d) \/ Copy(a, d)
  BY DEF Calculate
<1>2. reg[a] \in Number /\ reg[a] \in Nat
  BY <1>0 DEF Number
<1>3. ASSUME NEW b \in Number, Add(a, b, d) \/ Sub(a, b, d) \/ Mul(a, b, d)
      PROVE  reg' \in [Reg -> Number]
  <2>1. b \in Nat
    BY DEF Number
  <2>2. /\ reg[a] + b \in Int /\ reg[a] - b \in Int
        /\ reg[a] * b \in Int
    BY <1>2, <2>1
  <2>. QED
    BY <1>3, <2>2, ResultNumbers DEF Add, Sub, Mul
<1>4. ASSUME NEW b \in Number, LoadImmediate(a, b)
      PROVE  reg' \in [Reg -> Number]
  BY <1>0, <1>4 DEF LoadImmediate
<1>5. ASSUME NEW n \in 0 .. WordBits, Shl(a, n, d)
      PROVE  reg' \in [Reg -> Number]
  <2>1. reg[a] * 2 ^ n \in Int
    BY <1>2, PowersAssumption
  <2>. QED
    BY <1>0, <1>5, <2>1, CutToNumber DEF Shl
<1>6. ASSUME NEW n \in 0 .. WordBits, Shr(a, n, d)
      PROVE  reg' \in [Reg -> Number]
  <2>1. reg[a] \div 2 ^ n \in Nat /\ reg[a] \div 2 ^ n <= reg[a]
    BY <1>2, ShiftRight, PowersAssumption
  <2>2. reg[a] \div 2 ^ n \in Number
    BY <1>2, <2>1, Sizes DEF Number
  <2>. QED
    BY <1>0, <1>6, <2>2 DEF Shr
<1>7. ASSUME Not(a, d) PROVE reg' \in [Reg -> Number]
  <2>1. Size - 1 - reg[a] \in Number
    <3>. DEFINE size == Size
                x == reg[a]
    <3>1. size \in Nat \ {0} /\ x \in 0 .. size - 1
      BY <1>2, Sizes DEF Number
    <3>. HIDE DEF size, x
    <3>2. size - 1 - x \in 0 .. size - 1
      BY <3>1
    <3>. QED
      BY <3>2 DEF Number, size, x
  <2>. QED
    BY <1>0, <1>7, <2>1 DEF Not
<1>8. ASSUME Swap(a, d) \/ Copy(a, d) PROVE reg' \in [Reg -> Number]
  <2>1. d \in Number /\ reg[a] \in Number /\ reg[d] \in Number
    BY <1>0, Sizes
  <2>2. CASE Swap(a, d)
    BY <1>0, <2>1, <2>2 DEF Swap, Swapped
  <2>3. CASE Copy(a, d)
    BY <1>0, <2>1, <2>3 DEF Copy
  <2>. QED
    BY <1>8, <2>2, <2>3
<1>9. reg' \in [Reg -> Number]
  BY <1>1, <1>3, <1>4, <1>5, <1>6, <1>7, <1>8
<1>. QED
  BY <1>9 DEF Calculate, NumbersOK, division

(* Whatever a round of the division computes is cut to a word, except that *)
(* a bit is put where the shift left a 0.                                  *)
LEMMA DoubledNumber ==
  ASSUME NEW x \in Number, NEW bit \in {0, 1}
  PROVE  ((2 * x) % Size) + bit \in Number
<1>. DEFINE half == Half
<1>1. half \in Nat \ {0} /\ Size = half + half /\ x \in 0 .. Size - 1
  BY Sizes DEF Number
<1>. HIDE DEF half
<1>2. CASE x < half
  <2>1. 2 * x \in 0 .. half + half - 2
    BY <1>1, <1>2
  <2>2. (2 * x) % (half + half) = 2 * x
    BY <1>1, <2>1
  <2>. QED
    BY <1>1, <2>1, <2>2 DEF Number
<1>3. CASE x >= half
  <2>1. 2 * x - (half + half) \in 0 .. half + half - 2
    BY <1>1, <1>3
  <2>2. (2 * x) % (half + half) = 2 * x - (half + half)
    BY <1>1, <2>1
  <2>. QED
    BY <1>1, <2>1, <2>2 DEF Number
<1>. QED
  BY <1>1, <1>2, <1>3

LEMMA TopBit ==
  ASSUME NEW x \in Number
  PROVE  x \div Half \in {0, 1}
<1>. DEFINE half == Half
<1>1. half \in Nat \ {0} /\ x \in 0 .. half + half - 1
  BY Sizes DEF Number
<1>. HIDE DEF half
<1>2. x \div half \in {0, 1}
  BY <1>1
<1>. QED
  BY <1>2 DEF half

LEMMA DivisionStep ==
  ASSUME NumbersOK, BeginDivision \/ Round \/ EndDivision
  PROVE  NumbersOK'
<1>1. CASE BeginDivision
  <2>1. PICK a \in Reg, b \in Number \ {0} :
          dividend' = reg[a] /\ divisor' = b
    BY <1>1 DEF BeginDivision
  <2>2. 0 \in 0 .. WordBits
    BY WidthAssumption
  <2>. QED
    BY <1>1, <2>1, <2>2, Sizes DEF BeginDivision, NumbersOK
<1>2. CASE Round
  <2>1. Shifted \in Number
    BY DoubledNumber, TopBit DEF Shifted, NumbersOK
  <2>2. Test \in Number
    <3>1. Shifted - divisor \in Int
      BY <2>1 DEF NumbersOK, Number
    <3>. QED
      BY <3>1, CutToNumber DEF Test
  <2>3. remainder' \in Number
    BY <1>2, <2>1, <2>2 DEF Round
  <2>4. quotient' \in Number
    BY <1>2, DoubledNumber DEF Round, NumbersOK
  <2>5. round' \in 0 .. WordBits
    BY <1>2, WidthAssumption DEF Round, NumbersOK
  <2>. QED
    BY <1>2, <2>3, <2>4, <2>5 DEF Round, NumbersOK
<1>3. CASE EndDivision
  <2>1. reg' \in [Reg -> Number]
    BY <1>3, Sizes DEF EndDivision, NumbersOK
  <2>2. 0 \in Reg /\ 0 \in 0 .. WordBits /\ 1 \in Number \ {0}
    BY RegsAssumption, WidthAssumption, Sizes DEF Reg
  <2>. QED
    BY <1>3, <2>1, <2>2, Sizes DEF EndDivision, NumbersOK
<1>. QED
  BY <1>1, <1>2, <1>3

LEMMA NumbersInit == ArithInit => NumbersOK
<1>1. 0 \in Reg /\ 0 \in 0 .. WordBits /\ 1 \in Number \ {0}
  BY RegsAssumption, WidthAssumption, Sizes DEF Reg
<1>. QED
  BY <1>1, Sizes DEF ArithInit, NumbersOK

LEMMA NumbersStep == NumbersOK /\ [ArithNext]_arithVars => NumbersOK'
<1>1. NumbersOK /\ UNCHANGED arithVars => NumbersOK'
  BY DEF arithVars, division, NumbersOK
<1>. QED
  BY <1>1, CalculateStep, DivisionStep DEF ArithNext

-----------------------------------------------------------------------------
(* Registers, and everything a division works with, stay within a word.    *)
THEOREM NumbersCorrect == ArithSpec => []NumbersOK
BY NumbersInit, NumbersStep, PTL DEF ArithSpec

LEMMA SignedIsTwosComplement ==
  ASSUME NEW x \in Number
  PROVE  Signed(x) = TwosComplement(x) /\ Signed(x) \in Int
<1>. DEFINE half == Half
<1>1. half \in Nat \ {0} /\ Size = half + half /\ x \in 0 .. half + half - 1
  BY Sizes DEF Number
<1>. HIDE DEF half
<1>2. CASE x < half
  <2>1. x % half = x /\ x \div half = 0
    BY <1>1, <1>2
  <2>2. TwosComplement(x) = x
    BY <1>1, <2>1 DEF TwosComplement, half
  <2>3. Signed(x) = x
    BY <1>1, <1>2 DEF Signed, half
  <2>. QED
    BY <1>1, <2>2, <2>3
<1>3. CASE x >= half
  <2>1. x % half = x - half /\ x \div half = 1
    BY <1>1, <1>3
  <2>2. TwosComplement(x) = x - half - half
    BY <1>1, <2>1 DEF TwosComplement, half
  <2>3. Signed(x) = x - half - half
    BY <1>1, <1>3 DEF Signed, half
  <2>. QED
    BY <1>1, <2>2, <2>3
<1>. QED
  BY <1>1, <1>2, <1>3

(* Two words that stand for the same number are the same word.             *)
LEMMA SignedInjective ==
  ASSUME NEW x \in Number, NEW y \in Number, Signed(x) = Signed(y)
  PROVE  x = y
<1>1. Half \in Nat \ {0} /\ Size = Half + Half
  BY Sizes
<1>2. x \in 0 .. Size - 1 /\ y \in 0 .. Size - 1
  BY DEF Number
<1>. QED
  BY <1>1, <1>2 DEF Signed

(* The jumps order words as two's complement numbers, at every width.      *)
THEOREM JumpsOrderHolds == ArithSpec => []JumpsOrder
<1>1. ASSUME NumbersOK, NEW x \in {reg[r] : r \in Reg},
             NEW y \in {0, Half, Size - 1}
      PROVE  LET s == TwosComplement(x)
                 t == TwosComplement(y)
             IN  /\ JmpLt(x, y) <=> s < t
                 /\ JmpGt(x, y) <=> t < s
                 /\ JmpGe(x, y) <=> ~JmpLt(x, y)
                 /\ JmpLe(x, y) <=> ~JmpGt(x, y)
                 /\ JmpNe(x, y) <=> JmpLt(x, y) \/ JmpGt(x, y)
                 /\ JmpEq(x, y) <=> ~JmpNe(x, y)
  <2>1. x \in Number /\ y \in Number
    BY <1>1, Sizes DEF NumbersOK, Number
  <2>2. /\ Signed(x) = TwosComplement(x) /\ Signed(x) \in Int
        /\ Signed(y) = TwosComplement(y) /\ Signed(y) \in Int
    BY <2>1, SignedIsTwosComplement
  <2>3. x # y => Signed(x) # Signed(y)
    BY <2>1, SignedInjective
  <2>. QED
    BY <2>2, <2>3 DEF JmpLt, JmpGt, JmpGe, JmpLe, JmpNe, JmpEq
<1>2. NumbersOK => JumpsOrder
  BY <1>1 DEF JumpsOrder
<1>. QED
  BY <1>2, NumbersCorrect, PTL

-----------------------------------------------------------------------------
(* Quotient and remainder are the only pair of their kind.                 *)
LEMMA DivisionUnique ==
  ASSUME NEW a \in Int, NEW b \in Nat \ {0}, NEW q \in Int,
         NEW r \in 0 .. b - 1, a = b * q + r
  PROVE  a \div b = q /\ a % b = r
<1>. DEFINE p == a \div b
            s == a % b
<1>1. p \in Int /\ s \in 0 .. b - 1 /\ a = b * p + s
  OBVIOUS
<1>. HIDE DEF p, s
<1>2. b * (p - q) = r - s
  BY <1>1
<1>3. ~(p - q >= 1)
  <2>. SUFFICES ASSUME p - q >= 1 PROVE FALSE
    OBVIOUS
  <2>1. b * (p - q) >= b
    BY <1>1
  <2>. QED
    BY <1>1, <1>2, <2>1
<1>4. ~(p - q <= -1)
  <2>. SUFFICES ASSUME p - q <= -1 PROVE FALSE
    OBVIOUS
  <2>1. b * (p - q) <= -b
    BY <1>1
  <2>. QED
    BY <1>1, <1>2, <2>1
<1>5. p = q
  BY <1>1, <1>3, <1>4
<1>6. s = r
  BY <1>1, <1>2, <1>5
<1>. QED
  BY <1>5, <1>6 DEF p, s

(* What the backend knows of \div and %.                                  *)
LEMMA DivisionFacts ==
  ASSUME NEW a \in Nat, NEW b \in Nat \ {0}
  PROVE  /\ a \div b \in Nat /\ a % b \in 0 .. b - 1
         /\ a = b * (a \div b) + (a % b)
OBVIOUS

(* One more bit of the dividend n is shifted out: the top bit of those     *)
(* that were left.                                                         *)
LEMMA ShiftOut ==
  ASSUME NEW n \in Nat, NEW p \in Nat \ {0}
  PROVE  LET left == n % (2 * p)
             bit  == left \div p
         IN  /\ bit \in {0, 1}
             /\ left = bit * p + (n % p)
             /\ n \div p = 2 * (n \div (2 * p)) + bit
<1>. DEFINE done == n \div (2 * p)
            left == n % (2 * p)
<1>1. done \in Nat /\ left \in 0 .. 2 * p - 1 /\ n = 2 * p * done + left
  <2>1. 2 * p \in Nat \ {0}
    OBVIOUS
  <2>2. done \in Nat /\ left \in 0 .. 2 * p - 1 /\ n = (2 * p) * done + left
    BY <2>1, DivisionFacts
  <2>. QED
    BY <2>2
<1>. HIDE DEF done, left
<1>. DEFINE bit  == left \div p
            rest == left % p
<1>2. bit \in Nat /\ rest \in 0 .. p - 1 /\ left = p * bit + rest
  <2>1. left \in Nat
    BY <1>1
  <2>. QED
    BY <2>1, DivisionFacts
<1>. HIDE DEF bit, rest
<1>3. bit \in {0, 1}
  <2>. SUFFICES ASSUME bit >= 2 PROVE FALSE
    BY <1>2
  <2>1. p * bit >= 2 * p
    BY <1>2
  <2>. QED
    BY <1>1, <1>2, <2>1
<1>4. n = p * (2 * done + bit) + rest
  BY <1>1, <1>2
<1>5. n \div p = 2 * done + bit /\ n % p = rest
  BY <1>1, <1>2, <1>4, DivisionUnique
<1>6. left = bit * p + (n % p)
  <2>1. p * bit = bit * p
    BY <1>3
  <2>. QED
    BY <1>2, <1>5, <2>1
<1>. QED
  BY <1>3, <1>5, <1>6 DEF done, left, bit

(* Dividing 2a + bit by v, from the division of a by v.                    *)
LEMMA NextDigit ==
  ASSUME NEW a \in Nat, NEW v \in Nat \ {0}, NEW bit \in {0, 1}
  PROVE  LET shifted == 2 * (a % v) + bit
             s == IF shifted >= v THEN 1 ELSE 0
         IN  /\ (2 * a + bit) \div v = 2 * (a \div v) + s
             /\ (2 * a + bit) % v = shifted - s * v
             /\ shifted < 2 * v
<1>. DEFINE q == a \div v
            r == a % v
            shifted == 2 * r + bit
<1>1. q \in Nat /\ r \in 0 .. v - 1 /\ a = v * q + r
  BY DivisionFacts
<1>0. 2 * a + bit \in Int /\ 2 * q \in Int /\ 2 * q + 1 \in Int
  BY <1>1
<1>. HIDE DEF q, r
<1>2. CASE shifted >= v
  <2>1. 2 * a + bit = v * (2 * q + 1) + (shifted - v)
    BY <1>1
  <2>2. shifted - v \in 0 .. v - 1
    BY <1>1, <1>2
  <2>3. (2 * a + bit) \div v = 2 * q + 1 /\ (2 * a + bit) % v = shifted - v
    BY <1>0, <2>1, <2>2, DivisionUnique
  <2>. QED
    BY <1>1, <1>2, <2>3 DEF q, r
<1>3. CASE shifted < v
  <2>1. 2 * a + bit = v * (2 * q) + shifted
    BY <1>1
  <2>2. shifted \in 0 .. v - 1
    BY <1>1, <1>3
  <2>3. (2 * a + bit) \div v = 2 * q /\ (2 * a + bit) % v = shifted
    BY <1>0, <2>1, <2>2, DivisionUnique
  <2>. QED
    BY <1>1, <1>3, <2>3 DEF q, r
<1>. QED
  BY <1>1, <1>2, <1>3

(* A multiple is not smaller.                                              *)
LEMMA Multiple ==
  ASSUME NEW v \in Nat \ {0}, NEW q \in Nat
  PROVE  v * q >= q
<1>1. v * q = q + (v - 1) * q
  OBVIOUS
<1>2. (v - 1) * q >= 0
  OBVIOUS
<1>. QED
  BY <1>1, <1>2

(* The word in quotient: the bits of n that are left, at its top, and the  *)
(* quotient so far below them.                                             *)
Held(n, v, p, k) == (n % (2 * p)) * k + (n \div (2 * p)) \div v

(* Its sign bit is the next bit of n, and what a shift to the left leaves  *)
(* is the same word one round later.                                       *)
Shifts(n, v, p, k, half, size) ==
  /\ Held(n, v, p, k) \in Nat
  /\ Held(n, v, p, k) \div half = (n % (2 * p)) \div p
  /\ (2 * Held(n, v, p, k)) % size
       = (n % p) * (2 * k) + 2 * ((n \div (2 * p)) \div v)

(* The word shifts that way in words of twice half.                        *)
LEMMA Quotient ==
  ASSUME NEW n \in Nat, NEW v \in Nat \ {0}, NEW p \in Nat \ {0},
         NEW k \in Nat \ {0}, NEW half \in Nat \ {0},
         p * k = half,
         NEW size \in Nat, size = half + half, n < size
  PROVE  Shifts(n, v, p, k, half, size)
<1>. DEFINE left == n % (2 * p)
            done == n \div (2 * p)
            rest == n % p
            bit  == left \div p
            q    == done \div v
<1>1. bit \in {0, 1} /\ left = bit * p + rest
  BY ShiftOut
<1>2. done \in Nat /\ left \in Nat /\ (2 * p) * done <= n
  <2>1. 2 * p \in Nat \ {0}
    OBVIOUS
  <2>2. done \in Nat /\ left \in 0 .. 2 * p - 1 /\ n = (2 * p) * done + left
    BY <2>1, DivisionFacts
  <2>. QED
    BY <2>2
<1>3. rest \in 0 .. p - 1
  BY DivisionFacts
<1>. HIDE DEF left, done, rest
<1>4. q \in Nat /\ q <= done
  <2>1. q \in Nat /\ done % v \in 0 .. v - 1 /\ done = v * q + (done % v)
    BY <1>2, DivisionFacts
  <2>2. v * q >= q
    BY <2>1, Multiple
  <2>. QED
    BY <1>2, <2>1, <2>2
<1>. HIDE DEF bit, q
<1>5. done < k
  <2>. SUFFICES ASSUME done >= k PROVE FALSE
    BY <1>2
  <2>1. p * done >= p * k
    BY <1>2
  <2>2. (2 * p) * done = 2 * (p * done)
    BY <1>2
  <2>. QED
    BY <1>2, <2>1, <2>2
<1>. DEFINE low  == rest * k + q
            word == left * k + q
<1>6. low \in 0 .. half - 1
  <2>1. rest * k \in Nat /\ rest * k <= (p - 1) * k
    BY <1>3
  <2>2. (p - 1) * k = half - k
    OBVIOUS
  <2>. QED
    BY <1>4, <1>5, <2>1, <2>2, <1>2
<1>7. word = half * bit + low
  <2>1. CASE bit = 0
    <3>1. left = rest
      BY <1>1, <1>3, <2>1
    <3>. QED
      BY <1>4, <1>6, <2>1, <3>1
  <2>2. CASE bit = 1
    <3>1. left = p + rest
      BY <1>1, <1>3, <2>2
    <3>2. (p + rest) * k = half + rest * k
      BY <1>3
    <3>3. word = half + low
      BY <1>3, <1>4, <3>1, <3>2
    <3>. QED
      BY <1>6, <2>2, <3>3
  <2>. QED
    BY <1>1, <2>1, <2>2
<1>. HIDE DEF word
<1>8. low = rest * k + q /\ rest * k \in Nat
  BY <1>3
<1>. HIDE DEF low
<1>9. word \in Int /\ word \in Nat
  BY <1>1, <1>6, <1>7
<1>10. word \div half = bit
  BY <1>1, <1>6, <1>7, <1>9, DivisionUnique
<1>11. (2 * word) % size = 2 * low
  <2>. DEFINE twice == 2 * word
  <2>1. size \in Nat \ {0} /\ twice \in Int
    BY <1>9
  <2>2. twice = size * bit + 2 * low
    BY <1>1, <1>6, <1>7
  <2>3. 2 * low \in 0 .. size - 1
    BY <1>6
  <2>4. bit \in Int
    BY <1>1
  <2>. HIDE DEF twice
  <2>5. twice % size = 2 * low
    BY <2>1, <2>2, <2>3, <2>4, DivisionUnique
  <2>. QED
    BY <2>5 DEF twice
<1>12. 2 * low = rest * (2 * k) + 2 * q
  BY <1>3, <1>4, <1>8
<1>. QED
  BY <1>9, <1>10, <1>11, <1>12 DEF Shifts, Held, word, left, done, rest, bit, q

(* What cutting to size does to a number in range, and to one below it.    *)
LEMMA Cut ==
  ASSUME NEW size \in Nat \ {0}
  PROVE  /\ \A x \in 0 .. size - 1 : x % size = x
         /\ \A x \in -size .. -1 : x % size = size + x
<1>1. ASSUME NEW x \in 0 .. size - 1 PROVE x % size = x
  BY DivisionUnique
<1>2. ASSUME NEW x \in -size .. -1 PROVE x % size = size + x
  <2>1. x = size * (-1) + (size + x) /\ size + x \in 0 .. size - 1
    OBVIOUS
  <2>. QED
    BY <2>1, DivisionUnique
<1>. QED
  BY <1>1, <1>2

(* A round turns quotient and remainder into those with one more bit.      *)
Rounds(n, v, p, k, half, size) ==
  LET rem  == (n \div (2 * p)) % v
      quot == Held(n, v, p, k)
      shifted == ((2 * rem) % size) + quot \div half
      test    == (shifted - v) % size
  IN  /\ (IF test < half THEN test ELSE shifted) = (n \div p) % v
      /\ ((2 * quot) % size) + (IF test < half THEN 1 ELSE 0)
           = (n % p) * (2 * k) + (n \div p) \div v

(* It does, for divisors up to the sign bit.                               *)
LEMMA RoundResult ==
  ASSUME NEW n \in Nat, NEW v \in Nat \ {0}, NEW p \in Nat \ {0},
         NEW k \in Nat \ {0}, NEW half \in Nat \ {0}, NEW size \in Nat,
         p * k = half, size = half + half, n < size, v <= half
  PROVE  Rounds(n, v, p, k, half, size)
<1>. DEFINE left == n % (2 * p)
            done == n \div (2 * p)
            bit  == left \div p
            q    == done \div v
            rem  == done % v
            quot == Held(n, v, p, k)
            double == 2 * rem + bit
            s    == IF double >= v THEN 1 ELSE 0
            shifted == ((2 * rem) % size) + quot \div half
            test    == (shifted - v) % size
<1>1. /\ bit \in {0, 1}
      /\ n \div p = 2 * done + bit
  BY ShiftOut
<1>2. /\ quot \in Nat
      /\ quot \div half = bit
      /\ (2 * quot) % size = (n % p) * (2 * k) + 2 * q
  <2>1. Shifts(n, v, p, k, half, size)
    BY Quotient
  <2>. QED
    BY <2>1 DEF Shifts
<1>3. done \in Nat
  <2>1. 2 * p \in Nat \ {0}
    OBVIOUS
  <2>. QED
    BY <2>1, DivisionFacts
<1>. HIDE DEF left, done, bit, quot
<1>4. /\ (2 * done + bit) \div v = 2 * q + s
      /\ (2 * done + bit) % v = double - s * v
      /\ double < 2 * v
  BY <1>1, <1>3, NextDigit
<1>5. q \in Nat /\ rem \in 0 .. v - 1
  BY <1>3, DivisionFacts
<1>. HIDE DEF q, rem
<1>6. shifted = double
  <2>1. 2 * rem \in 0 .. size - 1 /\ size \in Nat \ {0}
    BY <1>5
  <2>2. (2 * rem) % size = 2 * rem
    BY <2>1, Cut
  <2>. QED
    BY <1>2, <2>2
<1>. HIDE DEF shifted
<1>7. double \in Nat
  BY <1>1, <1>5
<1>. HIDE DEF double
<1>. DEFINE Goal == /\ (IF test < half THEN test ELSE shifted) = (n \div p) % v
                    /\ ((2 * quot) % size) + (IF test < half THEN 1 ELSE 0)
                         = (n % p) * (2 * k) + (n \div p) \div v
<1>8. ASSUME double >= v PROVE Goal
  <2>1. double - v \in 0 .. v - 1
    BY <1>4, <1>7, <1>8
  <2>2. double - v \in 0 .. size - 1 /\ size \in Nat \ {0}
    BY <2>1
  <2>3. test = double - v
    BY <1>6, <2>2, Cut
  <2>4. test < half /\ s = 1
    BY <1>8, <2>1, <2>3
  <2>. HIDE DEF test, s
  <2>5. /\ test = (n \div p) % v
        /\ ((2 * quot) % size) + 1
             = (n % p) * (2 * k) + (n \div p) \div v
    <3>1. (n \div p) % v = double - v /\ (n \div p) \div v = 2 * q + 1
      BY <1>1, <1>4, <1>7, <2>4
    <3>2. (n % p) * (2 * k) \in Int
      BY DivisionFacts
    <3>. QED
      BY <1>2, <1>5, <2>3, <3>1, <3>2
  <2>. QED
    BY <2>4, <2>5
<1>9. ASSUME double < v PROVE Goal
  <2>1. size + (double - v) \in 0 .. size - 1 /\ size \in Nat \ {0}
    BY <1>7, <1>9
  <2>2. test = size + (double - v)
    <3>1. double - v \in -size .. -1
      BY <1>7, <1>9, <2>1
    <3>. QED
      BY <1>6, <2>1, <3>1, Cut
  <2>3. ~(test < half) /\ s = 0
    BY <1>7, <1>9, <2>2
  <2>. HIDE DEF test, s
  <2>4. /\ shifted = (n \div p) % v
        /\ ((2 * quot) % size) + 0
             = (n % p) * (2 * k) + (n \div p) \div v
    <3>1. (n \div p) % v = double /\ (n \div p) \div v = 2 * q
      BY <1>1, <1>4, <1>5, <1>7, <2>3
    <3>2. (n % p) * (2 * k) \in Int
      BY DivisionFacts
    <3>. QED
      BY <1>2, <1>5, <1>6, <3>1, <3>2
  <2>. QED
    BY <2>3, <2>4
<1>. QED
  <2>1. Goal
    BY <1>7, <1>8, <1>9
  <2>. QED
    BY <2>1 DEF Rounds, shifted, quot, rem, done

-----------------------------------------------------------------------------
(* What a round needs to know besides: the bits that are left and those    *)
(* that are done make up a word.                                           *)
WholeWord == 2 ^ (WordBits - round) * 2 ^ round = Size

DivisionInv == NumbersOK /\ (at # "idle" => WholeWord) /\ LongDivision

LEMMA DivisionBegins ==
  ASSUME NumbersOK, BeginDivision
  PROVE  WholeWord' /\ LongDivision'
<1>. DEFINE n == dividend'
            v == divisor'
<1>1. n \in 0 .. Size - 1 /\ v \in Nat \ {0} /\ Size \in Nat \ {0}
  BY Sizes DEF BeginDivision, NumbersOK, Number
<1>2. /\ round' = 0 /\ remainder' = 0 /\ quotient' = n
      /\ WordBits - 0 = WordBits
  BY WidthAssumption DEF BeginDivision
<1>3. 2 ^ (WordBits - round') = Size /\ 2 ^ round' = 1
  BY <1>2, PowersAssumption DEF Size
<1>. HIDE DEF n, v
<1>4. n \div Size = 0 /\ n % Size = n
  <2>1. n = Size * 0 + n /\ n \in Int
    BY <1>1
  <2>. QED
    BY <1>1, <2>1, DivisionUnique
<1>5. 0 \div v = 0 /\ 0 % v = 0
  BY <1>1, DivisionUnique
<1>6. WholeWord'
  BY <1>1, <1>3 DEF WholeWord, Size
<1>7. /\ remainder' = (n \div Size) % v
      /\ quotient' = (n % Size) * 1 + (n \div Size) \div v
  BY <1>1, <1>2, <1>4, <1>5
<1>8. /\ remainder' = (n \div 2 ^ (WordBits - round')) % v
      /\ quotient' = (n % 2 ^ (WordBits - round')) * 2 ^ round'
                      + (n \div 2 ^ (WordBits - round')) \div v
  BY <1>3, <1>7
<1>. QED
  BY <1>6, <1>8 DEF LongDivision, n, v

LEMMA DivisionGoesOn ==
  ASSUME DivisionInv, Round
  PROVE  WholeWord' /\ LongDivision'
<1>. DEFINE p == 2 ^ (WordBits - round - 1)
            k == 2 ^ round
<1>1. /\ round \in 0 .. WordBits /\ round < WordBits /\ WordBits \in Nat
      /\ round' = round + 1
      /\ WordBits - round' = WordBits - round - 1
      /\ at # "idle" /\ at' = at /\ divisor' = divisor
      /\ dividend' = dividend
  BY WidthAssumption DEF DivisionInv, NumbersOK, Round
<1>2. /\ p \in Nat \ {0} /\ k \in Nat \ {0}
      /\ 2 ^ (WordBits - round) = 2 * p
      /\ 2 ^ round' = 2 * k
      /\ 2 ^ (WordBits - round') = p
  <2>1. /\ WordBits - round - 1 \in 0 .. WordBits
        /\ WordBits - round \in 1 .. WordBits
        /\ round + 1 \in 1 .. WordBits /\ round + 1 - 1 = round
    BY <1>1
  <2>2. p \in Nat \ {0} /\ k \in Nat \ {0}
    BY <1>1, <2>1, PowersAssumption
  <2>3. 2 ^ (WordBits - round) = 2 * 2 ^ ((WordBits - round) - 1)
    BY <2>1, PowersAssumption
  <2>4. 2 ^ (round + 1) = 2 * 2 ^ ((round + 1) - 1)
    BY <2>1, PowersAssumption
  <2>. QED
    BY <1>1, <2>1, <2>2, <2>3, <2>4
<1>. HIDE DEF p, k
<1>3. Half \in Nat \ {0} /\ Size \in Nat /\ Size = Half + Half
  BY Sizes
<1>4. p * k = Half
  <2>1. (2 * p) * k = Size
    BY <1>1, <1>2 DEF DivisionInv, WholeWord, k
  <2>2. (2 * p) * k = p * k + p * k /\ p * k \in Nat
    BY <1>2
  <2>. QED
    BY <1>3, <2>1, <2>2
<1>5. WholeWord'
  <2>1. p * (2 * k) = p * k + p * k
    BY <1>2
  <2>2. p * (2 * k) = Size
    BY <1>3, <1>4, <2>1
  <2>. QED
    BY <1>2, <2>2 DEF WholeWord, Size
<1>6. ASSUME divisor <= Half PROVE LongDivision'
  <2>. DEFINE n == dividend
              v == divisor
  <2>1. n \in Nat /\ v \in Nat \ {0} /\ n < Size /\ v <= Half
    BY <1>3, <1>6 DEF DivisionInv, NumbersOK, Number
  <2>2. Rounds(n, v, p, k, Half, Size)
    BY <1>2, <1>3, <1>4, <2>1, RoundResult
  <2>3. /\ remainder = (n \div (2 * p)) % v
        /\ quotient = Held(n, v, p, k)
    BY <1>1, <1>2, <1>6 DEF DivisionInv, LongDivision, Held, k
  <2>4. /\ remainder' = (n \div p) % v
        /\ quotient' = (n % p) * (2 * k) + (n \div p) \div v
    BY <2>2, <2>3 DEF Rounds, Round, Test, Shifted
  <2>. QED
    BY <1>1, <1>2, <2>4 DEF LongDivision
<1>. QED
  BY <1>1, <1>5, <1>6 DEF LongDivision, Half

LEMMA DivisionInvInit == ArithInit => DivisionInv
BY NumbersInit DEF ArithInit, DivisionInv, LongDivision

LEMMA DivisionInvStep == DivisionInv /\ [ArithNext]_arithVars => DivisionInv'
<1>. SUFFICES ASSUME DivisionInv, [ArithNext]_arithVars
              PROVE  (at # "idle" => WholeWord)' /\ LongDivision'
  BY NumbersStep DEF DivisionInv
<1>1. CASE BeginDivision
  BY <1>1, DivisionBegins DEF DivisionInv
<1>2. CASE Round
  BY <1>2, DivisionGoesOn
<1>3. CASE EndDivision
  BY <1>3 DEF EndDivision, LongDivision
<1>4. CASE Calculate \/ UNCHANGED arithVars
  BY <1>4 DEF Calculate, arithVars, division, DivisionInv, WholeWord,
              LongDivision
<1>. QED
  BY <1>1, <1>2, <1>3, <1>4 DEF ArithNext

(* The long division of cpu.py computes quotient and remainder, bit by     *)
(* bit, at every width of a word, for divisors up to the sign bit.         *)
THEOREM LongDivisionHolds == ArithSpec => []LongDivision
<1>1. DivisionInv => LongDivision
  BY DEF DivisionInv
<1>. QED
  BY <1>1, DivisionInvInit, DivisionInvStep, PTL DEF ArithSpec
=============================================================================
