-------------------------- MODULE Sequential_proofs --------------------------
(***************************************************************************)
(* Theorems about the storage and the assembler, for every image, window   *)
(* and width of byte, and for any labels, statements and length of a       *)
(* source; and about the parts that MCParts puts together.                 *)
(***************************************************************************)
EXTENDS MCParts, Devices_proofs, ReadCache_proofs, Arithmetic_proofs

-----------------------------------------------------------------------------
(* The storage: bytes are where the guest put them.                        *)

(* A guest that keeps to the low half has the offset it wrote, so that     *)
(* what it wrote went to where it meant it to go.                          *)
LowInv == fits => offset = asked /\ image = disk

Inv == TypeOK /\ LowInv

(* The window is at the start of one of the image's, and no access was     *)
(* beyond the image.                                                       *)
InsideInv ==
  ImageSize % Window = 0 /\ (Base * Base) % Window = 0 /\ inside
    => OnWindow(Value(offset)) /\ ~crashed

LEMMA StoreWordType ==
  ASSUME NEW w \in Word, NEW v \in Word
  PROVE  StoreWord(w, v) \in Word
<1>1. LowHalf(v) \in Word
  BY DEF LowHalf, Word, Byte
<1>. QED
  BY <1>1, StoreWordLowHalf

LEMMA InvInit == Init => Inv
<1>. SUFFICES ASSUME Init PROVE Inv
  OBVIOUS
<1>1. wrenable \in BOOLEAN /\ crashed \in BOOLEAN
      /\ fits \in BOOLEAN /\ inside \in BOOLEAN
  BY DEF Init
<1>2. /\ offset \in Word /\ asked \in Word
      /\ image \in [Positions -> Data] /\ disk \in [Positions -> Data]
  BY ZeroType, StorageAssumption DEF Init, Positions
<1>3. LowInv
  BY DEF Init, LowInv
<1>. QED
  BY <1>1, <1>2, <1>3 DEF Inv, TypeOK

LEMMA StoreOffsetStep ==
  ASSUME Inv, StoreOffset
  PROVE  Inv'
<1>1. PICK v \in OffsetWords :
        /\ offset' = StoreWord(offset, v)
        /\ fits' = (fits /\ v = LowHalf(v))
        /\ asked' = IF fits' THEN v ELSE Zero
        /\ inside' = (inside /\ OnWindow(Value(v)))
  BY DEF StoreOffset
<1>2. UNCHANGED <<wrenable, image, crashed, disk>>
  BY DEF StoreOffset
<1>3. v \in Word /\ offset \in Word
  BY StorageAssumption DEF Inv, TypeOK
<1>4. fits' \in BOOLEAN /\ inside' \in BOOLEAN
  BY <1>1
<1>5. offset' \in Word /\ asked' \in Word
  BY <1>1, <1>3, StoreWordType, ZeroType
<1>6. TypeOK'
  BY <1>2, <1>4, <1>5 DEF Inv, TypeOK
<1>7. LowInv'
  BY <1>1, <1>2, <1>3, StoreWordLowHalf DEF Inv, LowInv
<1>. QED
  BY <1>6, <1>7 DEF Inv

LEMMA StoreOffsetByteStep ==
  ASSUME Inv, StoreOffsetByte
  PROVE  Inv'
<1>1. PICK i \in 0 .. 3, v \in OffsetWords :
        offset' = SetWordByte(offset, i, v[i])
  BY DEF StoreOffsetByte
<1>2. /\ fits' = FALSE /\ inside' = FALSE /\ asked' = Zero
      /\ UNCHANGED <<wrenable, image, crashed, disk>>
  BY DEF StoreOffsetByte
<1>3. v[i] \in Byte /\ offset \in Word
  BY StorageAssumption DEF Inv, TypeOK, Word
<1>4. offset' \in Word /\ asked' \in Word
  BY <1>1, <1>2, <1>3, SetWordByteType, ZeroType DEF Word
<1>5. TypeOK'
  BY <1>2, <1>4 DEF Inv, TypeOK
<1>. QED
  BY <1>2, <1>5 DEF Inv, LowInv

LEMMA StoreEnableStep ==
  ASSUME Inv, StoreEnable
  PROVE  Inv'
<1>1. PICK v \in EnableWords : wrenable' = (v[3] # {})
  BY DEF StoreEnable
<1>2. UNCHANGED <<offset, image, crashed, asked, fits, inside, disk>>
  BY DEF StoreEnable
<1>3. wrenable' \in BOOLEAN
  BY <1>1
<1>. QED
  BY <1>2, <1>3 DEF Inv, TypeOK, LowInv

LEMMA StoreEnableByteStep ==
  ASSUME Inv, StoreEnableByte
  PROVE  Inv'
<1>1. PICK b \in Byte : wrenable' = (b # {})
  BY DEF StoreEnableByte
<1>2. UNCHANGED <<offset, image, crashed, asked, fits, inside, disk>>
  BY DEF StoreEnableByte
<1>3. wrenable' \in BOOLEAN
  BY <1>1
<1>. QED
  BY <1>2, <1>3 DEF Inv, TypeOK, LowInv

LEMMA AccessStep ==
  ASSUME Inv, Access
  PROVE  Inv'
<1>0. UNCHANGED <<offset, wrenable, asked, fits, inside>>
  BY DEF Access
<1>1. PICK i \in 0 .. Window - 1 : Beyond(i) \/ \E d \in Data : Write(i, d)
  BY DEF Access
<1>2. CASE Beyond(i)
  BY <1>0, <1>2 DEF Beyond, Inv, TypeOK, LowInv
<1>3. ASSUME NEW d \in Data, Write(i, d)
      PROVE  Inv'
  <2>1. TypeOK'
    BY <1>0, <1>3 DEF Write, Inv, TypeOK
  <2>2. LowInv'
    BY <1>0, <1>3 DEF Write, Inv, LowInv
  <2>. QED
    BY <2>1, <2>2 DEF Inv
<1>. QED
  BY <1>1, <1>2, <1>3

LEMMA InvStep == Inv /\ [Next]_vars => Inv'
<1>1. Inv /\ UNCHANGED vars => Inv'
  BY DEF vars, Inv, TypeOK, LowInv
<1>. QED
  BY <1>1, StoreOffsetStep, StoreOffsetByteStep, StoreEnableStep,
     StoreEnableByteStep, AccessStep
  DEF Next, Dead

LEMMA InvHolds == Spec => []Inv
BY InvInit, InvStep, PTL DEF Spec

-----------------------------------------------------------------------------
(* Type correctness of the storage, for every image and window.            *)
THEOREM StorageTypeCorrect == Spec => []TypeOK
<1>1. Inv => TypeOK
  BY DEF Inv
<1>. QED
  BY <1>1, InvHolds, PTL

(* A guest that moves the window by words whose high half is 0 finds its   *)
(* bytes where it put them, whatever the size of the image and the window. *)
THEOREM StoredLowHolds == Spec => []StoredLow
<1>1. Inv => StoredLow
  BY DEF Inv, LowInv, StoredLow
<1>. QED
  BY <1>1, InvHolds, PTL

-----------------------------------------------------------------------------
(* The window stays inside the image.                                      *)

LEMMA NoRemainder ==
  ASSUME NEW w \in Nat \ {0}, NEW d \in Int, NEW m \in 0 .. w - 1,
         NEW t \in Int, w * d + m = w * t
  PROVE  m = 0
<1>1. PICK e \in Int : e = t - d
  OBVIOUS
<1>2. w * t = w * d + w * e
  BY <1>1
<1>3. w * e = m
  BY <1>2
<1>4. e >= 1 => w * e >= w
  OBVIOUS
<1>5. e <= -1 => w * e <= -w
  OBVIOUS
<1>6. e = 0 => w * e = 0
  OBVIOUS
<1>. QED
  BY <1>3, <1>4, <1>5, <1>6

LEMMA MultipleFacts ==
  ASSUME NEW w \in Nat \ {0}, NEW n \in Nat
  PROVE  /\ n % w = 0 => \E t \in Nat : n = w * t
         /\ \A t \in Int : n = w * t => n % w = 0
<1>1. PICK d \in Nat, m \in 0 .. w - 1 : n = w * d + m /\ m = n % w
  <2>1. /\ n \div w \in Nat /\ n % w \in 0 .. w - 1
        /\ n = w * (n \div w) + (n % w)
    OBVIOUS
  <2>. QED
    BY <2>1
<1>2. m = 0 => n = w * d
  BY <1>1
<1>3. ASSUME NEW t \in Int, n = w * t PROVE m = 0
  <2>1. w * d + m = w * t
    BY <1>1, <1>3
  <2>. QED
    BY <2>1, NoRemainder
<1>. QED
  BY <1>1, <1>2, <1>3

(* What is left of a multiple of the window without its high half is one.  *)
LEMMA LowMultiple ==
  ASSUME NEW w \in Nat \ {0}, NEW b \in Nat, NEW h \in Nat, NEW l \in Nat,
         b % w = 0, (b * h + l) % w = 0
  PROVE  l % w = 0
<1>1. PICK q \in Nat : b = w * q
  BY MultipleFacts
<1>2. b * h + l \in Nat
  OBVIOUS
<1>3. PICK t \in Nat : b * h + l = w * t
  BY <1>2, MultipleFacts
<1>4. b * h = w * (q * h)
  BY <1>1
<1>5. w * (t - q * h) = w * t - w * (q * h)
  OBVIOUS
<1>6. l = w * (t - q * h) /\ t - q * h \in Int
  BY <1>2, <1>3, <1>4, <1>5
<1>. QED
  BY <1>6, MultipleFacts

(* From the start of a window of the image, its bytes are in the image.    *)
LEMMA WindowFits ==
  ASSUME NEW w \in Nat \ {0}, NEW size \in Nat, NEW n \in Nat,
         size % w = 0, n % w = 0, n < size, NEW i \in 0 .. w - 1
  PROVE  n + i < size
<1>1. PICK s \in Nat : size = w * s
  BY MultipleFacts
<1>2. PICK t \in Nat : n = w * t
  BY MultipleFacts
<1>3. t + 1 <= s
  <2>. SUFFICES ASSUME s <= t PROVE FALSE
    OBVIOUS
  <2>1. w * s <= w * t
    OBVIOUS
  <2>. QED
    BY <1>1, <1>2, <2>1
<1>4. w * (t + 1) <= w * s /\ w * (t + 1) = w * t + w
  BY <1>3
<1>. QED
  BY <1>1, <1>2, <1>4

(* The number of a word is that of its high half and that of its low half. *)
LEMMA ValueFacts ==
  ASSUME NEW v \in Word
  PROVE  /\ Value(v) \in Nat /\ Value(LowHalf(v)) \in Nat
         /\ \E h \in Nat : Value(v) = (Base * Base) * h + Value(LowHalf(v))
<1>1. PICK a \in Nat, b \in Nat, c \in Nat, d \in Nat, n \in Nat :
        /\ a = ByteValue(v[0]) /\ b = ByteValue(v[1])
        /\ c = ByteValue(v[2]) /\ d = ByteValue(v[3]) /\ n = Base
  <2>1. v[0] \in Byte /\ v[1] \in Byte /\ v[2] \in Byte /\ v[3] \in Byte
    BY DEF Word
  <2>2. ByteValue(v[0]) \in Nat /\ ByteValue(v[1]) \in Nat
    BY <2>1, ByteAssumption
  <2>3. ByteValue(v[2]) \in Nat /\ ByteValue(v[3]) \in Nat
    BY <2>1, ByteAssumption
  <2>. QED
    BY <2>2, <2>3, ByteAssumption
<1>2. Value(v) = ((a * n + b) * n + c) * n + d
  BY <1>1 DEF Value
<1>3. Value(LowHalf(v)) = c * n + d
  <2>1. /\ LowHalf(v)[0] = {} /\ LowHalf(v)[1] = {}
        /\ LowHalf(v)[2] = v[2] /\ LowHalf(v)[3] = v[3]
    BY DEF LowHalf
  <2>2. Value(LowHalf(v)) = ((0 * n + 0) * n + c) * n + d
    BY <1>1, <2>1, ByteAssumption DEF Value
  <2>3. ((0 * n + 0) * n + c) * n + d = c * n + d
    OBVIOUS
  <2>. QED
    BY <2>2, <2>3
<1>4. PICK h \in Nat : h = a * n + b
  OBVIOUS
<1>5. (h * n + c) * n + d = (n * n) * h + (c * n + d)
  OBVIOUS
<1>6. Value(v) = (Base * Base) * h + Value(LowHalf(v))
  BY <1>1, <1>2, <1>3, <1>4, <1>5
<1>7. (h * n + c) * n + d \in Nat /\ c * n + d \in Nat
  OBVIOUS
<1>. QED
  BY <1>2, <1>3, <1>4, <1>6, <1>7

LEMMA InsideInit == Init => InsideInv
<1>. SUFFICES ASSUME Init PROVE OnWindow(Value(offset)) /\ ~crashed
  BY DEF InsideInv
<1>1. Value(Zero) = ((0 * Base + 0) * Base + 0) * Base + 0
  BY ByteAssumption DEF Value, Zero
<1>2. Value(Zero) = 0
  <2>1. \A n \in Nat : ((0 * n + 0) * n + 0) * n + 0 = 0
    OBVIOUS
  <2>. QED
    BY <1>1, <2>1, ByteAssumption
<1>3. 0 % Window = 0
  BY MultipleFacts, StorageAssumption
<1>. QED
  BY <1>2, <1>3, StorageAssumption DEF Init, OnWindow

LEMMA InsideStep == Inv /\ InsideInv /\ [Next]_vars => InsideInv'
<1>. SUFFICES ASSUME Inv, InsideInv, [Next]_vars,
                     ImageSize % Window = 0, (Base * Base) % Window = 0,
                     inside'
              PROVE  OnWindow(Value(offset))' /\ ~crashed'
  BY DEF InsideInv, Base
<1>0. /\ Window \in Nat \ {0} /\ ImageSize \in Nat \ {0}
      /\ offset \in Word /\ inside \in BOOLEAN /\ Base * Base \in Nat
  BY StorageAssumption, ByteAssumption DEF Inv, TypeOK
<1>1. CASE StoreOffset
  <2>1. PICK v \in OffsetWords :
          /\ offset' = StoreWord(offset, v) /\ crashed' = crashed
          /\ inside' = (inside /\ OnWindow(Value(v)))
    BY <1>1 DEF StoreOffset
  <2>2. v \in Word /\ offset' = LowHalf(v)
    BY <1>0, <2>1, StorageAssumption, StoreWordLowHalf
  <2>3. inside /\ OnWindow(Value(v))
    BY <2>1
  <2>4. PICK h \in Nat : Value(v) = (Base * Base) * h + Value(LowHalf(v))
    BY <2>2, ValueFacts
  <2>5. Value(v) \in Nat /\ Value(LowHalf(v)) \in Nat
    BY <2>2, ValueFacts
  <2>6. Value(LowHalf(v)) % Window = 0
    BY <1>0, <2>3, <2>4, <2>5, LowMultiple DEF OnWindow
  <2>7. Value(LowHalf(v)) < ImageSize
    <3>1. (Base * Base) * h \in Nat
      BY <1>0
    <3>. QED
      BY <1>0, <2>3, <2>4, <2>5, <3>1 DEF OnWindow
  <2>8. Value(offset)' = Value(LowHalf(v))
    BY <2>2 DEF Value
  <2>. QED
    BY <2>1, <2>3, <2>6, <2>7, <2>8 DEF OnWindow, InsideInv
<1>2. CASE StoreOffsetByte
  BY <1>2 DEF StoreOffsetByte
<1>3. ASSUME UNCHANGED <<offset, inside>>, crashed' = crashed
      PROVE  OnWindow(Value(offset))' /\ ~crashed'
  BY <1>3 DEF InsideInv, OnWindow, Value
<1>4. CASE StoreEnable \/ StoreEnableByte
  BY <1>3, <1>4 DEF StoreEnable, StoreEnableByte
<1>5. CASE Access
  <2>1. UNCHANGED <<offset, inside>>
    BY <1>5 DEF Access
  <2>2. PICK i \in 0 .. Window - 1 : Beyond(i) \/ crashed' = crashed
    BY <1>5 DEF Access, Write
  <2>3. ASSUME Beyond(i) PROVE FALSE
    <3>1. Value(offset) + i \notin 0 .. ImageSize - 1
      BY <2>3 DEF Beyond, Positions
    <3>2. /\ Value(offset) \in Nat /\ Value(offset) % Window = 0
          /\ Value(offset) < ImageSize
      BY <1>0, <2>1, ValueFacts DEF InsideInv, OnWindow
    <3>3. Value(offset) + i < ImageSize
      BY <1>0, <3>2, WindowFits
    <3>. QED
      BY <1>0, <3>1, <3>2, <3>3
  <2>. QED
    BY <1>3, <2>1, <2>2, <2>3
<1>6. CASE Dead \/ UNCHANGED vars
  BY <1>3, <1>6 DEF Dead, vars
<1>. QED
  BY <1>1, <1>2, <1>4, <1>5, <1>6 DEF Next

(* README:122.  An image of whole windows that the guest moves by whole    *)
(* windows is never left, for any width of byte and any window of which    *)
(* the lost half of a word counts a whole number.                          *)
THEOREM StaysInsideHolds == Spec => []StaysInside
<1>1. InsideInv => StaysInside
  BY DEF InsideInv, StaysInside
<1>. QED
  BY <1>1, InsideInit, InsideStep, InvHolds, PTL DEF Spec

-----------------------------------------------------------------------------
(* The assembler: every word that stands for a label gets its address.     *)

Cell == (Nat \cup {-1}) \X (0 .. 3)

(* The words that stand for a label are in the output and do not overlap.  *)
Apart ==
  /\ \A p \in Nat, l \in Labels : <<p, l>> \in refs => p + 4 <= here
  /\ \A p, q \in Nat, l, m \in Labels :
       <<p, l>> \in refs /\ <<q, m>> \in refs
         => p + 4 <= q \/ q + 4 <= p \/ (p = q /\ l = m)

(* The words that wait for a label are those that stand for it, until it   *)
(* is defined.                                                             *)
Waiting ==
  \A p \in Nat, l \in Labels :
    p \in pending[l] <=> symtable[l] = Undefined /\ <<p, l>> \in refs

(* Resolved, without pairs.                                                *)
Filled ==
  \A p \in Nat, l \in Labels, k \in 0 .. 3 :
    <<p, l>> \in refs => output[p + k] = Part(Address(l), k)

AsmInv == AsmTypeOK /\ Apart /\ Waiting /\ Filled

LEMMA CellFacts ==
  /\ Plain \in Cell
  /\ \A a \in Nat, k \in 0 .. 3 : Part(a, k) \in Cell
BY DEF Cell, Plain, Part

LEMMA StatementFacts ==
  ASSUME NEW s \in Statements
  PROVE  /\ s.op = "label" => s.name \in Labels
         /\ s.op = "fill" => s.size \in Nat
         /\ s.op = "align" => s.to \in Nat \ {0}
<1>1. s \in Statement
  BY StatementsAssumption
<1>. QED
  BY <1>1 DEF Statement

LEMMA AddressType ==
  ASSUME AsmTypeOK, NEW l \in Labels
  PROVE  Address(l) \in Nat
BY DEF AsmTypeOK, Address, Undefined

LEMMA AsmInvInit == AsmInit => AsmInv
<1>. SUFFICES ASSUME AsmInit PROVE AsmInv
  OBVIOUS
<1>1. output \in [0 .. here - 1 -> Cell]
  BY CellFacts DEF AsmInit
<1>2. AsmTypeOK
  BY <1>1 DEF AsmInit, AsmTypeOK, Undefined, Cell
<1>. QED
  BY <1>2 DEF AsmInit, AsmInv, Apart, Waiting, Filled

(* Bytes put out leave those before them.                                  *)
LEMMA ExtendKeeps ==
  ASSUME AsmTypeOK, NEW n \in Nat, NEW c \in [0 .. n - 1 -> Cell],
         Extend(n, c)
  PROVE  /\ here' \in Nat /\ here' >= here
         /\ output' \in [0 .. here' - 1 -> Cell]
         /\ \A p \in 0 .. here - 1 : output'[p] = output[p]
         /\ \A q \in 0 .. n - 1 : output'[here + q] = c[q]
<1>1. here \in Nat /\ output \in [0 .. here - 1 -> Cell]
  BY DEF AsmTypeOK, Cell
<1>2. \A p \in 0 .. here + n - 1 :
        (IF p < here THEN output[p] ELSE c[p - here]) \in Cell
  BY <1>1
<1>. QED
  BY <1>1, <1>2 DEF Extend

(* Bytes that stand for no label.                                          *)
LEMMA PlainStep ==
  ASSUME AsmInv, NEW n \in Nat,
         Extend(n, Padding(n)),
         UNCHANGED <<symtable, pending, asmAt, refs>>
  PROVE  AsmInv'
<1>1. Padding(n) \in [0 .. n - 1 -> Cell]
  BY CellFacts DEF Padding
<1>2. here \in Nat
  BY DEF AsmInv, AsmTypeOK
<1>3. /\ here' \in Nat /\ here' >= here
      /\ output' \in [0 .. here' - 1 -> Cell]
      /\ \A p \in 0 .. here - 1 : output'[p] = output[p]
  BY <1>1, ExtendKeeps DEF AsmInv
<1>4. AsmTypeOK'
  BY <1>3 DEF AsmInv, AsmTypeOK, Cell
<1>5. Apart' /\ Waiting'
  BY <1>2, <1>3 DEF AsmInv, Apart, Waiting
<1>6. Filled'
  <2>. SUFFICES ASSUME NEW p \in Nat, NEW l \in Labels, NEW k \in 0 .. 3,
                       <<p, l>> \in refs
                PROVE  output'[p + k] = Part(Address(l), k)'
    BY DEF Filled
  <2>1. p + k \in 0 .. here - 1
    BY <1>2 DEF AsmInv, Apart
  <2>2. output[p + k] = Part(Address(l), k)
    BY DEF AsmInv, Filled
  <2>. QED
    BY <1>3, <2>1, <2>2 DEF Part, Address
<1>. QED
  BY <1>4, <1>5, <1>6 DEF AsmInv

LEMMA FillStep ==
  ASSUME AsmInv, NEW s \in Statements, Fill(s) \/ Align(s)
  PROVE  AsmInv'
<1>1. CASE Fill(s)
  BY <1>1, PlainStep, StatementFacts DEF Fill
<1>2. CASE Align(s)
  <2>1. s.to - (here % s.to) \in Nat
    BY <1>2, StatementFacts DEF Align, AsmInv, AsmTypeOK
  <2>. QED
    BY <1>2, <2>1, PlainStep DEF Align
<1>. QED
  BY <1>1, <1>2

(* The words of an instruction fit between its opcode and its end.         *)
LEMMA InstFacts ==
  ASSUME NEW s \in Statements, s.op = "inst"
  PROVE  /\ InstSize(s) \in Nat
         /\ DOMAIN s.words \subseteq Nat \ {0}
         /\ \A j \in DOMAIN s.words : 4 * j + 4 <= InstSize(s)
<1>1. s \in Statement
  BY StatementsAssumption
<1>2. /\ s.floats \in 0 .. 1
      /\ s.words \in UNION {[1 .. n -> Labels \cup {NoLabel}] : n \in 0 .. 3}
  BY <1>1 DEF Statement
<1>3. PICK n \in 0 .. 3 : s.words \in [1 .. n -> Labels \cup {NoLabel}]
  BY <1>2
<1>4. Len(s.words) = n /\ DOMAIN s.words = 1 .. n
  BY <1>3
<1>5. n + s.floats <= 3
  BY <1>4, StatementsAssumption
<1>6. InstSize(s) = 4 + 4 * n + 4 * (3 - n - s.floats)
  BY <1>4 DEF InstSize
<1>7. InstSize(s) \in Nat /\ 4 * n + 4 <= InstSize(s)
  BY <1>2, <1>5, <1>6
<1>. QED
  BY <1>4, <1>7

(* What is put out where an instruction uses a label.                      *)
LEMMA InstCellFacts ==
  ASSUME AsmTypeOK, NEW s \in Statements, s.op = "inst"
  PROVE  /\ \A q \in Nat : InstCell(s, q) \in Cell
         /\ \A j \in DOMAIN s.words, k \in 0 .. 3 :
              s.words[j] \in Labels
                => InstCell(s, 4 * j + k) = Part(Address(s.words[j]), k)
<1>1. ASSUME NEW q \in Nat PROVE InstCell(s, q) \in Cell
  <2>1. q % 4 \in 0 .. 3
    OBVIOUS
  <2>. QED
    BY <2>1, CellFacts, AddressType DEF InstCell
<1>2. ASSUME NEW j \in DOMAIN s.words, NEW k \in 0 .. 3, s.words[j] \in Labels
      PROVE  InstCell(s, 4 * j + k) = Part(Address(s.words[j]), k)
  <2>1. j \in Nat
    BY InstFacts
  <2>2. (4 * j + k) \div 4 = j /\ (4 * j + k) % 4 = k
    BY <2>1
  <2>. QED
    BY <1>2, <2>2 DEF InstCell
<1>. QED
  BY <1>1, <1>2

(* The uses of labels that an instruction adds.                            *)
LEMMA UsesFacts ==
  ASSUME AsmTypeOK, NEW s \in Statements, s.op = "inst",
         NEW p \in Nat, NEW l \in Labels, p \in UsesAt(s, l)
  PROVE  \E j \in DOMAIN s.words :
           /\ j \in Nat \ {0} /\ 4 * j + 4 <= InstSize(s)
           /\ p = here + 4 * j /\ s.words[j] = l
BY InstFacts DEF UsesAt, WordAt

LEMMA InstStep ==
  ASSUME AsmInv, NEW s \in Statements, Inst(s)
  PROVE  AsmInv'
<1>. DEFINE n == InstSize(s)
            c == InstBytes(s)
<1>1. s.op = "inst" /\ AsmTypeOK /\ UNCHANGED <<symtable, asmAt>>
  BY DEF Inst, AsmInv
<1>2. n \in Nat /\ here \in Nat
  BY <1>1, InstFacts DEF AsmTypeOK
<1>3. c \in [0 .. n - 1 -> Cell]
  BY <1>1, <1>2, InstCellFacts DEF InstBytes
<1>4. \A q \in 0 .. n - 1 : c[q] = InstCell(s, q)
  BY DEF InstBytes
<1>5. Extend(n, c)
  BY DEF Inst
<1>6. here' = here + n
  BY <1>5 DEF Extend
<1>. HIDE DEF c, n
<1>7. /\ here' \in Nat /\ here' >= here
      /\ output' \in [0 .. here' - 1 -> Cell]
      /\ \A p \in 0 .. here - 1 : output'[p] = output[p]
      /\ \A q \in 0 .. n - 1 : output'[here + q] = c[q]
  BY <1>1, <1>2, <1>3, <1>5, ExtendKeeps
<1>8. \A p \in Nat, l \in Labels :
        <<p, l>> \in refs' <=> <<p, l>> \in refs \/ p \in UsesAt(s, l)
  BY DEF Inst
<1>9. \A l \in Labels :
         pending'[l] = IF symtable[l] = Undefined
                       THEN pending[l] \cup UsesAt(s, l) ELSE pending[l]
  BY DEF Inst
<1>10. \A l \in Labels : UsesAt(s, l) \subseteq Nat
  BY <1>1, <1>2, InstFacts DEF UsesAt, WordAt
<1>11. AsmTypeOK'
  <2>1. pending' \in [Labels -> SUBSET Nat]
    BY <1>1, <1>10 DEF Inst, AsmTypeOK
  <2>2. refs' \subseteq Nat \X Labels
    BY <1>1, <1>10 DEF Inst, AsmTypeOK
  <2>. QED
    BY <1>1, <1>7, <2>1, <2>2 DEF AsmTypeOK, Cell
<1>12. ASSUME NEW p \in Nat, NEW l \in Labels, p \in UsesAt(s, l)
       PROVE  \E j \in DOMAIN s.words :
                /\ j \in Nat \ {0} /\ 4 * j + 4 <= n
                /\ p = here + 4 * j /\ s.words[j] = l
  BY <1>1, <1>12, UsesFacts DEF n
<1>13. Apart'
  <2>1. ASSUME NEW p \in Nat, NEW l \in Labels, <<p, l>> \in refs'
        PROVE  p + 4 <= here'
    <3>1. CASE <<p, l>> \in refs
      <4>1. p + 4 <= here
        BY <3>1 DEF AsmInv, Apart
      <4>. QED
        BY <1>2, <1>7, <4>1
    <3>2. CASE p \in UsesAt(s, l)
      <4>1. PICK j \in DOMAIN s.words :
              j \in Nat /\ 4 * j + 4 <= n /\ p = here + 4 * j
        BY <1>12, <3>2
      <4>. QED
        BY <1>2, <1>6, <4>1
    <3>. QED
      BY <1>8, <2>1, <3>1, <3>2
  <2>2. ASSUME NEW p \in Nat, NEW q \in Nat, NEW l \in Labels,
               NEW m \in Labels, <<p, l>> \in refs', <<q, m>> \in refs'
        PROVE  p + 4 <= q \/ q + 4 <= p \/ (p = q /\ l = m)
    <3>1. CASE <<p, l>> \in refs /\ <<q, m>> \in refs
      BY <3>1 DEF AsmInv, Apart
    <3>2. CASE <<p, l>> \in refs /\ q \in UsesAt(s, m)
      BY <1>2, <1>12, <3>2 DEF AsmInv, Apart
    <3>3. CASE p \in UsesAt(s, l) /\ <<q, m>> \in refs
      BY <1>2, <1>12, <3>3 DEF AsmInv, Apart
    <3>4. CASE p \in UsesAt(s, l) /\ q \in UsesAt(s, m)
      <4>1. PICK i \in DOMAIN s.words :
              i \in Nat /\ p = here + 4 * i /\ s.words[i] = l
        BY <1>12, <3>4
      <4>2. PICK j \in DOMAIN s.words :
              j \in Nat /\ q = here + 4 * j /\ s.words[j] = m
        BY <1>12, <3>4
      <4>. QED
        BY <1>2, <4>1, <4>2
    <3>. QED
      BY <1>8, <2>2, <3>1, <3>2, <3>3, <3>4
  <2>. QED
    BY <2>1, <2>2 DEF Apart
<1>14. Waiting'
  BY <1>1, <1>8, <1>9 DEF AsmInv, Waiting
<1>15. Filled'
  <2>. SUFFICES ASSUME NEW p \in Nat, NEW l \in Labels, NEW k \in 0 .. 3,
                       <<p, l>> \in refs'
                PROVE  output'[p + k] = Part(Address(l), k)
    BY <1>1 DEF Filled, Address, Part
  <2>1. CASE <<p, l>> \in refs
    <3>1. p + k \in 0 .. here - 1
      BY <1>2, <2>1 DEF AsmInv, Apart
    <3>. QED
      BY <1>7, <2>1, <3>1 DEF AsmInv, Filled
  <2>2. CASE p \in UsesAt(s, l)
    <3>1. PICK j \in DOMAIN s.words :
            /\ j \in Nat \ {0} /\ 4 * j + 4 <= n
            /\ p = here + 4 * j /\ s.words[j] = l
      BY <1>12, <2>2
    <3>2. p + k = here + (4 * j + k) /\ 4 * j + k \in 0 .. n - 1
      BY <1>2, <3>1
    <3>3. output'[p + k] = InstCell(s, 4 * j + k)
      BY <1>4, <1>7, <3>2
    <3>. QED
      BY <1>1, <3>1, <3>3, InstCellFacts
  <2>. QED
    BY <1>8, <2>1, <2>2
<1>. QED
  BY <1>11, <1>13, <1>14, <1>15 DEF AsmInv

(* A label fills in exactly the words that wait for it.                    *)
LEMMA LabelStep ==
  ASSUME AsmInv, NEW s \in Statements, Label(s)
  PROVE  AsmInv'
<1>. DEFINE d == s.name
<1>1. d \in Labels /\ symtable[d] = Undefined
      /\ symtable' = [symtable EXCEPT ![d] = here]
      /\ pending' = [pending EXCEPT ![d] = {}]
      /\ UNCHANGED <<here, asmAt, refs>>
  BY StatementFacts DEF Label
<1>2. output' = [p \in 0 .. here - 1 |->
                   IF Covering(d, p) = {} THEN output[p]
                   ELSE Part(here, p - (CHOOSE i \in Covering(d, p) : TRUE))]
  BY DEF Label
<1>. HIDE DEF d
<1>3. here \in Nat /\ here # Undefined /\ AsmTypeOK
  BY DEF AsmInv, AsmTypeOK, Undefined
<1>4. \A i \in Nat : i \in pending[d] <=> <<i, d>> \in refs
  BY <1>1 DEF AsmInv, Waiting
<1>5. pending[d] \subseteq Nat
  BY <1>1, <1>3 DEF AsmTypeOK
<1>6. AsmTypeOK'
  <2>1. ASSUME NEW p \in 0 .. here - 1, Covering(d, p) # {}
        PROVE  Part(here, p - (CHOOSE i \in Covering(d, p) : TRUE)) \in Cell
    <3>1. PICK i : i = CHOOSE j \in Covering(d, p) : TRUE
      OBVIOUS
    <3>2. i \in Covering(d, p)
      BY <2>1, <3>1
    <3>3. i \in Nat /\ p - i \in 0 .. 3
      BY <1>3, <1>5, <3>2 DEF Covering
    <3>. QED
      BY <1>3, <3>1, <3>3, CellFacts
  <2>2. output' \in [0 .. here - 1 -> Cell]
    BY <1>2, <1>3, <2>1 DEF AsmTypeOK, Cell
  <2>. QED
    BY <1>1, <1>3, <2>2 DEF AsmTypeOK, Cell
<1>7. Apart'
  BY <1>1 DEF AsmInv, Apart
<1>8. Waiting'
  BY <1>1, <1>3 DEF AsmInv, AsmTypeOK, Waiting
<1>9. Filled'
  <2>. SUFFICES ASSUME NEW p \in Nat, NEW l \in Labels, NEW k \in 0 .. 3,
                       <<p, l>> \in refs
                PROVE  output'[p + k] = Part(Address(l)', k)
    BY <1>1 DEF Filled, Part
  <2>1. p + k \in 0 .. here - 1
    BY <1>3 DEF AsmInv, Apart
  <2>2. ASSUME NEW i \in Covering(d, p + k) PROVE i = p /\ l = d
    <3>1. i \in Nat /\ <<i, d>> \in refs /\ p + k \in i .. i + 3
      BY <1>4, <1>5 DEF Covering
    <3>2. p + 4 <= i \/ i + 4 <= p \/ (p = i /\ l = d)
      BY <1>1, <3>1 DEF AsmInv, Apart
    <3>. QED
      BY <3>1, <3>2
  <2>3. CASE l = d
    <3>1. \A i \in Covering(d, p + k) : i = p
      BY <2>2
    <3>2. p \in Covering(d, p + k)
      BY <1>4, <2>3 DEF Covering
    <3>3. Covering(d, p + k) = {p}
      BY <3>1, <3>2
    <3>4. output'[p + k] = Part(here, p + k - p)
      BY <1>2, <2>1, <3>3
    <3>5. Address(l)' = here
      BY <1>1, <1>3, <2>3 DEF Address, AsmTypeOK
    <3>. QED
      BY <3>4, <3>5
  <2>4. CASE l # d
    <3>1. Covering(d, p + k) = {}
      BY <2>4, <2>2
    <3>2. output'[p + k] = Part(Address(l), k)
      BY <1>2, <2>1, <3>1 DEF AsmInv, Filled
    <3>3. Address(l)' = Address(l)
      BY <1>1, <1>3, <2>4 DEF Address, AsmTypeOK
    <3>. QED
      BY <3>2, <3>3
  <2>. QED
    BY <2>3, <2>4
<1>. QED
  BY <1>6, <1>7, <1>8, <1>9 DEF AsmInv

LEMMA AsmInvStep == AsmInv /\ [AsmNext]_asmVars => AsmInv'
<1>. SUFFICES ASSUME AsmInv, [AsmNext]_asmVars PROVE AsmInv'
  OBVIOUS
<1>1. ASSUME UNCHANGED <<here, output, symtable, pending, refs>>,
             asmAt' \in {"parse", "written", "failed"}
      PROVE  AsmInv'
  BY <1>1
  DEF AsmInv, AsmTypeOK, Apart, Waiting, Filled, Address, Part
<1>2. CASE UNCHANGED asmVars
  BY <1>1, <1>2 DEF asmVars, AsmInv, AsmTypeOK
<1>3. CASE EndSource
  BY <1>1, <1>3 DEF EndSource
<1>4. ASSUME NEW s \in Statements, DuplicateLabel(s) PROVE AsmInv'
  BY <1>1, <1>4 DEF DuplicateLabel
<1>. QED
  BY <1>2, <1>3, <1>4, FillStep, InstStep, LabelStep DEF AsmNext, AsmEnded

LEMMA AsmInvHolds == AsmSpec => []AsmInv
BY AsmInvInit, AsmInvStep, PTL DEF AsmSpec

-----------------------------------------------------------------------------
(* Type correctness of the assembler: what it puts out, knows of labels    *)
(* and has yet to fill in.                                                 *)
THEOREM AsmTypeCorrect == AsmSpec => []AsmTypeOK
<1>1. AsmInv => AsmTypeOK
  BY DEF AsmInv
<1>. QED
  BY <1>1, AsmInvHolds, PTL

(* assemble.py:39 and 51.  A word that stands for a label holds its        *)
(* address as soon as the label is defined, before or after the word.      *)
THEOREM ResolvedHolds == AsmSpec => []Resolved
<1>1. ASSUME AsmInv PROVE Resolved
  <2>1. \A r \in refs : r = <<r[1], r[2]>> /\ r[1] \in Nat /\ r[2] \in Labels
    BY <1>1 DEF AsmInv, AsmTypeOK
  <2>. QED
    BY <1>1, <2>1 DEF AsmInv, Filled, Resolved
<1>. QED
  BY <1>1, AsmInvHolds, PTL

-----------------------------------------------------------------------------
(* The image is the one that two passes make.  The start of a statement is *)
(* defined by recursion over the source, and CHOOSE picks the function:    *)
(* what is invariant is said of every function that satisfies its          *)
(* equation, and that there is one.                                        *)

Exact ==
  \A n \in DOMAIN source : source[n].op = "inst" => source[n].floats = 0

IsStarts(f) ==
  f = [n \in 1 .. Len(source) + 1 |->
         IF n = 1 THEN 0 ELSE f[n - 1] + SizeAt(source[n - 1], f[n - 1])]

(* Statement n uses label l in the word at p.                              *)
Uses(f, n, p, l) ==
  /\ source[n].op = "inst"
  /\ \E j \in DOMAIN source[n].words :
       source[n].words[j] = l /\ p = f[n] + 4 * j

(* The statements follow each other and fill the output; labels and the    *)
(* words that stand for them are where the statements start.               *)
Placed(f) ==
  /\ \A n \in 1 .. Len(source) + 1 : f[n] \in Nat
  /\ f[Len(source) + 1] = here
  /\ \A m, n \in 1 .. Len(source) + 1 : m <= n => f[m] <= f[n]
  /\ \A p \in 0 .. here - 1 :
       \E n \in DOMAIN source : f[n] <= p /\ p < f[n + 1]
  /\ \A n \in DOMAIN source :
       source[n].op = "label" => symtable[source[n].name] = f[n]
  /\ \A p \in Nat, l \in Labels :
       <<p, l>> \in refs <=> \E n \in DOMAIN source : Uses(f, n, p, l)

LabelsFrom ==
  \A l \in Labels :
    symtable[l] # Undefined =>
      \E n \in DOMAIN source : source[n] = [op |-> "label", name |-> l]

Placement ==
  asmAt # "failed" =>
    /\ source \in Seq(Statements)
    /\ \E f : IsStarts(f)
    /\ Exact => \A f : IsStarts(f) => Placed(f)
    /\ LabelsFrom

(* Bytes that stand for no label are plain.                                *)
Bare ==
  \A p \in 0 .. here - 1 :
    (\A i \in Nat, l \in Labels :
       <<i, l>> \in refs => ~(i <= p /\ p < i + 4))
      => output[p] = Plain

Complete == asmAt = "written" => \A l \in Labels : pending[l] = {}

(* The equation, point by point.                                           *)
LEMMA StartsPoints ==
  ASSUME source \in Seq(Statements), NEW f, IsStarts(f)
  PROVE  /\ f[1] = 0
         /\ \A n \in DOMAIN source : f[n + 1] = f[n] + SizeAt(source[n], f[n])
<1>1. Len(source) \in Nat /\ DOMAIN source = 1 .. Len(source)
  OBVIOUS
<1>2. \A n \in 1 .. Len(source) + 1 :
        f[n] = IF n = 1 THEN 0 ELSE f[n - 1] + SizeAt(source[n - 1], f[n - 1])
  BY DEF IsStarts
<1>3. f[1] = 0
  BY <1>1, <1>2
<1>4. ASSUME NEW n \in DOMAIN source
      PROVE  f[n + 1] = f[n] + SizeAt(source[n], f[n])
  <2>1. n + 1 \in 1 .. Len(source) + 1 /\ n + 1 # 1 /\ (n + 1) - 1 = n
    BY <1>1
  <2>. QED
    BY <1>2, <2>1
<1>. QED
  BY <1>3, <1>4

(* One more statement.                                                     *)
LEMMA AppendFacts ==
  ASSUME source \in Seq(Statements), NEW s \in Statements,
         source' = Append(source, s)
  PROVE  /\ source' \in Seq(Statements) /\ Len(source) \in Nat
         /\ Len(source') = Len(source) + 1
         /\ DOMAIN source = 1 .. Len(source)
         /\ DOMAIN source' = 1 .. Len(source) + 1
         /\ \A n \in DOMAIN source : source'[n] = source[n]
         /\ source'[Len(source) + 1] = s
OBVIOUS

(* A function for the longer source has one for the shorter one in it ...  *)
LEMMA StartsBefore ==
  ASSUME source \in Seq(Statements), NEW s \in Statements,
         source' = Append(source, s), NEW f, IsStarts(f)'
  PROVE  \E g : /\ IsStarts(g)
               /\ \A n \in 1 .. Len(source) + 1 : g[n] = f[n]
               /\ f[Len(source) + 2] =
                    f[Len(source) + 1] + SizeAt(s, f[Len(source) + 1])
<1>. DEFINE L == Len(source)
            g == [n \in 1 .. L + 1 |-> f[n]]
<1>1. /\ L \in Nat /\ Len(source') = L + 1
      /\ \A n \in 1 .. L : source'[n] = source[n]
      /\ source'[L + 1] = s
  BY AppendFacts
<1>2. \A n \in 1 .. L + 2 :
        f[n] = IF n = 1 THEN 0 ELSE f[n - 1] + SizeAt(source'[n - 1], f[n - 1])
  <2>1. Len(source') + 1 = L + 2
    BY <1>1
  <2>. QED
    BY <2>1 DEF IsStarts, SizeAt
<1>3. f[L + 2] = f[L + 1] + SizeAt(s, f[L + 1])
  <2>1. L + 2 \in 1 .. L + 2 /\ L + 2 # 1 /\ (L + 2) - 1 = L + 1
    BY <1>1
  <2>. QED
    BY <1>1, <1>2, <2>1
<1>4. \A n \in 1 .. L + 1 :
        g[n] = IF n = 1 THEN 0 ELSE g[n - 1] + SizeAt(source[n - 1], g[n - 1])
  <2>. SUFFICES ASSUME NEW n \in 1 .. L + 1, n # 1
                PROVE  f[n] = g[n - 1] + SizeAt(source[n - 1], g[n - 1])
    BY <1>1, <1>2
  <2>1. n - 1 \in 1 .. L /\ n \in 1 .. L + 2 /\ n - 1 \in 1 .. L + 1
    BY <1>1
  <2>. QED
    BY <1>1, <1>2, <2>1
<1>5. IsStarts(g)
  BY <1>4 DEF IsStarts
<1>. QED
  BY <1>3, <1>5

(* ... and is one with one more point.                                     *)
LEMMA StartsAfter ==
  ASSUME source \in Seq(Statements), NEW s \in Statements,
         source' = Append(source, s), NEW g, IsStarts(g)
  PROVE  \E f : IsStarts(f)'
<1>. DEFINE L == Len(source)
            f == [n \in 1 .. L + 2 |->
                    IF n = L + 2 THEN g[L + 1] + SizeAt(s, g[L + 1])
                    ELSE g[n]]
<1>1. /\ L \in Nat /\ Len(source') = L + 1
      /\ \A n \in 1 .. L : source'[n] = source[n]
      /\ source'[L + 1] = s
  BY AppendFacts
<1>2. \A n \in 1 .. L + 1 :
        g[n] = IF n = 1 THEN 0 ELSE g[n - 1] + SizeAt(source[n - 1], g[n - 1])
  BY DEF IsStarts
<1>3. ASSUME NEW n \in 1 .. L + 2
      PROVE  f[n] = IF n = 1 THEN 0
                    ELSE f[n - 1] + SizeAt(source'[n - 1], f[n - 1])
  <2>1. CASE n = 1
    BY <1>1, <1>2, <2>1
  <2>2. CASE n = L + 2
    BY <1>1, <2>2
  <2>3. CASE n # 1 /\ n # L + 2
    <3>1. n - 1 \in 1 .. L /\ n - 1 # L + 2 /\ n \in 1 .. L + 1
      BY <1>1, <2>3
    <3>. QED
      BY <1>1, <1>2, <2>3, <3>1
  <2>. QED
    BY <2>1, <2>2, <2>3
<1>4. Len(source') + 1 = L + 2
  BY <1>1
<1>. HIDE DEF L
<1>5. f = [n \in 1 .. Len(source') + 1 |->
             IF n = 1 THEN 0 ELSE f[n - 1] + SizeAt(source'[n - 1], f[n - 1])]
  BY <1>3, <1>4
<1>. QED
  BY <1>5 DEF IsStarts, SizeAt

(* What a statement takes is what both passes think it takes, if it is not *)
(* an instruction with a float.                                            *)
LEMMA SizeFacts ==
  ASSUME NEW s \in Statements, NEW h \in Nat
  PROVE  /\ SizeAt(s, h) \in Nat
         /\ s.op = "label" => SizeAt(s, h) = 0
         /\ s.op = "inst" => SizeAt(s, h) = 16
         /\ s.op = "inst" /\ s.floats = 0 => InstSize(s) = 16
         /\ s.op = "fill" => SizeAt(s, h) = s.size
         /\ s.op = "align" => SizeAt(s, h) = s.to - (h % s.to)
<1>1. s \in Statement
  BY StatementsAssumption
<1>2. s.op \in {"label", "inst", "fill", "align"}
  BY <1>1 DEF Statement
<1>3. s.op = "align" =>
        /\ s.to - (h % s.to) \in Nat
        /\ s.to * (h \div s.to + 1) - h = s.to - (h % s.to)
  <2>. SUFFICES ASSUME NEW t \in Nat \ {0}
                PROVE  /\ t - (h % t) \in Nat
                       /\ t * (h \div t + 1) - h = t - (h % t)
    BY StatementFacts
  <2>1. /\ h = t * (h \div t) + (h % t)
        /\ (h % t) \in 0 .. t - 1 /\ h \div t \in Nat
    OBVIOUS
  <2>2. t * (h \div t + 1) = t * (h \div t) + t
    BY <2>1
  <2>. QED
    BY <2>1, <2>2
<1>4. s.op = "inst" /\ s.floats = 0 => InstSize(s) = 16
  <2>. SUFFICES ASSUME s.op = "inst", s.floats = 0 PROVE InstSize(s) = 16
    OBVIOUS
  <2>1. PICK n \in 0 .. 3 : s.words \in [1 .. n -> Labels \cup {NoLabel}]
    BY <1>1 DEF Statement
  <2>2. Len(s.words) = n
    BY <2>1
  <2>. QED
    BY <2>1, <2>2 DEF InstSize
<1>. QED
  BY <1>2, <1>3, <1>4, StatementFacts DEF SizeAt

(* One statement more, of the size that both passes think it has.          *)
LEMMA PlacedStep ==
  ASSUME AsmInv, Placement, asmAt # "failed", Exact,
         NEW s \in Statements, source' = Append(source, s),
         here' = here + SizeAt(s, here),
         s.op = "label" => symtable[s.name] = Undefined,
         symtable' = IF s.op = "label"
                     THEN [symtable EXCEPT ![s.name] = here] ELSE symtable,
         \A p \in Nat, l \in Labels :
           <<p, l>> \in refs' <=>
             <<p, l>> \in refs \/ (s.op = "inst" /\ p \in UsesAt(s, l)),
         NEW f, IsStarts(f)'
  PROVE  Placed(f)'
<1>1. source \in Seq(Statements) /\ here \in Nat /\ AsmTypeOK
  BY DEF Placement, AsmInv, AsmTypeOK
<1>0. PICK L \in Nat : L = Len(source)
  BY <1>1, AppendFacts
<1>2. PICK g : /\ IsStarts(g)
               /\ \A n \in 1 .. L + 1 : g[n] = f[n]
               /\ f[L + 2] = f[L + 1] + SizeAt(s, f[L + 1])
  BY <1>0, <1>1, StartsBefore
<1>3. Placed(g)
  BY <1>2 DEF Placement
<1>4. /\ L \in Nat /\ Len(source') = L + 1
      /\ DOMAIN source = 1 .. L /\ DOMAIN source' = 1 .. L + 1
      /\ \A n \in 1 .. L : source'[n] = source[n]
      /\ source'[L + 1] = s
  BY <1>0, <1>1, AppendFacts
<1>5. /\ \A n \in 1 .. L + 1 : f[n] \in Nat
      /\ f[L + 1] = here
      /\ \A m, n \in 1 .. L + 1 : m <= n => f[m] <= f[n]
  <2>1. /\ \A n \in 1 .. L + 1 : g[n] \in Nat
        /\ g[L + 1] = here
        /\ \A m, n \in 1 .. L + 1 : m <= n => g[m] <= g[n]
    BY <1>0, <1>3 DEF Placed
  <2>. QED
    BY <1>2, <1>4, <2>1
<1>6. f[L + 2] = here' /\ here' \in Nat /\ here <= here'
  <2>1. SizeAt(s, here) \in Nat
    BY <1>1, SizeFacts
  <2>. QED
    BY <1>1, <1>2, <1>5, <2>1
<1>7. \A n \in 1 .. L + 2 : f[n] \in Nat
  BY <1>4, <1>5, <1>6
<1>8. \A m, n \in 1 .. L + 2 : m <= n => f[m] <= f[n]
  <2>. SUFFICES ASSUME NEW m \in 1 .. L + 2, NEW n \in 1 .. L + 2, m <= n
                PROVE  f[m] <= f[n]
    OBVIOUS
  <2>1. CASE n \in 1 .. L + 1
    BY <1>4, <1>5, <2>1
  <2>2. CASE n = L + 2 /\ m \in 1 .. L + 1
    <3>1. f[m] <= f[L + 1]
      BY <1>4, <1>5, <2>2
    <3>. QED
      BY <1>1, <1>5, <1>6, <2>2, <3>1
  <2>3. CASE n = L + 2 /\ m = L + 2
    BY <1>7, <2>3
  <2>. QED
    BY <1>4, <2>1, <2>2, <2>3
<1>9. \A p \in 0 .. here' - 1 :
        \E n \in 1 .. L + 1 : f[n] <= p /\ p < f[n + 1]
  <2>. SUFFICES ASSUME NEW p \in 0 .. here' - 1
                PROVE  \E n \in 1 .. L + 1 : f[n] <= p /\ p < f[n + 1]
    OBVIOUS
  <2>1. CASE p < here
    <3>0. \A q \in 0 .. here - 1 :
            \E n \in 1 .. L : g[n] <= q /\ q < g[n + 1]
      BY <1>3, <1>4 DEF Placed
    <3>1. PICK n \in 1 .. L : g[n] <= p /\ p < g[n + 1]
      BY <1>1, <1>6, <2>1, <3>0
    <3>2. n \in 1 .. L + 1 /\ n + 1 \in 1 .. L + 1
      BY <1>4, <3>1
    <3>. QED
      BY <1>2, <3>1, <3>2
  <2>2. CASE ~(p < here)
    <3>1. L + 1 \in 1 .. L + 1 /\ (L + 1) + 1 = L + 2
      BY <1>4
    <3>. QED
      BY <1>1, <1>5, <1>6, <2>2, <3>1
  <2>. QED
    BY <2>1, <2>2
<1>10. \A n \in 1 .. L + 1 :
         source'[n].op = "label" => symtable'[source'[n].name] = f[n]
  <2>. SUFFICES ASSUME NEW n \in 1 .. L + 1, source'[n].op = "label"
                PROVE  symtable'[source'[n].name] = f[n]
    OBVIOUS
  <2>1. CASE n = L + 1
    <3>1. s.name \in Labels /\ s.op = "label"
      BY <1>4, <2>1, StatementFacts
    <3>. QED
      BY <1>1, <1>4, <1>5, <2>1, <3>1 DEF AsmTypeOK
  <2>2. CASE n # L + 1
    <3>1. n \in 1 .. L /\ source'[n] = source[n] /\ source[n] \in Statements
      BY <1>1, <1>4, <2>2
    <3>2. symtable[source[n].name] = g[n] /\ g[n] = f[n] /\ f[n] \in Nat
      BY <1>2, <1>3, <1>4, <1>5, <3>1 DEF Placed
    <3>3. source[n].name \in Labels /\ symtable[source[n].name] # Undefined
      BY <3>1, <3>2, StatementFacts DEF Undefined
    <3>. QED
      BY <1>1, <3>1, <3>2, <3>3 DEF AsmTypeOK
  <2>. QED
    BY <2>1, <2>2
<1>11. ASSUME NEW p \in Nat, NEW l \in Labels
       PROVE  <<p, l>> \in refs' <=>
                \E n \in 1 .. L + 1 : Uses(f, n, p, l)'
  <2>1. <<p, l>> \in refs <=> \E n \in 1 .. L : Uses(g, n, p, l)
    BY <1>3, <1>4 DEF Placed
  <2>2. \A n \in 1 .. L : Uses(g, n, p, l) <=> Uses(f, n, p, l)'
    <3>1. \A n \in 1 .. L : n \in 1 .. L + 1
      BY <1>4
    <3>. QED
      BY <1>2, <1>4, <3>1 DEF Uses
  <2>3. Uses(f, L + 1, p, l)' <=> s.op = "inst" /\ p \in UsesAt(s, l)
    BY <1>4, <1>5 DEF Uses, UsesAt, WordAt
  <2>4. \A n : n \in 1 .. L + 1 <=> n \in 1 .. L \/ n = L + 1
    BY <1>4
  <2>. QED
    BY <2>1, <2>2, <2>3, <2>4
<1>12. Len(source') + 1 = L + 2
  BY <1>4
<1>. QED
  BY <1>4, <1>6, <1>7, <1>8, <1>9, <1>10, <1>11, <1>12 DEF Placed

LEMMA PlacementStep ==
  ASSUME AsmInv, Placement, asmAt # "failed",
         NEW s \in Statements, source' = Append(source, s),
         s.op = "inst" => here' = here + InstSize(s),
         s.op # "inst" => here' = here + SizeAt(s, here),
         s.op = "label" => symtable[s.name] = Undefined,
         symtable' = IF s.op = "label"
                     THEN [symtable EXCEPT ![s.name] = here] ELSE symtable,
         \A p \in Nat, l \in Labels :
           <<p, l>> \in refs' <=>
             <<p, l>> \in refs \/ (s.op = "inst" /\ p \in UsesAt(s, l))
  PROVE  Placement'
<1>1. source \in Seq(Statements) /\ here \in Nat /\ AsmTypeOK
  BY DEF Placement, AsmInv, AsmTypeOK
<1>2. /\ source' \in Seq(Statements) /\ Len(source) \in Nat
      /\ DOMAIN source = 1 .. Len(source)
      /\ DOMAIN source' = 1 .. Len(source) + 1
      /\ \A n \in DOMAIN source : source'[n] = source[n]
      /\ source'[Len(source) + 1] = s
  BY <1>1, AppendFacts
<1>3. \E f : IsStarts(f)'
  BY <1>1, StartsAfter DEF Placement
<1>4. Exact' => Exact /\ (s.op = "inst" => s.floats = 0)
  BY <1>2 DEF Exact
<1>5. ASSUME Exact' PROVE here' = here + SizeAt(s, here)
  BY <1>1, <1>4, <1>5, SizeFacts
<1>6. ASSUME Exact', NEW f, IsStarts(f)' PROVE Placed(f)'
  BY <1>4, <1>5, <1>6, PlacedStep
<1>7. LabelsFrom'
  <2>. SUFFICES ASSUME NEW l \in Labels, symtable'[l] # Undefined
                PROVE  \E n \in DOMAIN source' :
                         source'[n] = [op |-> "label", name |-> l]
    BY DEF LabelsFrom, Undefined
  <2>1. CASE symtable[l] # Undefined
    <3>1. PICK n \in DOMAIN source : source[n] = [op |-> "label", name |-> l]
      BY <2>1 DEF Placement, LabelsFrom
    <3>. QED
      BY <1>2, <3>1
  <2>2. CASE symtable[l] = Undefined
    <3>1. s.op = "label" /\ s.name = l
      BY <1>1, <2>2, StatementFacts DEF AsmTypeOK
    <3>2. s = [op |-> "label", name |-> l]
      BY <3>1, StatementsAssumption DEF Statement
    <3>. QED
      BY <1>2, <3>2
  <2>. QED
    BY <2>1, <2>2
<1>8. \A f : IsStarts(f)' => (Exact' => Placed(f)')
  BY <1>6
<1>. QED
  BY <1>2, <1>3, <1>7, <1>8 DEF Placement

OneInv == AsmInv /\ Placement /\ Bare /\ Complete

LEMMA OneInvInit == AsmInit => OneInv
<1>. SUFFICES ASSUME AsmInit PROVE OneInv
  OBVIOUS
<1>1. /\ source = <<>> /\ source \in Seq(Statements) /\ Len(source) = 0
      /\ DOMAIN source = {} /\ here = 0 /\ refs = {} /\ asmAt = "parse"
  BY DEF AsmInit
<1>2. ASSUME NEW f, IsStarts(f) PROVE Placed(f)
  <2>1. f[1] = 0
    BY <1>1, <1>2, StartsPoints
  <2>. QED
    BY <1>1, <2>1 DEF Placed
<1>3. \E f : IsStarts(f)
  <2>. DEFINE f == [n \in 1 .. 1 |-> 0]
  <2>1. f = [n \in 1 .. Len(source) + 1 |->
               IF n = 1 THEN 0
               ELSE f[n - 1] + SizeAt(source[n - 1], f[n - 1])]
    BY <1>1
  <2>. QED
    BY <2>1 DEF IsStarts
<1>4. LabelsFrom
  BY DEF AsmInit, LabelsFrom
<1>5. Bare /\ Complete
  BY <1>1 DEF Bare, Complete
<1>. QED
  BY <1>1, <1>2, <1>3, <1>4, <1>5, AsmInvInit DEF OneInv, Placement

(* Bytes put out are plain where they stand for no label.                  *)
LEMMA BareExtend ==
  ASSUME AsmInv, Bare, NEW n \in Nat, NEW c \in [0 .. n - 1 -> Cell],
         Extend(n, c), refs \subseteq refs',
         \A q \in 0 .. n - 1 :
           c[q] # Plain => \E i \in Nat, l \in Labels :
                            /\ <<i, l>> \in refs'
                            /\ i <= here + q /\ here + q < i + 4
  PROVE  Bare'
<1>1. here \in Nat /\ here' = here + n
  BY DEF AsmInv, AsmTypeOK, Extend
<1>2. /\ \A p \in 0 .. here - 1 : output'[p] = output[p]
      /\ \A q \in 0 .. n - 1 : output'[here + q] = c[q]
  BY ExtendKeeps DEF AsmInv
<1>. SUFFICES ASSUME NEW p \in 0 .. here' - 1,
                     \A i \in Nat, l \in Labels :
                       <<i, l>> \in refs' => ~(i <= p /\ p < i + 4)
              PROVE  output'[p] = Plain
  BY DEF Bare, Plain
<1>3. CASE p < here
  BY <1>1, <1>2, <1>3 DEF Bare
<1>4. CASE ~(p < here)
  <2>1. p - here \in 0 .. n - 1 /\ here + (p - here) = p
    BY <1>1, <1>4
  <2>2. c[p - here] = Plain
    BY <2>1
  <2>. QED
    BY <1>2, <2>1, <2>2
<1>. QED
  BY <1>3, <1>4

LEMMA OneFill ==
  ASSUME OneInv, NEW s \in Statements, Fill(s) \/ Align(s)
  PROVE  OneInv'
<1>. DEFINE n == IF s.op = "fill" THEN s.size ELSE s.to - (here % s.to)
<1>1. /\ AsmInv /\ Placement /\ Bare /\ here \in Nat
      /\ asmAt = "parse" /\ asmAt' = "parse" /\ source' = Append(source, s)
      /\ s.op \in {"fill", "align"}
      /\ Extend(n, Padding(n))
      /\ UNCHANGED <<symtable, pending, refs>>
  BY DEF OneInv, AsmInv, AsmTypeOK, Fill, Align, Parsed
<1>2. n \in Nat /\ n = SizeAt(s, here)
  BY <1>1, SizeFacts
<1>3. here' = here + SizeAt(s, here)
  BY <1>1, <1>2 DEF Extend
<1>4. Placement'
  BY <1>1, <1>3, PlacementStep
<1>5. Bare'
  <2>. HIDE DEF n
  <2>1. Padding(n) \in [0 .. n - 1 -> Cell]
    BY CellFacts DEF Padding
  <2>2. \A q \in 0 .. n - 1 : Padding(n)[q] = Plain
    BY DEF Padding
  <2>. QED
    BY <1>1, <1>2, <2>1, <2>2, BareExtend
<1>. QED
  BY <1>1, <1>4, <1>5, FillStep DEF OneInv, Complete

LEMMA OneInst ==
  ASSUME OneInv, NEW s \in Statements, Inst(s)
  PROVE  OneInv'
<1>1. /\ AsmInv /\ Placement /\ Bare /\ here \in Nat /\ AsmTypeOK
      /\ asmAt = "parse" /\ asmAt' = "parse" /\ source' = Append(source, s)
      /\ s.op = "inst"
      /\ Extend(InstSize(s), InstBytes(s))
      /\ UNCHANGED symtable
  BY DEF OneInv, AsmInv, AsmTypeOK, Inst, Parsed
<1>2. \A p \in Nat, l \in Labels :
        <<p, l>> \in refs' <=> <<p, l>> \in refs \/ p \in UsesAt(s, l)
  BY DEF Inst
<1>3. here' = here + InstSize(s)
  BY <1>1 DEF Extend
<1>4. Placement'
  BY <1>1, <1>2, <1>3, PlacementStep
<1>5. Bare'
  <2>. DEFINE n == InstSize(s)
              c == InstBytes(s)
  <2>1. n \in Nat
    BY <1>1, InstFacts
  <2>2. c \in [0 .. n - 1 -> Cell] /\ \A q \in 0 .. n - 1 : c[q] = InstCell(s, q)
    BY <1>1, <2>1, InstCellFacts DEF InstBytes
  <2>3. ASSUME NEW q \in 0 .. n - 1, InstCell(s, q) # Plain
        PROVE  \E i \in Nat, l \in Labels :
                 <<i, l>> \in refs' /\ i <= here + q /\ here + q < i + 4
    <3>1. PICK j \in DOMAIN s.words : j = q \div 4 /\ s.words[j] \in Labels
      BY <2>3 DEF InstCell
    <3>2. j \in Nat
      BY <1>1, <3>1, InstFacts
    <3>3. q \in Nat
      BY <2>1
    <3>4. 4 * j <= q /\ q < 4 * j + 4
      BY <3>1, <3>3
    <3>5. here + 4 * j \in UsesAt(s, s.words[j]) /\ here + 4 * j \in Nat
      BY <1>1, <3>1, <3>2 DEF UsesAt, WordAt
    <3>6. /\ <<here + 4 * j, s.words[j]>> \in refs'
          /\ here + 4 * j <= here + q /\ here + q < (here + 4 * j) + 4
      BY <1>1, <1>2, <3>1, <3>2, <3>3, <3>4, <3>5
    <3>. QED
      BY <3>1, <3>5, <3>6
  <2>4. refs \subseteq refs'
    BY DEF Inst
  <2>. HIDE DEF n, c
  <2>5. Extend(n, c)
    BY <1>1 DEF n, c
  <2>. QED
    BY <1>1, <2>1, <2>2, <2>3, <2>4, <2>5, BareExtend
<1>. QED
  BY <1>1, <1>4, <1>5, InstStep DEF OneInv, Complete

LEMMA OneLabel ==
  ASSUME OneInv, NEW s \in Statements, Label(s)
  PROVE  OneInv'
<1>1. /\ AsmInv /\ Placement /\ Bare /\ here \in Nat /\ AsmTypeOK
      /\ asmAt = "parse" /\ asmAt' = "parse" /\ source' = Append(source, s)
      /\ s.op = "label" /\ symtable[s.name] = Undefined
      /\ symtable' = [symtable EXCEPT ![s.name] = here]
      /\ here' = here /\ refs' = refs
  BY DEF OneInv, AsmInv, AsmTypeOK, Label, Parsed
<1>2. here' = here + SizeAt(s, here)
  BY <1>1, SizeFacts
<1>3. Placement'
  BY <1>1, <1>2, PlacementStep
<1>4. Bare'
  <2>. SUFFICES ASSUME NEW p \in 0 .. here - 1,
                       \A i \in Nat, l \in Labels :
                         <<i, l>> \in refs => ~(i <= p /\ p < i + 4)
                PROVE  output'[p] = Plain
    BY <1>1 DEF Bare, Plain
  <2>1. s.name \in Labels
    BY <1>1, StatementFacts
  <2>2. \A i \in pending[s.name] : i \in Nat /\ <<i, s.name>> \in refs
    BY <1>1, <2>1 DEF AsmTypeOK, AsmInv, Waiting
  <2>3. \A i \in pending[s.name] : ~(i <= p /\ p < i + 4)
    BY <2>1, <2>2
  <2>4. \A i \in Nat : p \in i .. i + 3 => i <= p /\ p < i + 4
    BY <1>1
  <2>5. Covering(s.name, p) = {}
    BY <2>2, <2>3, <2>4 DEF Covering
  <2>6. output'[p] = output[p]
    BY <2>5 DEF Label
  <2>. QED
    BY <1>1, <2>6 DEF Bare
<1>. QED
  BY <1>1, <1>3, <1>4, LabelStep DEF OneInv, Complete

LEMMA SamePlacement ==
  ASSUME Placement, asmAt # "failed" \/ asmAt' = asmAt,
         UNCHANGED <<here, symtable, refs, source>>
  PROVE  Placement'
<1>1. CASE asmAt # "failed"
  <2>1. Exact' <=> Exact
    BY DEF Exact
  <2>2. \A f : IsStarts(f)' <=> IsStarts(f)
    BY DEF IsStarts, SizeAt
  <2>3. \A f : Placed(f)' <=> Placed(f)
    BY DEF Placed, Uses
  <2>4. LabelsFrom' <=> LabelsFrom
    BY DEF LabelsFrom, Undefined
  <2>. QED
    BY <1>1, <2>1, <2>2, <2>3, <2>4 DEF Placement
<1>2. CASE asmAt = "failed" /\ asmAt' = asmAt
  BY <1>2 DEF Placement
<1>. QED
  BY <1>1, <1>2

LEMMA OneInvStep == OneInv /\ [AsmNext]_asmVars => OneInv'
<1>. SUFFICES ASSUME OneInv, [AsmNext]_asmVars PROVE OneInv'
  OBVIOUS
<1>1. AsmInv'
  BY AsmInvStep DEF OneInv
<1>2. CASE UNCHANGED asmVars
  <2>1. Bare' /\ Complete'
    BY <1>2 DEF OneInv, asmVars, Bare, Complete, Plain
  <2>2. Placement'
    BY <1>2, SamePlacement DEF OneInv, asmVars
  <2>. QED
    BY <1>1, <2>1, <2>2 DEF OneInv
<1>3. ASSUME NEW s \in Statements, DuplicateLabel(s) PROVE OneInv'
  <2>1. Placement' /\ Complete'
    BY <1>3 DEF DuplicateLabel, Placement, Complete
  <2>2. Bare'
    BY <1>3 DEF DuplicateLabel, OneInv, Bare, Plain
  <2>. QED
    BY <1>1, <2>1, <2>2 DEF OneInv
<1>4. CASE EndSource
  <2>1. UNCHANGED <<here, output, symtable, pending, refs, source>>
    BY <1>4 DEF EndSource
  <2>2. asmAt = "parse"
    BY <1>4 DEF EndSource
  <2>3. Placement' /\ Bare'
    BY <2>1, <2>2, SamePlacement DEF OneInv, Bare, Plain
  <2>4. Complete'
    BY <1>4, <2>1 DEF EndSource, Complete
  <2>. QED
    BY <1>1, <2>3, <2>4 DEF OneInv
<1>. QED
  BY <1>2, <1>3, <1>4, OneFill, OneInst, OneLabel DEF AsmNext, AsmEnded

(* Where a byte is in the words of an instruction that starts at a.        *)
LEMMA QuarterFacts ==
  ASSUME NEW a \in Nat, NEW p \in Nat, a <= p
  PROVE  /\ (p - a) \div 4 \in Nat /\ (p - a) % 4 \in 0 .. 3
         /\ p = a + 4 * ((p - a) \div 4) + ((p - a) % 4)
<1>1. PICK q \in Nat : q = p - a
  OBVIOUS
<1>2. /\ q \div 4 \in Nat /\ q % 4 \in 0 .. 3
      /\ q = 4 * (q \div 4) + (q % 4)
  OBVIOUS
<1>3. p = a + q
  BY <1>1
<1>4. PICK j \in Nat, k \in 0 .. 3 :
        j = q \div 4 /\ k = q % 4 /\ q = 4 * j + k
  BY <1>2
<1>5. p = a + 4 * j + k
  BY <1>3, <1>4
<1>. QED
  BY <1>1, <1>4, <1>5

(* Two statements that hold the same byte are the same one.                *)
LEMMA SameStatement ==
  ASSUME source \in Seq(Statements), NEW f, Placed(f),
         NEW m \in DOMAIN source, NEW n \in DOMAIN source, NEW p \in Nat,
         f[m] <= p, p < f[m + 1], f[n] <= p, p < f[n + 1]
  PROVE  m = n
<1>1. Len(source) \in Nat /\ DOMAIN source = 1 .. Len(source)
  OBVIOUS
<1>2. /\ m \in Nat /\ n \in Nat
      /\ m \in 1 .. Len(source) + 1 /\ n \in 1 .. Len(source) + 1
      /\ m + 1 \in 1 .. Len(source) + 1 /\ n + 1 \in 1 .. Len(source) + 1
  BY <1>1
<1>3. \A i, j \in 1 .. Len(source) + 1 :
        i <= j => f[i] \in Nat /\ f[j] \in Nat /\ f[i] <= f[j]
  BY DEF Placed
<1>4. CASE m + 1 <= n
  BY <1>2, <1>3, <1>4
<1>5. CASE n + 1 <= m
  BY <1>2, <1>3, <1>5
<1>. QED
  BY <1>2, <1>4, <1>5

(* The start of every statement, as the two passes have it.                *)
LEMMA StartsFacts ==
  ASSUME Placement, asmAt # "failed", Exact
  PROVE  IsStarts(Starts) /\ Placed(Starts)
<1>1. PICK f : IsStarts(f)
  BY DEF Placement
<1>2. IsStarts(Starts)
  BY <1>1 DEF IsStarts, Starts
<1>. QED
  BY <1>2 DEF Placement

(* A byte of an instruction that stands for a label, and the address that  *)
(* the second pass puts out for it.                                        *)
LEMMA LabelByte ==
  ASSUME OneInv, asmAt = "written", Exact,
         NEW n \in DOMAIN source, source[n].op = "inst",
         NEW j \in DOMAIN source[n].words, j \in Nat,
         NEW l \in Labels, source[n].words[j] = l,
         NEW k \in 0 .. 3
  PROVE  \E m \in DOMAIN source :
           /\ m = CHOOSE i \in DOMAIN source :
                    source[i] = [op |-> "label", name |-> l]
           /\ output[Starts[n] + 4 * j + k] = Part(Starts[m], k)
<1>. DEFINE i == Starts[n] + 4 * j
            Labelled(m) == source[m] = [op |-> "label", name |-> l]
<1>1. /\ AsmInv /\ AsmTypeOK /\ source \in Seq(Statements) /\ LabelsFrom
      /\ Placed(Starts)
  BY StartsFacts DEF OneInv, Placement, AsmInv
<1>2. i \in Nat
  BY <1>1 DEF Placed
<1>3. <<i, l>> \in refs
  <2>1. Uses(Starts, n, i, l)
    BY DEF Uses
  <2>. QED
    BY <1>1, <1>2, <2>1 DEF Placed
<1>. HIDE DEF i
<1>4. output[i + k] = Part(Address(l), k)
  BY <1>1, <1>2, <1>3 DEF AsmInv, Filled
<1>5. symtable[l] # Undefined
  BY <1>1, <1>2, <1>3 DEF OneInv, Complete, AsmInv, Waiting
<1>6. PICK m : m = CHOOSE h \in DOMAIN source : Labelled(h)
  OBVIOUS
<1>7. m \in DOMAIN source /\ Labelled(m)
  BY <1>1, <1>5, <1>6 DEF LabelsFrom
<1>8. symtable[l] = Starts[m]
  <2>1. source[m].op = "label" /\ source[m].name = l
    BY <1>7
  <2>. QED
    BY <1>1, <1>7, <2>1 DEF Placed
<1>. QED
  BY <1>4, <1>5, <1>6, <1>7, <1>8 DEF Address, i

(* A byte that stands for no label.                                        *)
LEMMA PlainByte ==
  ASSUME OneInv, asmAt = "written", Exact,
         NEW n \in DOMAIN source, NEW p \in 0 .. here - 1,
         Starts[n] <= p, p < Starts[n + 1],
         ~(/\ source[n].op = "inst"
           /\ (p - Starts[n]) \div 4 \in DOMAIN source[n].words
           /\ source[n].words[(p - Starts[n]) \div 4] \in Labels)
  PROVE  output[p] = Plain
<1>1. /\ AsmInv /\ source \in Seq(Statements) /\ Bare
      /\ IsStarts(Starts) /\ Placed(Starts) /\ here \in Nat
  BY StartsFacts DEF OneInv, Placement, AsmInv, AsmTypeOK
<1>2. \A m \in DOMAIN source : Starts[m] \in Nat
  BY <1>1 DEF Placed
<1>. SUFFICES ASSUME NEW i \in Nat, NEW l \in Labels, <<i, l>> \in refs,
                     i <= p, p < i + 4
              PROVE  FALSE
  BY <1>1 DEF Bare
<1>3. PICK m \in DOMAIN source : Uses(Starts, m, i, l)
  BY <1>1 DEF Placed
<1>4. /\ source[m].op = "inst" /\ source[m].floats = 0
      /\ source[m] \in Statements
  BY <1>1, <1>3 DEF Uses, Exact
<1>5. PICK j \in DOMAIN source[m].words :
        source[m].words[j] = l /\ i = Starts[m] + 4 * j
  BY <1>3 DEF Uses
<1>6. j \in Nat /\ 4 * j + 4 <= 16
  BY <1>1, <1>4, <1>5, InstFacts, SizeFacts
<1>7. Starts[m + 1] = Starts[m] + 16
  <2>1. Starts[m + 1] = Starts[m] + SizeAt(source[m], Starts[m])
    BY <1>1, StartsPoints
  <2>2. SizeAt(source[m], Starts[m]) = 16
    BY <1>2, <1>4, SizeFacts
  <2>. QED
    BY <2>1, <2>2
<1>8. p \in Nat /\ Starts[m] <= p /\ p < Starts[m + 1]
  <2>1. p \in Nat /\ Starts[m] \in Nat
    BY <1>1, <1>2
  <2>. QED
    BY <1>5, <1>6, <1>7, <2>1
<1>9. m = n
  BY <1>1, <1>8, SameStatement
<1>10. (p - Starts[n]) \div 4 = j
  <2>1. p - Starts[n] \in Nat
    BY <1>2, <1>8
  <2>. QED
    BY <1>2, <1>5, <1>6, <1>8, <1>9, <2>1
<1>. QED
  BY <1>4, <1>5, <1>9, <1>10

(* assemble.py:13.  The image written is the one that two passes make of   *)
(* the source, for every source whose instructions have no float: labels   *)
(* may be used before or after they are defined.                           *)
THEOREM OnePassHolds == AsmSpec => []OnePass
<1>1. ASSUME OneInv, asmAt = "written", Exact PROVE output = TwoPasses
  <2>. DEFINE Labelled(l, n) == source[n] = [op |-> "label", name |-> l]
              AddressOf(l) ==
                Starts[CHOOSE n \in DOMAIN source : Labelled(l, n)]
              ByteOf(n, q) ==
                LET s == source[n] IN
                IF /\ s.op = "inst" /\ q \div 4 \in DOMAIN s.words
                   /\ s.words[q \div 4] \in Labels
                THEN Part(AddressOf(s.words[q \div 4]), q % 4) ELSE Plain
              At(p) == CHOOSE n \in DOMAIN source :
                         Starts[n] <= p /\ p < Starts[n + 1]
  <2>1. /\ source \in Seq(Statements) /\ Placed(Starts) /\ here \in Nat
        /\ output \in [0 .. here - 1 -> Cell]
    BY <1>1, StartsFacts DEF OneInv, Placement, AsmInv, AsmTypeOK, Cell
  <2>2. Starts[Len(source) + 1] = here
    BY <2>1 DEF Placed
  <2>3. ASSUME NEW p \in 0 .. here - 1
        PROVE  output[p] = ByteOf(At(p), p - Starts[At(p)])
    <3>1. \E n \in DOMAIN source : Starts[n] <= p /\ p < Starts[n + 1]
      BY <2>1 DEF Placed
    <3>2. PICK n : n = At(p)
      OBVIOUS
    <3>3. n \in DOMAIN source /\ Starts[n] <= p /\ p < Starts[n + 1]
      BY <3>1, <3>2
    <3>. DEFINE j == (p - Starts[n]) \div 4
    <3>4. CASE /\ source[n].op = "inst" /\ j \in DOMAIN source[n].words
               /\ source[n].words[j] \in Labels
      <4>1. output[p] =
              Part(AddressOf(source[n].words[j]), (p - Starts[n]) % 4)
        <5>1. PICK i \in DOMAIN source[n].words :
                i = j /\ source[n].words[i] \in Labels
          BY <3>4
        <5>2. PICK m \in DOMAIN source :
                /\ m = CHOOSE k \in DOMAIN source :
                         Labelled(source[n].words[i], k)
                /\ output[p] = Part(Starts[m], (p - Starts[n]) % 4)
          <6>. DEFINE k == (p - Starts[n]) % 4
          <6>1. Starts[n] \in Nat /\ p \in Nat
            BY <2>1, <3>3 DEF Placed
          <6>2. j \in Nat /\ k \in 0 .. 3 /\ p = Starts[n] + 4 * j + k
            BY <3>3, <6>1, QuarterFacts
          <6>. HIDE DEF j, k
          <6>3. \E m \in DOMAIN source :
                  /\ m = CHOOSE h \in DOMAIN source :
                           Labelled(source[n].words[i], h)
                  /\ output[Starts[n] + 4 * i + k] = Part(Starts[m], k)
            BY <1>1, <3>3, <3>4, <5>1, <6>2, LabelByte
          <6>. QED
            BY <5>1, <6>2, <6>3 DEF k
        <5>. QED
          BY <5>1, <5>2
      <4>. QED
        BY <3>2, <3>4, <4>1
    <3>5. CASE ~(/\ source[n].op = "inst" /\ j \in DOMAIN source[n].words
                 /\ source[n].words[j] \in Labels)
      <4>1. output[p] = Plain
        BY <1>1, <3>3, <3>5, PlainByte
      <4>. QED
        BY <3>2, <3>5, <4>1
    <3>. QED
      BY <3>4, <3>5
  <2>4. TwoPasses = [p \in 0 .. here - 1 |-> ByteOf(At(p), p - Starts[At(p)])]
    BY <2>2 DEF TwoPasses
  <2>. QED
    BY <2>1, <2>3, <2>4
<1>2. OneInv => OnePass
  BY <1>1 DEF OnePass, Exact
<1>3. AsmSpec => []OneInv
  BY OneInvInit, OneInvStep, PTL DEF AsmSpec
<1>. QED
  BY <1>2, <1>3, PTL

-----------------------------------------------------------------------------
(* The parts together: a behaviour of MCParts, which uses one of them, is  *)
(* as each part says, so that all that is proved of a part holds of it.    *)
THEOREM PartsAsSpecified ==
  FairParts => /\ TimerSpec /\ KeySpec /\ ClockSpec /\ MemSpec
               /\ Spec /\ ArithSpec /\ AsmSpec
<1>1. PartsInit => /\ TimerInit /\ KeyInit /\ ClockInit /\ MemInit
                   /\ Init /\ ArithInit /\ AsmInit
  BY DEF PartsInit
<1>2. [PartsNext]_partsVars =>
        /\ [TimerNext]_timerVars /\ [KeyNext]_keyVars /\ [ClockNext]_clockVars
        /\ [MemNext]_memVars
        /\ [Next]_vars /\ [ArithNext]_arithVars /\ [AsmNext]_asmVars
  BY DEF PartsNext, partsVars, deviceVars, sequentialVars, WithTimer,
         WithKeyboard, WithClock, WithMemory, WithStorage, WithArithmetic,
         WithAssembler
<1>. QED
  BY <1>1, <1>2, PTL
  DEF FairParts, TimerSpec, KeySpec, ClockSpec, MemSpec, Spec, ArithSpec,
      AsmSpec

(* Type correctness of the parts, whichever of them is used.               *)
THEOREM TypesCorrect == FairParts => []TypesOK
<1>1. /\ TimerTypeOK /\ KeyTypeOK /\ ClockTypeOK /\ MemTypeOK
      /\ TypeOK /\ NumbersOK /\ AsmTypeOK
      => TypesOK
  BY DEF TypesOK
<1>. QED
  BY <1>1, PartsAsSpecified, TimerTypeCorrect, KeyTypeCorrect,
     ClockTypeCorrect, MemTypeCorrect, StorageTypeCorrect, NumbersCorrect,
     AsmTypeCorrect, PTL
=============================================================================
