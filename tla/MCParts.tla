------------------------------- MODULE MCParts -------------------------------
(***************************************************************************)
(* The parts of the machine beside its interrupts and the Internet         *)
(* controller, for model checking.  They share no state: a behaviour uses  *)
(* one of them, and the others stay as they are.                           *)
(***************************************************************************)
EXTENDS Timer, KeyboardRead, RealTimeClock, ReadCache, Storage, Arithmetic,
        Assembler

W(a, b, c, d) == [k \in 0 .. 3 |-> <<a, b, c, d>>[k + 1]]

(* On one-bit bytes, durations of one byte and of two, one beyond the low  *)
(* half, and 0.                                                            *)
SmallDurations ==
  {Zero, W({}, {}, {}, {0}), W({}, {}, {0}, {}), W({}, {0}, {}, {0})}

(* The low half of a word reaches the first four bytes of an image of six. *)
SmallOffsets ==
  {Zero, W({}, {}, {}, {0}), W({}, {}, {0}, {}), W({}, {0}, {}, {})}
SmallEnables == {Zero, W({}, {}, {}, {0})}

(* Three keys: two that differ in both bytes, as characters above 0xff do, *)
(* and one that shares a byte with each.                                   *)
Character(hi, lo) == [b \in 0 .. 1 |-> IF b = 0 THEN hi ELSE lo]

ThreeKeys == {Character(0, 1), Character(1, 0), Character(0, 0)}

(* Times of two registers, which differ in one register or in both.        *)
TwoFields  == {"minute", "second"}
ThreeTimes == {t \in [TwoFields -> {0, 1}] : t["minute"] <= t["second"]}

OneRegister == {1}

(* A reference or two in each place of an instruction, forward or back,    *)
(* among statements that move what follows by any number of bytes.         *)
LabelOf(l) == [op |-> "label", name |-> l]
InstOf(ws, n) == [op |-> "inst", words |-> ws, floats |-> n]

SomeStatements(a, b) ==
  {LabelOf(a), LabelOf(b),
   InstOf(<<a>>, 0), InstOf(<<NoLabel, b, a>>, 0), InstOf(<<NoLabel>>, 1),
   [op |-> "fill", size |-> 3], [op |-> "align", to |-> 4]}

TwoLabels == {"a", "b"}
SmallSource == SomeStatements("a", "b")

-----------------------------------------------------------------------------
VARIABLE part   \* the part that is used

deviceVars     == <<timerVars, keyVars, clockVars>>
sequentialVars == <<vars, arithVars, asmVars>>
partsVars      == <<deviceVars, memVars, sequentialVars, part>>

WithTimer ==
  /\ part = "timer"
  /\ UNCHANGED <<keyVars, clockVars, memVars, sequentialVars, part>>

WithKeyboard ==
  /\ part = "keyboard"
  /\ UNCHANGED <<timerVars, clockVars, memVars, sequentialVars, part>>

WithClock ==
  /\ part = "clock"
  /\ UNCHANGED <<timerVars, keyVars, memVars, sequentialVars, part>>

WithMemory ==
  /\ part = "memory"
  /\ UNCHANGED <<deviceVars, sequentialVars, part>>

WithStorage ==
  /\ part = "storage"
  /\ UNCHANGED <<deviceVars, memVars, arithVars, asmVars, part>>

WithArithmetic ==
  /\ part = "arithmetic"
  /\ UNCHANGED <<deviceVars, memVars, vars, asmVars, part>>

WithAssembler ==
  /\ part = "assembler"
  /\ UNCHANGED <<deviceVars, memVars, vars, arithVars, part>>

(* What is not used has one of its initial states.                         *)
PartsInit ==
  /\ TimerInit /\ KeyInit /\ ClockInit /\ MemInit
  /\ Init /\ ArithInit /\ AsmInit
  /\ part \in {"timer", "keyboard", "clock", "memory",
               "storage", "arithmetic", "assembler"}
  /\ part # "keyboard" => char = Character(0, 0)
  /\ part # "clock" => \A f \in Fields : time[f] = 0
  /\ part # "memory" => \A a \in Ordinary : mem[a] = 0
  /\ part # "storage" => \A p \in Positions : image[p] = 0

PartsNext ==
  \/ WithTimer /\ TimerNext
  \/ WithKeyboard /\ KeyNext
  \/ WithClock /\ ClockNext
  \/ WithMemory /\ MemNext
  \/ WithStorage /\ Next
  \/ WithArithmetic /\ ArithNext
  \/ WithAssembler /\ AsmNext

(* The fairness of the devices, as in Timer and KeyboardRead.              *)
FairParts ==
  /\ PartsInit /\ [][PartsNext]_partsVars
  /\ WF_partsVars(WithTimer /\ TimerStep)
  /\ WF_partsVars(WithTimer /\ StoreByte)
  /\ SF_partsVars(WithKeyboard /\ Enter)
  /\ WF_partsVars(WithKeyboard /\ (LoadByte \/ Return))
  /\ WF_partsVars(WithKeyboard /\ (Notify \/ Ignore))

(* The types of the parts' variables, as in their modules.                 *)
TypesOK ==
  /\ TimerTypeOK /\ KeyTypeOK /\ ClockTypeOK /\ MemTypeOK
  /\ TypeOK /\ NumbersOK /\ AsmTypeOK
=============================================================================
