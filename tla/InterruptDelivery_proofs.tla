---------------------- MODULE InterruptDelivery_proofs ----------------------
(***************************************************************************)
(* Theorems about InterruptDelivery, for every guest, every set of         *)
(* interrupt numbers and every layout of the vectors.                      *)
(***************************************************************************)
EXTENDS InterruptDelivery, SequenceTheorems, TLAPS

TypeInv == TypeOK /\ FetchInSlots

(* What the CPU thread executes is an instruction.                         *)
LEMMA DecodedInstr ==
  ASSUME TypeInv, NEW op, NEW i \in Exec(op)
  PROVE  i \in Instr /\ i.op = op /\ cpuAt = "exec"
<1>1. cpuAt = "exec" /\ i \in Decoded /\ i.op = op
  BY DEF Exec
<1>2. [op |-> "jmp", to |-> fetch.to] \in Instr
  BY DEF Instr, TypeInv, TypeOK
<1>3. Guest[fetch.base \div 4] \subseteq Instr
  BY <1>1, GuestAssumption DEF TypeInv, FetchInSlots
<1>. QED
  BY <1>1, <1>2, <1>3, GuestAssumption DEF Decoded
  
LEMMA InstrParts ==
  ASSUME NEW i \in Instr
  PROVE  /\ i.op = "stat" => i.val \in Status
         /\ i.op = "flag" => i.val \in Bit
         /\ i.op \in {"jmp", "brz", "ret"} => i.to \in Slots
         /\ i.op = "fault" => i.vec \in {IllSlot, DivSlot}
         /\ i.op = "mask" => i.bytes \in Seq(Bit) /\ i.bytes # <<>>
         /\ i.op \in {"add", "del", "trigger"} => i.num \in Nums
         /\ i.op = "add" => i.vec \in Slots
BY DEF Instr

LEMMA SlotFacts == (\A slot \in Slots : 4 * slot \in Int) /\ 0 \in Slots
BY SlotsAssumption DEF Slots

LEMMA StatusSteps ==
  ASSUME NEW s \in Status
  PROVE  Push(s) \in Status /\ Pop(s) \in Status
BY DEF Status, Push, Pop, Bit

(* What a trap and a register write leave behind has its type.             *)
LEMMA TrapType ==
  ASSUME NEW slot \in Slots, NEW s \in Status, NEW f \in Nat, NEW p \in Int,
         ret \in Int, Trap(slot, s, f, p)
  PROVE  RegTypes'
<1>1. Push(s) \in Status /\ Push(Push(s)) \in Status
  BY StatusSteps
<1>2. s.intr \in Bit /\ s.user \in Bit
  BY DEF Status
<1>3. 4 * slot \in Int
  BY SlotFacts
<1>. QED
  BY <1>1, <1>2, <1>3 DEF Trap, Lethal, RegTypes

LEMMA RegWriteType ==
  ASSUME RegTypes, intrPending \in BOOLEAN,
         NEW s \in Status, NEW f \in Nat, NEW p \in Int,
         NEW next \in CpuPlaces, RegWrite(s, f, p, next)
  PROVE  /\ RegTypes' /\ intrPending' \in BOOLEAN
         /\ cpuAt' \in {next, "halted"} /\ cpuAt' \in CpuPlaces
<1>0. ret \in Int /\ "halted" \in CpuPlaces /\ IntrSlot \in Slots
  BY SlotsAssumption DEF RegTypes, CpuPlaces
<1>1. CASE Trap(IntrSlot, s, f, p)
  BY <1>0, <1>1, TrapType DEF RegWrite, CpuTrap
<1>2. CASE ~(s.intr = 1 /\ intrPending)
  BY <1>0, <1>2 DEF RegWrite, RegTypes
<1>. QED
  BY <1>1, <1>2 DEF RegWrite, CpuTrap

LEMMA TailNonEmpty ==
  ASSUME NEW S, NEW s \in Seq(S), Len(s) > 1
  PROVE  Tail(s) \in Seq(S) /\ Tail(s) # <<>>
<1>1. Len(s) \in Nat /\ Len(<<>>) = 0
  OBVIOUS
<1>2. s # <<>>
  <2>1. s = <<>> => Len(s) = 0
    BY EmptySeq, Zenon
  <2>. QED
    BY <2>1
<1>3. Tail(s) \in Seq(S) /\ Len(Tail(s)) = Len(s) - 1
  BY <1>2, HeadTailProperties
<1>4. Len(Tail(s)) # 0
  BY <1>1, <1>3
<1>5. Tail(s) = <<>> => Len(Tail(s)) = 0
  BY EmptySeq, Zenon
<1>. QED
  BY <1>3, <1>4, <1>5, Zenon

LEMMA EndStoreType ==
  ASSUME TypeInv, EndStore
  PROVE  /\ store' \in Instr /\ cpuAt' = "boundary" /\ cpuAt' \in CpuPlaces
         /\ cache' \in [words : SUBSET Int, vec : Slots]
         /\ FetchInSlots'
         /\ UNCHANGED <<status, fc, pc, ret, flag, fetch, intrPending,
                       trapEvent, claim, saved, clean, rfeRet>>
<1>1. NoStore \in Instr
  BY DEF NoStore, Instr
<1>2. EmptyCache \in [words : SUBSET Int, vec : Slots]
  BY SlotFacts DEF EmptyCache
<1>. QED
  BY <1>1, <1>2 DEF EndStore, FetchInSlots, CpuPlaces, regs, ghosts

(* The steps of the CPU thread preserve the type invariant ...              *)
LEMMA TypeCpu == TypeInv /\ CpuStep => TypeInv'
<1>. SUFFICES ASSUME TypeInv, CpuStep PROVE TypeInv'
  OBVIOUS
<1>0. /\ RegTypes /\ intrPending \in BOOLEAN
      /\ status \in Status /\ fc \in Nat /\ pc \in Int /\ ret \in Int
  BY DEF TypeInv, TypeOK, RegTypes
<1>1. CASE Acquire
  BY <1>1, SlotFacts
  DEF Acquire, TypeInv, TypeOK, RegTypes, FetchInSlots, CpuPlaces, regs,
      ghosts, intcVars
<1>2. CASE LoadWord
  <2>1. RegWrite(status, fc, pc, "advance") /\ cpuAt = "load"
    BY <1>2 DEF LoadWord
  <2>2. "advance" \in CpuPlaces /\ cpuAt' \in {"advance", "halted"}
    BY <1>0, <2>1, RegWriteType DEF CpuPlaces
  <2>3. /\ fetch' \in [word : 0 .. 3, base : Int, torn : BOOLEAN, to : Slots]
        /\ fetch'.word = fetch.word /\ fetch'.base = fetch.base
        /\ cache' \in [words : SUBSET Int, vec : Slots]
    <3>1. CASE pc \div 4 = IntcSlot
      <4>1. IntcWord(pc % 4)
        BY <1>2, <3>1 DEF LoadWord
      <4>2. pc % 4 \in Int
        BY <1>0
      <4>. QED
        BY <4>1, <4>2 DEF IntcWord, TypeInv, TypeOK
    <3>2. CASE pc \div 4 # IntcSlot
      BY <1>2, <3>2 DEF LoadWord, TypeInv, TypeOK
    <3>. QED
      BY <3>1, <3>2
  <2>4. fetch'.base \div 4 \in Slots
    BY <1>2, <2>3 DEF LoadWord, TypeInv, TypeOK, RegTypes, FetchInSlots
  <2>5. FetchInSlots'
    BY <2>2, <2>4 DEF FetchInSlots
  <2>6. claim' \in Nums \cup {NoNum} /\ UNCHANGED <<flag, store, raised,
  rfeRet>>
    BY <1>2 DEF LoadWord, TypeInv, TypeOK
  <2>7. UNCHANGED <<ppAt, num, queue, unmasked, interrupts, current>>
    BY <1>2 DEF LoadWord, intcVars
  <2>8. TypeOK'
    BY <1>0, <2>1, <2>2, <2>3, <2>6, <2>7, RegWriteType DEF TypeInv, TypeOK
  <2>. QED
    BY <2>5, <2>8 DEF TypeInv
<1>3. CASE Advance
  <2>. DEFINE next == IF fetch.word = 3 THEN "exec" ELSE "load"
  <2>1. RegWrite(status, fc, pc + 1, next) /\ cpuAt = "advance"
    BY <1>3 DEF Advance
  <2>2. next \in CpuPlaces /\ cpuAt' \in {next, "halted"}
    BY <1>0, <2>1, RegWriteType DEF CpuPlaces
  <2>3. /\ fetch' \in [word : 0 .. 3, base : Int, torn : BOOLEAN, to : Slots]
        /\ fetch'.base = fetch.base
        /\ fetch.word # 3 => fetch'.word = fetch.word + 1
    <3>1. /\ fetch.word \in 0 .. 3
          /\ fetch \in [word : 0 .. 3, base : Int, torn : BOOLEAN, to : Slots]
      BY DEF TypeInv, TypeOK
    <3>2. CASE fetch.word = 3
      BY <1>3, <3>1, <3>2 DEF Advance
    <3>3. CASE fetch.word # 3
      <4>. DEFINE torn == fetch.torn \/ pc' # fetch.base + fetch.word + 1
      <4>1. fetch' = [fetch EXCEPT !.word = @ + 1, !.torn = torn]
        BY <1>3, <3>3 DEF Advance
      <4>2. fetch.word + 1 \in 0 .. 3 /\ torn \in BOOLEAN
        BY <3>1, <3>3
      <4>. HIDE DEF torn
      <4>. QED
        BY <3>1, <3>3, <4>1, <4>2
    <3>. QED
      BY <3>2, <3>3
  <2>4. fetch'.base \div 4 \in Slots
    BY <1>3, <2>3 DEF Advance, TypeInv, FetchInSlots
  <2>5. FetchInSlots'
    BY <2>2, <2>3, <2>4 DEF FetchInSlots, TypeInv, TypeOK
  <2>6. UNCHANGED <<flag, store, cache, claim, raised, rfeRet>>
        /\ UNCHANGED <<ppAt, num, queue, unmasked, interrupts, current>>
    BY <1>3 DEF Advance, intcVars
  <2>7. TypeOK'
    BY <1>0, <2>1, <2>2, <2>3, <2>6, RegWriteType DEF TypeInv, TypeOK
  <2>. QED
    BY <2>5, <2>7 DEF TypeInv
<1>4. CASE FetchFails
  BY <1>4
  DEF FetchFails, TypeInv, TypeOK, RegTypes, FetchInSlots, CpuPlaces, regs,
      ghosts, intcVars
<1>5. CASE Nop
  BY <1>5
  DEF Nop, TypeInv, TypeOK, RegTypes, FetchInSlots, CpuPlaces, regs, ghosts,
      intcVars
<1>6. CASE Alu
  BY <1>0, <1>6, RegWriteType
  DEF Alu, TypeInv, TypeOK, RegTypes, FetchInSlots, CpuPlaces, intcVars
<1>7. CASE SetFlag
  BY <1>0, <1>7, RegWriteType, DecodedInstr, InstrParts
  DEF SetFlag, TypeInv, TypeOK, RegTypes, FetchInSlots, CpuPlaces, intcVars
<1>8. CASE Jump
  <2>1. PICK i \in Exec("jmp") : RegWrite(status, fc, 4 * i.to, "boundary")
    BY <1>8 DEF Jump
  <2>2. i.to \in Slots
    BY DecodedInstr, InstrParts
  <2>3. "boundary" \in CpuPlaces
    BY DEF CpuPlaces
  <2>4. 4 * i.to \in Int
    BY <2>2, SlotFacts
  <2>. QED
    BY <1>0, <1>8, <2>1, <2>3, <2>4, RegWriteType
    DEF Jump, TypeInv, TypeOK, FetchInSlots, intcVars
<1>9. CASE Branch
  <2>1. PICK i \in Exec("brz") :
          IF flag = 0 THEN RegWrite(status, fc, 4 * i.to, "boundary")
          ELSE /\ cpuAt' = "boundary"
               /\ UNCHANGED <<regs, intrPending, trapEvent, saved, clean>>
    BY <1>9 DEF Branch
  <2>2. 4 * i.to \in Int /\ "boundary" \in CpuPlaces
    <3>1. i.to \in Slots
      BY DecodedInstr, InstrParts
    <3>. QED
      BY <3>1, SlotFacts DEF CpuPlaces
  <2>3. RegTypes' /\ intrPending' \in BOOLEAN
        /\ cpuAt' \in {"boundary", "halted"} /\ cpuAt' \in CpuPlaces
    <3>1. CASE flag = 0
      BY <1>0, <2>1, <2>2, <3>1, RegWriteType
    <3>2. CASE flag # 0
      BY <1>0, <2>1, <2>2, <3>2 DEF RegTypes, regs
    <3>. QED
      BY <3>1, <3>2
  <2>. QED
    BY <1>9, <2>3 DEF Branch, TypeInv, TypeOK, FetchInSlots, intcVars
<1>10. CASE WriteStatus
  <2>1. status' \in Status /\ cpuAt' = "check"
    BY <1>10, DecodedInstr, InstrParts DEF WriteStatus
  <2>. QED
    BY <1>10, <2>1
    DEF WriteStatus, TypeInv, TypeOK, RegTypes, FetchInSlots, CpuPlaces,
        intcVars
<1>11. CASE WriteRet
  <2>1. PICK i \in Exec("ret") : ret' = 4 * i.to
    BY <1>11 DEF WriteRet
  <2>2. ret' \in Int
    BY <2>1, DecodedInstr, InstrParts, SlotFacts
  <2>. QED
    BY <1>11, <2>2
    DEF WriteRet, TypeInv, TypeOK, RegTypes, FetchInSlots, CpuPlaces, ghosts,
        intcVars
<1>12. CASE CheckPending
  BY <1>0, <1>12, RegWriteType
  DEF CheckPending, TypeInv, TypeOK, RegTypes, FetchInSlots, CpuPlaces,
      intcVars
<1>13. CASE PrivilegeFault
  BY <1>0, <1>13, RegWriteType
  DEF PrivilegeFault, TypeInv, TypeOK, RegTypes, FetchInSlots, CpuPlaces,
      intcVars
<1>14. CASE PrivilegeTrap
  BY <1>0, <1>14, TrapType, SlotsAssumption
  DEF PrivilegeTrap, TypeInv, TypeOK, RegTypes, FetchInSlots, CpuPlaces,
      intcVars, CpuTrap
<1>15. CASE Fault
  BY <1>0, <1>15, TrapType, DecodedInstr, InstrParts, SlotsAssumption
  DEF Fault, TypeInv, TypeOK, RegTypes, FetchInSlots, CpuPlaces, intcVars,
      CpuTrap
<1>16. CASE SoftIntr
  BY <1>0, <1>16, TrapType, SlotsAssumption
  DEF SoftIntr, TypeInv, TypeOK, RegTypes, FetchInSlots, CpuPlaces, intcVars,
      CpuTrap, regs
<1>17. CASE Rfe
  BY <1>17, StatusSteps
  DEF Rfe, TypeInv, TypeOK, RegTypes, FetchInSlots, CpuPlaces, regs, ghosts,
      intcVars
<1>18. CASE RfeCount
  BY <1>0, <1>18, RegWriteType
  DEF RfeCount, TypeInv, TypeOK, RegTypes, FetchInSlots, CpuPlaces, intcVars
<1>19. CASE RfeReturn
  BY <1>0, <1>19, RegWriteType
  DEF RfeReturn, TypeInv, TypeOK, RegTypes, FetchInSlots, CpuPlaces, intcVars
<1>20. CASE Wait
  BY <1>20
  DEF Wait, TypeInv, TypeOK, RegTypes, FetchInSlots, CpuPlaces, regs, ghosts,
      intcVars
<1>21. CASE Wake
  BY <1>21
  DEF Wake, TypeInv, TypeOK, RegTypes, FetchInSlots, CpuPlaces, regs, ghosts,
      intcVars
<1>22. CASE Halt
  BY <1>22
  DEF Halt, TypeInv, TypeOK, RegTypes, FetchInSlots, CpuPlaces, regs, ghosts,
      intcVars
<1>23. CASE BeginStore
  BY <1>23, DecodedInstr
  DEF BeginStore, TypeInv, TypeOK, RegTypes, FetchInSlots, CpuPlaces,
      intcVars, StoreOps, regs, ghosts
<1>24. CASE StoreMaskByte
  <2>1. store' \in Instr /\ store'.op = "mask"
    <3>1. store.bytes \in Seq(Bit) /\ Len(store.bytes) > 1
          /\ store.bytes # <<>>
      BY <1>24, InstrParts DEF StoreMaskByte, Storing, TypeInv, TypeOK
    <3>2. Tail(store.bytes) \in Seq(Bit) /\ Tail(store.bytes) # <<>>
      BY <3>1, TailNonEmpty
    <3>3. store' = [op |-> "mask", bytes |-> Tail(store.bytes)]
      BY <1>24 DEF StoreMaskByte
    <3>. QED
      BY <3>2, <3>3 DEF Instr
  <2>2. unmasked' \in BOOLEAN /\ ppAt' \in {ppAt, "test"}
        /\ (ppAt' # ppAt => ppAt = "blocked")
    BY <1>24 DEF StoreMaskByte, SetUnmasked
  <2>. QED
    BY <1>24, <2>1, <2>2
    DEF StoreMaskByte, TypeInv, TypeOK, RegTypes, FetchInSlots, PpPlaces,
        StoreOps, regs,
        ghosts, Storing
<1>25. CASE StoreLastMaskByte
  <2>1. unmasked' \in BOOLEAN /\ ppAt' \in {ppAt, "test"}
        /\ (ppAt' # ppAt => ppAt = "blocked")
    BY <1>25 DEF StoreLastMaskByte, SetUnmasked
  <2>. QED
    BY <1>25, <2>1, EndStoreType
    DEF StoreLastMaskByte, TypeInv, TypeOK, RegTypes, FetchInSlots, PpPlaces
<1>26. CASE AddVector
  <2>1. store \in Instr /\ store.op \in {"add", "del", "trigger"}
        /\ (store.op = "add" <=> TRUE)
    BY <1>26 DEF AddVector, Storing, TypeInv, TypeOK
  <2>. QED
    BY <1>26, <2>1, EndStoreType, InstrParts
    DEF AddVector, TypeInv, TypeOK, RegTypes
<1>27. CASE DeleteVector
  <2>1. store \in Instr /\ store.op \in {"add", "del", "trigger"}
        /\ (store.op = "add" <=> FALSE)
    BY <1>27 DEF DeleteVector, Storing, TypeInv, TypeOK
  <2>. QED
    BY <1>27, <2>1, EndStoreType, InstrParts
    DEF DeleteVector, TypeInv, TypeOK, RegTypes
<1>28. CASE Trigger
  <2>1. store \in Instr /\ store.op \in {"add", "del", "trigger"}
        /\ (store.op = "add" <=> FALSE)
    BY <1>28 DEF Trigger, Storing, TypeInv, TypeOK
  <2>. QED
    BY <1>28, <2>1, EndStoreType, InstrParts, BoundAssumption
    DEF Trigger, TypeInv, TypeOK, RegTypes
<1>. QED
  BY <1>1, <1>2, <1>3, <1>4, <1>5, <1>6, <1>7, <1>8, <1>9, <1>10, <1>11,
     <1>12, <1>13, <1>14, <1>15, <1>16, <1>17, <1>18, <1>19, <1>20, <1>21,
     <1>22, <1>23, <1>24, <1>25, <1>26, <1>27, <1>28 DEF CpuStep

(* ... and so do those of the controller's thread ...                       *)
LEMMA TypePp == TypeInv /\ PpStep => TypeInv'
<1>. SUFFICES ASSUME TypeInv, PpStep PROVE TypeInv'
  OBVIOUS
<1>1. CASE PpTake
  BY <1>1
  DEF PpTake, TypeInv, TypeOK, RegTypes, FetchInSlots, PpPlaces, cpuVars,
      regs, ghosts
<1>2. CASE PpWait
  BY <1>2
  DEF PpWait, TypeInv, TypeOK, RegTypes, FetchInSlots, PpPlaces, cpuVars,
      regs, ghosts
<1>3. CASE PpSpurious
  BY <1>3
  DEF PpSpurious, TypeInv, TypeOK, RegTypes, FetchInSlots, PpPlaces, cpuVars,
      regs, ghosts
<1>4. CASE PpTest
  BY <1>4
  DEF PpTest, TypeInv, TypeOK, RegTypes, FetchInSlots, PpPlaces, cpuVars,
      regs, ghosts
<1>5. CASE PpClear
  BY <1>5
  DEF PpClear, TypeInv, TypeOK, RegTypes, FetchInSlots, PpPlaces, cpuVars,
      regs, ghosts
<1>6. CASE PpAccept
  BY <1>6
  DEF PpAccept, TypeInv, TypeOK, RegTypes, FetchInSlots, PpPlaces, cpuVars,
      regs, ghosts
<1>7. CASE PpIgnore
  BY <1>7
  DEF PpIgnore, TypeInv, TypeOK, RegTypes, FetchInSlots, PpPlaces, cpuVars,
      regs, ghosts
<1>8. CASE PpRead
  BY <1>8
  DEF PpRead, TypeInv, TypeOK, RegTypes, FetchInSlots, PpPlaces, cpuVars,
      regs, ghosts
<1>9. CASE PpPend
  BY <1>9
  DEF PpPend, TypeInv, TypeOK, RegTypes, FetchInSlots, PpPlaces, cpuVars,
      regs, ghosts
<1>10. CASE PpAnnounce
  BY <1>10
  DEF PpAnnounce, TypeInv, TypeOK, RegTypes, FetchInSlots, PpPlaces, cpuVars,
      regs, ghosts
<1>11. CASE PpTrap
  BY <1>11, TrapType, SlotsAssumption
  DEF PpTrap, TypeInv, TypeOK, RegTypes, FetchInSlots, PpPlaces, cpuVars,
      regs, ghosts
<1>. QED
  BY <1>1, <1>2, <1>3, <1>4, <1>5, <1>6, <1>7, <1>8, <1>9, <1>10,
     <1>11 DEF PpStep

(* ... and of the devices.                                                 *)
LEMMA TypeNext == TypeInv /\ [Next]_vars => TypeInv'
<1>. SUFFICES ASSUME TypeInv, [Next]_vars PROVE TypeInv'
  OBVIOUS
<1>1. CASE Raise
  BY <1>1, BoundAssumption
  DEF Raise, TypeInv, TypeOK, RegTypes, FetchInSlots, cpuVars, ghosts
<1>2. CASE UNCHANGED vars
  BY <1>2 DEF vars, TypeInv, TypeOK, RegTypes, FetchInSlots
<1>. QED
  BY <1>1, <1>2, TypeCpu, TypePp DEF Next, Ended

LEMMA TypeInit == Init => TypeInv
<1>. SUFFICES ASSUME Init PROVE TypeInv
  OBVIOUS
<1>1. RegTypes
  <2>1. status \in Status
    BY DEF Init, Status, Bit
  <2>2. saved \in [intr : Bit, user : Bit, pc : Int]
    BY DEF Init, Bit
  <2>3. fc \in Nat /\ pc \in Int /\ ret \in Int
    BY DEF Init
  <2>4. trapEvent \in BOOLEAN /\ clean \in BOOLEAN
    BY DEF Init
  <2>. QED
    BY <2>1, <2>2, <2>3, <2>4 DEF RegTypes
<1>2. /\ fetch \in [word : 0 .. 3, base : Int, torn : BOOLEAN, to : Slots]
      /\ cache \in [words : SUBSET Int, vec : Slots]
      /\ store \in Instr /\ FetchInSlots
  BY SlotFacts DEF Init, EmptyCache, NoStore, Instr, FetchInSlots
<1>3. /\ cpuAt \in CpuPlaces /\ cpuAt # "store" /\ ppAt \in PpPlaces
      /\ (ppAt \notin {"get", "dead"} => num \in Nums)
      /\ num \in Nums \cup {NoNum} /\ flag \in Bit
      /\ intrPending \in BOOLEAN
  BY DEF Init, CpuPlaces, PpPlaces, Bit
<1>4. queue \in Seq(Nums) /\ interrupts \in [Nums -> Slots \cup {Unset}]
  <2>1. queue = <<>> /\ interrupts = [n \in Nums |-> Unset]
    BY DEF Init
  <2>2. <<>> \in Seq(Nums)
    OBVIOUS
  <2>. QED
    BY <2>1, <2>2
<1>5. /\ current \in Slots /\ raised \in 0 .. MaxRaise /\ claim = NoNum
      /\ rfeRet \in Int
  BY SlotFacts, BoundAssumption DEF Init
<1>6. unmasked \in BOOLEAN
  BY DEF Init
<1>. QED
  BY <1>1, <1>2, <1>3, <1>4, <1>5, <1>6 DEF TypeInv, TypeOK

(* Every variable keeps its type, and an instruction is always fetched     *)
(* from a slot of the guest's memory, whatever the guest, its layout and   *)
(* the interleaving of the CPU, controller and device threads.             *)
THEOREM TypeCorrect == Spec => [](TypeOK /\ FetchInSlots)
<1>. QED
  BY TypeInit, TypeNext, PTL DEF Spec, TypeInv

-----------------------------------------------------------------------------
(* The mode handlers run in.  HandlerMode is not inductive: a second rfe   *)
(* could bring the counter back to 1 with the bits of another trap.  But   *)
(* the history variable clean is set only by a trap that finds the counter *)
(* at 0, and no step raises the counter and keeps clean.                   *)

CleanDepth == clean => fc <= 1

HandlerInv == HandlerMode /\ CleanDepth

(* What HandlerMode says of a CPU that is not inside rfe.                  *)
Entered(s) == s.intr = 0 /\ s.user = 0
              /\ s.intrPrev = saved.intr /\ s.userPrev = saved.user

LEMMA TrapMode ==
  ASSUME NEW slot, NEW s \in Status, NEW f \in Nat, NEW p,
         Trap(slot, s, f, p), cpuAt' # "rfe2"
  PROVE  HandlerInv'
<1>1. CASE f = 0
  <2>1. /\ fc' = 1 /\ status' = Push(s)
        /\ saved' = [intr |-> s.intr, user |-> s.user, pc |-> p]
    BY <1>1 DEF Trap
  <2>. QED
    BY <2>1 DEF HandlerInv, HandlerMode, CleanDepth, Push
<1>2. CASE f # 0
  BY <1>2 DEF Trap, HandlerInv, HandlerMode, CleanDepth
<1>. QED
  BY <1>1, <1>2

LEMMA RegWriteMode ==
  ASSUME NEW s \in Status, NEW f \in Nat, NEW p,
         NEW next, next # "rfe2", RegWrite(s, f, p, next),
         clean => f <= 1, clean /\ f = 1 => Entered(s)
  PROVE  HandlerInv'
<1>1. CASE CpuTrap(IntrSlot, s, f, p, next)
  BY <1>1, TrapMode DEF CpuTrap
<1>2. CASE /\ status' = s /\ fc' = f /\ cpuAt' = next
           /\ UNCHANGED <<saved, clean>>
  BY <1>2 DEF HandlerInv, HandlerMode, CleanDepth, Entered
<1>. QED
  BY <1>1, <1>2 DEF RegWrite

LEMMA HandlerNext == TypeInv /\ HandlerInv /\ [Next]_vars => HandlerInv'
<1>. SUFFICES ASSUME TypeInv, HandlerInv, [Next]_vars PROVE HandlerInv'
  OBVIOUS
<1>0. fc \in Nat /\ status \in Status
  BY DEF TypeInv, TypeOK, RegTypes
<1>1. cpuAt # "rfe2" /\ clean /\ fc = 1 => Entered(status)
  BY DEF HandlerInv, HandlerMode, Entered
<1>2. CASE CpuStep
  <2>1. CASE cpuAt # "rfe2"
             /\ \E p, next : next # "rfe2" /\ RegWrite(status, fc, p, next)
    BY <1>0, <1>1, <2>1, RegWriteMode DEF HandlerInv, CleanDepth
  <2>2. CASE \E slot, next : next # "rfe2"
                             /\ CpuTrap(slot, status, fc, pc, next)
    BY <1>0, <2>2, TrapMode DEF CpuTrap
  <2>3. CASE RfeCount
    <3>. DEFINE f == IF fc > 0 THEN fc - 1 ELSE 0
    <3>1. f \in Nat /\ RegWrite(status, f, pc, "rfe3")
      BY <1>0, <2>3 DEF RfeCount
    <3>2. clean => f = 0
      BY <1>0 DEF HandlerInv, CleanDepth
    <3>. QED
      BY <1>0, <3>1, <3>2, RegWriteMode
  <2>4. CASE Rfe
    <3>1. /\ cpuAt = "exec" /\ cpuAt' = "rfe2" /\ status' = Pop(status)
          /\ UNCHANGED <<fc, saved, clean>>
      BY <2>4 DEF Rfe, Exec
    <3>2. /\ Pop(status).intr = status.intrPrev
          /\ Pop(status).user = status.userPrev
      BY <1>0 DEF Pop, Status
    <3>. QED
      BY <1>1, <3>1, <3>2 DEF HandlerInv, HandlerMode, CleanDepth, Entered
  <2>5. CASE WriteStatus
    BY <2>5 DEF WriteStatus, HandlerInv, HandlerMode, CleanDepth
  <2>6. CASE /\ cpuAt # "rfe2" /\ cpuAt' # "rfe2"
             /\ UNCHANGED <<status, fc, saved, clean>>
    BY <1>1, <2>6 DEF HandlerInv, HandlerMode, CleanDepth, Entered
  <2>. QED
    BY <1>2, <2>1, <2>2, <2>3, <2>4, <2>5, <2>6
    DEF CpuStep, Acquire, LoadWord, Advance, FetchFails, Nop, Alu, SetFlag,
        Jump, Branch, WriteRet, CheckPending, PrivilegeFault, PrivilegeTrap,
        Fault, SoftIntr, RfeReturn, Wait, Wake, Halt, BeginStore,
        StoreMaskByte, StoreLastMaskByte, AddVector, DeleteVector, Trigger,
        EndStore, Storing, Exec, StoreOps, regs, ghosts
<1>3. CASE PpTrap
  BY <1>0, <1>3, TrapMode DEF PpTrap
<1>4. CASE PpStep /\ ~PpTrap
  BY <1>4
  DEF PpStep, PpTake, PpWait, PpSpurious, PpTest, PpClear, PpAccept, PpIgnore,
      PpRead, PpPend, PpAnnounce, cpuVars, ghosts, HandlerInv, HandlerMode,
      CleanDepth
<1>5. CASE Raise \/ UNCHANGED vars
  BY <1>5
  DEF Raise, vars, cpuVars, ghosts, HandlerInv, HandlerMode, CleanDepth
<1>. QED
  BY <1>2, <1>3, <1>4, <1>5 DEF Next, Ended

(* README:55, for every guest: a handler that leaves REG_STATUS alone runs *)
(* with interrupts disabled and in kernel mode, and rfe restores the bits  *)
(* the trap found, however the two threads interleave.                     *)
THEOREM HandlerModeHolds == Spec => []HandlerMode
<1>1. Init => HandlerInv
  BY DEF Init, HandlerInv, HandlerMode, CleanDepth
<1>. QED
  BY <1>1, TypeInit, TypeNext, HandlerNext, PTL DEF Spec, HandlerInv
=============================================================================
