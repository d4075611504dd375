----------------------- MODULE DisciplinedGuest_proofs -----------------------
(***************************************************************************)
(* Theorems about every disciplined guest, for every set of interrupt      *)
(* numbers, every program and any number of interrupts.                    *)
(***************************************************************************)
EXTENDS DisciplinedGuest, InterruptDelivery_proofs

CONSTANTS
  Area,   \* a division of the guest's program
  Known   \* the numbers that certainly have a vector, slot by slot

Discipline == Disciplined(Area, Known)

(* The numbers that have a vector.                                         *)
Registered == {n \in Nums : interrupts[n] # Unset}

(* The controller's thread is not past the mask.                           *)
Resting == ppAt \in {"get", "wait", "blocked"}

(* No interrupt is on its way to the CPU, and none can be.                 *)
Idle == ~unmasked /\ Resting /\ claim = NoNum /\ ~intrPending

(* How one that is on its way gets there.  Until it has been read by the   *)
(* CPU no other can be accepted, and no earlier vector is cached.          *)
Flow ==
  /\ unmasked =>
       ppAt \in {"get", "wait", "test", "clear"} /\ claim = NoNum
  /\ ppAt \in {"test", "clear"} => unmasked
  /\ ppAt = "lock" => claim = NoNum
  /\ unmasked \/ ppAt = "lock" => Nums \subseteq Registered
  /\ unmasked \/ ppAt = "lock" \/ claim # NoNum => 1 \notin cache.words
  /\ claim # NoNum => current = interrupts[claim]
  /\ IntcLocked => claim # NoNum
  /\ ppAt \in {"clr", "trap"} => status.intr = 1
  /\ ppAt = "pend" => status.intr = 0
  /\ intrPending => claim # NoNum /\ Resting /\ status.intr = 0
  /\ ppAt # "dead"

(* A vector is where a handler begins.                                     *)
VectorsHandle == \A n \in Registered : Area[interrupts[n]] = "handler"

(* The CPU thread is at slot s, or in the instruction it holds.            *)
Where(s) ==
  \/ cpuAt \in {"boundary", "check", "waiting", "store"} /\ pc = 4 * s
  \/ /\ cpuAt \in {"load", "advance", "exec"}
     /\ fetch.base = 4 * s /\ ~fetch.torn
     /\ pc = IF cpuAt = "exec" THEN 4 * s + 4 ELSE 4 * s + fetch.word
  \/ cpuAt \in {"rfe2", "rfe3"} /\ rfeRet = ret

(* A store has not been done as long as its bytes are not written.         *)
AreaAt(s) == IF cpuAt = "store" /\ store.op = "mask" THEN "closed" ELSE Area[s]

Bound(s) ==
  Known[s] \subseteq IF cpuAt = "store" THEN VectorsAfter(Registered, store)
                                        ELSE Registered

(* The main program, where an interrupt may only be on its way in the open *)
(* and before the note is left.                                            *)
InMain(s) ==
  /\ AreaAt(s) \in {"closed", "open", "noted"}
  /\ cpuAt \notin {"rfe2", "rfe3"}
  /\ fc = 0 /\ status.user = 0
  /\ AreaAt(s) # "open" \/ flag = 1 => Idle
  /\ AreaAt(s) = "closed" => flag = 0
  /\ cpuAt = "check" => Area[s] = "closed"
  /\ cpuAt = "store" =>
       /\ store.op = "mask" => store.bytes = <<0>> /\ Area[s] = "open"
       /\ store.op \in {"add", "del"} => Area[s] = "closed"
       /\ store.op = "add" => Area[store.vec] = "handler"

(* What rfe will return to, and in what mode: what the trap interrupted.   *)
Returns ==
  /\ \E r \in Slots : ret = 4 * r /\ Area[r] = "open"
  /\ fc = IF cpuAt = "rfe3" THEN 0 ELSE 1
  /\ saved.pc = ret /\ saved.user = 0
  /\ saved \in [intr : Bit, user : Bit, pc : Int]
  /\ IF cpuAt \in {"rfe2", "rfe3"}
     THEN status.user = saved.user /\ status.intr = saved.intr
     ELSE status.userPrev = saved.user /\ status.intrPrev = saved.intr

InHandler(s) ==
  /\ AreaAt(s) = "handler" /\ Returns /\ Idle
  /\ cpuAt \notin {"check", "waiting"}
  /\ cpuAt = "store" => store.op = "trigger"

(* The CPU has not read the vector of the interrupt it was trapped for.    *)
Unread ==
  \/ cpuAt = "boundary"
  \/ cpuAt = "load" /\ fetch.word \in 0 .. 1
  \/ cpuAt = "advance" /\ fetch.word = 0

InVector(s) ==
  /\ s \in {IntrSlot, IntcSlot}
  /\ cpuAt \in {"boundary", "load", "advance", "exec"}
  /\ Returns /\ ~unmasked /\ Resting /\ ~intrPending
  /\ IF s = IntrSlot \/ Unread
     THEN claim # NoNum ELSE claim = NoNum /\ Area[fetch.to] = "handler"

At(s) == Where(s) /\ Bound(s) /\ (InMain(s) \/ InHandler(s) \/ InVector(s))

GuestInv ==
  /\ Flow /\ VectorsHandle
  /\ cpuAt \notin {"crashed", "ill"}
  /\ cpuAt = "halted" \/ \E s \in Slots : At(s)

-----------------------------------------------------------------------------
LEMMA SlotArithmetic ==
  /\ Slots \subseteq Nat
  /\ \A s \in Slots, w \in 0 .. 3 :
       ((4 * s + w) \div 4) = s /\ (4 * s + w) % 4 = w
  /\ \A s \in Slots : (4 * s) \div 4 = s /\ (4 * s) % 4 = 0
  /\ {0, IntrSlot, IntcSlot} \subseteq Slots
<1>1. Slots \subseteq Nat /\ {0, IntrSlot, IntcSlot} \subseteq Slots
  BY SlotsAssumption DEF Slots
<1>2. ASSUME NEW s \in Nat, NEW w \in 0 .. 3
      PROVE  ((4 * s + w) \div 4) = s /\ (4 * s + w) % 4 = w
  <2>1. w = 0 \/ w = 1 \/ w = 2 \/ w = 3
    OBVIOUS
  <2>. QED
    BY <2>1
<1>3. \A s \in Nat : (4 * s) \div 4 = s /\ (4 * s) % 4 = 0
  OBVIOUS
<1>. QED
  BY <1>1, <1>2, <1>3

(* An interrupt that is pending is not taken by a register write: it is    *)
(* pending only as long as interrupts are disabled.                        *)
LEMMA PlainWrite ==
  ASSUME NEW s, NEW f, NEW p, NEW next, RegWrite(s, f, p, next),
         intrPending => s.intr = 0
  PROVE  /\ status' = s /\ fc' = f /\ pc' = p /\ cpuAt' = next
         /\ UNCHANGED <<ret, intrPending, trapEvent, saved, clean>>
BY DEF RegWrite

(* What the CPU executes: an instruction of the program, which observes    *)
(* the discipline, or one of the two jumps to the handler.                 *)
LEMMA Executed ==
  ASSUME Discipline, TypeInv, NEW s \in Slots, At(s),
         NEW op, NEW i \in Exec(op)
  PROVE  /\ cpuAt = "exec" /\ i \in Instr /\ i.op = op
         /\ fetch.base = 4 * s /\ pc = 4 * s + 4
         /\ \/ Area[s] # "none" /\ Observes(Area, Known, s, i)
            \/ s = IntrSlot /\ i = [op |-> "jmp", to |-> IntcSlot]
            \/ s = IntcSlot /\ i = [op |-> "jmp", to |-> fetch.to]
<1>1. cpuAt = "exec" /\ i \in Instr /\ i.op = op /\ i \in Decoded
  BY DecodedInstr DEF Exec
<1>2. fetch.base = 4 * s /\ pc = 4 * s + 4 /\ ~fetch.torn
  BY <1>1 DEF At, Where
<1>3. /\ fetch.base \div 4 = s
      /\ fetch.base = 4 * IntcSlot <=> s = IntcSlot
  <2>1. fetch.base \div 4 = s /\ (4 * IntcSlot) \div 4 = IntcSlot
    BY <1>2, SlotArithmetic
  <2>. QED
    BY <1>2, <2>1
<1>4. s = IntcSlot \/ i \in Guest[s]
  BY <1>1, <1>2, <1>3 DEF Decoded
<1>5. s = IntcSlot => i = [op |-> "jmp", to |-> fetch.to]
  BY <1>1, <1>2, <1>3 DEF Decoded
<1>6. Area[s] # "none" \/ s \in {IntrSlot, IntcSlot}
  BY <1>1 DEF At, InMain, InHandler, InVector, AreaAt
<1>7. s = IntrSlot => i = [op |-> "jmp", to |-> IntcSlot]
  BY <1>4 DEF Discipline, Disciplined
<1>8. Area[s] # "none" /\ s # IntcSlot => Observes(Area, Known, s, i)
  BY <1>4 DEF Discipline, Disciplined
<1>. QED
  BY <1>1, <1>2, <1>5, <1>6, <1>7, <1>8

LEMMA GuestInit == Discipline /\ Init => GuestInv
<1>. SUFFICES ASSUME Discipline, Init PROVE GuestInv
  OBVIOUS
<1>1. Registered = {} /\ Area[0] = "closed" /\ Known[0] = {} /\ 0 \in Slots
  BY SlotArithmetic DEF Registered, Init, Discipline, Disciplined
<1>2. Flow
  BY DEF Flow, Init, IntcLocked, EmptyCache
<1>3. Idle
  BY DEF Idle, Init, Resting
<1>4. At(0)
  BY <1>1, <1>3 DEF At, Where, Bound, InMain, AreaAt, Init
<1>. QED
  BY <1>1, <1>2, <1>4 DEF GuestInv, VectorsHandle, Init

-----------------------------------------------------------------------------
(* The controller's thread and the devices.                                *)

(* What they do leaves the CPU where it is, if it leaves an idle           *)
(* controller idle, and one whose interrupt was taken as it is.            *)
LEMMA SameCpu ==
  ASSUME NEW s \in Slots, At(s),
         UNCHANGED <<status, fc, pc, ret, flag, cpuAt, fetch, store>>,
         UNCHANGED <<interrupts, rfeRet, saved>>,
         Idle => Idle',
         ~unmasked /\ Resting /\ ~intrPending =>
           ~unmasked' /\ Resting' /\ ~intrPending' /\ claim' = claim
  PROVE  At(s)'
<1>1. Where(s)' /\ Bound(s)'
  BY DEF At, Where, Bound, Registered
<1>2. InMain(s) => InMain(s)'
  BY DEF InMain, AreaAt
<1>3. InHandler(s) => InHandler(s)'
  BY DEF InHandler, AreaAt, Returns
<1>4. InVector(s) => InVector(s)'
  BY DEF InVector, Returns, Unread
<1>. QED
  BY <1>1, <1>2, <1>3, <1>4 DEF At

(* A trap is taken between two instructions, in the open.                  *)
LEMMA TrapInv ==
  ASSUME Discipline, TypeInv, GuestInv, PpTrap
  PROVE  GuestInv'
<1>1. /\ ppAt = "trap" /\ cpuAt = "boundary" /\ cpuAt' = "boundary"
      /\ Trap(IntrSlot, status, fc, pc)
      /\ ppAt' = IF Lethal(fc) THEN "dead" ELSE "get"
      /\ UNCHANGED <<flag, fetch, store, cache, intrPending, num, queue,
                     unmasked, interrupts, current, raised, claim, rfeRet>>
  BY DEF PpTrap
<1>2. claim # NoNum /\ ~unmasked /\ ~intrPending /\ ~Idle /\ ~Resting
  BY <1>1 DEF GuestInv, Flow, IntcLocked, Idle, Resting
<1>3. PICK s \in Slots : At(s)
  BY <1>1 DEF GuestInv
<1>4. /\ Area[s] = "open" /\ fc = 0 /\ status.user = 0
      /\ pc = 4 * s /\ Known[s] \subseteq Registered
  BY <1>1, <1>2, <1>3
  DEF At, InMain, InHandler, InVector, AreaAt, Where, Bound
<1>5. /\ fc' = 1 /\ pc' = 4 * IntrSlot /\ ret' = 4 * s /\ ppAt' = "get"
      /\ saved' = [intr |-> status.intr, user |-> 0, pc |-> 4 * s]
      /\ status'.userPrev = 0 /\ status'.intrPrev = status.intr
      /\ status.intr \in Bit /\ 0 \in Bit /\ 4 * s \in Int
  BY <1>1, <1>4, SlotArithmetic
  DEF Trap, Lethal, Push, TypeInv, TypeOK, RegTypes, Status, Bit
<1>6. Flow' /\ VectorsHandle'
  BY <1>1, <1>2, <1>5
  DEF GuestInv, Flow, IntcLocked, Resting, VectorsHandle, Registered
<1>7. At(IntrSlot)'
  <2>1. Known[s] = Nums /\ Known[IntrSlot] = Nums /\ IntrSlot \in Slots
    BY <1>4, SlotArithmetic DEF Discipline, Disciplined
  <2>2. Where(IntrSlot)' /\ Bound(IntrSlot)'
    BY <1>1, <1>4, <1>5, <2>1 DEF Where, Bound, Registered
  <2>3. InVector(IntrSlot)'
    BY <1>1, <1>2, <1>4, <1>5 DEF InVector, Returns, Resting
  <2>. QED
    BY <2>2, <2>3 DEF At
<1>. QED
  BY <1>1, <1>6, <1>7, SlotArithmetic DEF GuestInv

LEMMA PpInv ==
  ASSUME Discipline, TypeInv, GuestInv, PpStep \/ Raise \/ UNCHANGED vars
  PROVE  GuestInv'
<1>1. CASE PpTrap
  BY <1>1, TrapInv
<1>2. CASE (PpStep /\ ~PpTrap) \/ Raise \/ UNCHANGED vars
  <2>1. UNCHANGED <<status, fc, pc, ret, flag, cpuAt, fetch, store, cache,
                    interrupts, rfeRet, saved>>
    BY <1>2
    DEF PpStep, PpTake, PpWait, PpSpurious, PpTest, PpClear, PpAccept,
        PpIgnore, PpRead, PpPend, PpAnnounce, Raise, vars, cpuVars, ghosts
  <2>2. Flow'
    <3>1. num \in Nums \/ ppAt \notin {"lock", "read"}
      BY DEF TypeInv, TypeOK
    <3>2. num # NoNum \/ ppAt \notin {"lock", "read"}
      BY <3>1, GuestAssumption
    <3>3. CASE PpTake \/ PpWait \/ PpSpurious \/ PpTest \/ PpClear
      BY <2>1, <3>3
      DEF PpTake, PpWait, PpSpurious, PpTest, PpClear, GuestInv, Flow,
          IntcLocked, Resting, Registered, ghosts
    <3>4. CASE PpAccept \/ PpIgnore
      BY <2>1, <3>1, <3>2, <3>4
      DEF PpAccept, PpIgnore, GuestInv, Flow, IntcLocked, Resting, Registered,
          ghosts
    <3>5. CASE PpRead \/ PpPend \/ PpAnnounce
      <4>1. status.intr \in Bit
        BY DEF TypeInv, TypeOK, RegTypes, Status
      <4>. QED
        BY <2>1, <3>5, <4>1
        DEF PpRead, PpPend, PpAnnounce, GuestInv, Flow, IntcLocked, Resting,
            Registered, ghosts, Bit
    <3>6. CASE Raise \/ UNCHANGED vars
      BY <2>1, <3>6
      DEF Raise, vars, GuestInv, Flow, IntcLocked, Resting, Registered, ghosts
    <3>. QED
      BY <1>2, <3>3, <3>4, <3>5, <3>6 DEF PpStep
  <2>3. ~unmasked /\ Resting /\ ~intrPending =>
          ~unmasked' /\ Resting' /\ ~intrPending' /\ claim' = claim
    BY <1>2
    DEF PpStep, PpTake, PpWait, PpSpurious, PpTest, PpClear, PpAccept,
        PpIgnore, PpRead, PpPend, PpAnnounce, Raise, vars, ghosts, Resting
  <2>4. Idle => Idle'
    BY <2>3 DEF Idle
  <2>5. \A s \in Slots : At(s) => At(s)'
    BY <2>1, <2>3, <2>4, SameCpu
  <2>. QED
    BY <2>1, <2>2, <2>5 DEF GuestInv, VectorsHandle, Registered
<1>. QED
  BY <1>1, <1>2 DEF PpStep

-----------------------------------------------------------------------------
(* The CPU thread: fetching an instruction.                                *)

(* A register write leaves the interrupt state alone.                      *)
LEMMA Written ==
  ASSUME TypeInv, Flow, NEW f, NEW p, NEW next, RegWrite(status, f, p, next)
  PROVE  /\ fc' = f /\ pc' = p /\ cpuAt' = next
         /\ UNCHANGED <<status, ret, intrPending, trapEvent, saved, clean>>
BY PlainWrite DEF Flow

LEMMA AcquireInv ==
  ASSUME Discipline, TypeInv, GuestInv, Acquire
  PROVE  GuestInv'
<1>1. /\ cpuAt = "boundary" /\ cpuAt' = "load"
      /\ fetch' = [word |-> 0, base |-> pc, torn |-> pc % 4 # 0, to |-> 0]
      /\ UNCHANGED <<status, fc, pc, ret, flag, store, cache, intrPending, ppAt,
                     unmasked, interrupts, current, claim, rfeRet, saved>>
  BY DEF Acquire, regs, intcVars, ghosts
<1>2. PICK s \in Slots : At(s)
  BY <1>1 DEF GuestInv
<1>3. fetch'.base = 4 * s /\ ~fetch'.torn /\ fetch'.word = 0
  <2>1. pc = 4 * s
    BY <1>1, <1>2 DEF At, Where
  <2>. QED
    BY <1>1, <2>1, SlotArithmetic
<1>4. Where(s)' /\ Bound(s)'
  <2>1. 4 * s + 0 = 4 * s
    BY SlotArithmetic
  <2>. QED
    BY <1>1, <1>2, <1>3, <2>1 DEF At, Where, Bound, Registered
<1>5. InMain(s) => InMain(s)'
  BY <1>1 DEF InMain, AreaAt, Idle, Resting
<1>6. InHandler(s) => InHandler(s)'
  BY <1>1 DEF InHandler, AreaAt, Returns, Idle, Resting
<1>7. InVector(s) => InVector(s)'
  BY <1>1, <1>3 DEF InVector, Returns, Unread, Resting
<1>8. Flow' /\ VectorsHandle'
  BY <1>1
  DEF GuestInv, Flow, VectorsHandle, Registered, IntcLocked, Resting
<1>. QED
  BY <1>1, <1>2, <1>4, <1>5, <1>6, <1>7, <1>8 DEF GuestInv, At

(* The place of the word that is read.                                     *)
LEMMA WordRead ==
  ASSUME TypeInv, NEW s \in Slots, Where(s), cpuAt = "load"
  PROVE  /\ fetch.word \in 0 .. 3 /\ pc \in Int
         /\ pc = 4 * s + fetch.word /\ pc \div 4 = s /\ pc % 4 = fetch.word
         /\ pc = 4 * IntcSlot + 1 <=> s = IntcSlot /\ fetch.word = 1
<1>1. fetch.word \in 0 .. 3 /\ pc = 4 * s + fetch.word
  BY DEF TypeInv, TypeOK, Where
<1>2. pc \div 4 = s /\ pc % 4 = fetch.word
  BY <1>1, SlotArithmetic
<1>3. (4 * IntcSlot + 1) \div 4 = IntcSlot /\ (4 * IntcSlot + 1) % 4 = 1
  <2>1. IntcSlot \in Slots /\ 1 \in 0 .. 3
    BY SlotArithmetic
  <2>2. \A k \in Slots : (4 * k + 1) \div 4 = k /\ (4 * k + 1) % 4 = 1
    BY <2>1, SlotArithmetic
  <2>. QED
    BY <2>1, <2>2
<1>4. pc \in Int
  BY DEF TypeInv, TypeOK, RegTypes
<1>5. pc = 4 * IntcSlot + 1 => s = IntcSlot /\ fetch.word = 1
  BY <1>2, <1>3
<1>6. s = IntcSlot /\ fetch.word = 1 => pc = 4 * IntcSlot + 1
  BY <1>1
<1>. QED
  BY <1>1, <1>2, <1>4, <1>5, <1>6

(* The CPU reads the vector of the interrupt that was accepted.            *)
LEMMA VectorRead ==
  ASSUME TypeInv, GuestInv, NEW s \in Slots, At(s), LoadWord,
         claim # NoNum, claim' = NoNum
  PROVE  /\ claim \in Registered /\ fetch'.to = interrupts[claim]
         /\ s = IntcSlot /\ fetch.word = 1
<1>1. cpuAt = "load" /\ pc = 4 * IntcSlot + 1
  BY DEF LoadWord
<1>2. s = IntcSlot /\ fetch.word = 1 /\ pc \div 4 = s /\ pc % 4 = 1
  BY <1>1, WordRead DEF At
<1>3. IntcWord(1)
  BY <1>2 DEF LoadWord
<1>4. 1 \notin cache.words /\ current = interrupts[claim]
  BY DEF GuestInv, Flow
<1>5. fetch'.to = interrupts[claim]
  <2>1. fetch' = [fetch EXCEPT !.to = current]
    BY <1>3, <1>4 DEF IntcWord
  <2>2. fetch \in [word : 0 .. 3, base : Int, torn : BOOLEAN, to : Slots]
    BY DEF TypeInv, TypeOK
  <2>. QED
    BY <1>4, <2>1, <2>2
<1>6. claim \in Registered
  <2>1. claim \in Nums /\ current \in Slots
    BY DEF TypeInv, TypeOK
  <2>. QED
    BY <1>4, <2>1, SlotArithmetic DEF Registered, Unset
<1>. QED
  BY <1>2, <1>5, <1>6

LEMMA LoadWordInv ==
  ASSUME Discipline, TypeInv, GuestInv, LoadWord
  PROVE  GuestInv'
<1>1. /\ cpuAt = "load" /\ RegWrite(status, fc, pc, "advance")
      /\ UNCHANGED <<flag, store, ppAt, unmasked, interrupts, current, rfeRet>>
      /\ claim' = IF pc = 4 * IntcSlot + 1 THEN NoNum ELSE claim
  BY DEF LoadWord, intcVars
<1>2. /\ cpuAt' = "advance"
      /\ UNCHANGED <<status, fc, pc, ret, intrPending, saved>>
  BY <1>1, Written DEF GuestInv
<1>3. PICK s \in Slots : At(s)
  BY <1>1 DEF GuestInv
<1>4. /\ fetch.word \in 0 .. 3 /\ pc \div 4 = s /\ pc % 4 = fetch.word
      /\ pc = 4 * IntcSlot + 1 <=> s = IntcSlot /\ fetch.word = 1
  BY <1>1, <1>3, WordRead DEF At
<1>5. fetch \in [word : 0 .. 3, base : Int, torn : BOOLEAN, to : Slots]
  BY DEF TypeInv, TypeOK
<1>6. /\ fetch'.word = fetch.word /\ fetch'.base = fetch.base
      /\ fetch'.torn = fetch.torn
      /\ fetch.word # 1 => fetch'.to = fetch.to
  <2>1. CASE s = IntcSlot
    <3>1. IntcWord(fetch.word)
      BY <1>4, <2>1 DEF LoadWord
    <3>. QED
      BY <1>5, <3>1 DEF IntcWord
  <2>2. CASE s # IntcSlot
    BY <1>4, <2>2 DEF LoadWord
  <2>. QED
    BY <2>1, <2>2
<1>7. Where(s)' /\ Bound(s)'
  BY <1>1, <1>2, <1>3, <1>6 DEF At, Where, Bound, Registered
<1>8. CASE s # IntcSlot
  <2>1. UNCHANGED <<fetch, cache, claim>>
    BY <1>1, <1>4, <1>8 DEF LoadWord
  <2>2. InMain(s) => InMain(s)'
    BY <1>1, <1>2, <2>1 DEF InMain, AreaAt, Idle, Resting
  <2>3. InHandler(s) => InHandler(s)'
    BY <1>1, <1>2, <2>1 DEF InHandler, AreaAt, Returns, Idle, Resting
  <2>4. InVector(s) => InVector(s)'
    BY <1>1, <1>2, <1>8, <2>1 DEF InVector, Returns, Resting
  <2>5. Flow' /\ VectorsHandle'
    BY <1>1, <1>2, <2>1
    DEF GuestInv, Flow, VectorsHandle, Registered, IntcLocked, Resting
  <2>. QED
    BY <1>2, <1>3, <1>7, <2>2, <2>3, <2>4, <2>5 DEF GuestInv, At
<1>9. CASE s = IntcSlot
  <2>1. InVector(s) /\ s # IntrSlot
    BY <1>1, <1>3, <1>9
    DEF At, InMain, InHandler, AreaAt, Discipline, Disciplined
  <2>2. InVector(s)'
    <3>1. CASE fetch.word = 0
      BY <1>1, <1>2, <1>4, <1>6, <2>1, <3>1
      DEF InVector, Returns, Unread, Resting
    <3>2. CASE fetch.word = 1
      <4>1. claim # NoNum /\ claim' = NoNum
        BY <1>1, <1>4, <1>9, <2>1, <3>2 DEF InVector, Unread
      <4>2. Area[fetch'.to] = "handler"
        BY <1>3, <4>1, VectorRead DEF GuestInv, VectorsHandle
      <4>. QED
        BY <1>1, <1>2, <1>6, <2>1, <3>2, <4>1, <4>2
        DEF InVector, Returns, Unread, Resting
    <3>3. CASE fetch.word \in 2 .. 3
      BY <1>1, <1>2, <1>4, <1>6, <2>1, <3>3
      DEF InVector, Returns, Unread, Resting
    <3>. QED
      BY <1>4, <3>1, <3>2, <3>3
  <2>3. Flow'
    <3>1. claim' # NoNum => fetch.word # 1 /\ claim' = claim
      BY <1>1, <1>4, <1>9
    <3>2. fetch.word # 1 /\ 1 \notin cache.words => 1 \notin cache'.words
      <4>1. IntcWord(fetch.word)
        BY <1>4, <1>9 DEF LoadWord
      <4>. QED
        BY <4>1 DEF IntcWord
    <3>3. ~unmasked /\ Resting
      BY <2>1 DEF InVector
    <3>. QED
      BY <1>1, <1>2, <2>1, <3>1, <3>2, <3>3
      DEF GuestInv, Flow, IntcLocked, Resting, Registered, InVector
  <2>4. VectorsHandle'
    BY <1>1 DEF GuestInv, VectorsHandle, Registered
  <2>. QED
    BY <1>2, <1>7, <2>2, <2>3, <2>4 DEF GuestInv, At
<1>. QED
  BY <1>8, <1>9

LEMMA AdvanceInv ==
  ASSUME Discipline, TypeInv, GuestInv, Advance
  PROVE  GuestInv'
<1>. DEFINE next == IF fetch.word = 3 THEN "exec" ELSE "load"
<1>1. /\ cpuAt = "advance" /\ RegWrite(status, fc, pc + 1, next)
      /\ UNCHANGED <<flag, store, cache, ppAt, unmasked, interrupts, current,
                     claim, rfeRet>>
  BY DEF Advance, intcVars
<1>2. /\ cpuAt' = next /\ pc' = pc + 1
      /\ UNCHANGED <<status, fc, ret, intrPending, saved>>
  BY <1>1, Written DEF GuestInv
<1>3. PICK s \in Slots : At(s)
  BY <1>1 DEF GuestInv
<1>4. /\ fetch.base = 4 * s /\ ~fetch.torn /\ pc = 4 * s + fetch.word
      /\ fetch.word \in 0 .. 3 /\ 4 * s \in Int
  BY <1>1, <1>3, SlotArithmetic DEF At, Where, TypeInv, TypeOK
<1>5. /\ fetch'.base = fetch.base /\ ~fetch'.torn /\ fetch'.to = fetch.to
      /\ fetch.word # 3 => fetch'.word = fetch.word + 1
  <2>1. fetch \in [word : 0 .. 3, base : Int, torn : BOOLEAN, to : Slots]
    BY DEF TypeInv, TypeOK
  <2>2. pc' = fetch.base + fetch.word + 1
    BY <1>2, <1>4
  <2>3. CASE fetch.word = 3
    BY <1>4, <2>3 DEF Advance
  <2>4. CASE fetch.word # 3
    <3>1. fetch' = [fetch EXCEPT !.word = @ + 1, !.torn = @ \/ FALSE]
      BY <2>2, <2>4 DEF Advance
    <3>. QED
      BY <1>4, <2>1, <3>1
  <2>. QED
    BY <2>3, <2>4
<1>6. Where(s)'
  <2>1. CASE fetch.word = 3
    BY <1>2, <1>4, <1>5, <2>1 DEF Where
  <2>2. CASE fetch.word # 3
    <3>1. pc' = 4 * s + fetch'.word
      BY <1>2, <1>4, <1>5, <2>2
    <3>. QED
      BY <1>2, <1>4, <1>5, <2>2, <3>1 DEF Where
  <2>. QED
    BY <2>1, <2>2
<1>7. Bound(s)'
  BY <1>1, <1>2, <1>3 DEF At, Bound, Registered
<1>8. InMain(s) => InMain(s)'
  BY <1>1, <1>2 DEF InMain, AreaAt, Idle, Resting
<1>9. InHandler(s) => InHandler(s)'
  BY <1>1, <1>2 DEF InHandler, AreaAt, Returns, Idle, Resting
<1>10. InVector(s) => InVector(s)'
  <2>1. Unread <=> Unread'
    BY <1>1, <1>2, <1>4, <1>5 DEF Unread
  <2>. QED
    BY <1>1, <1>2, <1>5, <2>1 DEF InVector, Returns, Resting
<1>11. Flow' /\ VectorsHandle'
  BY <1>1, <1>2
  DEF GuestInv, Flow, VectorsHandle, Registered, IntcLocked, Resting
<1>. QED
  BY <1>2, <1>3, <1>6, <1>7, <1>8, <1>9, <1>10, <1>11 DEF GuestInv, At

LEMMA NeverFails ==
  ASSUME Discipline, TypeInv, GuestInv
  PROVE  ~FetchFails
<1>. SUFFICES ASSUME FetchFails PROVE FALSE
  OBVIOUS
<1>1. cpuAt = "load" /\ pc \div 4 \notin Slots
  BY DEF FetchFails
<1>2. PICK s \in Slots : At(s)
  BY <1>1 DEF GuestInv
<1>. QED
  BY <1>1, <1>2, WordRead DEF At

-----------------------------------------------------------------------------
(* The CPU thread: executing an instruction.                               *)

(* An instruction that is followed by the next one in memory.              *)
LEMMA Falls ==
  ASSUME Discipline, TypeInv, NEW s \in Slots, At(s),
         NEW op, op \notin {"jmp", "halt"}, NEW i \in Exec(op)
  PROVE  /\ cpuAt = "exec" /\ i \in Instr /\ i.op = op
         /\ Area[s] # "none" /\ Observes(Area, Known, s, i)
         /\ \/ op = "rfe" /\ Area[s] = "handler"
            \/ /\ s + 1 \in Slots /\ pc = 4 * (s + 1)
               /\ MayFall(Area[s], i, Area[s + 1])
               /\ Known[s + 1] \subseteq VectorsAfter(Known[s], i)
<1>1. /\ cpuAt = "exec" /\ i \in Instr /\ i.op = op /\ pc = 4 * s + 4
      /\ Area[s] # "none" /\ Observes(Area, Known, s, i)
  BY Executed
<1>2. 4 * s + 4 = 4 * (s + 1)
  BY SlotArithmetic
<1>. QED
  BY <1>1, <1>2 DEF Observes, Leaves

(* A place in the program is in the main program or in a handler.          *)
LEMMA InProgram ==
  ASSUME Discipline, NEW s \in Slots, At(s), cpuAt # "store", Area[s] # "none"
  PROVE  /\ Area[s] = "handler" => InHandler(s)
         /\ Area[s] # "handler" => InMain(s)
         /\ Known[s] \subseteq Registered
BY DEF At, InMain, InHandler, InVector, AreaAt, Bound, Discipline, Disciplined

(* The CPU moves on within its area, or to another that may follow it.     *)
LEMMA MoveInv ==
  ASSUME Discipline, TypeInv, GuestInv,
         NEW s \in Slots, At(s), cpuAt = "exec", Area[s] # "none",
         NEW t \in Slots, pc' = 4 * t, Known[t] \subseteq Known[s],
         cpuAt' \in {"boundary", "waiting"},
         cpuAt' = "waiting" => Area[s] # "handler",
         UNCHANGED <<status, fc, ret, cache, intrPending, ppAt, unmasked,
                     interrupts, current, claim, rfeRet, saved>>,
         \/ Area[t] = Area[s] /\ (flag' = flag \/ Area[s] = "handler")
         \/ Area[s] = "open" /\ Area[t] = "noted" /\ flag = 1 /\ flag' = flag
         \/ Area[s] \in {"closed", "noted"} /\ Area[t] = "closed" /\ flag' = 0
  PROVE  GuestInv'
<1>1. Flow' /\ VectorsHandle'
  BY DEF GuestInv, Flow, VectorsHandle, Registered, IntcLocked, Resting
<1>2. Where(t)' /\ Bound(t)'
  BY InProgram DEF Where, Bound, Registered
<1>3. Area[s] = "handler" => InHandler(t)'
  BY InProgram DEF InHandler, AreaAt, Returns, Idle, Resting
<1>4. Area[s] # "handler" => InMain(t)'
  BY InProgram DEF InMain, AreaAt, Idle, Resting
<1>. QED
  BY <1>1, <1>2, <1>3, <1>4 DEF GuestInv, At

LEMMA NopInv ==
  ASSUME Discipline, TypeInv, GuestInv, Nop \/ Alu \/ Wait
  PROVE  GuestInv'
<1>1. PICK op \in {"nop", "alu", "wait"} :
        /\ Exec(op) # {} /\ cpuAt' = IF op = "wait" THEN "waiting" ELSE "boundary"
        /\ UNCHANGED <<pc, flag, status, fc, ret, cache, intrPending, ppAt,
                       unmasked, interrupts, current, claim, rfeRet, saved>>
  <2>1. CASE Nop \/ Wait
    BY <2>1 DEF Nop, Wait, regs, intcVars, ghosts
  <2>2. CASE Alu
    BY <2>2, Written DEF Alu, intcVars, GuestInv
  <2>. QED
    BY <2>1, <2>2
<1>2. PICK i : i \in Exec(op)
  BY <1>1
<1>3. PICK s \in Slots : At(s)
  BY <1>2 DEF GuestInv, Exec
<1>4. /\ cpuAt = "exec" /\ Area[s] # "none"
      /\ s + 1 \in Slots /\ pc = 4 * (s + 1)
      /\ MayFall(Area[s], i, Area[s + 1]) /\ i.op = op
      /\ Known[s + 1] \subseteq Known[s]
  BY <1>1, <1>2, <1>3, Falls DEF VectorsAfter
<1>. QED
  BY <1>1, <1>3, <1>4, MoveInv DEF MayFall

LEMMA SetFlagInv ==
  ASSUME Discipline, TypeInv, GuestInv, SetFlag
  PROVE  GuestInv'
<1>1. PICK i \in Exec("flag") :
        /\ flag' = i.val /\ RegWrite(status, fc, pc, "boundary")
        /\ UNCHANGED <<cache, intcVars, claim, rfeRet>>
  BY DEF SetFlag
<1>2. /\ cpuAt' = "boundary"
      /\ UNCHANGED <<pc, status, fc, ret, cache, intrPending, ppAt,
                     unmasked, interrupts, current, claim, rfeRet, saved>>
  BY <1>1, Written DEF GuestInv, intcVars
<1>3. PICK s \in Slots : At(s)
  BY <1>1 DEF GuestInv, Exec
<1>4. /\ cpuAt = "exec" /\ Area[s] # "none"
      /\ s + 1 \in Slots /\ pc = 4 * (s + 1)
      /\ MayFall(Area[s], i, Area[s + 1]) /\ i.op = "flag"
      /\ Known[s + 1] \subseteq Known[s]
  BY <1>1, <1>3, Falls DEF VectorsAfter
<1>. QED
  BY <1>1, <1>2, <1>3, <1>4, MoveInv DEF MayFall

LEMMA BranchInv ==
  ASSUME Discipline, TypeInv, GuestInv, Branch
  PROVE  GuestInv'
<1>1. PICK i \in Exec("brz") :
        /\ IF flag = 0
           THEN RegWrite(status, fc, 4 * i.to, "boundary")
           ELSE /\ cpuAt' = "boundary"
                /\ UNCHANGED <<regs, intrPending, trapEvent, saved, clean>>
        /\ UNCHANGED <<flag, cache, intcVars, claim, rfeRet>>
  BY DEF Branch
<1>2. /\ cpuAt' = "boundary" /\ pc' = IF flag = 0 THEN 4 * i.to ELSE pc
      /\ UNCHANGED <<flag, status, fc, ret, cache, intrPending, ppAt,
                     unmasked, interrupts, current, claim, rfeRet, saved>>
  <2>1. CASE flag = 0
    BY <1>1, <2>1, Written DEF GuestInv, intcVars
  <2>2. CASE flag # 0
    BY <1>1, <2>2 DEF regs, intcVars
  <2>. QED
    BY <2>1, <2>2
<1>3. PICK s \in Slots : At(s)
  BY <1>1 DEF GuestInv, Exec
<1>4. /\ cpuAt = "exec" /\ Area[s] # "none" /\ i.op = "brz" /\ i \in Instr
      /\ Observes(Area, Known, s, i)
      /\ s + 1 \in Slots /\ pc = 4 * (s + 1)
      /\ MayFall(Area[s], i, Area[s + 1])
      /\ Known[s + 1] \subseteq Known[s]
  BY <1>1, <1>3, Falls DEF VectorsAfter
<1>5. CASE flag = 0
  <2>1. i.to \in Slots /\ Area[i.to] = Area[s] /\ Known[i.to] \subseteq Known[s]
    BY <1>4, InstrParts DEF Observes
  <2>. QED
    BY <1>2, <1>3, <1>4, <1>5, <2>1, MoveInv
<1>6. CASE flag # 0
  <2>1. flag = 1
    BY <1>6 DEF TypeInv, TypeOK, Bit
  <2>. QED
    BY <1>2, <1>3, <1>4, <2>1, MoveInv DEF MayFall
<1>. QED
  BY <1>5, <1>6

(* The jump of the interrupt's vector, and the controller's to the handler,*)
(* are the only ones that leave an area.                                   *)
LEMMA JumpInv ==
  ASSUME Discipline, TypeInv, GuestInv, Jump
  PROVE  GuestInv'
<1>1. PICK i \in Exec("jmp") :
        /\ RegWrite(status, fc, 4 * i.to, "boundary")
        /\ UNCHANGED <<flag, cache, intcVars, claim, rfeRet>>
  BY DEF Jump
<1>2. /\ cpuAt' = "boundary" /\ pc' = 4 * i.to
      /\ UNCHANGED <<flag, status, fc, ret, cache, intrPending, ppAt,
                     unmasked, interrupts, current, claim, rfeRet, saved>>
  BY <1>1, Written DEF GuestInv, intcVars
<1>3. PICK s \in Slots : At(s)
  BY <1>1 DEF GuestInv, Exec
<1>4. /\ cpuAt = "exec" /\ i.op = "jmp" /\ i \in Instr /\ i.to \in Slots
      /\ \/ Area[s] # "none" /\ Observes(Area, Known, s, i)
         \/ s = IntrSlot /\ i.to = IntcSlot
         \/ s = IntcSlot /\ i.to = fetch.to
  BY <1>1, <1>3, Executed, InstrParts
<1>5. CASE Area[s] # "none" /\ Observes(Area, Known, s, i)
  BY <1>2, <1>3, <1>4, <1>5, MoveInv DEF Observes
<1>6. CASE s \in {IntrSlot, IntcSlot}
  <2>1. InVector(s) /\ Nums \subseteq Registered /\ IntrSlot # IntcSlot
    <3>1. Area[s] = "none" /\ Known[s] = Nums /\ IntrSlot # IntcSlot
      BY <1>6 DEF Discipline, Disciplined
    <3>. QED
      BY <1>3, <1>4, <3>1 DEF At, InMain, InHandler, AreaAt, Bound
  <2>2. Flow' /\ VectorsHandle'
    BY <1>2 DEF GuestInv, Flow, VectorsHandle, Registered, IntcLocked, Resting
  <2>3. Where(i.to)' /\ Bound(i.to)'
    <3>1. Known[i.to] \subseteq Nums
      BY <1>4 DEF Discipline, Disciplined
    <3>. QED
      BY <1>2, <1>4, <2>1, <3>1 DEF Where, Bound, Registered
  <2>4. CASE s = IntrSlot
    <3>1. i.to = IntcSlot
      BY <1>4, <2>1, <2>4 DEF Discipline, Disciplined
    <3>2. InVector(i.to)'
      BY <1>2, <2>1, <2>4, <3>1 DEF InVector, Returns, Unread, Resting
    <3>. QED
      BY <1>2, <1>4, <2>2, <2>3, <3>2 DEF GuestInv, At
  <2>5. CASE s = IntcSlot
    <3>1. i.to = fetch.to /\ Area[i.to] = "handler"
      BY <1>4, <2>1, <2>5 DEF InVector, Unread, Discipline, Disciplined
    <3>2. Returns /\ Idle
      BY <1>4, <2>1, <2>5 DEF InVector, Unread, Idle
    <3>3. InHandler(i.to)'
      BY <1>2, <1>4, <3>1, <3>2 DEF InHandler, AreaAt, Returns, Idle, Resting
    <3>. QED
      BY <1>2, <1>4, <2>2, <2>3, <3>3 DEF GuestInv, At
  <2>. QED
    BY <1>6, <2>4, <2>5
<1>. QED
  BY <1>4, <1>5, <1>6

-----------------------------------------------------------------------------
(* The CPU thread: writing REG_STATUS, rfe, wait and halt.                 *)

LEMMA WriteStatusInv ==
  ASSUME Discipline, TypeInv, GuestInv, WriteStatus
  PROVE  GuestInv'
<1>1. PICK i \in Exec("stat") :
        /\ status' = i.val /\ cpuAt' = "check"
        /\ UNCHANGED <<fc, pc, ret, flag, cache, intrPending, ppAt, unmasked,
                       interrupts, current, claim, rfeRet>>
  BY DEF WriteStatus, intcVars
<1>2. PICK s \in Slots : At(s)
  BY <1>1 DEF GuestInv, Exec
<1>3. /\ cpuAt = "exec" /\ Area[s] = "closed" /\ i.val.user = 0
      /\ s + 1 \in Slots /\ pc = 4 * (s + 1) /\ Area[s + 1] = "closed"
      /\ Known[s + 1] \subseteq Known[s]
  BY <1>1, <1>2, Falls DEF MayFall, Observes, VectorsAfter
<1>4. InMain(s) /\ Known[s] \subseteq Registered
  BY <1>2, <1>3, InProgram
<1>5. Idle /\ flag = 0 /\ fc = 0
  BY <1>3, <1>4 DEF InMain, AreaAt
<1>6. Flow' /\ VectorsHandle'
  BY <1>1, <1>5
  DEF GuestInv, Flow, VectorsHandle, Registered, IntcLocked, Idle, Resting
<1>7. Where(s + 1)' /\ Bound(s + 1)'
  BY <1>1, <1>3, <1>4 DEF Where, Bound, Registered
<1>8. InMain(s + 1)'
  BY <1>1, <1>3, <1>5 DEF InMain, AreaAt, Idle, Resting
<1>. QED
  BY <1>1, <1>3, <1>6, <1>7, <1>8 DEF GuestInv, At

(* The write to REG_STATUS is over, or the CPU wakes: it stays there.      *)
LEMMA ResumeInv ==
  ASSUME Discipline, TypeInv, GuestInv, CheckPending \/ Wake
  PROVE  GuestInv'
<1>1. /\ cpuAt \in {"check", "waiting"} /\ cpuAt' = "boundary"
      /\ UNCHANGED <<status, fc, pc, ret, flag, fetch, store, cache,
                     intrPending, ppAt, unmasked, interrupts, current, claim,
                     rfeRet>>
  <2>1. CASE CheckPending
    BY <2>1, Written DEF GuestInv, CheckPending, intcVars
  <2>2. CASE Wake
    BY <2>2 DEF Wake, regs, intcVars, ghosts
  <2>. QED
    BY <2>1, <2>2
<1>2. PICK s \in Slots : At(s)
  BY <1>1 DEF GuestInv
<1>3. InMain(s)
  BY <1>1, <1>2 DEF At, InHandler, InVector
<1>4. Flow' /\ VectorsHandle'
  BY <1>1 DEF GuestInv, Flow, VectorsHandle, Registered, IntcLocked, Resting
<1>5. Where(s)' /\ Bound(s)'
  BY <1>1, <1>2 DEF At, Where, Bound, Registered
<1>6. InMain(s)'
  BY <1>1, <1>3 DEF InMain, AreaAt, Idle, Resting
<1>. QED
  BY <1>1, <1>4, <1>5, <1>6 DEF GuestInv, At

LEMMA RfeInv ==
  ASSUME Discipline, TypeInv, GuestInv, Rfe
  PROVE  GuestInv'
<1>1. /\ Exec("rfe") # {} /\ status' = Pop(status) /\ cpuAt' = "rfe2"
      /\ rfeRet' = ret
      /\ UNCHANGED <<fc, pc, ret, flag, cache, intrPending, ppAt, unmasked,
                     interrupts, current, claim, saved>>
  BY DEF Rfe, intcVars
<1>2. PICK i : i \in Exec("rfe")
  BY <1>1
<1>3. PICK s \in Slots : At(s)
  BY <1>2 DEF GuestInv, Exec
<1>4. cpuAt = "exec" /\ Area[s] = "handler"
  BY <1>2, <1>3, Falls DEF MayFall
<1>5. InHandler(s) /\ Known[s] \subseteq Registered /\ Idle
  BY <1>3, <1>4, InProgram DEF InHandler
<1>6. status'.user = status.userPrev /\ status'.intr = status.intrPrev
  BY <1>1 DEF TypeInv, TypeOK, RegTypes, Status, Pop
<1>7. Flow' /\ VectorsHandle'
  BY <1>1, <1>5
  DEF GuestInv, Flow, VectorsHandle, Registered, IntcLocked, Idle, Resting
<1>8. Where(s)' /\ Bound(s)'
  BY <1>1, <1>5 DEF Where, Bound, Registered
<1>9. InHandler(s)'
  BY <1>1, <1>4, <1>5, <1>6 DEF InHandler, AreaAt, Returns, Idle, Resting
<1>. QED
  BY <1>1, <1>7, <1>8, <1>9 DEF GuestInv, At

LEMMA RfeCountInv ==
  ASSUME Discipline, TypeInv, GuestInv, RfeCount
  PROVE  GuestInv'
<1>1. /\ cpuAt = "rfe2"
      /\ RegWrite(status, IF fc > 0 THEN fc - 1 ELSE 0, pc, "rfe3")
      /\ UNCHANGED <<flag, fetch, store, cache, ppAt, unmasked, interrupts,
                     current, claim, rfeRet>>
  BY DEF RfeCount, intcVars
<1>2. PICK s \in Slots : At(s)
  BY <1>1 DEF GuestInv
<1>3. InHandler(s) /\ Area[s] = "handler" /\ fc = 1 /\ Idle
  BY <1>1, <1>2 DEF At, InMain, InHandler, InVector, AreaAt, Returns
<1>4. /\ fc' = 0 /\ cpuAt' = "rfe3"
      /\ UNCHANGED <<status, pc, ret, intrPending, saved>>
  BY <1>1, <1>3, Written DEF GuestInv
<1>5. Flow' /\ VectorsHandle'
  BY <1>1, <1>4
  DEF GuestInv, Flow, VectorsHandle, Registered, IntcLocked, Resting
<1>6. Where(s)' /\ Bound(s)'
  BY <1>1, <1>2, <1>4 DEF At, Where, Bound, Registered
<1>7. InHandler(s)'
  BY <1>1, <1>3, <1>4 DEF InHandler, AreaAt, Returns, Idle, Resting
<1>. QED
  BY <1>4, <1>5, <1>6, <1>7 DEF GuestInv, At

(* The handler returns to the open area it was called from.                *)
LEMMA RfeReturnInv ==
  ASSUME Discipline, TypeInv, GuestInv, RfeReturn
  PROVE  GuestInv'
<1>1. /\ cpuAt = "rfe3" /\ RegWrite(status, fc, ret, "boundary")
      /\ UNCHANGED <<flag, fetch, store, cache, ppAt, unmasked, interrupts,
                     current, claim, rfeRet>>
  BY DEF RfeReturn, intcVars
<1>2. /\ pc' = ret /\ cpuAt' = "boundary"
      /\ UNCHANGED <<status, fc, ret, intrPending>>
  BY <1>1, Written DEF GuestInv
<1>3. PICK s \in Slots : At(s)
  BY <1>1 DEF GuestInv
<1>4. /\ Area[s] = "handler" /\ fc = 0 /\ Idle /\ status.user = 0
      /\ Known[s] \subseteq Registered /\ Returns
  BY <1>1, <1>3 DEF At, InMain, InHandler, InVector, AreaAt, Returns, Bound
<1>5. PICK r \in Slots : ret = 4 * r /\ Area[r] = "open"
  BY <1>4 DEF Returns
<1>6. Flow' /\ VectorsHandle'
  BY <1>1, <1>2
  DEF GuestInv, Flow, VectorsHandle, Registered, IntcLocked, Resting
<1>7. Known[s] = Nums /\ Known[r] = Nums
  BY <1>4, <1>5 DEF Discipline, Disciplined
<1>8. Where(r)' /\ Bound(r)'
  BY <1>1, <1>2, <1>4, <1>5, <1>7 DEF Where, Bound, Registered
<1>9. InMain(r)'
  BY <1>1, <1>2, <1>4, <1>5 DEF InMain, AreaAt, Idle, Resting
<1>. QED
  BY <1>2, <1>6, <1>8, <1>9 DEF GuestInv, At

LEMMA HaltInv ==
  ASSUME Discipline, TypeInv, GuestInv, Halt
  PROVE  GuestInv'
<1>1. /\ cpuAt' = "halted"
      /\ UNCHANGED <<status, fc, pc, ret, flag, cache, intrPending, ppAt,
                     unmasked, interrupts, current, claim>>
  BY DEF Halt, regs, intcVars, ghosts
<1>. QED
  BY <1>1
  DEF GuestInv, Flow, VectorsHandle, Registered, IntcLocked, Resting

(* What a disciplined guest never executes, and the CPU never gets to.     *)
LEMMA NeverIll ==
  ASSUME Discipline, TypeInv, GuestInv
  PROVE  ~(WriteRet \/ PrivilegeFault \/ PrivilegeTrap \/ Fault \/ SoftIntr)
<1>. SUFFICES ASSUME WriteRet \/ PrivilegeFault \/ PrivilegeTrap \/ Fault
                       \/ SoftIntr
              PROVE  FALSE
  OBVIOUS
<1>1. ~PrivilegeTrap
  BY DEF PrivilegeTrap, GuestInv
<1>2. PICK op \in {"ret", "stat", "fault", "intr"} :
        Exec(op) # {} /\ (op = "stat" => status.user = 1)
  BY <1>1 DEF WriteRet, PrivilegeFault, Fault, SoftIntr
<1>3. PICK i : i \in Exec(op)
  BY <1>2
<1>4. PICK s \in Slots : At(s)
  BY <1>3 DEF GuestInv, Exec
<1>5. cpuAt = "exec" /\ op = "stat" /\ Area[s] = "closed"
  BY <1>2, <1>3, <1>4, Falls DEF MayFall
<1>6. status.user = 0
  BY <1>4, <1>5, InProgram DEF InMain
<1>. QED
  BY <1>2, <1>5, <1>6

-----------------------------------------------------------------------------
(* The CPU thread: stores to the controller.                               *)

LEMMA BeginStoreInv ==
  ASSUME Discipline, TypeInv, GuestInv, BeginStore
  PROVE  GuestInv'
<1>1. PICK op \in StoreOps : \E i \in Exec(op) : store' = i
  BY DEF BeginStore
<1>2. PICK i \in Exec(op) : store' = i
  BY <1>1
<1>3. /\ cpuAt' = "store" /\ op \in {"mask", "add", "del", "trigger"}
      /\ UNCHANGED <<pc, flag, status, fc, ret, fetch, cache, intrPending, ppAt,
                     unmasked, interrupts, current, claim, rfeRet, saved>>
  BY DEF BeginStore, StoreOps, regs, intcVars, ghosts
<1>4. PICK s \in Slots : At(s)
  BY <1>2 DEF GuestInv, Exec
<1>. DEFINE t == s + 1
<1>5. /\ cpuAt = "exec" /\ i.op = op
      /\ Area[s] # "none" /\ Observes(Area, Known, s, i)
      /\ t \in Slots /\ pc = 4 * t /\ MayFall(Area[s], i, Area[t])
      /\ Known[t] \subseteq VectorsAfter(Known[s], i)
  BY <1>2, <1>3, <1>4, Falls
<1>. HIDE DEF t
<1>6. Flow' /\ VectorsHandle'
  BY <1>3 DEF GuestInv, Flow, VectorsHandle, Registered, IntcLocked, Resting
<1>7. Where(t)' /\ Bound(t)'
  <2>1. Known[s] \subseteq Registered /\ Registered' = Registered
    BY <1>3, <1>4, <1>5, InProgram DEF Registered
  <2>2. Known[t] \subseteq VectorsAfter(Registered, i)
    BY <1>5, <2>1 DEF VectorsAfter
  <2>. QED
    BY <1>2, <1>3, <1>5, <2>1, <2>2 DEF Where, Bound
<1>8. CASE Area[s] = "handler"
  <2>1. op = "trigger" /\ Area[t] = "handler" /\ InHandler(s)
    BY <1>3, <1>4, <1>5, <1>8, InProgram DEF MayFall
  <2>2. InHandler(t)'
    BY <1>2, <1>3, <1>5, <2>1 DEF InHandler, AreaAt, Returns, Idle, Resting
  <2>. QED
    BY <1>3, <1>5, <1>6, <1>7, <2>2 DEF GuestInv, At
<1>9. CASE Area[s] # "handler"
  <2>1. InMain(s)
    BY <1>4, <1>5, <1>9, InProgram
  <2>2. CASE op = "mask"
    <3>1. i.bytes = <<0>> /\ Area[s] = "closed" /\ Area[t] = "open"
      BY <1>5, <2>2 DEF MayFall
    <3>2. InMain(t)'
      BY <1>2, <1>3, <1>5, <2>1, <2>2, <3>1 DEF InMain, AreaAt, Idle, Resting
    <3>. QED
      BY <1>3, <1>5, <1>6, <1>7, <3>2 DEF GuestInv, At
  <2>3. CASE op # "mask"
    <3>1. /\ Area[t] = Area[s]
          /\ op \in {"add", "del"} => Area[s] = "closed"
          /\ op = "add" => Area[i.vec] = "handler"
      BY <1>3, <1>5, <2>3 DEF MayFall, Observes
    <3>2. InMain(t)'
      BY <1>2, <1>3, <1>5, <2>1, <2>3, <3>1 DEF InMain, AreaAt, Idle, Resting
    <3>. QED
      BY <1>3, <1>5, <1>6, <1>7, <3>2 DEF GuestInv, At
  <2>. QED
    BY <2>2, <2>3
<1>. QED
  BY <1>8, <1>9

(* The last byte of a store, and the only one of a disciplined guest's,    *)
(* unmasks the controller: what was closed is open now.                    *)
LEMMA StoreMaskInv ==
  ASSUME Discipline, TypeInv, GuestInv, StoreMaskByte \/ StoreLastMaskByte
  PROVE  GuestInv'
<1>1. cpuAt = "store" /\ store.op = "mask"
  BY DEF StoreMaskByte, StoreLastMaskByte, Storing
<1>2. PICK s \in Slots : At(s)
  BY <1>1 DEF GuestInv
<1>3. /\ InMain(s) /\ store.bytes = <<0>> /\ Area[s] = "open" /\ pc = 4 * s
      /\ AreaAt(s) = "closed"
  BY <1>1, <1>2 DEF At, InMain, InHandler, InVector, AreaAt, Where
<1>4. Idle /\ flag = 0 /\ fc = 0 /\ status.user = 0
  BY <1>3 DEF InMain
<1>5. Nums \subseteq Registered
  BY <1>1, <1>2, <1>3 DEF At, Bound, VectorsAfter, Discipline, Disciplined
<1>6. Len(store.bytes) = 1 /\ Head(store.bytes) = 0
  BY <1>3
<1>7. /\ unmasked' /\ ppAt' = IF ppAt = "blocked" THEN "test" ELSE ppAt
      /\ cache'.words = {} /\ cpuAt' = "boundary"
      /\ UNCHANGED <<status, fc, pc, ret, flag, intrPending, interrupts, current,
                     claim>>
  <2>1. StoreLastMaskByte
    BY <1>6 DEF StoreMaskByte
  <2>2. unmasked' /\ ppAt' = IF ppAt = "blocked" THEN "test" ELSE ppAt
    BY <1>6, <2>1 DEF StoreLastMaskByte, SetUnmasked
  <2>. QED
    BY <2>1, <2>2 DEF StoreLastMaskByte, EndStore, EmptyCache, regs, ghosts
<1>8. Flow' /\ VectorsHandle'
  BY <1>4, <1>5, <1>7
  DEF GuestInv, Flow, VectorsHandle, Registered, IntcLocked, Idle, Resting
<1>9. Known[s] = Nums
  BY <1>3 DEF Discipline, Disciplined
<1>10. Where(s)' /\ Bound(s)' /\ InMain(s)'
  BY <1>3, <1>4, <1>5, <1>7, <1>9
  DEF Where, Bound, Registered, InMain, AreaAt
<1>. QED
  BY <1>7, <1>8, <1>10 DEF GuestInv, At

LEMMA StoreVectorInv ==
  ASSUME Discipline, TypeInv, GuestInv, AddVector \/ DeleteVector
  PROVE  GuestInv'
<1>1. /\ cpuAt = "store" /\ store.op \in {"add", "del"} /\ cpuAt' = "boundary"
      /\ interrupts' =
           [interrupts EXCEPT ![store.num] =
              IF store.op = "add" THEN store.vec ELSE Unset]
      /\ cache'.words = {}
      /\ UNCHANGED <<status, fc, pc, ret, flag, intrPending, ppAt, unmasked,
                     current, claim>>
  BY DEF AddVector, DeleteVector, Storing, EndStore, EmptyCache, regs, ghosts
<1>2. PICK s \in Slots : At(s)
  BY <1>1 DEF GuestInv
<1>3. /\ InMain(s) /\ Area[s] = "closed" /\ pc = 4 * s
      /\ store.op = "add" => Area[store.vec] = "handler"
  BY <1>1, <1>2 DEF At, InMain, InHandler, InVector, AreaAt, Where
<1>4. Idle /\ flag = 0 /\ fc = 0 /\ status.user = 0
  BY <1>1, <1>3 DEF InMain, AreaAt
<1>5. /\ store.num \in Nums /\ interrupts \in [Nums -> Slots \cup {Unset}]
      /\ store.op = "add" => store.vec # Unset
  <2>1. store \in Instr /\ interrupts \in [Nums -> Slots \cup {Unset}]
    BY DEF TypeInv, TypeOK
  <2>2. Slots \subseteq Nat
    BY SlotArithmetic
  <2>3. store.num \in Nums /\ (store.op = "add" => store.vec \in Slots)
    BY <1>1, <2>1, InstrParts
  <2>. QED
    BY <2>1, <2>2, <2>3 DEF Unset
<1>6. Registered' = VectorsAfter(Registered, store)
  BY <1>1, <1>5 DEF Registered, VectorsAfter
<1>7. VectorsHandle'
  BY <1>1, <1>3, <1>5 DEF VectorsHandle, Registered, GuestInv
<1>8. Flow'
  BY <1>1, <1>4 DEF GuestInv, Flow, IntcLocked, Idle, Resting
<1>9. Where(s)' /\ Bound(s)'
  BY <1>1, <1>2, <1>3, <1>6 DEF At, Where, Bound
<1>10. InMain(s)'
  BY <1>1, <1>3, <1>4 DEF InMain, AreaAt, Idle, Resting
<1>. QED
  BY <1>1, <1>7, <1>8, <1>9, <1>10 DEF GuestInv, At

LEMMA TriggerInv ==
  ASSUME Discipline, TypeInv, GuestInv, Trigger
  PROVE  GuestInv'
<1>1. /\ cpuAt = "store" /\ store.op = "trigger" /\ cpuAt' = "boundary"
      /\ cache'.words = {}
      /\ UNCHANGED <<status, fc, pc, ret, flag, intrPending, ppAt, unmasked,
                     interrupts, current, claim, saved>>
  BY DEF Trigger, Storing, EndStore, EmptyCache, regs, ghosts
<1>2. PICK s \in Slots : At(s)
  BY <1>1 DEF GuestInv
<1>3. AreaAt(s) = Area[s] /\ Known[s] \subseteq Registered /\ pc = 4 * s
  BY <1>1, <1>2 DEF At, AreaAt, Bound, VectorsAfter, Where
<1>4. Flow' /\ VectorsHandle'
  BY <1>1 DEF GuestInv, Flow, VectorsHandle, Registered, IntcLocked, Resting
<1>5. Where(s)' /\ Bound(s)'
  BY <1>1, <1>3 DEF Where, Bound, Registered
<1>6. InMain(s) => InMain(s)'
  BY <1>1, <1>3 DEF InMain, AreaAt, Idle, Resting
<1>7. InHandler(s) => InHandler(s)'
  BY <1>1, <1>3 DEF InHandler, AreaAt, Returns, Idle, Resting
<1>. QED
  BY <1>1, <1>2, <1>4, <1>5, <1>6, <1>7 DEF GuestInv, At, InVector

LEMMA GuestNext ==
  Discipline /\ TypeInv /\ GuestInv /\ [Next]_vars => GuestInv'
<1>. SUFFICES ASSUME Discipline, TypeInv, GuestInv, [Next]_vars
              PROVE  GuestInv'
  OBVIOUS
<1>1. CASE CpuStep
  BY <1>1, AcquireInv, LoadWordInv, AdvanceInv, NeverFails, NopInv,
     SetFlagInv, JumpInv, BranchInv, WriteStatusInv, ResumeInv, NeverIll,
     RfeInv, RfeCountInv, RfeReturnInv, HaltInv, BeginStoreInv, StoreMaskInv,
     StoreVectorInv, TriggerInv
  DEF CpuStep
<1>2. CASE PpStep \/ Raise \/ Ended \/ UNCHANGED vars
  BY <1>2, PpInv DEF Ended
<1>. QED
  BY <1>1, <1>2 DEF Next

-----------------------------------------------------------------------------
(* The theorems.                                                           *)

LEMMA GuestAlways ==
  ASSUME Discipline
  PROVE  Spec => [](TypeInv /\ GuestInv)
<1>. QED
  BY TypeInit, TypeNext, GuestInit, GuestNext, PTL DEF Spec

(* The words of an instruction never come from two places, for every       *)
(* disciplined guest: an interrupt is only taken between two instructions. *)
THEOREM NoTornFetchHolds ==
  ASSUME Discipline
  PROVE  Spec => []NoTornFetch
<1>1. GuestInv => NoTornFetch
  BY DEF GuestInv, At, Where, NoTornFetch
<1>. QED
  BY <1>1, GuestAlways, PTL

(* README:53, for every disciplined guest: the enable bit the controller's *)
(* thread read without cpu_lock is still set when it traps.                *)
THEOREM TrapsOnlyEnabledHolds ==
  ASSUME Discipline
  PROVE  Spec => TrapsOnlyEnabled
<1>1. GuestInv => (ppAt = "trap" /\ ppAt' # "trap" => status.intr = 1)
  BY DEF GuestInv, Flow
<1>. QED
  BY <1>1, GuestAlways, PTL DEF TrapsOnlyEnabled

(* For every disciplined guest: the jump that the CPU reads from the       *)
(* controller is to the vector of the number that was accepted, and not to *)
(* one that MMU.get_address or the controller still holds from before.     *)
THEOREM VectorFreshHolds ==
  ASSUME Discipline
  PROVE  Spec => VectorFresh
<1>1. ASSUME TypeInv, GuestInv, [Next]_vars, claim # NoNum, claim' = NoNum
      PROVE  fetch'.to = interrupts[claim]
  <2>1. num # NoNum \/ ppAt # "lock"
    BY <1>1, GuestAssumption DEF TypeInv, TypeOK
  <2>2. LoadWord
    BY <1>1, <2>1
    DEF Next, CpuStep, PpStep, Acquire, Advance, FetchFails, Nop, Alu,
        SetFlag, Jump, Branch, WriteStatus, WriteRet, CheckPending,
        PrivilegeFault, PrivilegeTrap, Fault, SoftIntr, Rfe, RfeCount,
        RfeReturn, Wait, Wake, Halt, BeginStore, StoreMaskByte,
        StoreLastMaskByte, AddVector, DeleteVector, Trigger, EndStore, PpTake,
        PpWait, PpSpurious, PpTest, PpClear, PpAccept, PpIgnore, PpRead,
        PpPend, PpAnnounce, PpTrap, Raise, Ended, vars, ghosts
  <2>3. PICK s \in Slots : At(s)
    BY <1>1, <2>2 DEF GuestInv, LoadWord
  <2>. QED
    BY <1>1, <2>2, <2>3, VectorRead
<1>2. TypeInv /\ GuestInv /\ [Next]_vars =>
        [claim # NoNum /\ claim' = NoNum => fetch'.to = interrupts[claim]]_vars
  BY <1>1
<1>. QED
  BY <1>2, GuestAlways, PTL DEF VectorFresh, Spec

(* README:55, for every disciplined guest: rfe returns to where the        *)
(* handler was called from, with the enable and user bits of the code that *)
(* was interrupted, whatever is raised while the handler runs.             *)
THEOREM ResumesHolds ==
  ASSUME Discipline
  PROVE  Spec => Resumes
<1>. DEFINE Resumed ==
       /\ pc' = rfeRet
       /\ saved = [intr |-> status'.intr, user |-> status'.user, pc |-> pc']
<1>1. ASSUME TypeInv, GuestInv, [Next]_vars,
             cpuAt = "rfe3", cpuAt' = "boundary"
      PROVE  Resumed
  <2>1. RfeReturn
    BY <1>1
    DEF Next, CpuStep, PpStep, Acquire, LoadWord, Advance, FetchFails, Nop,
        Alu, SetFlag, Jump, Branch, WriteStatus, WriteRet, CheckPending,
        PrivilegeFault, PrivilegeTrap, Fault, SoftIntr, Rfe, RfeCount, Wait,
        Wake, Halt, BeginStore, StoreMaskByte, StoreLastMaskByte, AddVector,
        DeleteVector, Trigger, Storing, StoreOps, Exec, PpTake, PpWait,
        PpSpurious, PpTest, PpClear, PpAccept, PpIgnore, PpRead, PpPend,
        PpAnnounce, PpTrap, Raise, Ended, vars, cpuVars
  <2>2. pc' = ret /\ status' = status
    BY <1>1, <2>1, Written DEF RfeReturn, GuestInv
  <2>3. PICK s \in Slots : At(s)
    BY <1>1 DEF GuestInv
  <2>4. rfeRet = ret /\ Returns
    BY <1>1, <2>3 DEF At, Where, InMain, InHandler, InVector
  <2>5. /\ saved.pc = ret /\ saved.user = status.user
        /\ saved.intr = status.intr
        /\ saved \in [intr : Bit, user : Bit, pc : Int]
    BY <1>1, <2>4 DEF Returns
  <2>6. saved = [intr |-> saved.intr, user |-> saved.user, pc |-> saved.pc]
    BY <2>5
  <2>. QED
    BY <2>2, <2>4, <2>5, <2>6
<1>2. TypeInv /\ GuestInv /\ [Next]_vars =>
        [cpuAt = "rfe3" /\ cpuAt' = "boundary" => Resumed]_vars
  BY <1>1
<1>. QED
  BY <1>2, GuestAlways, PTL DEF Resumes, Spec

-----------------------------------------------------------------------------
(* The abstract specification.                                             *)

LEMMA PendingSteps ==
  ASSUME NEW S, NEW q \in Seq(S), NEW x \in S, NEW n \in S
  PROVE  /\ <<>> \o q = q
         /\ <<x>> \o q # <<>>
         /\ Head(<<x>> \o q) = x /\ Tail(<<x>> \o q) = q
         /\ q # <<>> => <<Head(q)>> \o Tail(q) = q
         /\ <<x>> \o Append(q, n) = Append(<<x>> \o q, n)
         /\ <<>> \o Append(q, n) = Append(<<>> \o q, n)
OBVIOUS

Pending == Held \o queue

Open == unmasked \/ ppAt = "lock"

Handling == fc = 1 /\ claim = NoNum

Promised == <<Pending, Open, claim, Handling>>

(* The controller is open only outside a handler.                          *)
Outside == Open => fc = 0

(* None is dropped.                                                        *)
LEMMA NeverDropped ==
  ASSUME TypeInv, GuestInv
  PROVE  ~PpSpurious /\ ~PpIgnore
BY DEF PpSpurious, PpIgnore, GuestInv, Flow, Registered, TypeInv, TypeOK

(* The steps that change nothing but, perhaps, what is pending.            *)
LEMMA Still ==
  ASSUME Discipline, TypeInv, GuestInv, [Next]_vars, ~LoadWord, ~RfeCount,
         ~StoreMaskByte, ~StoreLastMaskByte, ~PpAccept, ~PpTrap
  PROVE  fc' = fc /\ claim' = claim /\ Open' = Open
<1>1. CASE CpuStep
  <2>1. claim' = claim /\ unmasked' = unmasked /\ ppAt' = ppAt
    BY <1>1
    DEF CpuStep, Acquire, Advance, FetchFails, Nop, Alu, SetFlag, Jump, Branch,
        WriteStatus, WriteRet, CheckPending, PrivilegeFault, PrivilegeTrap,
        Fault, SoftIntr, Rfe, RfeReturn, Wait, Wake, Halt, BeginStore,
        AddVector, DeleteVector, Trigger, EndStore, intcVars, ghosts
  <2>2. \/ UNCHANGED fc
        \/ \E p, next : RegWrite(status, fc, p, next)
    BY <1>1, NeverIll
    DEF CpuStep, Acquire, Advance, FetchFails, Nop, Alu, SetFlag, Jump, Branch,
        WriteStatus, CheckPending, Rfe, RfeReturn, Wait, Wake, Halt,
        BeginStore, AddVector, DeleteVector, Trigger, EndStore, regs
  <2>3. fc' = fc
    BY <2>2, Written DEF GuestInv
  <2>. QED
    BY <2>1, <2>3 DEF Open
<1>2. CASE PpStep \/ Raise \/ Ended \/ UNCHANGED vars
  <2>1. fc' = fc /\ claim' = claim
    BY <1>2
    DEF PpStep, PpTake, PpWait, PpSpurious, PpTest, PpClear, PpIgnore, PpRead,
        PpPend, PpAnnounce, Raise, Ended, vars, cpuVars, ghosts
  <2>2. Open' = Open
    BY <1>2, NeverDropped
    DEF PpStep, PpTake, PpWait, PpTest, PpClear, PpRead, PpPend, PpAnnounce,
        Raise, Ended, vars, Open, GuestInv, Flow
  <2>. QED
    BY <2>1, <2>2
<1>. QED
  BY <1>1, <1>2 DEF Next

(* The store to the mask unmasks, in the main program.                     *)
LEMMA Unmasks ==
  ASSUME Discipline, TypeInv, GuestInv, StoreMaskByte \/ StoreLastMaskByte
  PROVE  /\ ~Open /\ Open' /\ claim = NoNum /\ ~Handling
         /\ fc' = fc /\ claim' = claim /\ cpuAt' # "halted"
<1>1. cpuAt = "store" /\ store.op = "mask"
  BY DEF StoreMaskByte, StoreLastMaskByte, Storing
<1>2. PICK s \in Slots : At(s)
  BY <1>1 DEF GuestInv
<1>3. InMain(s) /\ store.bytes = <<0>> /\ AreaAt(s) = "closed"
  BY <1>1, <1>2 DEF At, InMain, InHandler, InVector, AreaAt
<1>4. Idle /\ fc = 0
  BY <1>3 DEF InMain
<1>5. Len(store.bytes) = 1 /\ Head(store.bytes) = 0
  BY <1>3
<1>6. StoreLastMaskByte /\ unmasked'
  <2>1. StoreLastMaskByte
    BY <1>5 DEF StoreMaskByte
  <2>. QED
    BY <1>5, <2>1 DEF StoreLastMaskByte, SetUnmasked
<1>7. fc' = fc /\ claim' = claim /\ cpuAt' = "boundary"
  BY <1>6 DEF StoreLastMaskByte, EndStore, regs, ghosts
<1>. QED
  BY <1>4, <1>6, <1>7 DEF Open, Handling, Idle, Resting

(* A trap is taken for an interrupt whose vector is yet to be read.        *)
LEMMA Traps ==
  ASSUME GuestInv, PpTrap
  PROVE  /\ ~Open /\ ~Open' /\ claim # NoNum /\ claim' = claim
         /\ cpuAt' # "halted"
BY DEF PpTrap, GuestInv, Flow, IntcLocked, Open

(* The CPU reads the vector, and is in the handler.                        *)
LEMMA Enters ==
  ASSUME Discipline, TypeInv, GuestInv, LoadWord
  PROVE  /\ fc' = fc /\ Open' = Open /\ cpuAt' # "halted"
         /\ claim' = claim \/ (claim # NoNum /\ claim' = NoNum /\ fc = 1)
<1>1. /\ cpuAt = "load" /\ RegWrite(status, fc, pc, "advance")
      /\ UNCHANGED <<unmasked, ppAt>>
      /\ claim' \in {claim, NoNum}
  BY DEF LoadWord, intcVars
<1>2. fc' = fc /\ cpuAt' = "advance"
  BY <1>1, Written DEF GuestInv
<1>3. PICK s \in Slots : At(s)
  BY <1>1 DEF GuestInv
<1>4. claim # NoNum /\ claim' = NoNum => fc = 1
  <2>. SUFFICES ASSUME claim # NoNum, claim' = NoNum PROVE fc = 1
    OBVIOUS
  <2>1. s = IntcSlot
    BY <1>3, VectorRead
  <2>2. InVector(s)
    BY <1>1, <1>3, <2>1
    DEF At, InMain, InHandler, AreaAt, Discipline, Disciplined
  <2>. QED
    BY <1>1, <2>2 DEF InVector, Returns
<1>. QED
  BY <1>1, <1>2, <1>4 DEF Open

(* rfe counts down, and the CPU has left the handler.                      *)
LEMMA Leaving ==
  ASSUME Discipline, TypeInv, GuestInv, RfeCount
  PROVE  /\ fc = 1 /\ fc' = 0 /\ claim = NoNum /\ claim' = NoNum
         /\ Open' = Open /\ cpuAt' # "halted"
<1>1. /\ cpuAt = "rfe2"
      /\ RegWrite(status, IF fc > 0 THEN fc - 1 ELSE 0, pc, "rfe3")
      /\ UNCHANGED <<ppAt, unmasked, claim>>
  BY DEF RfeCount, intcVars
<1>2. PICK s \in Slots : At(s)
  BY <1>1 DEF GuestInv
<1>3. fc = 1 /\ Idle
  BY <1>1, <1>2 DEF At, InMain, InHandler, InVector, AreaAt, Returns
<1>4. fc' = 0 /\ cpuAt' = "rfe3"
  BY <1>1, <1>3, Written DEF GuestInv
<1>. QED
  BY <1>1, <1>3, <1>4 DEF Idle, Open

LEMMA OutsideNext ==
  ASSUME Discipline, TypeInv, GuestInv, GuestInv', Outside, [Next]_vars
  PROVE  Outside'
<1>1. CASE cpuAt' # "halted"
  <2>1. (GuestInv /\ cpuAt # "halted" => Outside)'
    BY DEF GuestInv, At, InMain, InHandler, InVector, Idle, Resting, Outside,
           Open
  <2>. QED
    BY <1>1, <2>1
<1>2. CASE cpuAt' = "halted"
  <2>1. CASE ~PpAccept
    BY <1>2, <2>1, Still, Unmasks, Traps, Enters, Leaving DEF Outside
  <2>2. CASE PpAccept
    BY <2>2 DEF PpAccept, cpuVars, Outside, Open
  <2>. QED
    BY <2>1, <2>2
<1>. QED
  BY <1>1, <1>2

Kept == Pending' = Pending /\ claim' = claim

Added == (\E n \in Nums : Pending' = Append(Pending, n)) /\ claim' = claim

(* An interrupt that is taken from the queue is still pending ...          *)
LEMMA TakeKeeps == ASSUME TypeInv, PpTake PROVE Pending' = Pending
<1>1. /\ queue \in Seq(Nums) /\ queue # <<>> /\ Held = <<>>
      /\ queue' = Tail(queue) /\ Held' = <<Head(queue)>>
  BY DEF PpTake, TypeInv, TypeOK, Held
<1>2. Head(queue) \in Nums
  BY <1>1, HeadTailProperties
<1>. QED
  BY <1>1, <1>2, PendingSteps DEF Pending

(* ... until the controller accepts it.                                    *)
LEMMA AcceptTakes ==
  ASSUME TypeInv, GuestInv, Outside, PpAccept
  PROVE  /\ Open /\ ~Open' /\ Pending # <<>>
         /\ claim' = Head(Pending) /\ Pending' = Tail(Pending)
         /\ ~Handling /\ ~Handling'
<1>1. /\ queue \in Seq(Nums) /\ num \in Nums /\ Held = <<num>>
      /\ queue' = queue /\ Held' = <<>> /\ claim' = num
  BY DEF PpAccept, TypeInv, TypeOK, Held
<1>2. /\ ppAt = "lock" /\ ~unmasked /\ unmasked' = unmasked
      /\ ppAt' = "read" /\ fc' = fc
  BY DEF GuestInv, Flow, PpAccept, cpuVars
<1>. QED
  BY <1>1, <1>2, PendingSteps DEF Pending, Open, Outside, Handling

LEMMA RaiseAdds ==
  ASSUME TypeInv, Raise \/ Trigger
  PROVE  \E n \in Nums : Pending' = Append(Pending, n)
<1>1. PICK n \in Nums : queue' = Append(queue, n)
  <2>1. CASE Raise
    BY <2>1 DEF Raise
  <2>2. CASE Trigger
    <3>1. store.num \in Nums
      BY <2>2, InstrParts DEF Trigger, Storing, TypeInv, TypeOK
    <3>. QED
      BY <2>2, <3>1 DEF Trigger
  <2>. QED
    BY <2>1, <2>2
<1>2. /\ queue \in Seq(Nums)
      /\ Held = <<>> \/ (Held = <<num>> /\ num \in Nums)
  BY DEF TypeInv, TypeOK, Held
<1>3. Held' = Held
  BY DEF Raise, Trigger, EndStore, Held
<1>. QED
  BY <1>1, <1>2, <1>3, PendingSteps DEF Pending

(* The other steps leave it alone.                                         *)
LEMMA OtherSteps ==
  ASSUME TypeInv, GuestInv, [Next]_vars,
         ~PpTake, ~PpAccept, ~Raise, ~Trigger
  PROVE  Pending' = Pending
<1>1. CASE CpuStep
  <2>1. queue' = queue
    BY <1>1
    DEF CpuStep, Acquire, LoadWord, Advance, FetchFails, Nop, Alu, SetFlag,
        Jump, Branch, WriteStatus, WriteRet, CheckPending, PrivilegeFault,
        PrivilegeTrap, Fault, SoftIntr, Rfe, RfeCount, RfeReturn, Wait, Wake,
        Halt, BeginStore, StoreMaskByte, StoreLastMaskByte, AddVector,
        DeleteVector, EndStore, intcVars, ghosts
  <2>2. CASE /\ ~StoreMaskByte /\ ~StoreLastMaskByte /\ ~AddVector
             /\ ~DeleteVector
    <3>1. UNCHANGED intcVars
      BY <1>1, <2>2
      DEF CpuStep, Acquire, LoadWord, Advance, FetchFails, Nop, Alu, SetFlag,
          Jump, Branch, WriteStatus, WriteRet, CheckPending, PrivilegeFault,
          PrivilegeTrap, Fault, SoftIntr, Rfe, RfeCount, RfeReturn, Wait, Wake,
          Halt, BeginStore
    <3>. QED
      BY <2>1, <3>1 DEF Pending, Held, intcVars
  <2>3. CASE StoreMaskByte \/ StoreLastMaskByte \/ AddVector \/ DeleteVector
    <3>1. num' = num /\ (ppAt' = ppAt \/ (ppAt = "blocked" /\ ppAt' = "test"))
      BY <2>3
      DEF StoreMaskByte, StoreLastMaskByte, AddVector, DeleteVector,
          SetUnmasked
    <3>. QED
      BY <2>1, <3>1 DEF Pending, Held
  <2>. QED
    BY <2>1, <2>2, <2>3
<1>2. CASE PpStep \/ UNCHANGED vars
  BY <1>2, NeverDropped
  DEF PpStep, PpWait, PpTest, PpClear, PpRead, PpPend, PpAnnounce, PpTrap,
      vars, Pending, Held
<1>. QED
  BY <1>1, <1>2 DEF Next, Ended

(* A step that leaves fc, claim and Open is a step of what is pending.     *)
LEMMA StillSteps ==
  ASSUME Discipline, TypeInv, GuestInv, [Next]_vars,
         ~PpAccept, fc' = fc, claim' = claim, Open' = Open
  PROVE  Promise!Raise \/ UNCHANGED Promised
<1>1. Handling' = Handling
  BY DEF Handling
<1>2. CASE PpTake
  BY <1>1, <1>2, TakeKeeps DEF Promised
<1>3. CASE Raise \/ Trigger
  BY <1>1, <1>3, RaiseAdds DEF Promise!Raise, Pending, Open, Handling
<1>4. CASE ~PpTake /\ ~Raise /\ ~Trigger
  BY <1>1, <1>4, OtherSteps DEF Promised
<1>. QED
  BY <1>2, <1>3, <1>4

(* The steps that move an interrupt along add none and drop none.          *)
LEMMA MovingSteps ==
  ASSUME TypeInv, GuestInv, [Next]_vars,
         LoadWord \/ RfeCount \/ StoreMaskByte \/ StoreLastMaskByte \/ PpTrap
  PROVE  Pending' = Pending
BY DEF LoadWord, RfeCount, StoreMaskByte, StoreLastMaskByte, PpTrap,
       SetUnmasked, intcVars, Pending, Held

LEMMA PromiseNext ==
  ASSUME Discipline, TypeInv, GuestInv, Outside, [Next]_vars
  PROVE  Promise!Next \/ UNCHANGED Promised
<1>1. CASE PpAccept
  <2>1. Promise!Accept
    BY <1>1, AcceptTakes DEF Promise!Accept, Pending, Open, Handling
  <2>. QED
    BY <2>1 DEF Promise!Next
<1>2. CASE StoreMaskByte \/ StoreLastMaskByte
  <2>1. Handling' = Handling /\ Pending' = Pending
    BY <1>2, Unmasks, MovingSteps DEF Handling
  <2>2. Promise!Unmask
    BY <1>2, <2>1, Unmasks DEF Promise!Unmask, Pending, Open, Handling
  <2>. QED
    BY <2>2 DEF Promise!Next
<1>3. CASE LoadWord
  <2>1. Pending' = Pending
    BY <1>3, MovingSteps
  <2>2. CASE claim' = claim
    BY <1>3, <2>1, <2>2, Enters DEF Promised, Handling
  <2>3. CASE claim' # claim
    <3>1. Promise!Enter
      BY <1>3, <2>1, <2>3, Enters DEF Promise!Enter, Pending, Open, Handling
    <3>. QED
      BY <3>1 DEF Promise!Next
  <2>. QED
    BY <2>2, <2>3
<1>4. CASE RfeCount
  <2>1. Pending' = Pending /\ Handling /\ ~Handling'
    BY <1>4, MovingSteps, Leaving DEF Handling
  <2>2. Promise!Return
    BY <1>4, <2>1, Leaving DEF Promise!Return, Pending, Open, Handling
  <2>. QED
    BY <2>2 DEF Promise!Next
<1>5. CASE PpTrap
  BY <1>5, Traps, MovingSteps DEF Promised, Handling, Open
<1>6. CASE /\ ~PpAccept /\ ~StoreMaskByte /\ ~StoreLastMaskByte /\ ~LoadWord
           /\ ~RfeCount /\ ~PpTrap
  BY <1>6, Still, StillSteps DEF Promise!Next
<1>. QED
  BY <1>1, <1>2, <1>3, <1>4, <1>5, <1>6

(* For every disciplined guest the two threads, their locks and the mask   *)
(* implement Delivery: interrupts are taken in the order in which they     *)
(* were raised, each is in its handler, and out of it again, before the    *)
(* next is accepted, and none is dropped, however many are raised and      *)
(* whenever.                                                               *)
THEOREM InOrderHolds ==
  ASSUME Discipline
  PROVE  Spec => InOrder
<1>1. Init => Promise!Init /\ Outside
  BY DEF Init, Promise!Init, Held, Outside, Open
<1>2. TypeInv /\ GuestInv /\ [Next]_vars => (TypeInv /\ GuestInv)'
  BY TypeNext, GuestNext
<1>3. TypeInv /\ GuestInv /\ Outside /\ [Next]_vars => Outside'
  BY <1>2, OutsideNext
<1>4. TypeInv /\ GuestInv /\ Outside /\ [Next]_vars =>
        [Promise!Next]_<<Held \o queue, unmasked \/ ppAt = "lock", claim,
                         fc = 1 /\ claim = NoNum>>
  BY PromiseNext DEF Promised, Pending, Open, Handling
<1>. QED
  BY <1>1, <1>3, <1>4, GuestAlways, PTL DEF InOrder, Promise!Spec, Spec
=============================================================================
