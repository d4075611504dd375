------------------------- MODULE InterruptDelivery -------------------------
(***************************************************************************)
(* How an interrupt gets from a device to its handler in ComPyter: the CPU *)
(* thread (compyter/cpu.py, compyter/register.py), the interrupt           *)
(* controller and its thread (compyter/hardware/intc.py), and the device   *)
(* threads that raise interrupts, on a guest program.                      *)
(*                                                                         *)
(* A step is what one thread does between two points at which another      *)
(* thread can see or change what it uses.  The CPU thread holds cpu_lock   *)
(* from Acquire until it is back at "boundary"; the controller's thread    *)
(* holds interrupt_lock while ppAt is in {"read","pend","clr","trap"}, and *)
(* needs both locks for its trap.  Neither thread takes cpu_lock to look   *)
(* at the interrupt-enable bit or at intr_pending.                         *)
(*                                                                         *)
(* Addresses count 32-bit words: an instruction is four words, and slot s  *)
(* of the guest's memory is the words 4s .. 4s+3.                          *)
(***************************************************************************)
EXTENDS Integers, Sequences

CONSTANTS
  Nums,       \* the interrupt numbers the devices raise
  NoNum,      \* no interrupt number
  NumSlots,   \* number of instruction slots the guest can reach
  IntrSlot,   \* slot of TRAP_INTR, the interrupt vector
  IllSlot,    \* slot of TRAP_ILL
  DivSlot,    \* slot of TRAP_DIV
  IntcSlot,   \* slot of the controller's INTC_JMP_INSTR
  Guest,      \* the program: the instructions each slot may hold
  TornInstr,  \* what words of different instructions may decode to
  MaxRaise,   \* bound: number of interrupts raised
  MaxFaults   \* bound: fault counter beyond which the run is not followed

Slots == 0 .. NumSlots - 1
Bit   == {0, 1}

(* The modelled bits of REG_STATUS: two bits with a two-deep history.      *)
Status == [intr : Bit, intrPrev : Bit, intrOld : Bit,
           user : Bit, userPrev : Bit, userOld : Bit]

(* The instructions, told apart by what they do to the interrupt state.    *)
(* "alu" is any instruction that writes a plain register, "stat" and "ret" *)
(* loadwi of $stat and $ret, "flag"/"brz" the guest's own variable and a   *)
(* branch on it, "mask" a savebi or savewi to INTC_MASK with the bytes it  *)
(* stores, "add", "del" and "trigger" a savebi of 1 to the controller's    *)
(* register of that name, the number and vector registers being set.       *)
Instr ==
  [op : {"nop", "alu", "wait", "rfe", "intr", "halt"}]
    \cup [op : {"stat"}, val : Status]
    \cup [op : {"flag"}, val : Bit]
    \cup [op : {"jmp", "brz", "ret"}, to : Slots]
    \cup [op : {"fault"}, vec : {IllSlot, DivSlot}]
    \cup [op : {"mask"}, bytes : Seq(Bit) \ {<<>>}]
    \cup [op : {"add"}, num : Nums, vec : Slots]
    \cup [op : {"del", "trigger"}, num : Nums]

ASSUME SlotsAssumption ==
  /\ NumSlots \in Nat \ {0}
  /\ {IntrSlot, IllSlot, DivSlot, IntcSlot} \subseteq Slots \ {0}

ASSUME GuestAssumption ==
  /\ Guest \in [Slots -> SUBSET Instr]
  /\ TornInstr \subseteq Instr
  /\ NoNum \notin Nums

ASSUME BoundAssumption == MaxRaise \in Nat /\ MaxFaults \in Nat

Unset == -1   \* no vector: the number is not a key of the dictionary

VARIABLES
  status,     \* REG_STATUS
  fc,         \* REG_FC, the fault counter
  pc,         \* REG_PC
  ret,        \* REG_RET
  flag,       \* a general-purpose register of the guest
  intrPending,\* CPU.intr_pending
  trapEvent,  \* CPU.trap_event
  cpuAt,      \* where the CPU thread is
  fetch,      \* the instruction being fetched: next word, opcode address,
              \* whether its words are from different places, jump operand
  store,      \* the store being executed, with the bytes still to write
  cache,      \* what MMU.get_address has cached of the controller's slot
  ppAt,       \* where the controller's thread is
  num,        \* the interrupt it took from the queue
  queue,      \* InterruptController.pending
  unmasked,   \* InterruptController.unmasked
  interrupts, \* InterruptController.interrupts
  current,    \* InterruptController.current
  raised,     \* history: how many interrupts were raised
  claim,      \* history: accepted by the controller, vector not yet fetched
  saved,      \* history: what the last trap interrupted: where, and in which
              \* mode
  clean,      \* history: no status write and no second trap since then
  rfeRet      \* history: REG_RET when the last rfe began

regs     == <<status, fc, pc, ret>>
cpuVars  == <<status, fc, pc, ret, flag, cpuAt, fetch, store, cache>>
intcVars == <<ppAt, num, queue, unmasked, interrupts, current>>
ghosts   == <<claim, saved, clean, rfeRet>>
vars     == <<status, fc, pc, ret, flag, intrPending, trapEvent, cpuAt, fetch,
              store, cache, ppAt, num, queue, unmasked, interrupts, current,
              raised, claim, saved, clean, rfeRet>>

-----------------------------------------------------------------------------
(* Traps.                                                                  *)

EmptyCache == [words |-> {}, vec |-> 0]

IntcLocked == ppAt \in {"read", "pend", "clr", "trap"}

(* trap() shifts the bits into their history and clears them.              *)
Push(s) == [intr |-> 0, intrPrev |-> s.intr, intrOld |-> s.intrPrev,
            user |-> 0, userPrev |-> s.user, userOld |-> s.userPrev]

(* A mistaken rfe that leaves the user bit alone.                          *)
PopKeepsUser(s) == [s EXCEPT !.intr = s.intrPrev, !.intrPrev = s.intrOld,
                             !.userPrev = s.userOld]

(* rfe shifts them back.                                                   *)
Pop(s) == [s EXCEPT !.intr = s.intrPrev, !.intrPrev = s.intrOld,
                    !.user = s.userPrev, !.userPrev = s.userOld]

(* A second trap calls trap() again before it does anything else, and that *)
(* call counts a third: it halts.                                          *)
Lethal(f) == f \in {1, 2}

(* The body of trap(), under cpu_lock, with the registers as they are when *)
(* it is called.                                                           *)
Trap(slot, s, f, p) ==
  /\ status' = IF f = 1 THEN Push(Push(s)) ELSE Push(s)
  /\ fc' = IF f = 1 THEN 3 ELSE f + 1
  /\ pc' = IF Lethal(f) THEN p ELSE 4 * slot
  /\ ret' = IF Lethal(f) THEN ret ELSE p
  /\ trapEvent' = Lethal(f)
  /\ saved' = [intr |-> s.intr, user |-> s.user, pc |-> p]
  /\ clean' = (f = 0)

(* A trap taken by the CPU thread: halt() ends the process.                *)
CpuTrap(slot, s, f, p, next) ==
  /\ Trap(slot, s, f, p)
  /\ cpuAt' = IF Lethal(f) THEN "halted" ELSE next

(* RegisterFile.__setitem__ by the CPU thread, after which the registers   *)
(* are s, f and p: it runs a pending interrupt there and then.             *)
RegWrite(s, f, p, next) ==
  \/ /\ s.intr = 1 /\ intrPending
     /\ intrPending' = FALSE
     /\ CpuTrap(IntrSlot, s, f, p, next)
  \/ /\ ~(s.intr = 1 /\ intrPending)
     /\ status' = s /\ fc' = f /\ pc' = p /\ cpuAt' = next
     /\ UNCHANGED <<ret, intrPending, trapEvent, saved, clean>>

-----------------------------------------------------------------------------
(* The CPU thread: fetching an instruction, one word at a time.            *)

(* decode_next_instr() takes cpu_lock; the controller's thread never holds *)
(* it across a step.                                                       *)
Acquire ==
  /\ cpuAt = "boundary" /\ fc <= MaxFaults
  /\ cpuAt' = "load"
  /\ fetch' = [word |-> 0, base |-> pc, torn |-> pc % 4 # 0, to |-> 0]
  /\ UNCHANGED <<regs, flag, store, cache, intrPending, trapEvent, intcVars,
                 raised, ghosts>>

(* Reading a word of the controller's slot: from the cache of get_address, *)
(* or from the controller under interrupt_lock.  Which entries the LRU     *)
(* cache still holds is left open: a cached word may have been evicted.    *)
IntcWord(w) ==
  \/ /\ w \in cache.words
     /\ fetch' = [fetch EXCEPT !.to = IF w = 1 THEN cache.vec ELSE @]
     /\ UNCHANGED cache
  \/ /\ ~IntcLocked
     /\ cache' = [words |-> cache.words \cup {w},
                  vec |-> IF w = 1 THEN current ELSE cache.vec]
     /\ fetch' = [fetch EXCEPT !.to = IF w = 1 THEN current ELSE @]

(* loadw(REG_RSVD, REG_PC): the write to REG_RSVD may run an interrupt,    *)
(* which leaves REG_PC in the vector and the rest of the fetch to read on  *)
(* from there.                                                             *)
LoadWord ==
  /\ cpuAt = "load" /\ pc \div 4 \in Slots
  /\ IF pc \div 4 = IntcSlot
     THEN IntcWord(pc % 4)
     ELSE UNCHANGED <<fetch, cache>>
  /\ RegWrite(status, fc, pc, "advance")
  /\ claim' = IF pc = 4 * IntcSlot + 1 THEN NoNum ELSE claim
  /\ UNCHANGED <<flag, store, intcVars, raised, rfeRet>>

(* registers[REG_PC] += 4, and the next word's address.                    *)
Advance ==
  /\ cpuAt = "advance"
  /\ RegWrite(status, fc, pc + 1, IF fetch.word = 3 THEN "exec" ELSE "load")
  /\ fetch' = IF fetch.word = 3 THEN fetch
              ELSE [fetch EXCEPT !.word = @ + 1,
                                 !.torn = @ \/ pc' # fetch.base + fetch.word + 1]
  /\ UNCHANGED <<flag, store, cache, intcVars, raised, claim, rfeRet>>

(* memory[item] beyond the image raises IndexError: the emulator dies.     *)
FetchFails ==
  /\ cpuAt = "load" /\ pc \div 4 \notin Slots
  /\ cpuAt' = "crashed"
  /\ UNCHANGED <<regs, flag, fetch, store, cache, intrPending, trapEvent,
                 intcVars, raised, ghosts>>

(* The instruction the four words decode to.                               *)
Decoded ==
  IF fetch.torn THEN TornInstr
  ELSE IF fetch.base = 4 * IntcSlot THEN {[op |-> "jmp", to |-> fetch.to]}
  ELSE Guest[fetch.base \div 4]

Exec(op) ==
  {i \in (IF cpuAt = "exec" THEN Decoded ELSE {}) : i.op = op}

-----------------------------------------------------------------------------
(* The CPU thread: executing an instruction.  REG_PC is already past it.   *)

Nop ==
  /\ Exec("nop") # {}
  /\ cpuAt' = "boundary"
  /\ UNCHANGED <<regs, flag, fetch, store, cache, intrPending, trapEvent,
                 intcVars, raised, ghosts>>

Alu ==
  /\ Exec("alu") # {}
  /\ RegWrite(status, fc, pc, "boundary")
  /\ UNCHANGED <<flag, fetch, store, cache, intcVars, raised, claim, rfeRet>>

SetFlag ==
  \E i \in Exec("flag") :
    /\ flag' = i.val
    /\ RegWrite(status, fc, pc, "boundary")
    /\ UNCHANGED <<fetch, store, cache, intcVars, raised, claim, rfeRet>>

Jump ==
  \E i \in Exec("jmp") :
    /\ RegWrite(status, fc, 4 * i.to, "boundary")
    /\ UNCHANGED <<flag, fetch, store, cache, intcVars, raised, claim, rfeRet>>

(* jmpeqi: a branch not taken writes no register through __setitem__.      *)
Branch ==
  \E i \in Exec("brz") :
    /\ IF flag = 0
       THEN RegWrite(status, fc, 4 * i.to, "boundary")
       ELSE /\ cpuAt' = "boundary"
            /\ UNCHANGED <<regs, intrPending, trapEvent, saved, clean>>
    /\ UNCHANGED <<flag, fetch, store, cache, intcVars, raised, claim, rfeRet>>

(* loadwi $stat: kernel mode only.  The enable bit is written first and    *)
(* intr_pending looked at afterwards.                                      *)
WriteStatus ==
  \E i \in Exec("stat") :
    /\ status.user = 0
    /\ status' = i.val
    /\ cpuAt' = "check"
    /\ clean' = FALSE
    /\ UNCHANGED <<fc, pc, ret, flag, fetch, store, cache, intrPending,
                   trapEvent, intcVars, raised, claim, saved, rfeRet>>

(* loadwi $ret, as a handler that resumes another task does.               *)
WriteRet ==
  \E i \in Exec("ret") :
    /\ ret' = 4 * i.to
    /\ cpuAt' = "check"
    /\ UNCHANGED <<status, fc, pc, flag, fetch, store, cache, intrPending,
                   trapEvent, intcVars, raised, ghosts>>

CheckPending ==
  /\ cpuAt = "check"
  /\ RegWrite(status, fc, pc, "boundary")
  /\ UNCHANGED <<flag, fetch, store, cache, intcVars, raised, claim, rfeRet>>

(* In user mode the write raises PrivilegeException: the instruction is to *)
(* be retried, and TRAP_ILL is taken.                                      *)
PrivilegeFault ==
  /\ Exec("stat") # {} /\ status.user = 1
  /\ RegWrite(status, fc, pc - 4, "ill")
  /\ UNCHANGED <<flag, fetch, store, cache, intcVars, raised, claim, rfeRet>>

PrivilegeTrap ==
  /\ cpuAt = "ill"
  /\ CpuTrap(IllSlot, status, fc, pc, "boundary")
  /\ UNCHANGED <<flag, fetch, store, cache, intrPending, intcVars, raised,
                 claim, rfeRet>>

(* Division by zero, or an opcode that does not exist.                     *)
Fault ==
  \E i \in Exec("fault") :
    /\ CpuTrap(i.vec, status, fc, pc, "boundary")
    /\ UNCHANGED <<flag, fetch, store, cache, intrPending, intcVars, raised,
                   claim, rfeRet>>

(* The intr instruction is CPU.intr() run by the CPU thread itself.        *)
SoftIntr ==
  /\ Exec("intr") # {}
  /\ IF status.intr = 0
     THEN /\ intrPending' = TRUE
          /\ cpuAt' = "boundary"
          /\ UNCHANGED <<regs, trapEvent, saved, clean>>
     ELSE /\ intrPending' = FALSE
          /\ CpuTrap(IntrSlot, status, fc, pc, "boundary")
  /\ UNCHANGED <<flag, fetch, store, cache, intcVars, raised, claim, rfeRet>>

(* rfe(), first the status bits ...                                        *)
Rfe ==
  /\ Exec("rfe") # {}
  /\ status' = Pop(status)
  /\ cpuAt' = "rfe2"
  /\ rfeRet' = ret
  /\ UNCHANGED <<fc, pc, ret, flag, fetch, store, cache, intrPending,
                 trapEvent, intcVars, raised, claim, saved, clean>>

(* A mistaken rfe that does not test the counter for 0.                    *)
RfeCountUntested ==
  /\ cpuAt = "rfe2"
  /\ RegWrite(status, fc - 1, pc, "rfe3")
  /\ UNCHANGED <<flag, fetch, store, cache, intcVars, raised, claim, rfeRet>>

(* ... then the fault counter, with the pending interrupt run on the spot  *)
(* by that write or by the test that follows it ...                        *)
RfeCount ==
  /\ cpuAt = "rfe2"
  /\ RegWrite(status, IF fc > 0 THEN fc - 1 ELSE 0, pc, "rfe3")
  /\ UNCHANGED <<flag, fetch, store, cache, intcVars, raised, claim, rfeRet>>

(* ... and last the return, to what REG_RET holds by now.                  *)
RfeReturn ==
  /\ cpuAt = "rfe3"
  /\ RegWrite(status, fc, ret, "boundary")
  /\ UNCHANGED <<flag, fetch, store, cache, intcVars, raised, claim, rfeRet>>

(* wait blocks on trap_event with cpu_lock held.                           *)
Wait ==
  /\ Exec("wait") # {}
  /\ cpuAt' = "waiting"
  /\ UNCHANGED <<regs, flag, fetch, store, cache, intrPending, trapEvent,
                 intcVars, raised, ghosts>>

Wake ==
  /\ cpuAt = "waiting" /\ trapEvent
  /\ cpuAt' = "boundary"
  /\ UNCHANGED <<regs, flag, fetch, store, cache, intrPending, trapEvent,
                 intcVars, raised, ghosts>>

Halt ==
  /\ Exec("halt") # {}
  /\ cpuAt' = "halted"
  /\ UNCHANGED <<regs, flag, fetch, store, cache, intrPending, trapEvent,
                 intcVars, raised, ghosts>>

-----------------------------------------------------------------------------
(* The CPU thread: stores to the controller.  The immediate is put into    *)
(* REG_RSVD first, past __setitem__ (register.py:192), so that no pending  *)
(* interrupt runs; then each byte takes interrupt_lock; the instruction    *)
(* ends by clearing the caches.                                            *)

NoStore == [op |-> "nop"]

StoreOps == {"mask", "add", "del", "trigger"}

BeginStore ==
  \E i \in UNION {Exec(op) : op \in StoreOps} :
    /\ store' = i
    /\ cpuAt' = "store"
    /\ UNCHANGED <<regs, flag, fetch, cache, intrPending, trapEvent, intcVars,
                   raised, ghosts>>

Storing(op) == cpuAt = "store" /\ store.op = op /\ ~IntcLocked

(* A mistaken mask that is set without waking the controller's thread.     *)
SetUnmaskedQuietly(open) == unmasked' = open /\ ppAt' = ppAt

(* Event.set() wakes a thread blocked in Event.wait() even if the event is *)
(* cleared again before it runs.                                           *)
SetUnmasked(open) ==
  /\ unmasked' = open
  /\ ppAt' = IF open /\ ppAt = "blocked" THEN "test" ELSE ppAt

(* A zero byte unmasks, any other byte masks.                              *)
StoreMaskByte ==
  /\ Storing("mask") /\ Len(store.bytes) > 1
  /\ SetUnmasked(Head(store.bytes) = 0)
  /\ store' = [op |-> "mask", bytes |-> Tail(store.bytes)]
  /\ UNCHANGED <<regs, flag, cpuAt, fetch, cache, intrPending, trapEvent, num,
                 queue, interrupts, current, raised, ghosts>>

(* A mistaken store that leaves the cache of get_address.                  *)
EndStoreCached ==
  /\ store' = NoStore
  /\ cpuAt' = "boundary"
  /\ UNCHANGED <<regs, flag, fetch, cache, intrPending, trapEvent, ghosts>>

EndStore ==
  /\ store' = NoStore
  /\ cache' = EmptyCache
  /\ cpuAt' = "boundary"
  /\ UNCHANGED <<regs, flag, fetch, intrPending, trapEvent, ghosts>>

StoreLastMaskByte ==
  /\ Storing("mask") /\ Len(store.bytes) = 1
  /\ SetUnmasked(Head(store.bytes) = 0)
  /\ EndStore
  /\ UNCHANGED <<num, queue, interrupts, current, raised>>

(* INTC_ADD_INT and INTC_DEL_INT.                                          *)
AddVector ==
  /\ Storing("add")
  /\ interrupts' = [interrupts EXCEPT ![store.num] = store.vec]
  /\ EndStore
  /\ UNCHANGED <<ppAt, num, queue, unmasked, current, raised>>

DeleteVector ==
  /\ Storing("del")
  /\ interrupts' = [interrupts EXCEPT ![store.num] = Unset]
  /\ EndStore
  /\ UNCHANGED <<ppAt, num, queue, unmasked, current, raised>>

(* INTC_TRIGGER queues an interrupt from the guest.                        *)
Trigger ==
  /\ Storing("trigger") /\ raised < MaxRaise
  /\ queue' = Append(queue, store.num)
  /\ raised' = raised + 1
  /\ EndStore
  /\ UNCHANGED <<ppAt, num, unmasked, interrupts, current>>

-----------------------------------------------------------------------------
(* The controller's thread, process_pending().                             *)

PpTake ==
  /\ ppAt = "get" /\ queue # <<>>
  /\ num' = Head(queue)
  /\ queue' = Tail(queue)
  /\ ppAt' = "wait"
  /\ UNCHANGED <<cpuVars, intrPending, trapEvent, unmasked, interrupts,
                 current, raised, ghosts>>

(* A mistaken wait that a masked controller does not hold up.              *)
PpWaitNever ==
  /\ ppAt = "wait"
  /\ ppAt' = "test"
  /\ UNCHANGED <<cpuVars, intrPending, trapEvent, num, queue, unmasked,
                 interrupts, current, raised, ghosts>>

PpWait ==
  /\ ppAt = "wait"
  /\ ppAt' = IF unmasked THEN "test" ELSE "blocked"
  /\ UNCHANGED <<cpuVars, intrPending, trapEvent, num, queue, unmasked,
                 interrupts, current, raised, ghosts>>

(* Masked again by now: the interrupt taken from the queue is dropped.     *)
PpSpurious ==
  /\ ppAt = "test" /\ ~unmasked
  /\ ppAt' = "get"
  /\ UNCHANGED <<cpuVars, intrPending, trapEvent, num, queue, unmasked,
                 interrupts, current, raised, ghosts>>

PpTest ==
  /\ ppAt = "test" /\ unmasked
  /\ ppAt' = "clear"
  /\ UNCHANGED <<cpuVars, intrPending, trapEvent, num, queue, unmasked,
                 interrupts, current, raised, ghosts>>

(* A mistaken controller that does not mask itself.                        *)
PpClearNothing ==
  /\ ppAt = "clear"
  /\ ppAt' = "lock"
  /\ UNCHANGED <<cpuVars, intrPending, trapEvent, num, queue, unmasked,
                 interrupts, current, raised, ghosts>>

PpClear ==
  /\ ppAt = "clear"
  /\ unmasked' = FALSE
  /\ ppAt' = "lock"
  /\ UNCHANGED <<cpuVars, intrPending, trapEvent, num, queue, interrupts,
                 current, raised, ghosts>>

(* interrupt_nowait(): a number with no vector is ignored.                 *)
PpAccept ==
  /\ ppAt = "lock" /\ interrupts[num] # Unset
  /\ current' = interrupts[num]
  /\ claim' = num
  /\ ppAt' = "read"
  /\ UNCHANGED <<cpuVars, intrPending, trapEvent, num, queue, unmasked,
                 interrupts, raised, saved, clean, rfeRet>>

PpIgnore ==
  /\ ppAt = "lock" /\ interrupts[num] = Unset
  /\ ppAt' = "get"
  /\ UNCHANGED <<cpuVars, intrPending, trapEvent, num, queue, unmasked,
                 interrupts, current, raised, ghosts>>

(* CPU.intr(), without cpu_lock: read the enable bit ...                   *)
PpRead ==
  /\ ppAt = "read"
  /\ ppAt' = IF status.intr = 0 THEN "pend" ELSE "clr"
  /\ UNCHANGED <<cpuVars, intrPending, trapEvent, num, queue, unmasked,
                 interrupts, current, raised, ghosts>>

(* ... leave the interrupt pending ...                                     *)
PpPend ==
  /\ ppAt = "pend"
  /\ intrPending' = TRUE
  /\ ppAt' = "get"
  /\ UNCHANGED <<cpuVars, trapEvent, num, queue, unmasked, interrupts, current,
                 raised, ghosts>>

(* A mistaken intr() that does not announce the trap to wait.              *)
PpAnnounceQuietly ==
  /\ ppAt = "clr"
  /\ intrPending' = FALSE
  /\ ppAt' = "trap"
  /\ UNCHANGED <<cpuVars, trapEvent, num, queue, unmasked, interrupts, current,
                 raised, ghosts>>

(* ... or announce the trap ...                                            *)
PpAnnounce ==
  /\ ppAt = "clr"
  /\ intrPending' = FALSE
  /\ trapEvent' = TRUE
  /\ ppAt' = "trap"
  /\ UNCHANGED <<cpuVars, num, queue, unmasked, interrupts, current, raised,
                 ghosts>>

(* ... and take it once cpu_lock is free.  A lethal trap calls halt() from *)
(* the controller's thread, where joining itself raises RuntimeError: the  *)
(* thread dies with both locks released, and the CPU thread goes on.       *)
PpTrap ==
  /\ ppAt = "trap" /\ cpuAt = "boundary"
  /\ Trap(IntrSlot, status, fc, pc)
  /\ ppAt' = IF Lethal(fc) THEN "dead" ELSE "get"
  /\ UNCHANGED <<flag, cpuAt, fetch, store, cache, intrPending, num, queue,
                 unmasked, interrupts, current, raised, claim, rfeRet>>

-----------------------------------------------------------------------------
(* A device thread raises an interrupt.  The timer, keyboard and network   *)
(* threads stop once halt() has set exit_event.                            *)
Raise ==
  /\ raised < MaxRaise /\ cpuAt \notin {"halted", "crashed"} /\ ppAt # "dead"
  /\ \E n \in Nums : queue' = Append(queue, n)
  /\ raised' = raised + 1
  /\ UNCHANGED <<cpuVars, intrPending, trapEvent, ppAt, num, unmasked,
                 interrupts, current, ghosts>>

(* The process is gone.                                                    *)
Ended == cpuAt \in {"halted", "crashed"} /\ UNCHANGED vars

Init ==
  /\ status = [intr |-> 0, intrPrev |-> 0, intrOld |-> 0,
               user |-> 0, userPrev |-> 0, userOld |-> 0]
  /\ fc = 0 /\ pc = 0 /\ ret = 0 /\ flag = 0
  /\ intrPending = FALSE /\ trapEvent = FALSE
  /\ cpuAt = "boundary"
  /\ fetch = [word |-> 0, base |-> 0, torn |-> FALSE, to |-> 0]
  /\ store = NoStore /\ cache = EmptyCache
  /\ ppAt = "get" /\ num = NoNum /\ queue = <<>>
  /\ unmasked = FALSE
  /\ interrupts = [n \in Nums |-> Unset]
  /\ current = 0
  /\ raised = 0 /\ claim = NoNum
  /\ saved = [intr |-> 0, user |-> 0, pc |-> 0] /\ clean = FALSE /\ rfeRet = 0

CpuStep ==
  \/ Acquire \/ LoadWord \/ Advance \/ FetchFails
  \/ Nop \/ Alu \/ SetFlag \/ Jump \/ Branch
  \/ WriteStatus \/ WriteRet \/ CheckPending \/ PrivilegeFault \/ PrivilegeTrap
  \/ Fault \/ SoftIntr \/ Rfe \/ RfeCount \/ RfeReturn
  \/ Wait \/ Wake \/ Halt
  \/ BeginStore \/ StoreMaskByte \/ StoreLastMaskByte
  \/ AddVector \/ DeleteVector \/ Trigger

PpStep ==
  \/ PpTake \/ PpWait \/ PpSpurious \/ PpTest \/ PpClear
  \/ PpAccept \/ PpIgnore \/ PpRead \/ PpPend \/ PpAnnounce \/ PpTrap

Next == CpuStep \/ PpStep \/ Raise \/ Ended

Spec == Init /\ [][Next]_vars

(* Each thread keeps running.  cpu_lock is handed over in the end because  *)
(* the CPU thread yields (sleep(0)) before every acquisition.              *)
Fairness == WF_vars(CpuStep) /\ WF_vars(PpStep) /\ SF_vars(PpTrap)

FairSpec == Spec /\ Fairness
-----------------------------------------------------------------------------
(* Type invariant.                                                         *)
CpuPlaces ==
  {"boundary", "load", "advance", "exec", "check", "ill", "rfe2", "rfe3",
   "waiting", "store", "halted", "crashed"}

PpPlaces ==
  {"get", "wait", "blocked", "test", "clear", "lock", "read", "pend", "clr",
   "trap", "dead"}

(* What a trap writes.                                                     *)
RegTypes ==
  /\ status \in Status
  /\ fc \in Nat /\ pc \in Int /\ ret \in Int
  /\ trapEvent \in BOOLEAN
  /\ saved \in [intr : Bit, user : Bit, pc : Int]
  /\ clean \in BOOLEAN

TypeOK ==
  /\ RegTypes
  /\ flag \in Bit
  /\ intrPending \in BOOLEAN
  /\ cpuAt \in CpuPlaces
  /\ fetch \in [word : 0 .. 3, base : Int, torn : BOOLEAN, to : Slots]
  /\ store \in Instr
  /\ cpuAt = "store" => store.op \in StoreOps
  /\ cache \in [words : SUBSET Int, vec : Slots]
  /\ ppAt \in PpPlaces
  /\ num \in Nums \cup {NoNum}
  /\ ppAt \notin {"get", "dead"} => num \in Nums
  /\ queue \in Seq(Nums)
  /\ unmasked \in BOOLEAN
  /\ interrupts \in [Nums -> Slots \cup {Unset}]
  /\ current \in Slots
  /\ raised \in 0 .. MaxRaise
  /\ claim \in Nums \cup {NoNum}
  /\ rfeRet \in Int

(* An instruction is fetched from where a slot is.                         *)
FetchInSlots ==
  /\ cpuAt = "load" /\ fetch.word = 0 => pc = fetch.base
  /\ (cpuAt = "load" /\ fetch.word > 0) \/ cpuAt \in {"advance", "exec"} =>
       fetch.base \div 4 \in Slots

-----------------------------------------------------------------------------
(* Properties of every guest.                                              *)

(* README:55.  As long as a handler leaves REG_STATUS alone it runs with   *)
(* interrupts disabled and in kernel mode, whatever the two threads do,    *)
(* and the bits it will restore are those of the code it interrupted; rfe  *)
(* has restored them before it looks for pending interrupts.               *)
HandlerMode ==
  clean /\ fc = 1 =>
    IF cpuAt = "rfe2"
    THEN status.intr = saved.intr /\ status.user = saved.user
    ELSE /\ status.intr = 0 /\ status.user = 0
         /\ status.intrPrev = saved.intr /\ status.userPrev = saved.user

-----------------------------------------------------------------------------
(* Properties of disciplined guests: what the controller and the CPU       *)
(* promise as long as the guest unmasks the controller with a single byte, *)
(* outside the handler.                                                    *)

(* The jump the CPU reads from the controller goes to the vector of the    *)
(* interrupt that was accepted, in spite of MMU.get_address's cache.       *)
VectorFresh ==
  [][claim # NoNum /\ claim' = NoNum => fetch'.to = interrupts[claim]]_vars

(* README:53.  The controller's thread tests the enable bit without        *)
(* cpu_lock and traps later; the bit is still set when it does.            *)
TrapsOnlyEnabled ==
  [][ppAt = "trap" /\ ppAt' # "trap" => status.intr = 1]_vars

(* README:55.  rfe takes the CPU back to the address REG_RET held when it  *)
(* began, which is the one the handler was called from, with the enable    *)
(* and user bits found there, whatever the controller's thread does        *)
(* between its steps.                                                      *)
Resumes ==
  [][cpuAt = "rfe3" /\ cpuAt' = "boundary" =>
       /\ pc' = rfeRet
       /\ saved = [intr |-> status'.intr, user |-> status'.user, pc |-> pc']]_vars

(* The four words of an instruction come from one slot, though every       *)
(* register write of the fetch may run an interrupt.                       *)
NoTornFetch == cpuAt = "exec" => ~fetch.torn

(* A number in the queue, or taken from it, is being delivered.            *)
Waiting(n) ==
  \/ \E k \in 1 .. Len(queue) : queue[k] = n
  \/ num = n /\ ppAt \in {"wait", "blocked", "test", "clear", "lock"}

(* Every interrupt a device raises is handled: the CPU gets to the vector  *)
(* of its number, unless a handler came between unmasking and wait, and    *)
(* the CPU waits for what only its main loop would let in (cpu.py:345).    *)
Delivered ==
  \A n \in Nums :
    Waiting(n) ~> \/ cpuAt = "boundary" /\ pc = 4 * interrupts[n]
                  \/ cpuAt = "waiting" /\ ~unmasked

(* The interrupt the controller's thread has taken from the queue and not  *)
(* yet accepted.                                                           *)
Held ==
  IF ppAt \in {"wait", "blocked", "test", "clear", "lock"} THEN <<num>> ELSE <<>>

(* The controller is open until the thread accepts what it has taken, and  *)
(* the handler is entered when the CPU reads the accepted vector.          *)
Promise ==
  INSTANCE Delivery WITH
    pending  <- Held \o queue,
    open     <- unmasked \/ ppAt = "lock",
    accepted <- claim,
    handling <- fc = 1 /\ claim = NoNum

(* The two threads, their locks and the mask implement the delivery of     *)
(* interrupts in order, one at a time and none left out, to a guest that   *)
(* is interrupted again only when it has unmasked after its handler.       *)
InOrder == Promise!Spec

(* README:69.  A CPU in wait wakes for an interrupt on its way and enters  *)
(* the interrupt handler.                                                  *)
WaitEntersHandler ==
  (cpuAt = "waiting" /\ ppAt = "trap") ~> pc = 4 * IntrSlot

-----------------------------------------------------------------------------
(* What the documentation says of every guest, and some guest refutes.     *)

(* README:55.  rfe returns to the address REG_RET held when it began.      *)
RfeReturns ==
  [][cpuAt = "rfe3" /\ cpuAt' = "boundary" => pc' = rfeRet]_vars

(* README:57.  A fault in a handler is a double fault, and the handler of  *)
(* double faults is called: it is not counted as a third one, which halts. *)
DoubleFaultHandled ==
  [][fc = 1 /\ fc' > 1 => fc' = 2 /\ cpuAt' # "halted"]_vars

(* README:57.  A further fault halts the emulator.                         *)
TripleFaultHalts == fc >= 3 => cpuAt = "halted"
=============================================================================
