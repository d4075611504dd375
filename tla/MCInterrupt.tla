----------------------------- MODULE MCInterrupt -----------------------------
(***************************************************************************)
(* Guest programs for model checking InterruptDelivery.  Each is a         *)
(* sequence of instructions, one per slot from slot 0; the last four slots *)
(* are the trap vectors and the controller's jump instruction, which a cfg *)
(* names with IntrSlot, IllSlot, DivSlot and IntcSlot.                     *)
(***************************************************************************)
EXTENDS DisciplinedGuest

TimerNum    == 32   \* Timer.INT_NUM
KeyboardNum == 64   \* Keyboard.INT_NUM
NetNum      == 192  \* Internet.INT_NUM

Off == [intr |-> 0, intrPrev |-> 0, intrOld |-> 0,
        user |-> 0, userPrev |-> 0, userOld |-> 0]
On  == [Off EXCEPT !.intr = 1]

Op(op)           == [op |-> op]
Stat(s)          == [op |-> "stat", val |-> s]
Flag(v)          == [op |-> "flag", val |-> v]
To(op, slot)     == [op |-> op, to |-> slot]
Register(n, slot) == [op |-> "add", num |-> n, vec |-> slot]
Store(b)         == [op |-> "mask", bytes |-> b]
Unmask           == Store(<<0>>)           \* savebi 0 intc_mask
UnmaskWord       == Store(<<0, 0, 0, 0>>)  \* savewi 0 intc_mask

Program(s) == [k \in 0 .. Len(s) - 1 |-> {s[k + 1]}]

(* jmp to the controller's instruction, halt, halt, and the slot the       *)
(* controller answers for (its content is not used).                       *)
Vectors(intc) == <<To("jmp", intc), Op("halt"), Op("halt"), Op("nop")>>

(* Words of two instructions decoded together: an illegal one, or halt.   *)
TornHalt == {Op("halt")}

(* Disciplined guests.  The handlers only leave a note; the main loop      *)
(* picks it up and unmasks the controller again, one byte at a time.  It   *)
(* either polls for the note, or waits again until there is one.           *)
NotesGuest == [Program(<<
  Register(TimerNum, 13), Register(KeyboardNum, 15), Stat(On), Op("nop"),
  Unmask, To("brz", 5), Flag(0), To("jmp", 4),
  Unmask, Op("wait"), To("brz", 9), Flag(0), To("jmp", 8),
  Flag(1), Op("rfe"),
  Flag(1), Op("rfe")>> \o Vectors(20))
  EXCEPT ![3] = {To("jmp", 4), To("jmp", 8)}]

(* Its areas, and what is known in each about the vectors.                 *)
NotesArea ==
  [s \in Slots |->
     IF s \in {5, 9, 10} THEN "open" ELSE IF s \in {6, 11} THEN "noted"
     ELSE IF s \in 13 .. 16 THEN "handler"
     ELSE IF s < 13 THEN "closed" ELSE "none"]

NotesKnown ==
  [s \in Slots |-> IF s = 0 THEN {} ELSE IF s = 1 THEN {TimerNum} ELSE Nums]

ASSUME NotesDisciplined ==
  Guest = NotesGuest => Disciplined(NotesArea, NotesKnown)

(* examples/echo.txt: the handler unmasks with a whole word before rfe.    *)
EchoGuest == Program(<<
  Stat(On), Register(KeyboardNum, 5), UnmaskWord,
  Op("wait"), To("brz", 3),
  Op("alu"), UnmaskWord, Op("rfe"), Op("halt")>> \o Vectors(12))

(* Unmasking from the main loop as soon as wait returns.                   *)
WaitUnmaskGuest == Program(<<
  Stat(On), Register(KeyboardNum, 5), Unmask,
  Op("wait"), To("jmp", 2),
  Op("alu"), Op("rfe"), Op("halt")>> \o Vectors(11))

(* A main loop with a critical section that disables interrupts.           *)
CriticalGuest == Program(<<
  Register(KeyboardNum, 6), Stat(On), Unmask,
  Stat(Off), Stat(On), To("jmp", 3),
  Op("rfe"), Op("halt")>> \o Vectors(11))

(* A main loop that divides by zero, with a handler that returns.          *)
FaultyGuest == Program(<<
  Register(KeyboardNum, 5), Stat(On), Unmask,
  [op |-> "fault", vec |-> 8], To("jmp", 3),
  Op("rfe"), To("jmp", 9), Op("halt"), Op("rfe"), Op("nop")>>)

(* A handler of division by zero that divides by zero itself, and a handler *)
(* of interrupts that halts.                                               *)
DivideGuest == Program(<<
  [op |-> "fault", vec |-> 5], [op |-> "fault", vec |-> 5], Op("rfe"),
  To("jmp", 6), Op("halt"), To("jmp", 1), Op("nop")>>)

(* Any instruction in any slot: slot 0, the vectors, and the controller's. *)
FreeStat == {[Off EXCEPT !.intrPrev = 1, !.userPrev = 1], [On EXCEPT !.user = 1]}
FreeInstr ==
  [op : {"nop", "alu", "wait", "rfe", "intr", "halt"}]
    \cup {Stat(s) : s \in FreeStat}
    \cup [op : {"jmp", "ret"}, to : {4}]
    \cup [op : {"fault"}, vec : {3}]
    \cup {Unmask, Store(<<0, 1>>)}
    \cup [op : {"add"}, num : {KeyboardNum}, vec : {0}]
    \cup [op : {"del", "trigger"}, num : {KeyboardNum}]
FreeTorn == {Op("alu"), Op("rfe")}
FreeGuest == [k \in 0 .. 4 |-> FreeInstr]
=============================================================================
