-------------------------- MODULE DisciplinedGuest --------------------------
(***************************************************************************)
(* What a guest has to observe for its interrupts to be delivered in       *)
(* order.  Its program is divided into areas, and no path through it may   *)
(* leave one for another but as told here:                                 *)
(*                                                                         *)
(*   "closed"   the controller is masked and no interrupt is on its way:   *)
(*              vectors are set up, and interrupts enabled or disabled     *)
(*   "open"     the controller was unmasked, by one byte; a branch on the  *)
(*              handler's note leads on                                    *)
(*   "noted"    the handler has left its note, to be cleared               *)
(*   "handler"  leaves a note and returns with rfe                         *)
(*                                                                         *)
(* What a program is made of is known before it runs: this is a condition  *)
(* on the instructions, not on the machine's state.                        *)
(***************************************************************************)
EXTENDS InterruptDelivery

Areas == {"closed", "open", "noted", "handler", "none"}

(* The next instruction in memory may be in area b after i in area a.      *)
MayFall(a, i, b) ==
  \/ i.op \in {"nop", "alu", "trigger"} /\ b = a
  \/ i.op = "wait" /\ a \in {"closed", "open"} /\ b = a
  \/ i.op = "brz" /\ (b = a \/ (a = "open" /\ b = "noted"))
  \/ i.op \in {"stat", "add", "del"} /\ a = "closed" /\ b = a
  \/ i.op = "mask" /\ i.bytes = <<0>> /\ a = "closed" /\ b = "open"
  \/ i.op = "flag" /\ i.val = 0 /\ a \in {"closed", "noted"} /\ b = "closed"
  \/ i.op = "flag" /\ i.val = 1 /\ a = "handler" /\ b = a

(* Whether the next instruction is elsewhere, or there is none.            *)
Leaves(a, i) == i.op \in {"jmp", "halt"} \/ (i.op = "rfe" /\ a = "handler")

(* The numbers that have a vector after i, if those of k had one before.   *)
VectorsAfter(k, i) ==
  IF i.op = "add" THEN k \cup {i.num}
  ELSE IF i.op = "del" THEN k \ {i.num} ELSE k

(* An instruction in slot s observes a division into areas, and what is    *)
(* known in each slot about the numbers that have a vector.                *)
Observes(area, known, s, i) ==
  /\ Leaves(area[s], i) \/ /\ s + 1 \in Slots
                           /\ MayFall(area[s], i, area[s + 1])
                           /\ known[s + 1] \subseteq VectorsAfter(known[s], i)
  /\ i.op \in {"jmp", "brz"} =>
       area[i.to] = area[s] /\ known[i.to] \subseteq known[s]
  /\ i.op = "add" => area[i.vec] = "handler"
  /\ i.op = "stat" => i.val.user = 0

(* The vector of the interrupt holds the jump to the controller's, and     *)
(* every number has a vector when the controller is unmasked.              *)
Disciplined(area, known) ==
  /\ area \in [Slots -> Areas] /\ known \in [Slots -> SUBSET Nums]
  /\ area[0] = "closed" /\ known[0] = {}
  /\ IntrSlot # IntcSlot /\ area[IntrSlot] = "none" /\ area[IntcSlot] = "none"
  /\ Guest[IntrSlot] = {[op |-> "jmp", to |-> IntcSlot]}
  /\ \A s \in Slots :
       /\ area[s] # "closed" => known[s] = Nums
       /\ area[s] # "none" => \A i \in Guest[s] : Observes(area, known, s, i)
=============================================================================
