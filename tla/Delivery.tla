------------------------------ MODULE Delivery ------------------------------
(***************************************************************************)
(* What the CPU and the interrupt controller promise a guest that unmasks  *)
(* in its main program, after the handler of the interrupt before: the     *)
(* interrupts that were raised are taken in order, each once and none left *)
(* out; one is taken only when the guest has unmasked, which masks again;  *)
(* and its handler is entered before another one is taken.                 *)
(***************************************************************************)
EXTENDS Sequences

CONSTANTS
  Nums,   \* the interrupt numbers
  NoNum   \* no interrupt number

VARIABLES
  pending,   \* the interrupts raised and not taken, in order
  open,      \* the guest has unmasked
  accepted,  \* the interrupt that was taken and whose handler is not entered
  handling   \* the guest is in a handler

Init == pending = <<>> /\ ~open /\ accepted = NoNum /\ ~handling

Raise ==
  /\ \E n \in Nums : pending' = Append(pending, n)
  /\ UNCHANGED <<open, accepted, handling>>

Unmask ==
  /\ ~open /\ accepted = NoNum /\ ~handling
  /\ open' = TRUE
  /\ UNCHANGED <<pending, accepted, handling>>

Accept ==
  /\ open /\ pending # <<>>
  /\ accepted' = Head(pending)
  /\ pending' = Tail(pending)
  /\ open' = FALSE
  /\ UNCHANGED handling

Enter ==
  /\ accepted # NoNum
  /\ accepted' = NoNum /\ handling' = TRUE
  /\ UNCHANGED <<pending, open>>

Return ==
  /\ handling
  /\ handling' = FALSE
  /\ UNCHANGED <<pending, open, accepted>>

Next == Raise \/ Unmask \/ Accept \/ Enter \/ Return

Spec == Init /\ [][Next]_<<pending, open, accepted, handling>>
=============================================================================
