----------------------------- MODULE PlainMemory -----------------------------
(***************************************************************************)
(* What the guest is promised about ordinary memory: a load returns what   *)
(* the address holds.                                                      *)
(***************************************************************************)
CONSTANTS
  Plain,   \* the addresses of ordinary memory
  Bytes    \* the values a byte can have

VARIABLES
  mem,     \* what each address holds
  last     \* the address loaded last and what was returned; <<>> at first

Init == mem \in [Plain -> Bytes] /\ last = <<>>

Load ==
  \E a \in Plain : last' = <<a, mem[a]>> /\ UNCHANGED mem

Store ==
  \E a \in Plain, b \in Bytes : mem' = [mem EXCEPT ![a] = b] /\ UNCHANGED last

Next == Load \/ Store

Spec == Init /\ [][Next]_<<mem, last>>
=============================================================================
