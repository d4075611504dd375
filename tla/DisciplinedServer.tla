-------------------------- MODULE DisciplinedServer --------------------------
(***************************************************************************)
(* What a server has to observe for its interrupts to be delivered in      *)
(* order, and to keep order among its sockets.  Its program is divided     *)
(* into areas, those of the main program as in DisciplinedGuest:           *)
(*                                                                         *)
(*   "closed"  the controller is masked and no interrupt is on its way:    *)
(*             sockets are opened and registered                           *)
(*   "open"    the controller was unmasked; a branch on the handler's note *)
(*             leads on, and nothing else is known                         *)
(*   "noted"   the handler has left its note, to be cleared                *)
(*   "event"   the handler, before ASYNC_DONE                              *)
(*   "done"    the handler, after it: returns with rfe                     *)
(*                                                                         *)
(* and of each place some facts are known:                                 *)
(*                                                                         *)
(*   "mine"   the handle register has the socket of the interrupt          *)
(*   "live"   the socket of the interrupt is registered                    *)
(*   "new"    the socket in the handle register is not                     *)
(*   "own"    the buffer has what the socket in the handle register        *)
(*            received, or nothing                                         *)
(*   "asks"   the parameter register has something to register for         *)
(*   "$r"     register $r has the socket of the interrupt                  *)
(*                                                                         *)
(* Some are known only unless a status is negative.  All of it is a        *)
(* condition on the instructions, not on the machine's state.              *)
(***************************************************************************)
EXTENDS InternetServer

Areas == {"closed", "open", "noted", "event", "done"}
Facts == {"mine", "live", "new", "own", "asks"} \cup Gp

Tested == Gp \cup {"status"}   \* what a fact may depend on
Never  == [r \in Tested |-> {}]

(* What a command needs to be known, what is lost and gained by it, and    *)
(* what is gained if it succeeds.  A server uses no other commands.        *)
Does(needs, loses, gains, ifOk) ==
  [needs |-> needs, loses |-> loses, gains |-> gains, ifOk |-> ifOk]

Effect ==
  [NOP         |-> Does({}, {}, {}, {}),
   SOCKET      |-> Does({}, {"mine", "own"}, {"new"}, {}),
   BIND        |-> Does({}, {"own"}, {}, {}),
   LISTEN      |-> Does({}, {"own"}, {}, {}),
   ACCEPT      |-> Does({"mine", "live"}, {"mine", "new", "own", "asks"}, {},
                        {"new"}),
   RECV        |-> Does({"mine", "live"}, {"own"}, {}, {"own"}),
   SEND        |-> Does({"mine", "live", "own"}, {"own", "asks"}, {}, {}),
   CLOSE       |-> Does({"new"}, {}, {}, {}),
   ASYNC_START |-> Does({"new", "asks"}, {"new"}, {}, {}),
   ASYNC_STOP  |-> Does({"mine", "live"}, {"live"}, {"new"}, {}),
   ASYNC_DONE  |-> Does({}, {}, {}, {})]

Runs(i, name) == i.op = "cmd" /\ i.name = name

(* What is known after an instruction, if k is before it, and u unless     *)
(* something is negative.                                                  *)
KnownAfter(k, u, i) ==
  CASE i.op = "load"   -> (k \ {i.to})
                            \cup (IF i.from = "async" THEN {i.to} ELSE {})
    [] i.op = "set"    -> k \ {i.to}
    [] i.op = "handle" -> (k \ {"mine", "new", "own"})
                            \cup (IF i.of \in k THEN {"mine"} ELSE {})
    [] i.op = "params" -> (k \ {"asks"})
                            \cup (IF Mask(i.val) # {} THEN {"asks"} ELSE {})
    [] i.op = "cmd"    -> (k \ Effect[i.name].loses) \cup Effect[i.name].gains
    [] i.op = "jmpneg" -> k \cup u[i.of]
    [] OTHER           -> k

UnlessAfter(u, i) ==
  CASE i.op = "load"   -> [u EXCEPT ![i.to] = IF i.from = "status"
                                             THEN u["status"] ELSE {}]
    [] i.op = "set"    -> [u EXCEPT ![i.to] = {}]
    [] i.op = "handle" -> Never
    [] i.op = "cmd"    -> [Never EXCEPT !["status"] = Effect[i.name].ifOk]
    [] OTHER           -> u

Notes(i) == i.op \in {"load", "set"} /\ i.to = "$note"

(* The instruction after i in area a may be in area b.                     *)
MayFall(a, i, b) ==
  \/ i.op # "unmask" /\ ~Notes(i) /\ ~Runs(i, "ASYNC_DONE") /\ b = a
  \/ i.op = "unmask" /\ a = "closed" /\ b = "open"
  \/ i.op = "jmpz" /\ i.of = "$note" /\ a = "open" /\ b = "noted"
  \/ /\ i.op = "set" /\ Notes(i)
     /\ \/ i.val = 0 /\ a \in {"closed", "noted"} /\ b = "closed"
        \/ i.val = 1 /\ a \in {"event", "done"} /\ b = a
  \/ Runs(i, "ASYNC_DONE") /\ a = "event" /\ b = "done"

(* Only of the event it handles does the handler ask, and only the socket  *)
(* it was about does it unregister.                                        *)
OnlyInEvent(i) ==
  (i.op = "load" /\ i.from = "async") \/ Runs(i, "ASYNC_STOP")

(* The instruction i at place p observes what is said of the places.       *)
Observes(area, known, unless, p, i) ==
  /\ \/ i.op \in {"jmp", "rfe"}
     \/ /\ p + 1 \in Places
        /\ MayFall(area[p], i, area[p + 1])
        /\ known[p + 1] \subseteq KnownAfter(known[p], unless[p], i)
        /\ \A r \in Tested :
             unless[p + 1][r] \subseteq UnlessAfter(unless[p], i)[r]
  /\ i.op \in {"jmp", "jmpz", "jmpneg", "jmpeq"} =>
       /\ area[i.at] = area[p] /\ known[i.at] \subseteq known[p]
       /\ \A r \in Tested : unless[i.at][r] \subseteq unless[p][r]
  /\ i.op = "cmd" =>
       i.name \in DOMAIN Effect /\ Effect[i.name].needs \subseteq known[p]
  /\ OnlyInEvent(i) => area[p] = "event"
  /\ i.op = "rfe" => area[p] = "done"

Disciplined(area, known, unless) ==
  /\ area \in [Places -> Areas] /\ known \in [Places -> SUBSET Facts]
  /\ unless \in [Places -> [Tested -> SUBSET {"new", "own"}]]
  /\ area[1] = "closed" /\ known[1] = {} /\ unless[1] = Never
  /\ area[Handler] = "event"
  /\ known[Handler] \subseteq {"live"} /\ unless[Handler] = Never
  /\ \A p \in Places :
       /\ area[p] = "open" => known[p] = {} /\ unless[p] = Never
       /\ Observes(area, known, unless, p, Program[p])
=============================================================================
