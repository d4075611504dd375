--------------------------- MODULE Internet_proofs ---------------------------
(***************************************************************************)
(* Theorems about Internet, for every guest, every number of descriptors   *)
(* and every value of the parameter register: what epoll watches is in     *)
(* order, and no command on it holds up the CPU.  And about InternetServer:*)
(* every program, its interrupts included, is such a guest, and one that   *)
(* observes DisciplinedServer keeps order among its sockets.               *)
(***************************************************************************)
EXTENDS DisciplinedServer, TLAPS

CONSTANTS Area, Known, Unless   \* what is said of the places of a program

Regs == [handle : Fds \cup {NoHandle}, params : Params, status : {-1, 0},
         buffer : Fds \cup {Text, Nothing}]

(* The part of TypeOK that a command changes.                              *)
CommandTypes ==
  /\ reg \in Regs
  /\ sock \in [Fds -> Socks]
  /\ keys \in [Fds -> SUBSET Ops] /\ watched \subseteq Fds
  /\ asyncDone \in BOOLEAN /\ dead \in BOOLEAN

(* The part of TypeOK that only the thread changes.                        *)
ThreadTypes ==
  /\ asyncOp \subseteq Ops /\ asyncHandle \in Fds \cup {NoHandle}
  /\ events \in [Fds -> SUBSET Ops]
  /\ ntAt \in {"select", "next", "raise", "wait"}

CommandInv == CommandTypes /\ WatchedInOrder

Inv ==
  /\ CommandInv /\ ThreadTypes
  /\ stalled \in Commands \cup {"none"}
  /\ WatchedNeverStalls

LEMMA TypeParts ==
  TypeOK <=> /\ CommandTypes /\ ThreadTypes
             /\ stalled \in Commands \cup {"none"}
BY DEF TypeOK, CommandTypes, ThreadTypes, Regs

-----------------------------------------------------------------------------
LEMMA RegFacts ==
  ASSUME NEW r \in Regs
  PROVE  /\ Succeeds(r) \in Regs /\ Fails(r) \in Regs
         /\ Succeeds(r).handle = r.handle /\ Fails(r).handle = r.handle
BY DEF Regs, Succeeds, Fails, Text, Nothing

LEMMA NewSocks ==
  /\ Closed \in Socks /\ Closed.kind = "closed"
  /\ \A kind \in {"new", "stream"} :
       New(kind) \in Socks /\ New(kind).kind = kind /\ New(kind).blocking
<1>1. 0 \in 0 .. MaxArrived
  BY BoundAssumption
<1>2. Closed \in Socks /\ Closed.kind = "closed" /\ Closed.blocking
  BY <1>1 DEF Closed, Socks
<1>3. ASSUME NEW kind \in {"new", "stream"}
      PROVE  New(kind) \in Socks /\ New(kind).kind = kind /\ New(kind).blocking
  BY <1>2 DEF New, Socks
<1>. QED
  BY <1>2, <1>3

(* What is not open is not watched.                                        *)
LEMMA UnusedUnwatched ==
  ASSUME WatchedInOrder, NEW h, Unused(h)
  PROVE  h \notin watched
BY DEF WatchedInOrder, Unused

(* A command that leaves the sockets and the selector as they are.         *)
LEMMA RegOnly ==
  ASSUME CommandInv, reg' \in Regs, OnlyReg
  PROVE  CommandInv'
BY DEF CommandInv, CommandTypes, WatchedInOrder, Open, OnlyReg

LEMMA FailInv == CommandInv /\ Fail => CommandInv'
BY RegFacts, RegOnly DEF Fail, CommandInv, CommandTypes

LEMMA DiesInv == CommandInv /\ Dies => CommandInv'
BY DEF Dies, CommandInv, CommandTypes, WatchedInOrder, Open

(* A change of one socket that leaves it open, and blocking or not.        *)
LEMMA OneSock ==
  ASSUME CommandInv, reg' \in Regs, OnlySock,
         NEW h \in Fds, NEW s \in Socks,
         sock' = [sock EXCEPT ![h] = s],
         s.kind # "closed" \/ h \notin watched,
         s.blocking = sock[h].blocking \/ h \notin watched
  PROVE  CommandInv'
<1>1. sock' \in [Fds -> Socks]
  BY DEF CommandInv, CommandTypes
<1>2. ASSUME NEW g \in watched
      PROVE  Open(g)' /\ keys'[g] # {} /\ ~sock'[g].blocking
  BY <1>2 DEF CommandInv, CommandTypes, WatchedInOrder, Open, OnlySock
<1>. QED
  BY <1>1, <1>2 DEF CommandInv, CommandTypes, WatchedInOrder, OnlySock

LEMMA SocketInv == CommandInv /\ Socket => CommandInv'
<1>. SUFFICES ASSUME CommandInv, Socket PROVE CommandInv'
  OBVIOUS
<1>1. ASSUME NEW h \in Fds, Unused(h),
             sock' = [sock EXCEPT ![h] = New("new")],
             reg' = [Succeeds(reg) EXCEPT !.handle = h], OnlySock
      PROVE  CommandInv'
  <2>1. reg' \in Regs
    BY <1>1, RegFacts DEF CommandInv, CommandTypes, Regs
  <2>. QED
    BY <1>1, <2>1, NewSocks, UnusedUnwatched, OneSock DEF CommandInv
<1>2. CASE reg' = [Fails(reg) EXCEPT !.handle = NoHandle] /\ OnlyReg
  <2>1. reg' \in Regs
    BY <1>2, RegFacts DEF CommandInv, CommandTypes, Regs
  <2>. QED
    BY <1>2, <2>1, RegOnly
<1>. QED
  BY <1>1, <1>2 DEF Socket

LEMMA BindInv == CommandInv /\ Bind => CommandInv'
BY RegFacts, RegOnly DEF Bind, CommandInv, CommandTypes

LEMMA ConnectInv == CommandInv /\ Connect => CommandInv'
<1>. SUFFICES ASSUME CommandInv, Connect, ~Fail PROVE CommandInv'
  BY FailInv
<1>. DEFINE h == reg.handle
            s == [sock[h] EXCEPT !.kind = "stream"]
<1>1. h \in Fds /\ sock' = [sock EXCEPT ![h] = s] /\ OnlySock
  BY DEF Connect, Open, CommandInv, CommandTypes
<1>2. s \in Socks /\ s.kind # "closed" /\ s.blocking = sock[h].blocking
  BY <1>1 DEF CommandInv, CommandTypes, Socks
<1>3. reg' \in Regs
  BY RegFacts DEF Connect, CommandInv, CommandTypes
<1>. QED
  BY <1>1, <1>2, <1>3, OneSock

LEMMA ListenInv == CommandInv /\ Listen => CommandInv'
<1>. SUFFICES ASSUME CommandInv, Listen, ~Fail PROVE CommandInv'
  BY FailInv
<1>. DEFINE h == reg.handle
            s == [sock[h] EXCEPT !.kind = "listener"]
<1>1. h \in Fds /\ sock' = [sock EXCEPT ![h] = s] /\ OnlySock
  BY DEF Listen, Open, CommandInv, CommandTypes
<1>2. s \in Socks /\ s.kind # "closed" /\ s.blocking = sock[h].blocking
  BY <1>1 DEF CommandInv, CommandTypes, Socks
<1>3. reg' \in Regs
  BY RegFacts DEF Listen, CommandInv, CommandTypes
<1>. QED
  BY <1>1, <1>2, <1>3, OneSock

LEMMA AcceptInv == CommandInv /\ Accept => CommandInv'
<1>. SUFFICES ASSUME CommandInv, Accept, ~Fail PROVE CommandInv'
  BY FailInv
<1>. DEFINE h == reg.handle
            s == [sock[h] EXCEPT !.arrived = @ - 1]
<1>1. PICK c \in Fds, port \in AnyNumber :
        /\ Open(h) /\ sock[h].arrived > 0 /\ Unused(c)
        /\ sock' = [sock EXCEPT ![h].arrived = @ - 1, ![c] = New("stream")]
        /\ reg' = [Succeeds(reg) EXCEPT !.handle = c, !.params = port]
        /\ OnlySock
  BY DEF Accept
<1>2. h \in Fds /\ h # c /\ sock' = [[sock EXCEPT ![h] = s]
                                      EXCEPT ![c] = New("stream")]
  BY <1>1 DEF Open, Unused, CommandInv, CommandTypes
<1>3. s \in Socks /\ s.kind # "closed" /\ s.blocking = sock[h].blocking
  BY <1>1, <1>2, BoundAssumption DEF CommandInv, CommandTypes, Socks, Open
<1>4. reg' \in Regs
  BY <1>1, RegFacts DEF CommandInv, CommandTypes, Regs, AnyNumber
<1>5. sock' \in [Fds -> Socks]
  BY <1>2, <1>3, NewSocks DEF CommandInv, CommandTypes
<1>6. ASSUME NEW g \in watched
      PROVE  Open(g)' /\ keys'[g] # {} /\ ~sock'[g].blocking
  <2>1. g # c /\ g \in Fds
    BY <1>1, <1>6, UnusedUnwatched DEF CommandInv, CommandTypes
  <2>. QED
    BY <1>1, <1>2, <1>3, <1>6, <2>1
    DEF CommandInv, CommandTypes, WatchedInOrder, Open, OnlySock
<1>. QED
  BY <1>1, <1>4, <1>5, <1>6
  DEF CommandInv, CommandTypes, WatchedInOrder, OnlySock

LEMMA CloseInv == CommandInv /\ Close => CommandInv'
<1>. SUFFICES ASSUME CommandInv, Close PROVE CommandInv'
  OBVIOUS
<1>. DEFINE h == reg.handle
<1>1. h \in Fds /\ sock' = [sock EXCEPT ![h] = Closed]
      /\ watched' = watched \ {h}
  BY DEF Close, Open
<1>2. CommandTypes'
  BY <1>1, RegFacts, NewSocks DEF CommandInv, CommandTypes, Close
<1>3. WatchedInOrder'
  BY <1>1 DEF CommandInv, CommandTypes, WatchedInOrder, Open, Close
<1>. QED
  BY <1>2, <1>3 DEF CommandInv

(* The sockets after a receive that failed or was told of a reset.         *)
LEMMA RecvErrorInv ==
  ASSUME CommandInv, Open(reg.handle), RecvError(reg.handle)
  PROVE  CommandInv'
<1>. DEFINE h == reg.handle
            s == [sock[h] EXCEPT !.peer = IF @ = "reset" THEN "gone" ELSE @]
<1>1. h \in Fds /\ sock' = [sock EXCEPT ![h] = s] /\ OnlySock
  BY DEF RecvError, Told, Open, CommandInv, CommandTypes
<1>2. s \in Socks /\ s.kind # "closed" /\ s.blocking = sock[h].blocking
  BY <1>1 DEF CommandInv, CommandTypes, Socks, Open
<1>3. reg' \in Regs
  BY RegFacts DEF RecvError, CommandInv, CommandTypes
<1>. QED
  BY <1>1, <1>2, <1>3, OneSock

LEMMA RecvInv == CommandInv /\ Recv => CommandInv'
<1>. SUFFICES ASSUME CommandInv, Recv PROVE CommandInv'
  OBVIOUS
<1>. DEFINE h == reg.handle
<1>0. h \in Fds /\ Open(h)
  BY DEF Recv, Open
<1>1. ASSUME NEW n \in 1 .. sock[h].arrived,
             sock' = [sock EXCEPT ![h].arrived = @ - n],
             reg' = [Succeeds(reg) EXCEPT !.buffer = h], OnlySock
      PROVE  CommandInv'
  <2>. DEFINE s == [sock[h] EXCEPT !.arrived = @ - n]
  <2>1. sock' = [sock EXCEPT ![h] = s]
    BY <1>0, <1>1 DEF CommandInv, CommandTypes
  <2>2. s \in Socks /\ s.kind # "closed" /\ s.blocking = sock[h].blocking
    BY <1>0, <1>1, BoundAssumption DEF CommandInv, CommandTypes, Socks, Open
  <2>3. reg' \in Regs
    BY <1>0, <1>1, RegFacts DEF CommandInv, CommandTypes, Regs
  <2>. QED
    BY <1>0, <1>1, <2>1, <2>2, <2>3, OneSock
<1>2. CASE reg' = [Succeeds(reg) EXCEPT !.buffer = Nothing] /\ OnlyReg
  <2>1. reg' \in Regs
    BY <1>2, RegFacts DEF CommandInv, CommandTypes, Regs
  <2>. QED
    BY <1>2, <2>1, RegOnly
<1>3. CASE reg' = [Succeeds(reg) EXCEPT !.buffer = h] /\ OnlyReg
  <2>1. reg' \in Regs
    BY <1>0, <1>3, RegFacts DEF CommandInv, CommandTypes, Regs
  <2>. QED
    BY <1>3, <2>1, RegOnly
<1>. QED
  BY <1>0, <1>1, <1>2, <1>3, RecvErrorInv DEF Recv

LEMMA RecvFromInv == CommandInv /\ RecvFrom => CommandInv'
BY DiesInv, RecvErrorInv DEF RecvFrom

LEMMA SendInv == CommandInv /\ Send => CommandInv'
<1>. SUFFICES ASSUME CommandInv, Send, ~Fail PROVE CommandInv'
  BY FailInv
<1>1. PICK n \in Params : reg' = [Succeeds(reg) EXCEPT !.params = n]
  BY ParamsAssumption DEF Send, AnyNumber
<1>2. reg' \in Regs
  BY <1>1, RegFacts DEF CommandInv, CommandTypes, Regs
<1>. QED
  BY <1>2, RegOnly DEF Send

LEMMA SendToInv == CommandInv /\ SendTo => CommandInv'
BY SendInv, FailInv DEF SendTo

LEMMA AsyncStartInv == CommandInv /\ AsyncStart => CommandInv'
<1>. SUFFICES ASSUME CommandInv, AsyncStart PROVE CommandInv'
  OBVIOUS
<1>. DEFINE h == reg.handle
            s == [sock[h] EXCEPT !.blocking = FALSE]
<1>1. h \in Fds /\ Open(h) /\ sock' = [sock EXCEPT ![h] = s]
  BY DEF AsyncStart, Open, CommandInv, CommandTypes
<1>2. s \in Socks /\ s.kind # "closed" /\ ~s.blocking
  <2>1. sock[h] \in Socks /\ sock[h].kind # "closed"
    BY <1>1 DEF CommandInv, CommandTypes, Open
  <2>2. s.blocking = FALSE /\ s.kind = sock[h].kind
    BY <2>1 DEF Socks
  <2>3. s \in Socks
    BY <2>1 DEF Socks
  <2>. QED
    BY <2>1, <2>2, <2>3
<1>3. sock' \in [Fds -> Socks]
  BY <1>1, <1>2 DEF CommandInv, CommandTypes
<1>4. \A g \in Fds : /\ Open(g) => Open(g)'
                     /\ ~sock[g].blocking => ~sock'[g].blocking
  BY <1>1, <1>2 DEF Open, CommandInv, CommandTypes
<1>5. CASE /\ Mask(reg.params) = {} \/ keys[h] # {}
           /\ dead' = TRUE /\ UNCHANGED <<reg, keys, watched>>
  BY <1>3, <1>4, <1>5
  DEF CommandInv, CommandTypes, WatchedInOrder, AsyncStart
<1>6. CASE /\ Mask(reg.params) # {}
           /\ keys' = [keys EXCEPT ![h] = Mask(reg.params)]
           /\ watched' = watched \cup {h}
           /\ reg' = Succeeds(reg)
           /\ UNCHANGED dead
  <2>1. Mask(reg.params) \in SUBSET Ops
    BY DEF Mask, Ops
  <2>2. CommandTypes'
    BY <1>1, <1>3, <1>6, <2>1, RegFacts
    DEF CommandInv, CommandTypes, AsyncStart
  <2>3. sock'[h].kind # "closed" /\ ~sock'[h].blocking /\ keys'[h] # {}
    BY <1>1, <1>2, <1>6 DEF CommandInv, CommandTypes
  <2>4. WatchedInOrder'
    BY <1>1, <1>4, <1>6, <2>3
    DEF CommandInv, CommandTypes, WatchedInOrder, Open
  <2>. QED
    BY <2>2, <2>4 DEF CommandInv
<1>. QED
  BY <1>5, <1>6 DEF AsyncStart

LEMMA AsyncStopInv == CommandInv /\ AsyncStop => CommandInv'
<1>. SUFFICES ASSUME CommandInv, AsyncStop, ~Dies PROVE CommandInv'
  BY DiesInv
<1>. DEFINE h == reg.handle
<1>1. /\ h \in Fds /\ keys' = [keys EXCEPT ![h] = {}]
      /\ watched' = watched \ {h} /\ reg' = Succeeds(reg)
      /\ UNCHANGED <<sock, asyncDone, dead>>
  BY DEF AsyncStop, Open
<1>. QED
  BY <1>1, RegFacts DEF CommandInv, CommandTypes, WatchedInOrder, Open

LEMMA AsyncDoneInv == CommandInv /\ AsyncDone => CommandInv'
BY RegFacts DEF AsyncDone, CommandInv, CommandTypes, WatchedInOrder, Open

LEMMA GetNameInfoInv == CommandInv /\ GetNameInfo => CommandInv'
<1>. SUFFICES ASSUME CommandInv, GetNameInfo, ~Fail, ~Dies PROVE CommandInv'
  BY FailInv, DiesInv
<1>1. reg' \in Regs
  BY RegFacts DEF GetNameInfo, CommandInv, CommandTypes, Regs
<1>. QED
  BY <1>1, RegOnly DEF GetNameInfo

LEMMA NopInv == CommandInv /\ Nop => CommandInv'
BY DEF Nop, CommandInv, CommandTypes, WatchedInOrder, Open

(* Every command, whatever it comes to, preserves what is known of the     *)
(* sockets and the selector.                                               *)
LEMMA ExecuteInv ==
  ASSUME CommandInv, NEW c, Execute(c)
  PROVE  CommandInv'
<1>1. CASE Nop
  BY <1>1, NopInv
<1>2. CASE Dies
  BY <1>2, DiesInv
<1>3. CASE Socket \/ Bind \/ Connect \/ Listen \/ Accept \/ Close
  BY <1>3, SocketInv, BindInv, ConnectInv, ListenInv, AcceptInv, CloseInv
<1>4. CASE Recv \/ RecvFrom \/ Send \/ SendTo \/ GetNameInfo
  BY <1>4, RecvInv, RecvFromInv, SendInv, SendToInv, GetNameInfoInv
<1>5. CASE AsyncStart \/ AsyncStop \/ AsyncDone
  BY <1>5, AsyncStartInv, AsyncStopInv, AsyncDoneInv
<1>. QED
  BY <1>1, <1>2, <1>3, <1>4, <1>5 DEF Execute, Ignore, Undefined

-----------------------------------------------------------------------------
LEMMA InvInit == Init => Inv
<1>. SUFFICES ASSUME Init PROVE Inv
  OBVIOUS
<1>1. CommandTypes
  BY ParamsAssumption, NewSocks DEF Init, CommandTypes, Regs, NoHandle, Text
<1>2. ThreadTypes
  BY DEF Init, ThreadTypes
<1>3. WatchedInOrder /\ WatchedNeverStalls
  BY DEF Init, WatchedInOrder, WatchedNeverStalls
<1>. QED
  BY <1>1, <1>2, <1>3 DEF Inv, CommandInv, Init

(* A command that the host does not answer at once is not on a socket that *)
(* epoll watches: those do not block.                                      *)
LEMMA CommandStep ==
  ASSUME Inv, NEW c \in Commands, Command(c), UNCHANGED asyncVars
  PROVE  Inv'
<1>1. ThreadTypes'
  BY DEF Inv, ThreadTypes, asyncVars
<1>2. CASE Execute(c) /\ stalled' = "none"
  BY <1>1, <1>2, ExecuteInv DEF Inv, WatchedNeverStalls
<1>3. CASE /\ Blocks(c) \/ Connects(c) \/ Sends(c)
           /\ stalled' = c
           /\ UNCHANGED <<reg, sock, keys, watched, asyncDone, dead>>
  <2>1. reg.handle \notin watched
    BY <1>3 DEF Blocks, Connects, Sends, Inv, CommandInv, WatchedInOrder
  <2>2. CommandInv'
    BY <1>3, NopInv DEF Inv, Nop
  <2>. QED
    BY <1>1, <1>3, <2>1, <2>2 DEF Inv, WatchedNeverStalls
<1>. QED
  BY <1>2, <1>3 DEF Command

LEMMA StoreStep ==
  ASSUME Inv, NEW r \in Regs, Store(r), UNCHANGED asyncVars
  PROVE  Inv'
<1>1. CommandInv'
  BY DEF Inv, CommandInv, CommandTypes, WatchedInOrder, Open, Store
<1>. QED
  BY <1>1 DEF Inv, ThreadTypes, WatchedNeverStalls, Store, asyncVars

LEMMA GuestStep == Inv /\ Guest /\ UNCHANGED asyncVars => Inv'
<1>. SUFFICES ASSUME Inv, Guest, UNCHANGED asyncVars PROVE Inv'
  OBVIOUS
<1>0. reg \in Regs
  BY DEF Inv, CommandInv, CommandTypes
<1>1. ASSUME NEW c \in Commands, Command(c) PROVE Inv'
  BY <1>1, CommandStep
<1>2. CASE Return
  <2>1. CommandInv'
    BY <1>2, ExecuteInv DEF Return, Inv
  <2>. QED
    BY <1>2, <2>1 DEF Return, Inv, ThreadTypes, WatchedNeverStalls, asyncVars
<1>3. ASSUME NEW h \in Fds \cup {NoHandle}, StoreHandle(h) PROVE Inv'
  BY <1>0, <1>3, StoreStep DEF StoreHandle, Regs
<1>4. ASSUME NEW p \in Params, StoreParams(p) PROVE Inv'
  BY <1>0, <1>4, StoreStep DEF StoreParams, Regs
<1>5. ASSUME NEW b \in {Text, Nothing}, StoreBuffer(b) PROVE Inv'
  BY <1>0, <1>5, StoreStep DEF StoreBuffer, Regs
<1>6. CASE StoreStatus
  BY <1>6 DEF StoreStatus, Inv, CommandInv, CommandTypes, WatchedInOrder, Open,
    ThreadTypes, WatchedNeverStalls, asyncVars
<1>. QED
  BY <1>1, <1>2, <1>3, <1>4, <1>5, <1>6 DEF Guest

LEMMA ThreadStep == Inv /\ Thread => Inv'
<1>. SUFFICES ASSUME Inv, Thread PROVE Inv'
  OBVIOUS
<1>1. /\ UNCHANGED <<reg, sock, keys, watched, stalled, dead>>
      /\ asyncDone' \in BOOLEAN
  BY DEF Thread, Select, Publish, Raise, Awaited, regVars, Inv, CommandInv,
    CommandTypes
<1>2. ThreadTypes'
  <2>1. \A h \in Fds : Ready(h) \in SUBSET Ops
    BY DEF Ready, Inv, CommandInv, CommandTypes
  <2>2. CASE Select
    BY <2>1, <2>2 DEF Select, Inv, ThreadTypes
  <2>3. CASE Publish
    BY <2>3 DEF Publish, Inv, ThreadTypes
  <2>4. CASE Raise \/ Awaited
    BY <2>4 DEF Raise, Awaited, Inv, ThreadTypes
  <2>. QED
    BY <2>2, <2>3, <2>4 DEF Thread
<1>3. CommandInv'
  BY <1>1 DEF Inv, CommandInv, CommandTypes, WatchedInOrder, Open
<1>. QED
  BY <1>1, <1>2, <1>3 DEF Inv, WatchedNeverStalls

(* Peers change neither the kind of a socket nor whether it blocks.        *)
LEMMA HostStep == Inv /\ Host => Inv'
<1>. SUFFICES ASSUME Inv, Host PROVE Inv'
  OBVIOUS
<1>1. PICK h \in Fds : Arrive(h) \/ Withdraw(h) \/ HangUp(h)
  BY DEF Host
<1>2. PICK s \in Socks : /\ sock' = [sock EXCEPT ![h] = s]
                         /\ s.kind = sock[h].kind
                         /\ s.blocking = sock[h].blocking
  <2>0. sock[h] \in Socks /\ sock \in [Fds -> Socks]
    BY DEF Inv, CommandInv, CommandTypes
  <2>1. CASE Arrive(h)
    <3>. DEFINE s == [sock[h] EXCEPT !.arrived = @ + 1]
    <3>1. s \in Socks
      BY <2>0, <2>1, BoundAssumption DEF Arrive, Socks
    <3>. QED
      BY <2>0, <2>1, <3>1 DEF Arrive, Socks
  <2>2. CASE Withdraw(h)
    <3>. DEFINE s == [sock[h] EXCEPT !.arrived = @ - 1]
    <3>1. s \in Socks
      BY <2>0, <2>2, BoundAssumption DEF Withdraw, Socks
    <3>. QED
      BY <2>0, <2>2, <3>1 DEF Withdraw, Socks
  <2>3. CASE sock' = [sock EXCEPT ![h].peer = "gone"]
    <3>. DEFINE s == [sock[h] EXCEPT !.peer = "gone"]
    <3>1. s \in Socks
      BY <2>0 DEF Socks
    <3>. QED
      BY <2>0, <2>3, <3>1 DEF Socks
  <2>4. CASE sock' = [sock EXCEPT ![h].peer = "reset", ![h].arrived = 0]
    <3>. DEFINE s == [sock[h] EXCEPT !.peer = "reset", !.arrived = 0]
    <3>0. 0 \in 0 .. MaxArrived
      BY BoundAssumption
    <3>1. s \in Socks
      BY <2>0, <3>0 DEF Socks
    <3>. QED
      BY <2>0, <2>4, <3>1 DEF Socks
  <2>. QED
    BY <1>1, <2>1, <2>2, <2>3, <2>4 DEF HangUp
<1>3. UNCHANGED <<reg, keys, watched, asyncDone, stalled, dead>>
  BY DEF Host
<1>4. CommandTypes'
  BY <1>2, <1>3 DEF Inv, CommandInv, CommandTypes
<1>5. WatchedInOrder'
  BY <1>2, <1>3 DEF Inv, CommandInv, CommandTypes, WatchedInOrder, Open
<1>. QED
  BY <1>3, <1>4, <1>5
  DEF Host, Inv, CommandInv, ThreadTypes, WatchedNeverStalls, asyncVars

LEMMA InvStep == Inv /\ [Next]_vars => Inv'
<1>1. Inv /\ UNCHANGED vars => Inv'
  BY DEF vars, Inv, CommandInv, CommandTypes, WatchedInOrder, Open,
    ThreadTypes, WatchedNeverStalls
<1>. QED
  BY <1>1, GuestStep, ThreadStep, HostStep DEF Next, Ended

LEMMA InvHolds == Spec => []Inv
BY InvInit, InvStep, PTL DEF Spec

-----------------------------------------------------------------------------
(* Type correctness, for every guest and every set of descriptors.         *)
THEOREM TypeCorrect == Spec => []TypeOK
<1>1. Inv => TypeOK
  BY TypeParts DEF Inv, CommandInv
<1>. QED
  BY <1>1, InvHolds, PTL

(* What epoll watches is open, registered and does not block, whatever the *)
(* guest does, although close() does not tell the selector and descriptors *)
(* are used again.                                                         *)
THEOREM WatchedInOrderHolds == Spec => []WatchedInOrder
<1>1. Inv => WatchedInOrder
  BY DEF Inv, CommandInv
<1>. QED
  BY <1>1, InvHolds, PTL

(* No guest is stalled, with cpu_lock held, in a command on a socket that  *)
(* it will be told of by interrupt.                                        *)
THEOREM WatchedNeverStallsHolds == Spec => []WatchedNeverStalls
<1>1. Inv => WatchedNeverStalls
  BY DEF Inv
<1>. QED
  BY <1>1, InvHolds, PTL

-----------------------------------------------------------------------------
(* A program is a guest.                                                   *)
LEMMA OnlyCommands ==
  ASSUME NEW c, Command(c)
  PROVE  c \in Commands
BY DEF Command, Execute, Blocks, Connects, Sends, Commands, OnHandle

LEMMA ProgramTyped ==
  ASSUME NEW op, Exec(op)
  PROVE  Program[pc] \in Instr /\ Program[pc].op = op
BY ProgramAssumption DEF Exec, Places

(* A step of the CPU is a step of a guest, or none that the device sees.   *)
LEMMA CpuStep ==
  ASSUME Cpu
  PROVE  (Guest /\ UNCHANGED asyncVars) \/ UNCHANGED vars
<1>1. CASE Load \/ Set \/ Jump \/ Unmask \/ Rfe
  BY <1>1 DEF Load, Set, Jump, Unmask, Rfe
<1>2. CASE RunCommand
  BY <1>2, OnlyCommands DEF RunCommand, Guest
<1>3. CASE StoreRegister
  <2>1. CASE Exec("handle") /\ StoreHandle(AsHandle(gp[Program[pc].of]))
    BY <1>3, <2>1 DEF StoreRegister, AsHandle, Guest
  <2>2. CASE Exec("params") /\ StoreParams(Program[pc].val)
    <3>1. Program[pc].val \in Params
      BY <2>2, ProgramTyped DEF Instr
    <3>. QED
      BY <1>3, <2>2, <3>1 DEF StoreRegister, Guest
  <2>. QED
    BY <1>3, <2>1, <2>2 DEF StoreRegister
<1>. QED
  BY <1>1, <1>2, <1>3 DEF Cpu

LEMMA ServerStep == [ServerNext]_allVars => [Next]_vars
<1>. SUFFICES ASSUME [ServerNext]_allVars PROVE [Next]_vars
  OBVIOUS
<1>1. CASE Cpu
  BY <1>1, CpuStep DEF Next
<1>2. CASE Enter \/ AcceptInterrupt \/ UNCHANGED allVars
  BY <1>2 DEF Enter, AcceptInterrupt, allVars
<1>3. CASE NetThread \/ Peers
  BY <1>3 DEF NetThread, Peers, Next
<1>. QED
  BY <1>1, <1>2, <1>3 DEF ServerNext

(* Every program with its interrupts implements a guest of the device.     *)
THEOREM ServerImplements == ServerSpec => Spec
<1>1. ServerInit => Init
  BY DEF ServerInit
<1>. QED
  BY <1>1, ServerStep, PTL DEF ServerSpec, Spec

(* So no program has epoll watch a socket that is closed or that blocks,   *)
(* or is stalled in a command on a socket that is watched.                 *)
THEOREM ServerWatched ==
  ServerSpec => []WatchedInOrder /\ []WatchedNeverStalls
BY ServerImplements, WatchedInOrderHolds, WatchedNeverStallsHolds, PTL

-----------------------------------------------------------------------------
(* A disciplined server.                                                   *)
Discipline == Disciplined(Area, Known, Unless)

Live(h) == h \in Fds /\ keys[h] # {}

Unregistered == reg.handle \in Fds => keys[reg.handle] = {}
Received == reg.buffer \in {reg.handle, Nothing}

(* The facts mean what DisciplinedServer says they do.                     *)
OfHandle(k) ==
  /\ "new" \in k => Unregistered
  /\ "own" \in k => Received

Knows(k) ==
  /\ "mine" \in k => reg.handle = mine
  /\ "live" \in k => Live(mine)
  /\ "asks" \in k => Mask(reg.params) # {}
  /\ OfHandle(k)
  /\ \A r \in Gp : r \in k => gp[r] = mine

KnowsAt(k, u) ==
  /\ Knows(k)
  /\ reg.status >= 0 => OfHandle(u["status"])
  /\ \A r \in Gp : gp[r] >= 0 => OfHandle(u[r])

KnowsInv == KnowsAt(Known[pc], Unless[pc])

(* An interrupt may be let in or be on its way only in the open, and there *)
(* only as long as the handler has not left its note.                      *)
PlaceInv ==
  /\ pc \in Places /\ resume \in Places \cup {0}
  /\ resume # 0 <=> Area[pc] \in {"event", "done"}
  /\ resume # 0 => Area[resume] = "open"
  /\ accepted => ~unmasked
  /\ Area[pc] # "open" \/ gp["$note"] # 0 => ~unmasked /\ ~accepted
  /\ Area[pc] = "closed" => gp["$note"] = 0

(* No interrupt is on its way, or the only one is about what the event     *)
(* registers show.                                                         *)
Idle == queued = 0 /\ ~accepted /\ about = <<>>

InFlight ==
  /\ about = <<asyncHandle>> /\ Live(asyncHandle)
  /\ queued = IF accepted THEN 0 ELSE 1

(* From the announcement of an event to ASYNC_DONE its interrupt is on its *)
(* way or being handled; what is still to be announced is registered.      *)
TokenInv ==
  /\ IF ntAt = "wait" /\ ~asyncDone
     THEN IF Area[pc] = "event" THEN Idle /\ mine = asyncHandle
                                ELSE InFlight
     ELSE Idle /\ Area[pc] # "event"
  /\ ntAt = "raise" => Live(asyncHandle) /\ ~asyncDone
  /\ ntAt \in {"raise", "wait"} =>
       asyncHandle \in Fds /\ events[asyncHandle] = {}
  /\ \A h \in Fds : events[h] # {} => Live(h)

(* The selector has no key for a descriptor that epoll does not watch.     *)
KeysWatched == \A h \in Fds : keys[h] # {} => h \in watched

OrderInv ==
  /\ KeysWatched /\ ~dead /\ stalled = "none"
  /\ gp \in [Gp -> Int] /\ mine \in Fds \cup {NoHandle}
  /\ PlaceInv /\ KnowsInv /\ TokenInv

ServerInv == Inv /\ OrderInv

-----------------------------------------------------------------------------
LEMMA RegFields ==
  ASSUME NEW r \in Regs
  PROVE  /\ Succeeds(r).params = r.params /\ Succeeds(r).buffer = r.buffer
         /\ Succeeds(r).status = 0
         /\ Fails(r).params = r.params /\ Fails(r).status = -1
BY DEF Regs, Succeeds, Fails

LEMMA NoHandleFacts == NoHandle \notin Fds
BY FdsAssumption DEF NoHandle

LEMMA EffectNames ==
  DOMAIN Effect = {"NOP", "SOCKET", "BIND", "LISTEN", "ACCEPT", "RECV", "SEND",
                   "CLOSE", "ASYNC_START", "ASYNC_STOP", "ASYNC_DONE"}
BY DEF Effect

(* What remains known of a command that changes only the device.           *)
LEMMA KnowsAfter ==
  ASSUME NEW k, NEW loses, NEW gains, Knows(k), UNCHANGED <<gp, mine>>,
         "mine" \notin loses => reg'.handle = reg.handle,
         "live" \notin loses => (Live(mine) => Live(mine)'),
         "asks" \notin loses => reg'.params = reg.params,
         "new" \notin loses => (Unregistered => Unregistered'),
         "own" \notin loses => (Received => Received'),
         gains \subseteq {"new"}, "new" \in gains => Unregistered'
  PROVE  Knows((k \ loses) \cup gains)'
BY DEF Knows, OfHandle, Gp, Mask

(* What a command comes to, k being known before it.                       *)
Outcome(c, k) ==
  /\ stalled' = "none" /\ ~dead'
  /\ KeysWatched'
  /\ Knows((k \ Effect[c].loses) \cup Effect[c].gains)'
  /\ reg'.status >= 0 => OfHandle(Effect[c].ifOk)'
  /\ \A h \in Fds : Live(h) /\ (c # "ASYNC_STOP" \/ h # mine) => Live(h)'
  /\ asyncDone' = (c = "ASYNC_DONE" \/ asyncDone)

(* A command whose outcome is shown for the command by itself.             *)
Begins(c, k) ==
  /\ Inv /\ KeysWatched /\ ~dead /\ stalled = "none"
  /\ Effect[c].needs \subseteq k /\ Knows(k)
  /\ UNCHANGED <<gp, mine>> /\ stalled' = "none"

LEMMA NothingIfOk == OfHandle({})'
BY DEF OfHandle

(* Commands that leave the sockets' keys alone, and the handle.            *)
LEMMA SameKeys ==
  ASSUME NEW c, NEW k, Begins(c, k), c # "ASYNC_DONE",
         UNCHANGED <<keys, watched, asyncDone, dead>>,
         reg'.handle = reg.handle,
         Effect[c].gains = {}, Effect[c].ifOk = {},
         "asks" \notin Effect[c].loses => reg'.params = reg.params,
         "own" \notin Effect[c].loses => reg'.buffer = reg.buffer
  PROVE  Outcome(c, k)
<1>1. /\ KeysWatched' /\ ~dead' /\ asyncDone' = (c = "ASYNC_DONE" \/ asyncDone)
      /\ \A h \in Fds : Live(h) => Live(h)'
  <2>1. KeysWatched' /\ ~dead' /\ \A h \in Fds : Live(h) => Live(h)'
    BY DEF Begins, KeysWatched, Live
  <2>2. asyncDone \in BOOLEAN
    BY DEF Begins, Inv, CommandInv, CommandTypes
  <2>. QED
    BY <2>1, <2>2
<1>2. Knows((k \ Effect[c].loses) \cup Effect[c].gains)'
  <2>1. Live(mine) => Live(mine)'
    BY DEF Begins, Live
  <2>2. Unregistered => Unregistered'
    BY DEF Unregistered
  <2>3. reg'.buffer = reg.buffer => (Received => Received')
    BY DEF Received
  <2>. QED
    BY <2>1, <2>2, <2>3, KnowsAfter DEF Begins
<1>. QED
  BY <1>1, <1>2, NothingIfOk DEF Outcome, Begins

LEMMA NopOutcome ==
  ASSUME NEW k, NEW c, Begins(c, k), Nop, c # "ASYNC_DONE",
         Effect[c].gains = {}, Effect[c].ifOk = {}
  PROVE  Outcome(c, k)
BY SameKeys DEF Nop

LEMMA SocketOutcome ==
  ASSUME NEW k, Begins("SOCKET", k), Socket
  PROVE  Outcome("SOCKET", k)
<1>1. /\ Effect["SOCKET"].loses = {"mine", "own"}
      /\ Effect["SOCKET"].gains = {"new"} /\ Effect["SOCKET"].ifOk = {}
  BY DEF Effect, Does
<1>2. /\ UNCHANGED <<keys, watched, asyncDone, dead>> /\ reg \in Regs
      /\ WatchedInOrder /\ KeysWatched /\ asyncDone \in BOOLEAN
  BY DEF Socket, OnlySock, OnlyReg, Begins, Inv, CommandInv, CommandTypes
<1>3. Unregistered' /\ reg'.params = reg.params
  <2>1. ASSUME NEW h \in Fds, Unused(h),
               reg' = [Succeeds(reg) EXCEPT !.handle = h]
        PROVE  Unregistered' /\ reg'.params = reg.params
    <3>1. reg'.handle = h /\ reg'.params = reg.params
      BY <1>2, <2>1, RegFacts, RegFields DEF Regs
    <3>2. h \notin watched
      BY <1>2, <2>1, UnusedUnwatched
    <3>. QED
      BY <1>2, <3>1, <3>2 DEF Unregistered, KeysWatched
  <2>2. CASE reg' = [Fails(reg) EXCEPT !.handle = NoHandle]
    <3>1. reg'.handle = NoHandle /\ reg'.params = reg.params
      BY <1>2, <2>2, RegFacts, RegFields DEF Regs
    <3>. QED
      BY <3>1, NoHandleFacts DEF Unregistered
  <2>. QED
    BY <2>1, <2>2 DEF Socket
<1>4. Live(mine) => Live(mine)'
  BY <1>2 DEF Begins, Live
<1>5. Knows((k \ Effect["SOCKET"].loses) \cup Effect["SOCKET"].gains)'
  BY <1>1, <1>3, <1>4, KnowsAfter DEF Begins
<1>6. KeysWatched' /\ \A h \in Fds : Live(h) => Live(h)'
  BY <1>2 DEF KeysWatched, Live
<1>. QED
  BY <1>1, <1>2, <1>5, <1>6, NothingIfOk DEF Outcome, Begins

LEMMA BindOutcome ==
  ASSUME NEW k, NEW c \in {"BIND", "LISTEN"}, Begins(c, k), Bind \/ Listen
  PROVE  Outcome(c, k)
<1>1. /\ Effect[c].gains = {} /\ Effect[c].ifOk = {}
      /\ "own" \in Effect[c].loses
  BY DEF Effect, Does
<1>2. /\ reg \in Regs /\ UNCHANGED <<keys, watched, asyncDone, dead>>
      /\ reg' \in {Succeeds(reg), Fails(reg)}
  BY DEF Bind, Listen, Fail, OnlySock, OnlyReg, Begins, Inv, CommandInv,
    CommandTypes
<1>3. reg'.handle = reg.handle /\ reg'.params = reg.params
  BY <1>2, RegFacts, RegFields
<1>. QED
  BY <1>1, <1>2, <1>3, SameKeys

LEMMA SendOutcome ==
  ASSUME NEW k, Begins("SEND", k), Send
  PROVE  Outcome("SEND", k)
<1>1. /\ Effect["SEND"].gains = {} /\ Effect["SEND"].ifOk = {}
      /\ Effect["SEND"].loses = {"own", "asks"}
  BY DEF Effect, Does
<1>2. reg \in Regs /\ UNCHANGED <<keys, watched, asyncDone, dead>>
  BY DEF Send, Fail, OnlySock, OnlyReg, Begins, Inv, CommandInv, CommandTypes
<1>3. reg'.handle = reg.handle
  <2>1. CASE Fail
    BY <1>2, <2>1, RegFacts DEF Fail
  <2>2. ASSUME NEW n, reg' = [Succeeds(reg) EXCEPT !.params = n]
        PROVE  reg'.handle = reg.handle
    BY <1>2, <2>2, RegFacts DEF Regs
  <2>. QED
    BY <2>1, <2>2 DEF Send
<1>. QED
  BY <1>1, <1>2, <1>3, SameKeys

(* The socket of the interrupt is open, and does not block.                *)
LEMMA MineOpen ==
  ASSUME NEW k, Inv, KeysWatched, Knows(k), "mine" \in k, "live" \in k
  PROVE  /\ reg.handle \in Fds /\ reg.handle = mine /\ keys[mine] # {}
         /\ Open(reg.handle) /\ ~sock[reg.handle].blocking
BY DEF Knows, Live, KeysWatched, Inv, CommandInv, WatchedInOrder

LEMMA AcceptOutcome ==
  ASSUME NEW k, Begins("ACCEPT", k), Accept
  PROVE  Outcome("ACCEPT", k)
<1>1. /\ Effect["ACCEPT"].loses = {"mine", "new", "own", "asks"}
      /\ Effect["ACCEPT"].gains = {} /\ Effect["ACCEPT"].ifOk = {"new"}
  BY DEF Effect, Does
<1>2. /\ UNCHANGED <<keys, watched, asyncDone, dead>> /\ reg \in Regs
      /\ WatchedInOrder /\ KeysWatched /\ asyncDone \in BOOLEAN
  BY DEF Accept, Fail, OnlySock, OnlyReg, Begins, Inv, CommandInv,
    CommandTypes
<1>3. reg'.status >= 0 => Unregistered'
  <2>1. ASSUME NEW c \in Fds, NEW port, Unused(c),
               reg' = [Succeeds(reg) EXCEPT !.handle = c, !.params = port]
        PROVE  Unregistered'
    <3>1. reg'.handle = c
      BY <1>2, <2>1, RegFacts DEF Regs
    <3>2. c \notin watched
      BY <1>2, <2>1, UnusedUnwatched
    <3>. QED
      BY <1>2, <3>1, <3>2 DEF Unregistered, KeysWatched
  <2>2. CASE Fail
    BY <1>2, <2>2, RegFields DEF Fail
  <2>. QED
    BY <2>1, <2>2 DEF Accept
<1>4. Live(mine) => Live(mine)'
  BY <1>2 DEF Begins, Live
<1>5. Knows((k \ Effect["ACCEPT"].loses) \cup Effect["ACCEPT"].gains)'
  BY <1>1, <1>4, KnowsAfter DEF Begins
<1>6. KeysWatched' /\ \A h \in Fds : Live(h) => Live(h)'
  BY <1>2 DEF KeysWatched, Live
<1>7. reg'.status >= 0 => OfHandle({"new"})'
  BY <1>3 DEF OfHandle
<1>. QED
  BY <1>1, <1>2, <1>5, <1>6, <1>7 DEF Outcome, Begins

LEMMA RecvOutcome ==
  ASSUME NEW k, Begins("RECV", k), Recv
  PROVE  Outcome("RECV", k)
<1>1. /\ Effect["RECV"].loses = {"own"}
      /\ Effect["RECV"].gains = {} /\ Effect["RECV"].ifOk = {"own"}
  BY DEF Effect, Does
<1>2. /\ UNCHANGED <<keys, watched, asyncDone, dead>> /\ reg \in Regs
      /\ asyncDone \in BOOLEAN
  BY DEF Recv, RecvError, OnlySock, OnlyReg, Begins, Inv, CommandInv,
    CommandTypes
<1>3. /\ reg'.handle = reg.handle /\ reg'.params = reg.params
      /\ reg'.status >= 0 => Received'
  <2>1. ASSUME NEW b \in {reg.handle, Nothing},
               reg' = [Succeeds(reg) EXCEPT !.buffer = b]
        PROVE  /\ reg'.handle = reg.handle /\ reg'.params = reg.params
               /\ reg'.buffer = b
    BY <1>2, <2>1, RegFacts, RegFields DEF Regs
  <2>2. CASE RecvError(reg.handle)
    BY <1>2, <2>2, RegFacts, RegFields DEF RecvError
  <2>. QED
    BY <2>1, <2>2 DEF Recv, Received
<1>4. /\ Live(mine) => Live(mine)'
      /\ Unregistered => Unregistered'
  BY <1>2, <1>3 DEF Begins, Live, Unregistered
<1>5. Knows((k \ Effect["RECV"].loses) \cup Effect["RECV"].gains)'
  BY <1>1, <1>3, <1>4, KnowsAfter DEF Begins
<1>6. KeysWatched' /\ \A h \in Fds : Live(h) => Live(h)'
  BY <1>2 DEF Begins, KeysWatched, Live
<1>7. reg'.status >= 0 => OfHandle({"own"})'
  BY <1>3 DEF OfHandle
<1>. QED
  BY <1>1, <1>2, <1>5, <1>6, <1>7 DEF Outcome, Begins

(* A socket that is closed has no key that would be left behind.           *)
LEMMA CloseOutcome ==
  ASSUME NEW k, Begins("CLOSE", k), Close
  PROVE  Outcome("CLOSE", k)
<1>1. /\ Effect["CLOSE"].loses = {} /\ Effect["CLOSE"].needs = {"new"}
      /\ Effect["CLOSE"].gains = {} /\ Effect["CLOSE"].ifOk = {}
  BY DEF Effect, Does
<1>2. /\ UNCHANGED <<keys, asyncDone, dead>> /\ reg \in Regs
      /\ watched' = watched \ {reg.handle} /\ reg' = Succeeds(reg)
      /\ asyncDone \in BOOLEAN
  BY DEF Close, Begins, Inv, CommandInv, CommandTypes
<1>3. /\ reg'.handle = reg.handle /\ reg'.params = reg.params
      /\ reg'.buffer = reg.buffer
  BY <1>2, RegFacts, RegFields
<1>4. /\ Live(mine) => Live(mine)'
      /\ Unregistered => Unregistered'
      /\ Received => Received'
  BY <1>2, <1>3 DEF Begins, Live, Unregistered, Received
<1>5. Knows((k \ Effect["CLOSE"].loses) \cup Effect["CLOSE"].gains)'
  BY <1>1, <1>3, <1>4, KnowsAfter DEF Begins
<1>6. Unregistered
  BY <1>1 DEF Begins, Knows, OfHandle
<1>7. KeysWatched' /\ \A h \in Fds : Live(h) => Live(h)'
  BY <1>2, <1>6 DEF Begins, KeysWatched, Live, Unregistered
<1>. QED
  BY <1>1, <1>2, <1>5, <1>7, NothingIfOk DEF Outcome, Begins

(* A socket is registered for something, and was not before.               *)
LEMMA StartOutcome ==
  ASSUME NEW k, Begins("ASYNC_START", k), AsyncStart
  PROVE  Outcome("ASYNC_START", k)
<1>. DEFINE h == reg.handle
<1>1. /\ Effect["ASYNC_START"].needs = {"new", "asks"}
      /\ Effect["ASYNC_START"].loses = {"new"}
      /\ Effect["ASYNC_START"].gains = {} /\ Effect["ASYNC_START"].ifOk = {}
  BY DEF Effect, Does
<1>2. h \in Fds /\ keys[h] = {} /\ Mask(reg.params) # {}
  BY <1>1 DEF AsyncStart, Open, Begins, Knows, OfHandle, Unregistered
<1>3. /\ keys' = [keys EXCEPT ![h] = Mask(reg.params)]
      /\ watched' = watched \cup {h} /\ reg' = Succeeds(reg)
      /\ UNCHANGED <<asyncDone, dead>> /\ reg \in Regs
      /\ keys \in [Fds -> SUBSET Ops] /\ asyncDone \in BOOLEAN
  BY <1>2 DEF AsyncStart, Begins, Inv, CommandInv, CommandTypes
<1>4. /\ reg'.handle = reg.handle /\ reg'.params = reg.params
      /\ reg'.buffer = reg.buffer
  BY <1>3, RegFacts, RegFields
<1>5. KeysWatched' /\ \A g \in Fds : Live(g) => Live(g)'
  BY <1>2, <1>3 DEF Begins, KeysWatched, Live
<1>6. Live(mine) => Live(mine)'
  BY <1>5 DEF Begins, Live
<1>7. Received => Received'
  BY <1>4 DEF Received
<1>8. Knows((k \ Effect["ASYNC_START"].loses) \cup Effect["ASYNC_START"].gains)'
  BY <1>1, <1>4, <1>6, <1>7, KnowsAfter DEF Begins
<1>. QED
  BY <1>1, <1>3, <1>5, <1>8, NothingIfOk DEF Outcome, Begins

(* A socket that is registered no longer is.                               *)
LEMMA StopOutcome ==
  ASSUME NEW k, Begins("ASYNC_STOP", k), AsyncStop
  PROVE  Outcome("ASYNC_STOP", k)
<1>. DEFINE h == reg.handle
<1>1. /\ Effect["ASYNC_STOP"].needs = {"mine", "live"}
      /\ Effect["ASYNC_STOP"].loses = {"live"}
      /\ Effect["ASYNC_STOP"].gains = {"new"}
      /\ Effect["ASYNC_STOP"].ifOk = {}
  BY DEF Effect, Does
<1>2. h \in Fds /\ h = mine /\ keys[h] # {}
  BY <1>1, MineOpen DEF Begins
<1>3. /\ keys' = [keys EXCEPT ![h] = {}]
      /\ watched' = watched \ {h} /\ reg' = Succeeds(reg)
      /\ UNCHANGED <<asyncDone, dead>> /\ reg \in Regs
      /\ keys \in [Fds -> SUBSET Ops] /\ asyncDone \in BOOLEAN
  BY <1>2 DEF AsyncStop, Begins, Inv, CommandInv, CommandTypes
<1>4. /\ reg'.handle = reg.handle /\ reg'.params = reg.params
      /\ reg'.buffer = reg.buffer
  BY <1>3, RegFacts, RegFields
<1>5. Unregistered' /\ (Received => Received')
  BY <1>2, <1>3, <1>4 DEF Unregistered, Received
<1>6. Knows((k \ Effect["ASYNC_STOP"].loses) \cup Effect["ASYNC_STOP"].gains)'
  BY <1>1, <1>4, <1>5, KnowsAfter DEF Begins
<1>7. KeysWatched' /\ \A g \in Fds : Live(g) /\ g # mine => Live(g)'
  BY <1>2, <1>3 DEF Begins, KeysWatched, Live
<1>. QED
  BY <1>1, <1>3, <1>6, <1>7, NothingIfOk DEF Outcome, Begins

LEMMA DoneOutcome ==
  ASSUME NEW k, Begins("ASYNC_DONE", k), AsyncDone
  PROVE  Outcome("ASYNC_DONE", k)
<1>1. /\ Effect["ASYNC_DONE"].loses = {} /\ Effect["ASYNC_DONE"].gains = {}
      /\ Effect["ASYNC_DONE"].ifOk = {}
  BY DEF Effect, Does
<1>2. /\ UNCHANGED <<keys, watched, dead>> /\ reg \in Regs
      /\ asyncDone' = TRUE /\ reg' = Succeeds(reg)
  BY DEF AsyncDone, Begins, Inv, CommandInv, CommandTypes
<1>3. /\ reg'.handle = reg.handle /\ reg'.params = reg.params
      /\ reg'.buffer = reg.buffer
  BY <1>2, RegFacts, RegFields
<1>4. /\ Live(mine) => Live(mine)'
      /\ Unregistered => Unregistered'
      /\ Received => Received'
  BY <1>2, <1>3 DEF Begins, Live, Unregistered, Received
<1>5. Knows((k \ Effect["ASYNC_DONE"].loses) \cup Effect["ASYNC_DONE"].gains)'
  BY <1>1, <1>3, <1>4, KnowsAfter DEF Begins
<1>6. KeysWatched' /\ \A h \in Fds : Live(h) => Live(h)'
  BY <1>2 DEF Begins, KeysWatched, Live
<1>. QED
  BY <1>1, <1>2, <1>5, <1>6, NothingIfOk DEF Outcome, Begins

(* A disciplined command is carried out at once, and ends nothing.         *)
LEMMA CommandOutcome ==
  ASSUME NEW k, NEW c \in DOMAIN Effect, Command(c),
         Inv, KeysWatched, ~dead, stalled = "none",
         Effect[c].needs \subseteq k, Knows(k), UNCHANGED <<gp, mine>>
  PROVE  Outcome(c, k)
<1>. DEFINE Mine == {"ACCEPT", "RECV", "SEND", "ASYNC_STOP"}
<1>1. /\ c \in Mine => "mine" \in k /\ "live" \in k
      /\ c \notin Mine =>
           c \in {"NOP", "SOCKET", "BIND", "LISTEN", "CLOSE", "ASYNC_START",
                  "ASYNC_DONE"}
  <2>1. /\ Effect["ACCEPT"].needs = {"mine", "live"}
        /\ Effect["RECV"].needs = {"mine", "live"}
        /\ Effect["SEND"].needs = {"mine", "live", "own"}
        /\ Effect["ASYNC_STOP"].needs = {"mine", "live"}
    BY DEF Effect, Does
  <2>. QED
    BY <2>1, EffectNames
<1>2. ~Blocks(c) /\ ~Connects(c) /\ ~Sends(c)
  <2>1. c \notin {"CONNECT", "RECVFROM", "SENDTO"}
    BY EffectNames
  <2>2. CASE c \in {"ACCEPT", "RECV", "SEND"}
    BY <1>1, <2>1, <2>2, MineOpen DEF Blocks, Connects, Sends
  <2>3. CASE c \notin {"ACCEPT", "RECV", "SEND"}
    BY <2>1, <2>3 DEF Blocks, Connects, Sends
  <2>. QED
    BY <2>2, <2>3
<1>3. Execute(c) /\ stalled' = "none"
  BY <1>2 DEF Command
<1>4. Begins(c, k)
  BY <1>3 DEF Begins
<1>5. CASE c \in OnHandle /\ Ignore
  <2>1. c \notin Mine
    BY <1>1, <1>5, MineOpen DEF Ignore
  <2>2. c \in {"BIND", "LISTEN", "CLOSE", "ASYNC_START"}
    BY <1>1, <1>5, <2>1 DEF OnHandle
  <2>3. Effect[c].gains = {} /\ Effect[c].ifOk = {}
    BY <2>2 DEF Effect, Does
  <2>. QED
    BY <1>4, <1>5, <2>2, <2>3, NopOutcome DEF Ignore
<1>6. CASE c = "NOP" /\ Nop
  <2>1. Effect[c].gains = {} /\ Effect[c].ifOk = {}
    BY <1>6 DEF Effect, Does
  <2>. QED
    BY <1>4, <1>6, <2>1, NopOutcome
<1>7. CASE ~(c \in OnHandle /\ Ignore) /\ ~(c = "NOP" /\ Nop)
  <2>1. \/ c = "SOCKET" /\ Socket
        \/ c = "BIND" /\ Bind
        \/ c = "LISTEN" /\ Listen
        \/ c = "ACCEPT" /\ Accept
        \/ c = "CLOSE" /\ Close
        \/ c = "RECV" /\ Recv
        \/ c = "SEND" /\ Send
        \/ c = "ASYNC_START" /\ AsyncStart
        \/ c = "ASYNC_STOP" /\ AsyncStop
        \/ c = "ASYNC_DONE" /\ AsyncDone
    BY <1>3, <1>7, EffectNames DEF Execute
  <2>. QED
    BY <1>4, <2>1, SocketOutcome, BindOutcome, AcceptOutcome, CloseOutcome,
       RecvOutcome, SendOutcome, StartOutcome, StopOutcome, DoneOutcome
<1>. QED
  BY <1>5, <1>6, <1>7

-----------------------------------------------------------------------------
(* What the discipline says of the instruction at a place.                 *)
LEMMA PlaceFacts ==
  ASSUME Discipline, NEW p \in Places
  PROVE  /\ Program[p] \in Instr
         /\ Observes(Area, Known, Unless, p, Program[p])
         /\ Area[p] \in Areas /\ Known[p] \subseteq Facts
         /\ Unless[p] \in [Tested -> SUBSET {"new", "own"}]
         /\ Area[p] = "open" => Known[p] = {} /\ Unless[p] = Never
BY ProgramAssumption DEF Discipline, Disciplined, Places

LEMMA FewerFacts ==
  ASSUME NEW k, NEW m, k \subseteq m
  PROVE  /\ Knows(m)' => Knows(k)'
         /\ OfHandle(m)' => OfHandle(k)'
BY DEF Knows, OfHandle

LEMMA FewerKnown ==
  ASSUME NEW k, NEW m, NEW u, NEW w, k \subseteq m,
         \A r \in Tested : u[r] \subseteq w[r], KnowsAt(m, w)'
  PROVE  KnowsAt(k, u)'
<1>1. Knows(k)'
  BY FewerFacts DEF KnowsAt
<1>2. reg'.status >= 0 => OfHandle(u["status"])'
  BY FewerFacts DEF KnowsAt, Tested
<1>3. \A r \in Gp : gp'[r] >= 0 => OfHandle(u[r])'
  BY FewerFacts DEF KnowsAt, Tested
<1>. QED
  BY <1>1, <1>2, <1>3 DEF KnowsAt

(* The next instruction, and what is known there.                          *)
LEMMA Falls ==
  ASSUME Discipline, NEW i, NEW k, NEW u, pc \in Places,
         i = Program[pc], k = Known[pc], u = Unless[pc],
         i.op \notin {"jmp", "rfe"}, pc' = pc + 1,
         KnowsAt(KnownAfter(k, u, i), UnlessAfter(u, i))'
  PROVE  pc' \in Places /\ MayFall(Area[pc], i, Area[pc']) /\ KnowsInv'
<1>1. PICK q : q = pc'
  OBVIOUS
<1>2. /\ q \in Places /\ MayFall(Area[pc], i, Area[q])
      /\ Known[q] \subseteq KnownAfter(k, u, i)
      /\ \A r \in Tested : Unless[q][r] \subseteq UnlessAfter(u, i)[r]
  BY <1>1, PlaceFacts DEF Observes
<1>3. KnowsAt(Known[q], Unless[q])'
  BY <1>2, FewerKnown
<1>. QED
  BY <1>1, <1>2, <1>3 DEF KnowsInv

LEMMA Jumps ==
  ASSUME Discipline, NEW i, NEW k, NEW u, pc \in Places,
         i = Program[pc], k = Known[pc], u = Unless[pc],
         i.op \in {"jmp", "jmpz", "jmpneg", "jmpeq"}, pc' = i.at,
         KnowsAt(k, u)'
  PROVE  pc' \in Places /\ Area[pc'] = Area[pc] /\ KnowsInv'
<1>1. PICK q : q = pc'
  OBVIOUS
<1>2. i \in Instr /\ Observes(Area, Known, Unless, pc, i)
  BY PlaceFacts
<1>3. i.at \in Places
  BY <1>2 DEF Instr
<1>4. /\ q \in Places /\ Area[q] = Area[pc] /\ Known[q] \subseteq k
      /\ \A r \in Tested : Unless[q][r] \subseteq u[r]
  BY <1>1, <1>2, <1>3 DEF Observes
<1>5. KnowsAt(Known[q], Unless[q])'
  BY <1>4, FewerKnown
<1>. QED
  BY <1>1, <1>4, <1>5 DEF KnowsInv

(* A step of the CPU that stays in its area, and unregisters nothing.      *)
LEMMA SameArea ==
  ASSUME PlaceInv, TokenInv,
         UNCHANGED <<resume, intcVars, asyncVars, asyncDone, about, mine>>,
         gp'["$note"] = gp["$note"],
         pc' \in Places, Area[pc'] = Area[pc],
         \A h \in Fds : Live(h) => Live(h)'
  PROVE  PlaceInv' /\ TokenInv'
<1>1. PlaceInv'
  BY DEF PlaceInv, intcVars
<1>2. InFlight => InFlight'
  BY DEF InFlight, intcVars, asyncVars, Live
<1>3. ntAt = "raise" => (Live(asyncHandle) => Live(asyncHandle)')
  BY DEF asyncVars, Live
<1>4. TokenInv'
  BY <1>2, <1>3 DEF TokenInv, Idle, intcVars, asyncVars
<1>. QED
  BY <1>1, <1>4

(* An instruction that the device does not notice.                         *)
Quiet == UNCHANGED <<vars, resume, intcVars, about, mine>>

LEMMA QuietArea ==
  ASSUME PlaceInv, TokenInv, Quiet, pc' \in Places, Area[pc'] = Area[pc],
         gp'["$note"] = gp["$note"]
  PROVE  PlaceInv' /\ TokenInv'
<1>1. UNCHANGED <<resume, intcVars, asyncVars, asyncDone, about, mine>>
  BY DEF Quiet, vars, asyncVars
<1>2. \A h \in Fds : Live(h) => Live(h)'
  BY DEF Quiet, vars, Live
<1>. QED
  BY <1>1, <1>2, SameArea

LEMMA QuietFacts ==
  ASSUME Quiet
  PROVE  /\ UNCHANGED <<reg, keys, watched, dead, stalled, mine>>
         /\ \A k : OfHandle(k)' <=> OfHandle(k)
         /\ KeysWatched => KeysWatched'
BY DEF Quiet, vars, OfHandle, Unregistered, Received, KeysWatched

(* What is known after an instruction that the device does not notice.     *)
LEMMA KnowsLoaded ==
  ASSUME NEW i \in Instr, NEW k, NEW u \in [Tested -> SUBSET {"new", "own"}],
         KnowsAt(k, u), Quiet, i.op \in {"load", "set"}, gp \in [Gp -> Int],
         NEW v, gp' = [gp EXCEPT ![i.to] = v],
         i.op = "load" /\ i.from = "async" => v = mine,
         i.op = "load" /\ i.from = "status" => v = reg.status
  PROVE  KnowsAt(KnownAfter(k, u, i), UnlessAfter(u, i))'
<1>. DEFINE m == KnownAfter(k, u, i)
            w == UnlessAfter(u, i)
<1>1. i.to \in Gp
  BY DEF Instr
<1>2. UNCHANGED <<reg, keys, mine>> /\ \A x : OfHandle(x)' <=> OfHandle(x)
  BY QuietFacts
<1>3. m = (k \ {i.to}) \cup (IF i.op = "load" /\ i.from = "async"
                              THEN {i.to} ELSE {})
  BY DEF KnownAfter
<1>4. w = [u EXCEPT ![i.to] = IF i.op = "load" /\ i.from = "status"
                              THEN u["status"] ELSE {}]
  BY DEF UnlessAfter
<1>. HIDE DEF m, w
<1>5. Knows(m)'
  <2>1. \A r \in Gp : r \in m => gp'[r] = mine
    BY <1>1, <1>3 DEF KnowsAt, Knows
  <2>2. \A f \in {"mine", "live", "asks", "new", "own"} : f \in m => f \in k
    BY <1>1, <1>3 DEF Gp
  <2>3. OfHandle(k) => OfHandle(m)
    BY <2>2 DEF OfHandle
  <2>. QED
    BY <1>2, <2>1, <2>2, <2>3 DEF KnowsAt, Knows, Live
<1>6. reg'.status >= 0 => OfHandle(w["status"])'
  <2>1. w["status"] = u["status"]
    BY <1>1, <1>4 DEF Tested, Gp
  <2>. QED
    BY <1>2, <2>1 DEF KnowsAt
<1>7. ASSUME NEW r \in Gp, gp'[r] >= 0 PROVE OfHandle(w[r])'
  <2>0. r \in Tested /\ "status" \in Tested
    BY DEF Tested
  <2>1. CASE r # i.to
    <3>1. w[r] = u[r] /\ gp'[r] = gp[r]
      BY <1>4, <2>0, <2>1
    <3>. QED
      BY <1>2, <1>7, <3>1 DEF KnowsAt
  <2>2. CASE r = i.to /\ i.op = "load" /\ i.from = "status"
    <3>1. w[r] = u["status"] /\ gp'[r] = reg.status
      BY <1>4, <2>0, <2>2
    <3>. QED
      BY <1>2, <1>7, <3>1 DEF KnowsAt
  <2>3. CASE r = i.to /\ ~(i.op = "load" /\ i.from = "status")
    <3>1. w[r] = {}
      BY <1>4, <2>0, <2>3
    <3>. QED
      BY <3>1, NothingIfOk
  <2>. QED
    BY <2>1, <2>2, <2>3
<1>. QED
  BY <1>5, <1>6, <1>7 DEF KnowsAt, m, w

LEMMA KnowsJumped ==
  ASSUME NEW i \in Instr, NEW k, NEW u \in [Tested -> SUBSET {"new", "own"}],
         KnowsAt(k, u), Quiet, UNCHANGED gp
  PROVE  /\ KnowsAt(k, u)'
         /\ i.op \in {"jmpz", "jmpeq", "unmask"} =>
              KnowsAt(KnownAfter(k, u, i), UnlessAfter(u, i))'
         /\ i.op = "jmpneg" /\ gp[i.of] >= 0 =>
              KnowsAt(KnownAfter(k, u, i), UnlessAfter(u, i))'
<1>1. UNCHANGED <<reg, keys, mine>> /\ \A x : OfHandle(x)' <=> OfHandle(x)
  BY QuietFacts
<1>2. \A x : Knows(x)' <=> Knows(x)
  BY <1>1 DEF Knows, Live
<1>3. KnowsAt(k, u)'
  BY <1>1, <1>2 DEF KnowsAt
<1>4. i.op \in {"jmpz", "jmpeq", "unmask", "jmpneg"} => UnlessAfter(u, i) = u
  BY DEF UnlessAfter
<1>5. i.op \in {"jmpz", "jmpeq", "unmask"} => KnownAfter(k, u, i) = k
  BY DEF KnownAfter
<1>6. ASSUME i.op = "jmpneg", gp[i.of] >= 0
      PROVE  Knows(KnownAfter(k, u, i))'
  <2>1. i.of \in Gp
    BY <1>6 DEF Instr
  <2>2. KnownAfter(k, u, i) = k \cup u[i.of]
    BY <1>6 DEF KnownAfter
  <2>3. OfHandle(u[i.of]) /\ u[i.of] \subseteq {"new", "own"}
    BY <1>6, <2>1 DEF KnowsAt, Tested
  <2>. QED
    BY <1>2, <2>2, <2>3 DEF KnowsAt, Knows, OfHandle, Gp
<1>. QED
  BY <1>1, <1>3, <1>4, <1>5, <1>6 DEF KnowsAt

(* What is known after a store to the handle or the parameter register.    *)
LEMMA KnowsStored ==
  ASSUME NEW i \in Instr, NEW k, NEW u \in [Tested -> SUBSET {"new", "own"}],
         KnowsAt(k, u), i.op \in {"handle", "params"}, reg \in Regs,
         i.op = "handle" => reg' = [reg EXCEPT !.handle = AsHandle(gp[i.of])],
         i.op = "params" => reg' = [reg EXCEPT !.params = i.val],
         mine \in Fds \cup {NoHandle}, UNCHANGED <<gp, keys, mine>>
  PROVE  KnowsAt(KnownAfter(k, u, i), UnlessAfter(u, i))'
<1>1. Live(mine) => Live(mine)'
  BY DEF Live
<1>2. CASE i.op = "handle"
  <2>1. /\ reg'.params = reg.params /\ reg'.handle = AsHandle(gp[i.of])
        /\ i.of \in Gp
    BY <1>2 DEF Regs, Instr
  <2>2. KnownAfter(k, u, i) =
          (k \ {"mine", "new", "own"}) \cup (IF i.of \in k THEN {"mine"} ELSE {})
    BY <1>2 DEF KnownAfter
  <2>3. i.of \in k => reg'.handle = mine
    BY <2>1 DEF KnowsAt, Knows, AsHandle
  <2>4. Knows(KnownAfter(k, u, i))'
    BY <1>1, <2>1, <2>2, <2>3 DEF KnowsAt, Knows, OfHandle, Mask, Gp
  <2>5. \A r \in Tested : UnlessAfter(u, i)[r] = {}
    BY <1>2 DEF UnlessAfter, Never
  <2>. QED
    BY <2>4, <2>5, NothingIfOk DEF KnowsAt, Tested
<1>3. CASE i.op = "params"
  <2>1. /\ reg'.params = i.val /\ reg'.handle = reg.handle
        /\ reg'.buffer = reg.buffer /\ reg'.status = reg.status
    BY <1>3 DEF Regs, Instr
  <2>2. KnownAfter(k, u, i) =
          (k \ {"asks"}) \cup (IF Mask(i.val) # {} THEN {"asks"} ELSE {})
    BY <1>3 DEF KnownAfter
  <2>3. UnlessAfter(u, i) = u
    BY <1>3 DEF UnlessAfter
  <2>4. \A x : OfHandle(x)' <=> OfHandle(x)
    BY <2>1 DEF OfHandle, Unregistered, Received
  <2>5. Mask(i.val) # {} => Mask(reg.params)' # {}
    BY <2>1 DEF Mask
  <2>6. OfHandle(k) => OfHandle(KnownAfter(k, u, i))
    BY <2>2 DEF OfHandle
  <2>7. Knows(KnownAfter(k, u, i))'
    BY <1>1, <2>1, <2>2, <2>4, <2>5, <2>6 DEF KnowsAt, Knows, Gp
  <2>. QED
    BY <2>1, <2>3, <2>4, <2>7 DEF KnowsAt
<1>. QED
  BY <1>2, <1>3

(* What is known after a command.                                          *)
LEMMA KnowsCommanded ==
  ASSUME NEW i \in Instr, NEW k, NEW u, i.op = "cmd", Outcome(i.name, k)
  PROVE  KnowsAt(KnownAfter(k, u, i), UnlessAfter(u, i))'
<1>1. Knows(KnownAfter(k, u, i))'
  BY DEF Outcome, KnownAfter
<1>2. UnlessAfter(u, i) = [Never EXCEPT !["status"] = Effect[i.name].ifOk]
  BY DEF UnlessAfter
<1>3. /\ UnlessAfter(u, i)["status"] = Effect[i.name].ifOk
      /\ \A r \in Gp : UnlessAfter(u, i)[r] = {}
  BY <1>2 DEF Never, Tested, Gp
<1>. QED
  BY <1>1, <1>3, NothingIfOk DEF Outcome, KnowsAt

-----------------------------------------------------------------------------
(* Every step of the CPU keeps the order.                                  *)
LEMMA LoadedInt ==
  ASSUME Inv, NEW from \in {"handle", "async", "status", "size"}
  PROVE  Loaded(from) \in Int
<1>1. Fds \cup {NoHandle} \subseteq Int
  BY FdsAssumption DEF NoHandle
<1>2. reg.handle \in Int /\ reg.status \in Int /\ asyncHandle \in Int
  BY <1>1 DEF Inv, CommandInv, CommandTypes, ThreadTypes, Regs
<1>. QED
  BY <1>2 DEF Loaded

(* The instruction to execute, and what is known before it.                *)
LEMMA AtPlace ==
  ASSUME Discipline, OrderInv, NEW op, Exec(op)
  PROVE  \E i \in Instr, k \in SUBSET Facts,
              u \in [Tested -> SUBSET {"new", "own"}] :
           /\ i = Program[pc] /\ k = Known[pc] /\ u = Unless[pc]
           /\ pc \in Places /\ i.op = op
           /\ Observes(Area, Known, Unless, pc, i)
           /\ KnowsAt(k, u)
<1>. PICK k, u, i : k = Known[pc] /\ u = Unless[pc] /\ i = Program[pc]
  OBVIOUS
<1>1. pc \in Places /\ i.op = op
  BY DEF Exec
<1>. QED
  BY <1>1, PlaceFacts DEF OrderInv, KnowsInv

(* An instruction that the device does not notice and that falls through   *)
(* or jumps within its area.                                               *)
LEMMA QuietOrder ==
  ASSUME OrderInv, Quiet, gp' \in [Gp -> Int], gp'["$note"] = gp["$note"],
         pc' \in Places, Area[pc'] = Area[pc], KnowsInv'
  PROVE  OrderInv'
BY QuietArea, QuietFacts DEF OrderInv

(* One by which the note or the area changes, inside or outside a handler. *)
LEMMA NoteOrder ==
  ASSUME OrderInv, Quiet, gp' \in [Gp -> Int],
         pc' \in Places, KnowsInv',
         \/ /\ Area[pc] = "open" /\ Area[pc'] = "noted"
            /\ gp["$note"] # 0 /\ gp' = gp
         \/ /\ Area[pc] \in {"closed", "noted"} /\ Area[pc'] = "closed"
            /\ gp'["$note"] = 0
         \/ Area[pc] \in {"event", "done"} /\ Area[pc'] = Area[pc]
  PROVE  OrderInv'
<1>1. UNCHANGED <<vars, resume, queued, unmasked, accepted, about, mine>>
  BY DEF Quiet, intcVars
<1>2. PlaceInv'
  BY <1>1 DEF OrderInv, PlaceInv
<1>3. TokenInv'
  <2>1. (Area[pc] = "event") <=> (Area[pc'] = "event")
    OBVIOUS
  <2>2. InFlight => InFlight'
    BY <1>1 DEF InFlight, vars, Live
  <2>. QED
    BY <1>1, <2>1, <2>2 DEF OrderInv, TokenInv, Idle, vars, Live
<1>. QED
  BY <1>2, <1>3, QuietFacts DEF OrderInv

LEMMA LoadOrder ==
  ASSUME Discipline, ServerInv, Load
  PROVE  OrderInv'
<1>1. PICK i \in Instr, k \in SUBSET Facts,
          u \in [Tested -> SUBSET {"new", "own"}] :
        /\ i = Program[pc] /\ k = Known[pc] /\ u = Unless[pc]
        /\ pc \in Places /\ i.op = "load"
        /\ Observes(Area, Known, Unless, pc, i)
        /\ KnowsAt(k, u)
  BY AtPlace DEF Load, ServerInv
<1>2. i.from \in {"handle", "async", "status", "size"} /\ i.to \in Gp
  BY <1>1 DEF Instr
<1>3. PICK v \in Int : v = Loaded(i.from)
  BY <1>2, LoadedInt DEF ServerInv
<1>4. Quiet /\ pc' = pc + 1 /\ gp' = [gp EXCEPT ![i.to] = v]
  BY <1>1, <1>3 DEF Load, Skip, Quiet
<1>5. i.from = "async" => v = mine
  <2>1. i.from = "async" => Area[pc] = "event"
    BY <1>1 DEF Observes, OnlyInEvent
  <2>2. i.from = "async" => v = asyncHandle
    BY <1>3 DEF Loaded
  <2>. QED
    BY <2>1, <2>2 DEF ServerInv, OrderInv, TokenInv
<1>6. i.from = "status" => v = reg.status
  BY <1>3 DEF Loaded
<1>7. gp \in [Gp -> Int] /\ gp' \in [Gp -> Int]
  BY <1>3, <1>4 DEF ServerInv, OrderInv
<1>8. KnowsAt(KnownAfter(k, u, i), UnlessAfter(u, i))'
  BY <1>1, <1>4, <1>5, <1>6, <1>7, KnowsLoaded
<1>9. pc' \in Places /\ MayFall(Area[pc], i, Area[pc']) /\ KnowsInv'
  BY <1>1, <1>4, <1>8, Falls
<1>10. Area[pc'] = Area[pc] /\ i.to # "$note"
  BY <1>1, <1>9 DEF MayFall, Runs, Notes
<1>11. gp'["$note"] = gp["$note"]
  BY <1>4, <1>7, <1>10 DEF Gp
<1>. QED
  BY <1>4, <1>7, <1>9, <1>10, <1>11, QuietOrder DEF ServerInv

LEMMA SetOrder ==
  ASSUME Discipline, ServerInv, Set
  PROVE  OrderInv'
<1>1. PICK i \in Instr, k \in SUBSET Facts,
          u \in [Tested -> SUBSET {"new", "own"}] :
        /\ i = Program[pc] /\ k = Known[pc] /\ u = Unless[pc]
        /\ pc \in Places /\ i.op = "set"
        /\ Observes(Area, Known, Unless, pc, i)
        /\ KnowsAt(k, u)
  BY AtPlace DEF Set, ServerInv
<1>2. i.to \in Gp /\ i.val \in Int
  BY <1>1 DEF Instr
<1>3. Quiet /\ pc' = pc + 1 /\ gp' = [gp EXCEPT ![i.to] = i.val]
  BY <1>1 DEF Set, Skip, Quiet
<1>4. gp \in [Gp -> Int] /\ gp' \in [Gp -> Int]
  BY <1>2, <1>3 DEF ServerInv, OrderInv
<1>5. KnowsAt(KnownAfter(k, u, i), UnlessAfter(u, i))'
  BY <1>1, <1>3, <1>4, KnowsLoaded
<1>6. pc' \in Places /\ MayFall(Area[pc], i, Area[pc']) /\ KnowsInv'
  BY <1>1, <1>3, <1>5, Falls
<1>7. CASE i.to # "$note"
  <2>1. Area[pc'] = Area[pc]
    BY <1>1, <1>6, <1>7 DEF MayFall, Runs, Notes
  <2>2. gp'["$note"] = gp["$note"]
    BY <1>3, <1>4, <1>7 DEF Gp
  <2>. QED
    BY <1>3, <1>4, <1>6, <2>1, <2>2, QuietOrder DEF ServerInv
<1>8. CASE i.to = "$note"
  <2>1. gp'["$note"] = i.val
    BY <1>3, <1>4, <1>8 DEF Gp
  <2>2. \/ /\ Area[pc] \in {"closed", "noted"} /\ Area[pc'] = "closed"
           /\ gp'["$note"] = 0
        \/ Area[pc] \in {"event", "done"} /\ Area[pc'] = Area[pc]
    BY <1>1, <1>6, <1>8, <2>1 DEF MayFall, Runs, Notes
  <2>. QED
    BY <1>3, <1>4, <1>6, <2>2, NoteOrder DEF ServerInv
<1>. QED
  BY <1>7, <1>8

LEMMA JumpOrder ==
  ASSUME Discipline, ServerInv, Jump
  PROVE  OrderInv'
<1>1. PICK i \in Instr, k \in SUBSET Facts,
          u \in [Tested -> SUBSET {"new", "own"}] :
        /\ i = Program[pc] /\ k = Known[pc] /\ u = Unless[pc]
        /\ pc \in Places /\ i.op \in {"jmp", "jmpz", "jmpneg", "jmpeq"}
        /\ Observes(Area, Known, Unless, pc, i)
        /\ KnowsAt(k, u)
  <2>. PICK op \in {"jmp", "jmpz", "jmpneg", "jmpeq"} : Exec(op)
    BY DEF Jump
  <2>. QED
    BY AtPlace DEF ServerInv
<1>2. Quiet /\ UNCHANGED gp
  BY DEF Jump, Quiet
<1>3. gp' \in [Gp -> Int]
  BY <1>2 DEF ServerInv, OrderInv
<1>4. CASE Taken
  <2>1. pc' = i.at
    BY <1>1, <1>4 DEF Jump
  <2>2. KnowsAt(k, u)'
    BY <1>1, <1>2, KnowsJumped
  <2>3. pc' \in Places /\ Area[pc'] = Area[pc] /\ KnowsInv'
    BY <1>1, <2>1, <2>2, Jumps
  <2>. QED
    BY <1>2, <1>3, <2>3, QuietOrder DEF ServerInv
<1>5. CASE ~Taken
  <2>1. pc' = pc + 1
    BY <1>5 DEF Jump
  <2>2. i.op \in {"jmpz", "jmpneg", "jmpeq"}
    BY <1>1, <1>5 DEF Taken
  <2>3. i.op = "jmpneg" => gp[i.of] >= 0
    <3>1. i.op = "jmpneg" => i.of \in Gp /\ ~(gp[i.of] < 0)
      BY <1>1, <1>5 DEF Taken, Instr
    <3>2. gp \in [Gp -> Int]
      BY DEF ServerInv, OrderInv
    <3>. QED
      BY <3>1, <3>2
  <2>4. KnowsAt(KnownAfter(k, u, i), UnlessAfter(u, i))'
    BY <1>1, <1>2, <2>2, <2>3, KnowsJumped
  <2>5. pc' \in Places /\ MayFall(Area[pc], i, Area[pc']) /\ KnowsInv'
    BY <1>1, <2>1, <2>2, <2>4, Falls
  <2>6. CASE Area[pc'] = Area[pc]
    BY <1>2, <1>3, <2>5, <2>6, QuietOrder DEF ServerInv
  <2>7. CASE Area[pc'] # Area[pc]
    <3>1. /\ i.op = "jmpz" /\ i.of = "$note"
          /\ Area[pc] = "open" /\ Area[pc'] = "noted"
      BY <2>2, <2>5, <2>7 DEF MayFall, Runs
    <3>2. gp["$note"] # 0
      BY <1>1, <1>5, <3>1 DEF Taken
    <3>. QED
      BY <1>2, <1>3, <2>5, <3>1, <3>2, NoteOrder DEF ServerInv
  <2>. QED
    BY <2>6, <2>7
<1>. QED
  BY <1>4, <1>5

LEMMA StoreOrder ==
  ASSUME Discipline, ServerInv, StoreRegister
  PROVE  OrderInv'
<1>1. PICK i \in Instr, k \in SUBSET Facts,
          u \in [Tested -> SUBSET {"new", "own"}] :
        /\ i = Program[pc] /\ k = Known[pc] /\ u = Unless[pc]
        /\ pc \in Places /\ i.op \in {"handle", "params"}
        /\ Observes(Area, Known, Unless, pc, i)
        /\ KnowsAt(k, u)
  <2>. PICK op \in {"handle", "params"} : Exec(op)
    BY DEF StoreRegister
  <2>. QED
    BY AtPlace DEF ServerInv
<1>2. /\ pc' = pc + 1 /\ UNCHANGED resume
      /\ UNCHANGED <<asyncVars, gp, intcVars, about, mine>>
  BY DEF StoreRegister, Skip
<1>3. UNCHANGED <<sock, keys, watched, asyncDone, stalled, dead>>
  BY DEF StoreRegister, StoreHandle, StoreParams, Store
<1>4. /\ i.op = "handle" => reg' = [reg EXCEPT !.handle = AsHandle(gp[i.of])]
      /\ i.op = "params" => reg' = [reg EXCEPT !.params = i.val]
  BY <1>1 DEF StoreRegister, StoreHandle, StoreParams, Store, Exec
<1>5. reg \in Regs /\ mine \in Fds \cup {NoHandle}
  BY DEF ServerInv, OrderInv, Inv, CommandInv, CommandTypes
<1>6. KnowsAt(KnownAfter(k, u, i), UnlessAfter(u, i))'
  BY <1>1, <1>2, <1>3, <1>4, <1>5, KnowsStored
<1>7. pc' \in Places /\ MayFall(Area[pc], i, Area[pc']) /\ KnowsInv'
  BY <1>1, <1>2, <1>6, Falls
<1>8. Area[pc'] = Area[pc]
  BY <1>1, <1>7 DEF MayFall, Runs
<1>9. PlaceInv' /\ TokenInv'
  BY <1>2, <1>3, <1>7, <1>8, SameArea DEF ServerInv, OrderInv, Live
<1>. QED
  BY <1>2, <1>3, <1>7, <1>9 DEF ServerInv, OrderInv, KeysWatched

(* In the open nothing has to be known.                                    *)
LEMMA NothingInOpen ==
  ASSUME Discipline, pc' \in Places, Area[pc'] = "open"
  PROVE  KnowsInv'
<1>. PICK q : q = pc'
  OBVIOUS
<1>1. Known[q] = {} /\ Unless[q] = Never
  BY PlaceFacts
<1>2. \A r \in Tested : Never[r] = {}
  BY DEF Never
<1>3. KnowsAt({}, Never)'
  BY <1>2 DEF KnowsAt, Knows, OfHandle, Tested
<1>. QED
  BY <1>1, <1>3 DEF KnowsInv

LEMMA UnmaskOrder ==
  ASSUME Discipline, ServerInv, Unmask
  PROVE  OrderInv'
<1>1. PICK i \in Instr, k \in SUBSET Facts,
          u \in [Tested -> SUBSET {"new", "own"}] :
        /\ i = Program[pc] /\ k = Known[pc] /\ u = Unless[pc]
        /\ pc \in Places /\ i.op = "unmask"
        /\ Observes(Area, Known, Unless, pc, i)
        /\ KnowsAt(k, u)
  BY AtPlace DEF Unmask, ServerInv
<1>2. /\ pc' = pc + 1 /\ unmasked' = TRUE
      /\ UNCHANGED <<vars, gp, resume, queued, accepted, about, mine>>
  BY DEF Unmask, Skip
<1>3. /\ pc' \in Places /\ Area[pc] = "closed"
      /\ Area[pc'] = "open"
  BY <1>1, <1>2 DEF Observes, MayFall, Runs
<1>4. KnowsInv'
  BY <1>3, NothingInOpen
<1>5. PlaceInv'
  BY <1>2, <1>3 DEF ServerInv, OrderInv, PlaceInv
<1>6. TokenInv'
  BY <1>2, <1>3 DEF vars, ServerInv, OrderInv, TokenInv, Idle, InFlight, Live
<1>. QED
  BY <1>2, <1>4, <1>5, <1>6 DEF vars, ServerInv, OrderInv, KeysWatched

LEMMA RfeOrder ==
  ASSUME Discipline, ServerInv, Rfe
  PROVE  OrderInv'
<1>1. /\ pc' = resume /\ resume' = 0
      /\ UNCHANGED <<vars, gp, intcVars, about, mine>>
  BY DEF Rfe
<1>2. Area[pc] = "done"
  <2>. PICK i \in Instr : i = Program[pc] /\ i.op = "rfe"
                          /\ Observes(Area, Known, Unless, pc, i)
    BY AtPlace DEF Rfe, ServerInv
  <2>. QED
    BY DEF Observes
<1>3. pc' \in Places /\ Area[pc'] = "open"
  BY <1>1, <1>2 DEF ServerInv, OrderInv, PlaceInv
<1>4. KnowsInv'
  BY <1>3, NothingInOpen
<1>5. PlaceInv'
  BY <1>1, <1>2, <1>3 DEF intcVars, ServerInv, OrderInv, PlaceInv
<1>6. TokenInv'
  BY <1>1, <1>2, <1>3
  DEF vars, intcVars, ServerInv, OrderInv, TokenInv, Idle, InFlight, Live
<1>. QED
  BY <1>1, <1>4, <1>5, <1>6 DEF vars, ServerInv, OrderInv, KeysWatched

(* ASYNC_STOP is of the socket of the interrupt that is being handled: of  *)
(* no other, and of none that is still to be announced.                    *)
LEMMA StopArea ==
  ASSUME PlaceInv, TokenInv, Area[pc] = "event", Area[pc'] = "event",
         pc' \in Places,
         UNCHANGED <<gp, resume, intcVars, asyncVars, asyncDone, about, mine>>,
         \A h \in Fds : Live(h) /\ h # mine => Live(h)'
  PROVE  PlaceInv' /\ TokenInv'
<1>1. PlaceInv'
  BY DEF PlaceInv, intcVars
<1>2. ntAt = "wait" /\ ~asyncDone /\ Idle /\ mine = asyncHandle
      /\ events[mine] = {}
  BY DEF TokenInv
<1>3. \A h \in Fds : events[h] # {} => Live(h)'
  BY <1>2 DEF TokenInv
<1>4. TokenInv'
  BY <1>2, <1>3 DEF TokenInv, Idle, intcVars, asyncVars
<1>. QED
  BY <1>1, <1>4

(* With ASYNC_DONE the thread may go on, and the handler no longer asks.   *)
LEMMA DoneArea ==
  ASSUME PlaceInv, TokenInv, Area[pc] = "event", Area[pc'] = "done",
         pc' \in Places, asyncDone',
         UNCHANGED <<gp, resume, intcVars, asyncVars, about, mine>>,
         \A h \in Fds : Live(h) => Live(h)'
  PROVE  PlaceInv' /\ TokenInv'
<1>1. PlaceInv'
  BY DEF PlaceInv, intcVars
<1>2. ntAt = "wait" /\ Idle
  BY DEF TokenInv
<1>3. TokenInv'
  BY <1>2 DEF TokenInv, Idle, intcVars, asyncVars
<1>. QED
  BY <1>1, <1>3

LEMMA CommandOrder ==
  ASSUME Discipline, ServerInv, RunCommand
  PROVE  OrderInv'
<1>1. PICK i \in Instr, k \in SUBSET Facts,
          u \in [Tested -> SUBSET {"new", "own"}] :
        /\ i = Program[pc] /\ k = Known[pc] /\ u = Unless[pc]
        /\ pc \in Places /\ i.op = "cmd"
        /\ Observes(Area, Known, Unless, pc, i)
        /\ KnowsAt(k, u)
  BY AtPlace DEF RunCommand, ServerInv
<1>2. /\ pc' = pc + 1 /\ Command(i.name)
      /\ UNCHANGED <<resume, asyncVars, gp, intcVars, about, mine>>
  BY <1>1 DEF RunCommand, Skip
<1>3. i.name \in DOMAIN Effect /\ Effect[i.name].needs \subseteq k
  BY <1>1 DEF Observes
<1>4. Outcome(i.name, k)
  BY <1>1, <1>2, <1>3, CommandOutcome DEF ServerInv, OrderInv, KnowsAt
<1>5. KnowsAt(KnownAfter(k, u, i), UnlessAfter(u, i))'
  BY <1>1, <1>4, KnowsCommanded
<1>6. pc' \in Places /\ MayFall(Area[pc], i, Area[pc']) /\ KnowsInv'
  BY <1>1, <1>2, <1>5, Falls
<1>7. PlaceInv' /\ TokenInv'
  <2>0. PlaceInv /\ TokenInv /\ asyncDone \in BOOLEAN
    BY DEF ServerInv, OrderInv, Inv, CommandInv, CommandTypes
  <2>1. CASE i.name \notin {"ASYNC_STOP", "ASYNC_DONE"}
    <3>1. UNCHANGED asyncDone
      BY <1>4, <2>0, <2>1 DEF Outcome
    <3>2. \A h \in Fds : Live(h) => Live(h)'
      BY <1>4, <2>1 DEF Outcome
    <3>3. Area[pc'] = Area[pc]
      BY <1>1, <1>6, <2>1 DEF MayFall, Runs
    <3>. QED
      BY <1>2, <1>6, <2>0, <3>1, <3>2, <3>3, SameArea
  <2>2. CASE i.name = "ASYNC_STOP"
    <3>1. UNCHANGED asyncDone
      BY <1>4, <2>0, <2>2 DEF Outcome
    <3>2. \A h \in Fds : Live(h) /\ h # mine => Live(h)'
      BY <1>4, <2>2 DEF Outcome
    <3>3. Area[pc] = "event" /\ Area[pc'] = "event"
      BY <1>1, <1>6, <2>2 DEF MayFall, Runs, Observes, OnlyInEvent
    <3>. QED
      BY <1>2, <1>6, <2>0, <3>1, <3>2, <3>3, StopArea
  <2>3. CASE i.name = "ASYNC_DONE"
    <3>1. asyncDone' = TRUE
      BY <1>4, <2>3 DEF Outcome
    <3>2. \A h \in Fds : Live(h) => Live(h)'
      BY <1>4, <2>3 DEF Outcome
    <3>3. Area[pc] = "event" /\ Area[pc'] = "done"
      BY <1>1, <1>6, <2>3 DEF MayFall, Runs
    <3>. QED
      BY <1>2, <1>6, <2>0, <3>1, <3>2, <3>3, DoneArea
  <2>. QED
    BY <2>1, <2>2, <2>3
<1>. QED
  BY <1>2, <1>4, <1>6, <1>7 DEF Outcome, ServerInv, OrderInv

-----------------------------------------------------------------------------
(* The steps of the others.                                                *)
LEMMA SameFacts ==
  ASSUME UNCHANGED <<pc, reg, keys, gp, mine>>, KnowsInv
  PROVE  KnowsInv'
<1>. PICK k, u : k = Known[pc] /\ u = Unless[pc]
  OBVIOUS
<1>1. /\ \A x : Knows(x)' <=> Knows(x)
      /\ \A x : OfHandle(x)' <=> OfHandle(x)
  BY DEF Knows, OfHandle, Live, Unregistered, Received
<1>2. KnowsAt(k, u)'
  BY <1>1 DEF KnowsInv, KnowsAt
<1>. QED
  BY <1>2 DEF KnowsInv

(* The interrupt that traps to the handler is the one that is on its way,  *)
(* and it comes between two instructions of the main program.              *)
LEMMA EnterOrder ==
  ASSUME Discipline, ServerInv, Enter
  PROVE  OrderInv'
<1>1. /\ accepted /\ resume = 0 /\ accepted' = FALSE
      /\ resume' = pc /\ pc' = Handler
      /\ mine' = Head(about) /\ about' = Tail(about)
      /\ UNCHANGED <<vars, gp, queued, unmasked>>
  BY DEF Enter
<1>2. pc \in Places /\ Area[pc] = "open"
  BY <1>1 DEF ServerInv, OrderInv, PlaceInv
<1>3. /\ ntAt = "wait" /\ ~asyncDone
      /\ about = <<asyncHandle>> /\ Live(asyncHandle) /\ queued = 0
  BY <1>1, <1>2 DEF ServerInv, OrderInv, TokenInv, Idle, InFlight
<1>4. mine' = asyncHandle /\ about' = <<>>
  BY <1>1, <1>3
<1>5. /\ Handler \in Places /\ Area[Handler] = "event"
      /\ Known[Handler] \subseteq {"live"} /\ Unless[Handler] = Never
  BY ProgramAssumption DEF Discipline, Disciplined
<1>6. KnowsInv'
  <2>. PICK k : k = Known[Handler] /\ k \subseteq {"live"}
    BY <1>5
  <2>1. Live(mine)'
    BY <1>1, <1>3, <1>4 DEF vars, Live
  <2>2. Knows(k)'
    BY <2>1 DEF Knows, OfHandle, Gp
  <2>3. \A r \in Tested : Never[r] = {}
    BY DEF Never
  <2>4. KnowsAt(k, Never)'
    BY <2>2, <2>3 DEF KnowsAt, OfHandle, Tested
  <2>. QED
    BY <1>1, <1>5, <2>4 DEF KnowsInv
<1>7. PlaceInv'
  <2>1. pc # 0
    BY <1>2 DEF Places
  <2>. QED
    BY <1>1, <1>2, <1>5, <2>1 DEF ServerInv, OrderInv, PlaceInv
<1>8. TokenInv'
  BY <1>1, <1>3, <1>4, <1>5
  DEF vars, ServerInv, OrderInv, TokenInv, Idle, Live
<1>9. mine' \in Fds \cup {NoHandle}
  BY <1>3, <1>4 DEF Live
<1>. QED
  BY <1>1, <1>6, <1>7, <1>8, <1>9
  DEF vars, ServerInv, OrderInv, KeysWatched

LEMMA AcceptOrder ==
  ASSUME Discipline, ServerInv, AcceptInterrupt
  PROVE  OrderInv'
<1>1. /\ queued > 0 /\ unmasked /\ ~accepted
      /\ queued' = queued - 1 /\ unmasked' = FALSE /\ accepted' = TRUE
      /\ UNCHANGED <<vars, cpuVars, about, mine>>
  BY DEF AcceptInterrupt
<1>2. PlaceInv'
  BY <1>1 DEF cpuVars, ServerInv, OrderInv, PlaceInv
<1>3. TokenInv'
  BY <1>1
  DEF vars, cpuVars, ServerInv, OrderInv, TokenInv, Idle, InFlight, Live
<1>4. KnowsInv'
  BY <1>1, SameFacts DEF vars, cpuVars, ServerInv, OrderInv
<1>. QED
  BY <1>1, <1>2, <1>3, <1>4
  DEF vars, cpuVars, ServerInv, OrderInv, KeysWatched

(* The thread announces what is registered, one event at a time.           *)
LEMMA ThreadOrder ==
  ASSUME ServerInv, NetThread
  PROVE  OrderInv'
<1>1. UNCHANGED <<cpuVars, unmasked, accepted, mine>>
  BY DEF NetThread
<1>2. UNCHANGED <<reg, sock, keys, watched, stalled, dead>>
  BY DEF NetThread, Thread, Select, Publish, Raise, Awaited, regVars
<1>3. PlaceInv'
  BY <1>1 DEF cpuVars, ServerInv, OrderInv, PlaceInv
<1>4. KnowsInv'
  BY <1>1, <1>2, SameFacts DEF cpuVars, ServerInv, OrderInv
<1>5. \A h : Live(h)' <=> Live(h)
  BY <1>2 DEF Live
<1>6. TokenInv /\ events \in [Fds -> SUBSET Ops]
  BY DEF ServerInv, OrderInv, Inv, ThreadTypes
<1>7. UNCHANGED pc
  BY <1>1 DEF cpuVars
<1>8. TokenInv'
  <2>1. CASE Select
    <3>1. \A h \in Fds : Ready(h) # {} => Live(h)
      BY DEF Ready, Live
    <3>2. ntAt = "select" /\ ntAt' = "next" /\ UNCHANGED <<queued, about>>
      BY <2>1 DEF Select, NetThread
    <3>3. \A h \in Fds : events'[h] # {} => Live(h)'
      BY <1>5, <2>1, <3>1 DEF Select
    <3>. QED
      BY <1>1, <1>6, <1>7, <3>2, <3>3 DEF TokenInv, Idle
  <2>2. CASE Publish
    <3>1. PICK h \in Fds : /\ events[h] # {} /\ asyncHandle' = h
                           /\ events' = [events EXCEPT ![h] = {}]
      BY <2>2 DEF Publish
    <3>2. /\ ntAt = "next" /\ ntAt' = "raise" /\ asyncDone' = FALSE
          /\ UNCHANGED <<queued, about>>
      BY <2>2 DEF Publish, NetThread
    <3>3. Live(asyncHandle)' /\ events'[asyncHandle'] = {}
      BY <1>5, <1>6, <3>1 DEF TokenInv, Live
    <3>4. \A g \in Fds : events'[g] # {} => Live(g)'
      BY <1>5, <1>6, <3>1 DEF TokenInv
    <3>. QED
      BY <1>1, <1>6, <1>7, <3>1, <3>2, <3>3, <3>4 DEF TokenInv, Idle
  <2>3. CASE Raise
    <3>1. /\ ntAt = "raise" /\ ntAt' = "wait"
          /\ UNCHANGED <<asyncDone, asyncHandle, events>>
          /\ queued' = queued + 1 /\ about' = Append(about, asyncHandle)
      BY <2>3 DEF Raise, NetThread, regVars
    <3>2. Idle /\ Area[pc] # "event" /\ Live(asyncHandle) /\ ~asyncDone
      BY <1>6, <3>1 DEF TokenInv
    <3>3. queued' = 1 /\ about' = <<asyncHandle>>'
      BY <3>1, <3>2 DEF Idle
    <3>4. InFlight'
      BY <1>1, <1>5, <3>1, <3>2, <3>3 DEF InFlight, Idle
    <3>. QED
      BY <1>5, <1>6, <1>7, <3>1, <3>2, <3>4 DEF TokenInv
  <2>4. CASE Awaited
    <3>1. /\ ntAt = "wait" /\ asyncDone /\ ntAt' \in {"next", "select"}
          /\ UNCHANGED <<asyncDone, asyncHandle, events, queued, about>>
      BY <2>4 DEF Awaited, NetThread, regVars
    <3>. QED
      BY <1>1, <1>5, <1>6, <1>7, <3>1 DEF TokenInv, Idle
  <2>. QED
    BY <2>1, <2>2, <2>3, <2>4 DEF NetThread, Thread
<1>. QED
  BY <1>1, <1>2, <1>3, <1>4, <1>8
  DEF cpuVars, ServerInv, OrderInv, KeysWatched

(* Peers change only sockets, and what is registered is not changed by a   *)
(* step that changes nothing.                                              *)
LEMMA PeersOrder ==
  ASSUME ServerInv, Peers \/ UNCHANGED allVars
  PROVE  OrderInv'
<1>1. /\ UNCHANGED <<cpuVars, intcVars, about, mine, asyncVars>>
      /\ UNCHANGED <<reg, keys, watched, asyncDone, stalled, dead>>
  BY DEF Peers, Host, allVars, vars, asyncVars
<1>2. PlaceInv'
  BY <1>1 DEF cpuVars, intcVars, ServerInv, OrderInv, PlaceInv
<1>3. TokenInv'
  BY <1>1 DEF cpuVars, intcVars, asyncVars, ServerInv, OrderInv, TokenInv,
    Idle, InFlight, Live
<1>4. KnowsInv'
  BY <1>1, SameFacts DEF cpuVars, ServerInv, OrderInv
<1>. QED
  BY <1>1, <1>2, <1>3, <1>4
  DEF cpuVars, ServerInv, OrderInv, KeysWatched

-----------------------------------------------------------------------------
LEMMA ServerInvInit ==
  ASSUME Discipline, ServerInit
  PROVE  ServerInv
<1>1. Inv
  BY InvInit DEF ServerInit
<1>2. 1 \in Places
  BY ProgramAssumption DEF Places
<1>3. /\ Area[1] = "closed" /\ Known[1] = {} /\ Unless[1] = Never
  BY DEF Discipline, Disciplined
<1>4. PlaceInv
  BY <1>2, <1>3 DEF ServerInit, PlaceInv, Gp
<1>5. TokenInv
  BY <1>3 DEF ServerInit, Init, TokenInv, Idle
<1>6. KnowsInv
  <2>1. \A r \in Tested : Never[r] = {}
    BY DEF Never
  <2>2. KnowsAt({}, Never)
    BY <2>1 DEF KnowsAt, Knows, OfHandle, Tested
  <2>. QED
    BY <1>3, <2>2 DEF ServerInit, KnowsInv
<1>. QED
  BY <1>1, <1>4, <1>5, <1>6
  DEF ServerInit, Init, ServerInv, OrderInv, KeysWatched

LEMMA ServerInvStep ==
  ASSUME Discipline, ServerInv, [ServerNext]_allVars
  PROVE  ServerInv'
<1>1. Inv'
  BY ServerStep, InvStep DEF ServerInv
<1>2. OrderInv'
  <2>1. CASE Cpu
    BY <2>1, LoadOrder, CommandOrder, StoreOrder, SetOrder, JumpOrder,
       UnmaskOrder, RfeOrder DEF Cpu
  <2>2. CASE Enter \/ AcceptInterrupt
    BY <2>2, EnterOrder, AcceptOrder
  <2>3. CASE NetThread \/ Peers \/ UNCHANGED allVars
    BY <2>3, ThreadOrder, PeersOrder
  <2>. QED
    BY <2>1, <2>2, <2>3 DEF ServerNext
<1>. QED
  BY <1>1, <1>2 DEF ServerInv

LEMMA ServerInvHolds ==
  ASSUME Discipline
  PROVE  ServerSpec => []ServerInv
<1>1. ServerInit => ServerInv
  BY ServerInvInit
<1>2. ServerInv /\ [ServerNext]_allVars => ServerInv'
  BY ServerInvStep
<1>. QED
  BY <1>1, <1>2, PTL DEF ServerSpec

(* internet.py:445.  No disciplined server makes the selector raise, be it *)
(* by registering twice or by unregistering what is not registered, and    *)
(* whatever descriptors the host hands out again.                          *)
THEOREM NeverDiesHolds ==
  ASSUME Discipline
  PROVE  ServerSpec => []NeverDies
<1>1. ServerInv => NeverDies
  BY DEF ServerInv, OrderInv, NeverDies
<1>. QED
  BY <1>1, ServerInvHolds, PTL

(* internet.py:302.  No disciplined server is ever blocked in the host     *)
(* with cpu_lock held, whatever its peers do.                              *)
THEOREM NeverStallsHolds ==
  ASSUME Discipline
  PROVE  ServerSpec => []NeverStalls
<1>1. ServerInv => NeverStalls
  BY DEF ServerInv, OrderInv, NeverStalls
<1>. QED
  BY <1>1, ServerInvHolds, PTL

(* README:222.  A disciplined server is told of no socket that it has      *)
(* unregistered, although select() reported several events at once.        *)
THEOREM AnnouncedRegisteredHolds ==
  ASSUME Discipline
  PROVE  ServerSpec => []AnnouncedRegistered
<1>1. ServerInv => AnnouncedRegistered
  BY DEF ServerInv, OrderInv, TokenInv, Live, AnnouncedRegistered
<1>. QED
  BY <1>1, ServerInvHolds, PTL

(* README:217.  The handler of a disciplined server finds in the event     *)
(* registers what its own interrupt is about: at most one interrupt is on  *)
(* its way or being handled until ASYNC_DONE.                              *)
THEOREM ReadsOwnEventHolds ==
  ASSUME Discipline
  PROVE  ServerSpec => ReadsOwnEvent
<1>1. ServerInv => (Exec("load") /\ Program[pc].from = "async"
                      => asyncHandle = mine)
  <2>. SUFFICES ASSUME ServerInv, Exec("load"), Program[pc].from = "async"
                PROVE  asyncHandle = mine
    OBVIOUS
  <2>1. Area[pc] = "event"
    <3>. PICK i : /\ i = Program[pc] /\ i.op = "load"
                  /\ Observes(Area, Known, Unless, pc, i)
      BY AtPlace DEF ServerInv
    <3>. QED
      BY DEF Observes, OnlyInEvent
  <2>. QED
    BY <2>1 DEF ServerInv, OrderInv, TokenInv
<1>. QED
  BY <1>1, ServerInvHolds, PTL DEF ReadsOwnEvent

(* What a disciplined server sends on a connection is what it received on  *)
(* it, never what another client sent, or an error's text.                 *)
THEOREM SendsOwnHolds ==
  ASSUME Discipline
  PROVE  ServerSpec => SendsOwn
<1>1. ServerInv => (Exec("cmd") /\ Program[pc].name = "SEND"
                      => reg.buffer \in {reg.handle, Nothing})
  <2>. SUFFICES ASSUME ServerInv, Exec("cmd"), Program[pc].name = "SEND"
                PROVE  reg.buffer \in {reg.handle, Nothing}
    OBVIOUS
  <2>. PICK i, k, u : /\ i = Program[pc] /\ i.op = "cmd"
                      /\ Observes(Area, Known, Unless, pc, i)
                      /\ k = Known[pc] /\ KnowsAt(k, u)
    BY AtPlace DEF ServerInv
  <2>1. "own" \in k
    BY DEF Observes, Effect, Does
  <2>. QED
    BY <2>1 DEF KnowsAt, Knows, OfHandle, Received
<1>. QED
  BY <1>1, ServerInvHolds, PTL DEF SendsOwn

-----------------------------------------------------------------------------
(* The delivery of interrupts.                                             *)
Ones(n) == [k \in 1 .. n |-> 1]

LEMMA OnesSteps ==
  /\ Ones(0) = <<>> /\ Ones(1) # <<>>
  /\ Ones(1) = Append(Ones(0), 1)
  /\ Head(Ones(1)) = 1 /\ Tail(Ones(1)) = Ones(0)
<1>1. Ones(0) = <<>> /\ Ones(1) = <<1>>
  BY DEF Ones
<1>2. /\ <<1>> # <<>> /\ <<1>> = Append(<<>>, 1)
      /\ Head(<<1>>) = 1 /\ Tail(<<1>>) = <<>>
  OBVIOUS
<1>. QED
  BY <1>1, <1>2

Claim == IF accepted THEN 1 ELSE 0

Handling == resume # 0

Promised == <<Ones(queued), unmasked, Claim, Handling>>

(* There is at most one interrupt in the queue.                            *)
LEMMA AtMostOne == ServerInv => queued \in {0, 1}
BY DEF ServerInv, OrderInv, TokenInv, Idle, InFlight

LEMMA UnmaskPromised ==
  ASSUME Discipline, ServerInv, Unmask
  PROVE  Promise!Unmask \/ UNCHANGED Promised
<1>1. unmasked' = TRUE /\ UNCHANGED <<resume, queued, accepted>>
  BY DEF Unmask, Skip
<1>2. Area[pc] = "closed"
  <2>. PICK i \in Instr : i = Program[pc] /\ i.op = "unmask"
                          /\ Observes(Area, Known, Unless, pc, i)
    BY AtPlace DEF Unmask, ServerInv
  <2>. QED
    BY DEF Observes, MayFall, Runs
<1>3. ~unmasked /\ ~accepted /\ resume = 0
  BY <1>2 DEF ServerInv, OrderInv, PlaceInv
<1>. QED
  BY <1>1, <1>3 DEF Promise!Unmask, Ones, Claim, Handling

LEMMA AcceptPromised ==
  ASSUME ServerInv, AcceptInterrupt
  PROVE  Promise!Accept
<1>1. /\ queued > 0 /\ queued' = queued - 1 /\ unmasked /\ ~accepted
      /\ ~unmasked' /\ accepted' /\ resume' = resume
  BY DEF AcceptInterrupt, cpuVars
<1>2. queued = 1 /\ queued' = 0
  BY <1>1, AtMostOne
<1>. QED
  BY <1>1, <1>2, OnesSteps DEF Promise!Accept, Ones, Claim, Handling

LEMMA RaisePromised ==
  ASSUME ServerInv, NetThread
  PROVE  Promise!Raise \/ UNCHANGED Promised
<1>1. UNCHANGED <<unmasked, accepted, resume>>
  BY DEF NetThread, cpuVars
<1>2. CASE ntAt = "raise"
  <2>1. queued = 0 /\ queued' = 1
    BY <1>2 DEF NetThread, ServerInv, OrderInv, TokenInv, Idle
  <2>. QED
    BY <1>1, <2>1, OnesSteps DEF Promise!Raise, Ones, Claim, Handling
<1>3. CASE ntAt # "raise"
  BY <1>1, <1>3 DEF NetThread, Promised, Claim, Handling
<1>. QED
  BY <1>2, <1>3

LEMMA EnterPromised ==
  ASSUME ServerInv, Enter
  PROVE  Promise!Enter
<1>1. /\ accepted /\ accepted' = FALSE /\ resume' = pc
      /\ UNCHANGED <<queued, unmasked>>
  BY DEF Enter
<1>2. resume' # 0
  BY <1>1 DEF ServerInv, OrderInv, PlaceInv, Places
<1>. QED
  BY <1>1, <1>2 DEF Promise!Enter, Ones, Claim, Handling

LEMMA ReturnPromised ==
  ASSUME Discipline, ServerInv, Rfe
  PROVE  Promise!Return
<1>1. resume' = 0 /\ UNCHANGED <<queued, unmasked, accepted>>
  BY DEF Rfe, intcVars
<1>2. resume # 0
  <2>. PICK i \in Instr : i = Program[pc] /\ i.op = "rfe"
                          /\ Observes(Area, Known, Unless, pc, i)
    BY AtPlace DEF Rfe, ServerInv
  <2>. QED
    BY DEF Observes, ServerInv, OrderInv, PlaceInv
<1>. QED
  BY <1>1, <1>2 DEF Promise!Return, Ones, Claim, Handling

(* The other instructions and the peers do not concern it.                 *)
LEMMA OthersPromised ==
  ASSUME Load \/ RunCommand \/ StoreRegister \/ Set \/ Jump \/ Peers
           \/ UNCHANGED allVars
  PROVE  UNCHANGED Promised
<1>1. UNCHANGED <<queued, unmasked, accepted, resume>>
  BY DEF Load, RunCommand, StoreRegister, Set, Jump, Peers, Skip, allVars,
         cpuVars, intcVars
<1>. QED
  BY <1>1 DEF Promised, Claim, Handling

(* For every disciplined server the controller and the CPU of              *)
(* InternetServer implement Delivery, as those of InterruptDelivery do for *)
(* every disciplined guest: the server unmasks only outside the handler of *)
(* the interrupt before, and each one is accepted once and in its handler. *)
THEOREM ServerInOrderHolds ==
  ASSUME Discipline
  PROVE  ServerSpec => InOrder
<1>1. ServerInit => Promise!Init
  BY OnesSteps DEF ServerInit, Promise!Init, Ones
<1>2. ASSUME ServerInv, [ServerNext]_allVars
      PROVE  Promise!Next \/ UNCHANGED Promised
  BY <1>2, UnmaskPromised, AcceptPromised, RaisePromised, EnterPromised,
     ReturnPromised, OthersPromised
  DEF ServerNext, Cpu, Promise!Next
<1>3. ServerInv /\ [ServerNext]_allVars =>
        [Promise!Next]_<<[k \in 1 .. queued |-> 1], unmasked,
                         IF accepted THEN 1 ELSE 0, resume # 0>>
  BY <1>2 DEF Promised, Ones, Claim, Handling
<1>. QED
  BY <1>1, <1>3, ServerInvHolds, PTL
  DEF InOrder, Promise!Spec, ServerSpec
=============================================================================
