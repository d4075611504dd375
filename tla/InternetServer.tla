--------------------------- MODULE InternetServer ---------------------------
(***************************************************************************)
(* A guest program that serves connections through the Internet controller *)
(* and is told by interrupts what to do, as examples/helloserver.txt is:   *)
(* Internet with a program in place of any guest, on a CPU that enters the *)
(* program's handler for each interrupt.  Of the interrupt controller and  *)
(* the CPU this has what Delivery says, which InterruptDelivery implements *)
(* in detail: an interrupt in the queue is accepted once the controller is *)
(* unmasked, masks it, and is entered from the main program.               *)
(***************************************************************************)
EXTENDS Internet, Sequences

CONSTANTS
  Program,  \* the program: a sequence of instructions
  Handler   \* where the vector of the device's interrupt points to

Gp == {"$0", "$1", "$2", "$3", "$note"}

(* Instructions: "load" is a loadw of a device's register, "cmd", "handle" *)
(* and "params" stores to the device, "unmask" a savebi to the interrupt   *)
(* controller; the others work on the CPU's registers.                     *)
Places == 1 .. Len(Program)

Instr ==
  [op : {"load"}, from : {"handle", "async", "status", "size"}, to : Gp]
    \cup [op : {"cmd"}, name : Commands]
    \cup [op : {"handle"}, of : Gp]
    \cup [op : {"params"}, val : Params]
    \cup [op : {"set"}, to : Gp, val : {0, 1}]
    \cup [op : {"jmp"}, at : Places]
    \cup [op : {"jmpz", "jmpneg"}, of : Gp, at : Places]
    \cup [op : {"jmpeq"}, of : Gp, and : Gp, at : Places]
    \cup [op : {"unmask", "rfe"}]

ASSUME ProgramAssumption ==
  Program \in Seq(Instr) /\ Handler \in Places

VARIABLES
  gp,       \* the CPU's registers
  pc,       \* the instruction to execute
  resume,   \* where rfe returns to; 0 in the main program
  queued,   \* InterruptController.pending: interrupts of this device
  unmasked, \* InterruptController.unmasked
  accepted, \* an interrupt was accepted, and its trap is on its way
  about,    \* history: the sockets the interrupts on their way are about
  mine      \* history: the socket the handler's interrupt is about

cpuVars  == <<gp, pc, resume>>
intcVars == <<queued, unmasked, accepted>>
allVars  == <<vars, cpuVars, intcVars, about, mine>>

ServerInit ==
  /\ Init
  /\ gp = [r \in Gp |-> 0] /\ pc = 1 /\ resume = 0
  /\ queued = 0 /\ unmasked = FALSE /\ accepted = FALSE
  /\ about = <<>> /\ mine = NoHandle

-----------------------------------------------------------------------------
Exec(op) ==
  /\ ~dead /\ stalled = "none"
  /\ pc \in Places /\ Program[pc].op = op

Skip == pc' = pc + 1 /\ UNCHANGED resume

Loaded(from) ==
  CASE from = "handle" -> reg.handle
    [] from = "async"  -> asyncHandle
    [] from = "status" -> reg.status
    [] from = "size"   -> IF reg.buffer = Nothing THEN 0 ELSE 1

Load ==
  /\ Exec("load")
  /\ gp' = [gp EXCEPT ![Program[pc].to] = Loaded(Program[pc].from)]
  /\ Skip
  /\ UNCHANGED <<vars, intcVars, about, mine>>

(* A command that blocks in the host is not followed any further: see      *)
(* NeverStalls.                                                            *)
RunCommand ==
  /\ Exec("cmd")
  /\ Command(Program[pc].name)
  /\ Skip
  /\ UNCHANGED <<asyncVars, gp, intcVars, about, mine>>

(* Every word that is no socket's is the same to the device.               *)
AsHandle(v) == IF v \in Fds THEN v ELSE NoHandle

StoreRegister ==
  /\ \/ Exec("handle") /\ StoreHandle(AsHandle(gp[Program[pc].of]))
     \/ Exec("params") /\ StoreParams(Program[pc].val)
  /\ Skip
  /\ UNCHANGED <<asyncVars, gp, intcVars, about, mine>>

Set ==
  /\ Exec("set")
  /\ gp' = [gp EXCEPT ![Program[pc].to] = Program[pc].val]
  /\ Skip
  /\ UNCHANGED <<vars, intcVars, about, mine>>

Taken ==
  LET i == Program[pc] IN
  \/ i.op = "jmp"
  \/ i.op = "jmpz" /\ gp[i.of] = 0
  \/ i.op = "jmpneg" /\ gp[i.of] < 0
  \/ i.op = "jmpeq" /\ gp[i.of] = gp[i.and]

Jump ==
  /\ \E op \in {"jmp", "jmpz", "jmpneg", "jmpeq"} : Exec(op)
  /\ pc' = IF Taken THEN Program[pc].at ELSE pc + 1
  /\ UNCHANGED <<vars, gp, resume, intcVars, about, mine>>

Unmask ==
  /\ Exec("unmask")
  /\ unmasked' = TRUE
  /\ Skip
  /\ UNCHANGED <<vars, gp, queued, accepted, about, mine>>

Rfe ==
  /\ Exec("rfe")
  /\ pc' = resume /\ resume' = 0
  /\ UNCHANGED <<vars, gp, intcVars, about, mine>>

Cpu ==
  \/ Load \/ RunCommand \/ StoreRegister \/ Set \/ Jump \/ Unmask \/ Rfe

(* The accepted interrupt traps to the handler, between two instructions.  *)
Enter ==
  /\ accepted /\ resume = 0 /\ stalled = "none" /\ ~dead
  /\ accepted' = FALSE
  /\ resume' = pc /\ pc' = Handler
  /\ mine' = Head(about) /\ about' = Tail(about)
  /\ UNCHANGED <<vars, gp, queued, unmasked>>

(* A mistaken controller that does not mask itself.                        *)
AcceptUnmasked ==
  /\ queued > 0 /\ unmasked /\ ~accepted /\ ~dead
  /\ queued' = queued - 1
  /\ accepted' = TRUE
  /\ UNCHANGED <<vars, cpuVars, unmasked, about, mine>>

(* The controller takes an interrupt from its queue and masks itself.      *)
AcceptInterrupt ==
  /\ queued > 0 /\ unmasked /\ ~accepted /\ ~dead
  /\ queued' = queued - 1
  /\ unmasked' = FALSE /\ accepted' = TRUE
  /\ UNCHANGED <<vars, cpuVars, about, mine>>

NetThread ==
  /\ Thread
  /\ IF ntAt = "raise"
     THEN queued' = queued + 1 /\ about' = Append(about, asyncHandle)
     ELSE UNCHANGED <<queued, about>>
  /\ UNCHANGED <<cpuVars, unmasked, accepted, mine>>

Peers == Host /\ UNCHANGED <<cpuVars, intcVars, about, mine>>

ServerNext == Cpu \/ Enter \/ AcceptInterrupt \/ NetThread \/ Peers

ServerSpec == ServerInit /\ [][ServerNext]_allVars

(* Every thread keeps running; nothing is assumed of the peers.            *)
FairServer ==
  /\ ServerSpec
  /\ WF_allVars(Cpu) /\ WF_allVars(Enter) /\ WF_allVars(AcceptInterrupt)
  /\ WF_allVars(NetThread)

-----------------------------------------------------------------------------
InHandler == resume # 0

(* internet.py:445: registering, unregistering and closing in order, as    *)
(* README:222 asks, never makes the selector raise, although the host      *)
(* hands out descriptors again.                                            *)
NeverDies == ~dead

(* internet.py:302.  The server never blocks in the host with cpu_lock     *)
(* held, even if the peer withdrew the connection that was announced.      *)
NeverStalls == stalled = "none"

(* README:222.  The socket an interrupt is about is still registered.      *)
AnnouncedRegistered == ntAt = "raise" => keys[asyncHandle] # {}

(* README:217.  The handler reads from the event registers what its own   *)
(* interrupt was about, not what an earlier or a later one was.            *)
ReadsOwnEvent ==
  [][Exec("load") /\ Program[pc].from = "async" => asyncHandle = mine]_allVars

(* What the server sends is what it received on that connection.           *)
SendsOwn ==
  [][Exec("cmd") /\ Program[pc].name = "SEND" /\ reg'.status = 0
       => reg.buffer \in {reg.handle, Nothing}]_allVars

(* The queue holds interrupts of one number, the device's.                 *)
Promise ==
  INSTANCE Delivery WITH
    Nums     <- {1},
    NoNum    <- 0,
    pending  <- [k \in 1 .. queued |-> 1],
    open     <- unmasked,
    accepted <- IF accepted THEN 1 ELSE 0,
    handling <- resume # 0

(* This controller and this CPU deliver interrupts as the detailed ones of *)
(* InterruptDelivery do, and the server unmasks only when it has left the  *)
(* handler of the interrupt before: the promise is made to such guests.    *)
InOrder == Promise!Spec

(* README:215 and internet.py:91.  Everything that happens to a registered *)
(* socket is dealt with in the end: what a client sent is received, a      *)
(* client that hung up is forgotten, and a connection is accepted unless   *)
(* the host has no descriptor for it.                                      *)
EventsServed ==
  \A h \in Fds :
    Ready(h) # {}
      ~> \/ Ready(h) = {}
         \/ sock[h].kind = "listener" /\ \A g \in Fds : Open(g)
=============================================================================
