------------------------------ MODULE Internet ------------------------------
(***************************************************************************)
(* The Internet controller (compyter/hardware/internet.py): the registers  *)
(* and commands a guest drives its sockets with, and the thread            *)
(* process_async, which announces by interrupt that a socket is ready.     *)
(* The guest is any guest: it stores to any register and issues any        *)
(* command at any time.  Sockets and the selector are the host's (Python's *)
(* socket and selectors on epoll); a peer may connect, send and hang up.   *)
(* Sockets are of PROTO_TCP: datagrams are left out.                       *)
(*                                                                         *)
(* A command runs on the CPU's thread with cpu_lock held: while one is     *)
(* stalled in the host the guest does nothing.                             *)
(***************************************************************************)
EXTENDS Integers

CONSTANTS
  Fds,         \* the descriptors the host gives to sockets
  Params,      \* the values of the parameter register told apart; those
               \* from 2^31, for which LISTEN raises OverflowError, are left
               \* out
  MaxArrived   \* bound: connections or messages waiting at a socket

ASSUME FdsAssumption    == Fds \subseteq Nat \ {0}
ASSUME BoundAssumption  == MaxArrived \in Nat \ {0}
ASSUME ParamsAssumption == Params \subseteq Nat /\ 0 \in Params

VARIABLES
  reg,         \* the registers that commands use, and the data buffer
  sock,        \* Internet.sockets, and what the host knows of each socket
  keys,        \* the selector's keys: the operations each descriptor is
               \* registered for, none if it is not
  watched,     \* the descriptors the host's epoll watches
  asyncOp,     \* Internet.async_op
  asyncHandle, \* Internet.async_handle
  asyncDone,   \* Internet.async_done
  events,      \* the events of a select() that are still to be announced
  ntAt,        \* where the thread process_async is
  stalled,     \* the command that is blocked in the host
  dead         \* an exception ended the emulator

regVars   == <<reg, sock, keys, watched, asyncDone, stalled, dead>>
asyncVars == <<asyncOp, asyncHandle, events, ntAt>>
vars      == <<reg, sock, keys, watched, asyncOp, asyncHandle, asyncDone,
               events, ntAt, stalled, dead>>

Ops == {"read", "write"}   \* ASYNC_READ is bit 0, ASYNC_WRITE is bit 1

Mask(p) == (IF p % 2 = 1 THEN {"read"} ELSE {})
             \cup (IF (p \div 2) % 2 = 1 THEN {"write"} ELSE {})

(* A port, or a length that is not 0.                                      *)
AnyNumber == Params \ {0}

(* The value of current_handle that is no socket's; it starts as -1, and   *)
(* SOCKET sets it to 0 when it fails.                                      *)
NoHandle == 0

(* Whose data the buffer holds, if not a socket's: text that the guest or  *)
(* an error put there, or none, the buffer size being 0.                   *)
Text    == 0
Nothing == -1

(* The commands that look up the current handle first.                     *)
OnHandle == {"BIND", "CONNECT", "LISTEN", "ACCEPT", "CLOSE", "RECV", "SEND",
             "RECVFROM", "SENDTO", "ASYNC_START", "ASYNC_STOP"}

Commands == OnHandle \cup {"NOP", "SOCKET", "SETSOCKOPT", "GETSOCKOPT",
                           "GETADDRINFO", "GETNAMEINFO", "ASYNC_DONE"}

Closed == [kind |-> "closed", blocking |-> TRUE, arrived |-> 0,
           peer |-> "there"]
New(kind) == [Closed EXCEPT !.kind = kind]

Open(h) == h \in Fds /\ sock[h].kind # "closed"

(* The host hands out the lowest descriptor that is not in use.            *)
Unused(h) == ~Open(h) /\ \A g \in Fds : g < h => Open(g)

Init ==
  /\ reg = [handle |-> NoHandle, params |-> 0, status |-> 0, buffer |-> Text]
  /\ sock = [h \in Fds |-> Closed]
  /\ keys = [h \in Fds |-> {}] /\ watched = {}
  /\ asyncOp = {} /\ asyncHandle = NoHandle /\ asyncDone = FALSE
  /\ events = [h \in Fds |-> {}] /\ ntAt = "select"
  /\ stalled = "none" /\ dead = FALSE

-----------------------------------------------------------------------------
(* What a command leaves in the registers: of an error number, the sign.   *)
(* The message of an error replaces the buffer's data, not its size.       *)

Succeeds(r) == [r EXCEPT !.status = 0]
Fails(r)    == [r EXCEPT !.status = -1,
                     !.buffer = IF @ = Nothing THEN Nothing ELSE Text]

(* An exception that no command catches.                                   *)
Dies == dead' = TRUE /\ UNCHANGED <<reg, sock, keys, watched, asyncDone>>

OnlyReg == UNCHANGED <<sock, keys, watched, asyncDone, dead>>
OnlySock == UNCHANGED <<keys, watched, asyncDone, dead>>

Fail == reg' = Fails(reg) /\ OnlyReg

Nop == UNCHANGED <<reg, sock, keys, watched, asyncDone, dead>>

(* A handle that is not a key of the dictionary: the command returns, and  *)
(* the status is still that of the command before it.                      *)
Ignore == ~Open(reg.handle) /\ Nop

Socket ==
  \/ \E h \in Fds :
       /\ Unused(h)
       /\ sock' = [sock EXCEPT ![h] = New("new")]
       /\ reg' = [Succeeds(reg) EXCEPT !.handle = h]
       /\ OnlySock
  \/ reg' = [Fails(reg) EXCEPT !.handle = NoHandle] /\ OnlyReg

Bind ==
  /\ Open(reg.handle)
  /\ reg' \in {Succeeds(reg), Fails(reg)}
  /\ OnlyReg

(* A connect on a socket that does not block fails with EINPROGRESS and is *)
(* completed by the host.                                                  *)
Connect ==
  LET h == reg.handle IN
  /\ Open(h)
  /\ \/ /\ sock[h].kind = "new"
        /\ sock' = [sock EXCEPT ![h].kind = "stream"]
        /\ reg' = IF sock[h].blocking THEN Succeeds(reg) ELSE Fails(reg)
        /\ OnlySock
     \/ Fail

Listen ==
  LET h == reg.handle IN
  /\ Open(h)
  /\ \/ /\ sock[h].kind \in {"new", "listener"}
        /\ sock' = [sock EXCEPT ![h].kind = "listener"]
        /\ reg' = Succeeds(reg)
        /\ OnlySock
     \/ Fail

(* A mistaken accept that does not see to it that a connection waits.      *)
AcceptUnasked ==
  \E c \in Fds :
    /\ Open(reg.handle) /\ Unused(c)
    /\ sock' = [sock EXCEPT ![reg.handle].arrived = @ - 1,
                           ![c] = New("stream")]
    /\ reg' = [Succeeds(reg) EXCEPT !.handle = c]
    /\ OnlySock

(* The connection gets a socket of its own, which blocks, whatever the     *)
(* listener does.                                                          *)
Accept ==
  LET h == reg.handle IN
  /\ Open(h)
  /\ \/ \E c \in Fds, port \in AnyNumber :
          /\ sock[h].kind = "listener" /\ sock[h].arrived > 0
          /\ Unused(c)
          /\ sock' = [sock EXCEPT ![h].arrived = @ - 1, ![c] = New("stream")]
          /\ reg' = [Succeeds(reg) EXCEPT !.handle = c, !.params = port]
          /\ OnlySock
     \/ /\ ~(/\ sock[h].kind = "listener" /\ sock[h].arrived > 0
             /\ \E c \in Fds : Unused(c))
        /\ Fail

(* A mistaken close that drops the socket and leaves epoll its descriptor. *)
CloseWatched ==
  /\ Open(reg.handle)
  /\ sock' = [sock EXCEPT ![reg.handle] = Closed]
  /\ reg' = Succeeds(reg)
  /\ OnlySock

(* The selector is not told; epoll forgets the descriptor by itself.       *)
Close ==
  LET h == reg.handle IN
  /\ Open(h)
  /\ sock' = [sock EXCEPT ![h] = Closed]
  /\ watched' = watched \ {h}
  /\ reg' = Succeeds(reg)
  /\ UNCHANGED <<keys, asyncDone, dead>>

(* recv(): some of what has arrived, nothing at all once the peer has hung *)
(* up, or an error: nothing there yet, no out-of-band data, not connected, *)
(* or reset by the peer, which is told once.  Out-of-band data, which is   *)
(* asked for by a parameter other than 0 and never waited for, is not      *)
(* counted: the peer may have sent some.                                   *)
Data(h)   == sock[h].kind = "stream" /\ reg.params = 0
Urgent(h) == sock[h].kind = "stream" /\ reg.params # 0

Told(h) == [sock EXCEPT ![h].peer = IF @ = "reset" THEN "gone" ELSE @]

RecvError(h) ==
  /\ \/ ~Data(h)
     \/ sock[h].arrived = 0 /\ sock[h].peer # "gone"
  /\ sock' = Told(h)
  /\ reg' = Fails(reg)
  /\ OnlySock

(* A mistaken receive that does not put the data into the buffer.          *)
RecvUnstored ==
  LET h == reg.handle IN
  /\ Open(h)
  /\ \/ \E n \in 1 .. sock[h].arrived :
          /\ Data(h)
          /\ sock' = [sock EXCEPT ![h].arrived = @ - n]
          /\ reg' = Succeeds(reg)
          /\ OnlySock
     \/ RecvError(h)

Recv ==
  LET h == reg.handle IN
  /\ Open(h)
  /\ \/ \E n \in 1 .. sock[h].arrived :
          /\ Data(h)
          /\ sock' = [sock EXCEPT ![h].arrived = @ - n]
          /\ reg' = [Succeeds(reg) EXCEPT !.buffer = h]
          /\ OnlySock
     \/ /\ Data(h) /\ sock[h].arrived = 0 /\ sock[h].peer = "gone"
        /\ reg' = [Succeeds(reg) EXCEPT !.buffer = Nothing]
        /\ OnlyReg
     \/ Urgent(h) /\ reg' = [Succeeds(reg) EXCEPT !.buffer = h] /\ OnlyReg
     \/ RecvError(h)

(* The data arrives, but its sender's address is not what ip_address()     *)
(* takes: ValueError.                                                      *)
RecvFrom ==
  LET h == reg.handle IN
  /\ Open(h)
  /\ \/ Data(h) /\ (sock[h].arrived > 0 \/ sock[h].peer = "gone") /\ Dies
     \/ Urgent(h) /\ Dies
     \/ RecvError(h)

(* send(): the parameter register gets the length.                         *)
Send ==
  LET h == reg.handle IN
  /\ Open(h)
  /\ \/ /\ sock[h].kind = "stream"
        /\ \E n \in (IF reg.buffer = Nothing THEN {0} ELSE AnyNumber) :
             reg' = [Succeeds(reg) EXCEPT !.params = n]
        /\ OnlyReg
     \/ /\ sock[h].kind # "stream" \/ sock[h].peer # "there"
           \/ ~sock[h].blocking
        /\ Fail

(* sendto(), which also fails for an address of the other IP version.      *)
SendTo == Send \/ (Open(reg.handle) /\ Fail)

(* A mistaken start that leaves the socket as it is.                       *)
AsyncStartBlocking ==
  LET h == reg.handle
      mask == Mask(reg.params) IN
  /\ Open(h)
  /\ UNCHANGED <<sock, asyncDone>>
  /\ IF mask = {} \/ keys[h] # {}
     THEN dead' = TRUE /\ UNCHANGED <<reg, keys, watched>>
     ELSE /\ keys' = [keys EXCEPT ![h] = mask]
          /\ watched' = watched \cup {h}
          /\ reg' = Succeeds(reg)
          /\ UNCHANGED dead

(* register() raises for an empty mask (ValueError) and for a descriptor   *)
(* it has a key for (KeyError): the socket no longer blocks by then.       *)
AsyncStart ==
  LET h == reg.handle
      mask == Mask(reg.params) IN
  /\ Open(h)
  /\ sock' = [sock EXCEPT ![h].blocking = FALSE]
  /\ UNCHANGED asyncDone
  /\ IF mask = {} \/ keys[h] # {}
     THEN dead' = TRUE /\ UNCHANGED <<reg, keys, watched>>
     ELSE /\ keys' = [keys EXCEPT ![h] = mask]
          /\ watched' = watched \cup {h}
          /\ reg' = Succeeds(reg)
          /\ UNCHANGED dead

(* A mistaken stop that epoll is told of, and the selector is not.         *)
AsyncStopKeepsKey ==
  LET h == reg.handle IN
  /\ Open(h)
  /\ watched' = watched \ {h}
  /\ reg' = Succeeds(reg)
  /\ UNCHANGED <<keys, sock, asyncDone, dead>>

(* unregister() raises KeyError for a descriptor it has no key for.        *)
AsyncStop ==
  LET h == reg.handle IN
  /\ Open(h)
  /\ \/ keys[h] = {} /\ Dies
     \/ /\ keys[h] # {}
        /\ keys' = [keys EXCEPT ![h] = {}]
        /\ watched' = watched \ {h}
        /\ reg' = Succeeds(reg)
        /\ UNCHANGED <<sock, asyncDone, dead>>

(* A mistaken end of an operation that wakes nobody.                       *)
AsyncDoneQuietly ==
  reg' = Succeeds(reg) /\ UNCHANGED <<asyncDone, sock, keys, watched, dead>>

AsyncDone ==
  /\ asyncDone' = TRUE
  /\ reg' = Succeeds(reg)
  /\ UNCHANGED <<sock, keys, watched, dead>>

(* getnameinfo() is given what the last error message left the length of,  *)
(* an attribute that does not exist before the first error.                *)
GetNameInfo ==
  \/ Fail
  \/ reg' = [Succeeds(reg) EXCEPT !.buffer = Text] /\ OnlyReg
  \/ Dies

(* Names that are not defined: "os" in _set_error(), "getaddrinfo".        *)
Undefined == Dies

Execute(c) ==
  \/ c \in OnHandle /\ Ignore
  \/ c = "NOP" /\ Nop
  \/ c = "SOCKET" /\ Socket
  \/ c = "BIND" /\ Bind
  \/ c = "CONNECT" /\ Connect
  \/ c = "LISTEN" /\ Listen
  \/ c = "ACCEPT" /\ Accept
  \/ c = "CLOSE" /\ Close
  \/ c = "RECV" /\ Recv
  \/ c = "RECVFROM" /\ RecvFrom
  \/ c = "SEND" /\ Send
  \/ c = "SENDTO" /\ SendTo
  \/ c = "ASYNC_START" /\ AsyncStart
  \/ c = "ASYNC_STOP" /\ AsyncStop
  \/ c = "ASYNC_DONE" /\ AsyncDone
  \/ c = "GETNAMEINFO" /\ GetNameInfo
  \/ c \in {"SETSOCKOPT", "GETSOCKOPT", "GETADDRINFO"} /\ Undefined

(* The commands that block in the host until a peer acts.                  *)
Blocks(c) ==
  LET h == reg.handle IN
  /\ Open(h) /\ sock[h].blocking
  /\ \/ c = "ACCEPT" /\ sock[h].kind = "listener" /\ sock[h].arrived = 0
     \/ /\ c \in {"RECV", "RECVFROM"} /\ Data(h)
        /\ sock[h].arrived = 0 /\ sock[h].peer = "there"

(* A connection takes the time that the peer takes to answer.              *)
Connects(c) ==
  /\ c = "CONNECT" /\ Open(reg.handle)
  /\ sock[reg.handle].blocking /\ sock[reg.handle].kind = "new"

(* What is sent waits too, for the peer to take what was sent before.      *)
Sends(c) ==
  /\ c \in {"SEND", "SENDTO"} /\ Open(reg.handle)
  /\ sock[reg.handle].blocking /\ sock[reg.handle].kind = "stream"
  /\ reg.buffer # Nothing

(* A word stored to the command register runs the command.                 *)
Command(c) ==
  /\ stalled = "none" /\ ~dead
  /\ \/ ~Blocks(c) /\ Execute(c) /\ UNCHANGED stalled
     \/ /\ Blocks(c) \/ Connects(c) \/ Sends(c)
        /\ stalled' = c
        /\ UNCHANGED <<reg, sock, keys, watched, asyncDone, dead>>

Return ==
  /\ stalled # "none" /\ ~dead
  /\ ~Blocks(stalled)
  /\ Execute(stalled)
  /\ stalled' = "none"

(* Stores to the other registers.                                          *)
Store(r) ==
  /\ stalled = "none" /\ ~dead
  /\ reg' = r
  /\ UNCHANGED <<sock, keys, watched, asyncDone, stalled, dead>>

StoreHandle(h) == Store([reg EXCEPT !.handle = h])
StoreParams(p) == Store([reg EXCEPT !.params = p])
StoreBuffer(b) == Store([reg EXCEPT !.buffer = b])

(* The byte's number is counted from the wrong register, and shifting by a *)
(* negative distance raises ValueError.                                    *)
StoreStatus ==
  /\ stalled = "none" /\ ~dead
  /\ dead' = TRUE
  /\ UNCHANGED <<reg, sock, keys, watched, asyncDone, stalled>>

Guest ==
  \/ \E c \in Commands : Command(c)
  \/ Return
  \/ \E h \in Fds \cup {NoHandle} : StoreHandle(h)
  \/ \E p \in Params : StoreParams(p)
  \/ \E b \in {Text, Nothing} : StoreBuffer(b)
  \/ StoreStatus

-----------------------------------------------------------------------------
(* The thread process_async.                                               *)

Readable(h) ==
  sock[h].arrived > 0 \/ sock[h].peer # "there" \/ sock[h].kind = "new"

(* What select() reports of a descriptor.  epoll reports a socket that was *)
(* never connected as hung up.                                             *)
Ready(h) ==
  IF h \notin watched THEN {}
  ELSE {op \in keys[h] :
          \/ op = "read" /\ Readable(h)
          \/ op = "write" /\ sock[h].kind \in {"new", "stream"}}

Select ==
  /\ ntAt = "select"
  /\ \E h \in Fds : Ready(h) # {}
  /\ events' = [h \in Fds |-> Ready(h)]
  /\ ntAt' = "next"
  /\ UNCHANGED <<regVars, asyncOp, asyncHandle>>

(* A mistaken publication that does not clear async_done.                  *)
PublishDone ==
  /\ ntAt = "next"
  /\ \E h \in Fds :
       /\ events[h] # {}
       /\ asyncOp' = events[h] /\ asyncHandle' = h
       /\ events' = [events EXCEPT ![h] = {}]
  /\ ntAt' = "raise"
  /\ UNCHANGED <<reg, sock, keys, watched, asyncDone, stalled, dead>>

(* The next event is put into the registers, async_done being cleared.     *)
(* What a guest that reads them unasked finds in between is left out.      *)
Publish ==
  /\ ntAt = "next"
  /\ \E h \in Fds :
       /\ events[h] # {}
       /\ asyncOp' = events[h] /\ asyncHandle' = h
       /\ events' = [events EXCEPT ![h] = {}]
  /\ asyncDone' = FALSE
  /\ ntAt' = "raise"
  /\ UNCHANGED <<reg, sock, keys, watched, stalled, dead>>

Raise ==
  /\ ntAt = "raise"
  /\ ntAt' = "wait"
  /\ UNCHANGED <<regVars, asyncOp, asyncHandle, events>>

(* A mistaken thread that does not wait for ASYNC_DONE.                    *)
Unawaited ==
  /\ ntAt = "wait"
  /\ ntAt' = IF \E h \in Fds : events[h] # {} THEN "next" ELSE "select"
  /\ UNCHANGED <<regVars, asyncOp, asyncHandle, events>>

Awaited ==
  /\ ntAt = "wait" /\ asyncDone
  /\ ntAt' = IF \E h \in Fds : events[h] # {} THEN "next" ELSE "select"
  /\ UNCHANGED <<regVars, asyncOp, asyncHandle, events>>

Thread == ~dead /\ (Select \/ Publish \/ Raise \/ Awaited)

-----------------------------------------------------------------------------
(* The host's side of the sockets: a connection or a message arrives, a    *)
(* connection is withdrawn before it is accepted, a peer hangs up, or      *)
(* resets the connection.                                                  *)

Arrive(h) ==
  /\ sock[h].kind \in {"listener", "stream"} /\ sock[h].peer = "there"
  /\ sock[h].arrived < MaxArrived
  /\ sock' = [sock EXCEPT ![h].arrived = @ + 1]

Withdraw(h) ==
  /\ sock[h].kind = "listener" /\ sock[h].arrived > 0
  /\ sock' = [sock EXCEPT ![h].arrived = @ - 1]

HangUp(h) ==
  /\ sock[h].kind = "stream" /\ sock[h].peer = "there"
  /\ \/ sock' = [sock EXCEPT ![h].peer = "gone"]
     \/ sock' = [sock EXCEPT ![h].peer = "reset", ![h].arrived = 0]

Host ==
  /\ ~dead
  /\ \E h \in Fds : Arrive(h) \/ Withdraw(h) \/ HangUp(h)
  /\ UNCHANGED <<reg, keys, watched, asyncVars, asyncDone, stalled, dead>>

Ended == dead /\ UNCHANGED vars

Next ==
  \/ Guest /\ UNCHANGED asyncVars
  \/ Thread
  \/ Host
  \/ Ended

Spec == Init /\ [][Next]_vars

-----------------------------------------------------------------------------
Socks == [kind : {"closed", "new", "listener", "stream"}, blocking : BOOLEAN,
          arrived : 0 .. MaxArrived, peer : {"there", "reset", "gone"}]

TypeOK ==
  /\ reg \in [handle : Fds \cup {NoHandle}, params : Params, status : {-1, 0},
              buffer : Fds \cup {Text, Nothing}]
  /\ sock \in [Fds -> Socks]
  /\ keys \in [Fds -> SUBSET Ops] /\ watched \subseteq Fds
  /\ asyncOp \subseteq Ops /\ asyncHandle \in Fds \cup {NoHandle}
  /\ asyncDone \in BOOLEAN
  /\ events \in [Fds -> SUBSET Ops]
  /\ ntAt \in {"select", "next", "raise", "wait"}
  /\ stalled \in Commands \cup {"none"}
  /\ dead \in BOOLEAN

(* selectors and internet.py:441.  What epoll watches is open, registered, *)
(* and does not block, in spite of descriptors that are used again.        *)
WatchedInOrder ==
  \A h \in watched :
    Open(h) /\ keys[h] # {} /\ ~sock[h].blocking

(* internet.py:302.  A command on a socket that is registered never holds  *)
(* up the CPU, and with it every interrupt.                                *)
WatchedNeverStalls == stalled # "none" => reg.handle \notin watched
=============================================================================
