----------------------------- MODULE MCInternet -----------------------------
(***************************************************************************)
(* Server programs for model checking InternetServer.                      *)
(***************************************************************************)
EXTENDS DisciplinedServer

ReadOnly == {0, 1}   \* ASYNC_READ, or nothing

Load2(from, to) == [op |-> "load", from |-> from, to |-> to]
Cmd(name)       == [op |-> "cmd", name |-> name]
HandleOf(r)     == [op |-> "handle", of |-> r]
SetParams(p)    == [op |-> "params", val |-> p]
SetGp(r, v)     == [op |-> "set", to |-> r, val |-> v]
Jmp(to)         == [op |-> "jmp", at |-> to]
Jmpz(r, to)     == [op |-> "jmpz", of |-> r, at |-> to]
Jmpneg(r, to)   == [op |-> "jmpneg", of |-> r, at |-> to]
Jmpeq(r, s, to) == [op |-> "jmpeq", of |-> r, and |-> s, at |-> to]
Op(op)          == [op |-> op]

(* Open a listener, register it, and wait for the handler's notes.         *)
Setup == <<
  Cmd("SOCKET"), Load2("status", "$0"), Jmpneg("$0", 18),         \*  1
  Load2("handle", "$1"),                                          \*  4
  Cmd("BIND"), Load2("status", "$0"), Jmpneg("$0", 18),           \*  5
  Cmd("LISTEN"), Load2("status", "$0"), Jmpneg("$0", 18),         \*  8
  SetParams(1), Cmd("ASYNC_START"), Op("unmask"),                 \* 11
  Jmpz("$note", 14), SetGp("$note", 0), Op("unmask"), Jmp(14),    \* 14
  Jmp(18)>>                                                       \* 18

(* The handler of an echo server: a connection is accepted and registered, *)
(* what a client sent is sent back, and a client that hung up is forgotten.*)
EchoServer == Setup \o <<
  Load2("async", "$2"), HandleOf("$2"), Jmpeq("$1", "$2", 30),    \* 19
  SetParams(0), Cmd("RECV"), Load2("status", "$0"),               \* 22
  Jmpneg("$0", 38), Load2("size", "$0"), Jmpz("$0", 36),          \* 25
  Cmd("SEND"), Jmp(38),                                           \* 28
  Cmd("ACCEPT"), Load2("status", "$0"), Jmpneg("$0", 38),         \* 30
  SetParams(1), Cmd("ASYNC_START"), Jmp(38),                      \* 33
  Cmd("ASYNC_STOP"), Cmd("CLOSE"),                                \* 36
  Cmd("ASYNC_DONE"), SetGp("$note", 1), Op("rfe")>>               \* 38

(* The same server for one client at a time: a new connection replaces the *)
(* old one, which is unregistered and then closed.                         *)
OneClient == Setup \o <<
  Load2("async", "$2"), HandleOf("$2"), Jmpeq("$1", "$2", 30),    \* 19
  SetParams(0), Cmd("RECV"), Load2("status", "$0"),               \* 22
  Jmpneg("$0", 46), Load2("size", "$0"), Jmpz("$0", 43),          \* 25
  Cmd("SEND"), Jmp(46),                                           \* 28
  Cmd("ACCEPT"), Load2("status", "$0"), Jmpneg("$0", 46),         \* 30
  SetParams(1), Cmd("ASYNC_START"), Load2("handle", "$0"),        \* 33
  Jmpz("$3", 40), HandleOf("$3"), Cmd("ASYNC_STOP"), Cmd("CLOSE"),\* 36
  HandleOf("$0"), Load2("handle", "$3"), Jmp(46),                 \* 40
  Cmd("ASYNC_STOP"), Cmd("CLOSE"), SetGp("$3", 0),                \* 43
  Cmd("ASYNC_DONE"), SetGp("$note", 1), Op("rfe")>>               \* 46

(* What is known in the echo server: it observes the discipline.           *)
EchoArea ==
  [p \in Places |-> IF p \in {14, 17} THEN "open"
                    ELSE IF p = 15 THEN "noted"
                    ELSE IF p < 19 THEN "closed"
                    ELSE IF p < 39 THEN "event" ELSE "done"]

EchoKnown ==
  [p \in Places |->
     CASE p \in 2 .. 11 -> {"new"}
       [] p = 12 -> {"new", "asks"}
       [] p = 19 -> {"live"}
       [] p = 20 -> {"live", "$2"}
       [] p \in (21 .. 25) \cup {30, 36} -> {"live", "mine"}
       [] p \in 26 .. 28 -> {"live", "mine", "own"}
       [] p \in {33, 37} -> {"new"}
       [] p = 34 -> {"new", "asks"}
       [] OTHER -> {}]

EchoUnless ==
  [p \in Places |->
     CASE p = 24 -> [Never EXCEPT !["status"] = {"own"}]
       [] p = 25 -> [Never EXCEPT !["$0"] = {"own"}]
       [] p = 31 -> [Never EXCEPT !["status"] = {"new"}]
       [] p = 32 -> [Never EXCEPT !["$0"] = {"new"}]
       [] OTHER -> Never]

ASSUME EchoDisciplined ==
  Program = EchoServer => Disciplined(EchoArea, EchoKnown, EchoUnless)
=============================================================================
