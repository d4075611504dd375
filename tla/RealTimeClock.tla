---------------------------- MODULE RealTimeClock ----------------------------
(***************************************************************************)
(* The real-time clock (compyter/hardware/rtc.py) and a guest that loads   *)
(* its registers one by one through MMU.get_address and its LRU cache,     *)
(* while the host's clock goes on, and may be set back.  The guest latches *)
(* the time whenever it likes.                                             *)
(***************************************************************************)
EXTENDS Integers

CONSTANTS
  Fields,  \* the byte registers of the time: REG_YEAR .. REG_USEC + 3
  Values,  \* the bytes told apart
  Times    \* the instants told apart: what each register would hold

ASSUME TimesAssumption ==
  Values \subseteq Nat /\ Times \subseteq [Fields -> Values]

VARIABLES
  time,    \* the host's time, datetime.now()
  now,     \* RTC.now
  held,    \* get_address's cache of the registers: the bytes it holds
  seen,    \* history: what the guest has loaded since it last latched
  taken    \* history: the time at which it did

clockVars == <<time, now, held, seen, taken>>

NoValue == -1
Unread  == [f \in Fields |-> NoValue]

ClockInit ==
  /\ time \in Times
  /\ now = time /\ taken = time
  /\ held = Unread /\ seen = Unread

Tick ==
  /\ time' \in Times
  /\ UNCHANGED <<now, held, seen, taken>>

(* A store to the clock latches the time if the byte it puts into          *)
(* REG_LATCH is not 0; its other bytes are dropped.  A word put there does *)
(* so by its first byte.                                                   *)
StoreClock(latches) ==
  /\ now' = IF latches THEN time ELSE now
  /\ held' = Unread
  /\ seen' = IF latches THEN Unread ELSE seen
  /\ taken' = IF latches THEN time ELSE taken
  /\ UNCHANGED time

(* A mistaken load that asks the host for the time.                        *)
LoadLive(f) ==
  /\ \E v \in {held[f], time[f]} \ {NoValue} :
       /\ held' = [held EXCEPT ![f] = v]
       /\ seen' = [seen EXCEPT ![f] = v]
  /\ UNCHANGED <<time, now, taken>>

(* A load of one register: from the cache, if that still holds it.         *)
LoadField(f) ==
  /\ \E v \in {held[f], now[f]} \ {NoValue} :
       /\ held' = [held EXCEPT ![f] = v]
       /\ seen' = [seen EXCEPT ![f] = v]
  /\ UNCHANGED <<time, now, taken>>

ClockNext ==
  \/ Tick
  \/ \E latches \in BOOLEAN : StoreClock(latches)
  \/ \E f \in Fields : LoadField(f)

ClockSpec == ClockInit /\ [][ClockNext]_clockVars

-----------------------------------------------------------------------------
ClockTypeOK ==
  /\ time \in Times /\ now \in Times /\ taken \in Times
  /\ held \in [Fields -> Values \cup {NoValue}]
  /\ seen \in [Fields -> Values \cup {NoValue}]

(* README:112.  All that a guest reads after it latched is of the instant  *)
(* at which it latched, however the time goes on between its loads and     *)
(* whatever the cache held before.                                         *)
Snapshot == \A f \in Fields : seen[f] # NoValue => seen[f] = taken[f]
=============================================================================
