---------------------------- MODULE KeyboardRead ----------------------------
(***************************************************************************)
(* How a keystroke gets from the keyboard's thread (compyter/hardware/     *)
(* keyboard.py) to the guest's handler, which loads the character register *)
(* byte by byte through MMU.get_address and its LRU cache (compyter/       *)
(* mmu.py).  No lock protects the register.  The interrupt controller is   *)
(* a count of interrupts queued; InterruptDelivery has its details.        *)
(***************************************************************************)
EXTENDS Integers

CONSTANTS
  Bytes,      \* the byte values told apart
  Keys,       \* the keys typed: a high and a low byte each
  MaxQueued   \* bound: interrupts queued for the handler

ASSUME KeysAssumption ==
  /\ Bytes \subseteq Nat
  /\ Keys \subseteq [0 .. 1 -> Bytes]
  /\ MaxQueued \in Nat \ {0}

VARIABLES
  char,     \* Keyboard.char
  enabled,  \* Keyboard.enabled
  keyAt,    \* where the keyboard's thread is: "read", "test" or "ended"
  queued,   \* interrupts queued in the controller
  cache,    \* get_address's cache of the register: the bytes it holds
  cpuAt,    \* the CPU thread: "main", or in the handler, "load" or "save"
  nextByte, \* the byte the handler loads next
  got,      \* what it has loaded
  since     \* history: the contents of the register since it was entered

keyVars == <<char, enabled, keyAt, queued, cache, cpuAt, nextByte, got, since>>

NoByte == -1
Empty  == [b \in 0 .. 1 |-> NoByte]

KeyInit ==
  /\ char \in Keys
  /\ enabled = FALSE /\ keyAt = "read" /\ queued = 0
  /\ cache = Empty
  /\ cpuAt = "main" /\ nextByte = 0 /\ got = Empty
  /\ since = {}

(* Keyboard.input(): the character is stored whether enabled or not ...    *)
Type ==
  /\ keyAt = "read"
  /\ \E k \in Keys : char' = k /\ since' = since \cup {k}
  /\ keyAt' = "test"
  /\ UNCHANGED <<enabled, queued, cache, cpuAt, nextByte, got>>

(* No more input, for which read(1)[0] raises IndexError, or exit_event is *)
(* set: the thread ends.                                                   *)
EndInput ==
  /\ keyAt = "read"
  /\ keyAt' = "ended"
  /\ UNCHANGED <<char, enabled, queued, cache, cpuAt, nextByte, got, since>>

(* A mistaken keyboard that raises nothing.                                *)
NotifyNobody ==
  /\ keyAt = "test" /\ enabled
  /\ keyAt' = "read"
  /\ UNCHANGED <<char, enabled, queued, cache, cpuAt, nextByte, got, since>>

(* ... and then the interrupt is raised.                                   *)
Notify ==
  /\ keyAt = "test" /\ enabled /\ queued < MaxQueued
  /\ queued' = queued + 1
  /\ keyAt' = "read"
  /\ UNCHANGED <<char, enabled, cache, cpuAt, nextByte, got, since>>

Ignore ==
  /\ keyAt = "test" /\ ~enabled
  /\ keyAt' = "read"
  /\ UNCHANGED <<char, enabled, queued, cache, cpuAt, nextByte, got, since>>

(* A mistaken store that leaves the cache.                                 *)
ClearNothing == cache' = cache

(* Every store of the guest ends with MMU.clear_cache().                   *)
ClearCache == cache' = Empty

(* A store to the enable register.                                         *)
SetEnabled ==
  /\ cpuAt = "main"
  /\ enabled' = ~enabled
  /\ ClearCache
  /\ UNCHANGED <<char, keyAt, queued, cpuAt, nextByte, got, since>>

(* A mistaken controller that calls the handler for nothing.               *)
EnterUncalled ==
  /\ cpuAt = "main"
  /\ queued' = queued - 1
  /\ cpuAt' = "load"
  /\ nextByte' = 0
  /\ got' = Empty
  /\ since' = {char}
  /\ UNCHANGED <<char, enabled, keyAt, cache>>

(* The handler is entered.                                                 *)
Enter ==
  /\ cpuAt = "main" /\ queued > 0
  /\ queued' = queued - 1
  /\ cpuAt' = "load"
  /\ nextByte' = 0
  /\ got' = Empty
  /\ since' = {char}
  /\ UNCHANGED <<char, enabled, keyAt, cache>>

(* loadw of the character register, one get_address per byte: a byte comes *)
(* from the cache if that still holds it.                                  *)
LoadByte ==
  /\ cpuAt = "load"
  /\ \E byte \in {cache[nextByte], char[nextByte]} \ {NoByte} :
       /\ cache' = [cache EXCEPT ![nextByte] = byte]
       /\ got' = [got EXCEPT ![nextByte] = byte]
  /\ IF nextByte = 1
     THEN cpuAt' = "save" /\ nextByte' = 0
     ELSE nextByte' = nextByte + 1 /\ UNCHANGED cpuAt
  /\ UNCHANGED <<char, enabled, keyAt, queued, since>>

(* The handler unmasks the controller with a store, and returns.           *)
Return ==
  /\ cpuAt = "save"
  /\ ClearCache
  /\ cpuAt' = "main"
  /\ UNCHANGED <<char, enabled, keyAt, queued, nextByte, got, since>>

Handler == Enter \/ LoadByte \/ Return

KeyNext == Type \/ EndInput \/ Notify \/ Ignore \/ SetEnabled \/ Handler

KeySpec == KeyInit /\ [][KeyNext]_keyVars

(* The controller delivers what is queued, the handler runs to its end,    *)
(* and the keyboard's thread goes on to its notification.                  *)
FairKeys ==
  /\ KeySpec
  /\ SF_keyVars(Enter) /\ WF_keyVars(LoadByte \/ Return)
  /\ WF_keyVars(Notify \/ Ignore)

-----------------------------------------------------------------------------
KeyTypeOK ==
  /\ char \in Keys /\ enabled \in BOOLEAN /\ keyAt \in {"read", "test", "ended"}
  /\ queued \in 0 .. MaxQueued
  /\ cache \in [0 .. 1 -> Bytes \cup {NoByte}]
  /\ cpuAt \in {"main", "load", "save"} /\ nextByte \in 0 .. 1
  /\ got \in [0 .. 1 -> Bytes \cup {NoByte}]
  /\ since \subseteq Keys

(* keyboard.py:43, mmu.py:196.  In spite of the cache, every byte the      *)
(* handler loads is one the register held since the handler was entered.   *)
NotStale ==
  \A b \in 0 .. 1 :
    cpuAt # "main" /\ got[b] # NoByte => \E k \in since : got[b] = k[b]

(* README:117.  A key that is typed while the keyboard is enabled, and     *)
(* not followed by another, is read by the handler.                        *)
LastKeyRead ==
  \A k \in Keys :
    (keyAt = "test" /\ enabled /\ char = k)
      ~> ((cpuAt = "save" /\ got = k) \/ char # k \/ ~enabled)
=============================================================================
