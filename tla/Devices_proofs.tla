--------------------------- MODULE Devices_proofs ---------------------------
(***************************************************************************)
(* Theorems about the timer, the keyboard and the real-time clock, for     *)
(* bytes of any width, any keys, durations and times, and any bound of the *)
(* handler's queue.                                                        *)
(***************************************************************************)
EXTENDS Timer, KeyboardRead, RealTimeClock, WordRegister_proofs

-----------------------------------------------------------------------------
(* The timer.                                                              *)

LEMMA TimerTypeInit == TimerInit => TimerTypeOK
<1>. SUFFICES ASSUME TimerInit PROVE TimerTypeOK
  OBVIOUS
<1>1. /\ duration \in Word /\ value \in Word /\ slept \in Word
      /\ toStore \in 0 .. 4 /\ late \in 0 .. 2
  BY ZeroType DEF TimerInit
<1>2. exit \in BOOLEAN
  BY DEF TimerInit
<1>3. timerAt \in {"loop", "sleep", "test", "raise", "done"}
  BY DEF TimerInit
<1>. QED
  BY <1>1, <1>2, <1>3 DEF TimerTypeOK

LEMMA TimerTypeNext == TimerTypeOK /\ [TimerNext]_timerVars => TimerTypeOK'
<1>. SUFFICES ASSUME TimerTypeOK, [TimerNext]_timerVars PROVE TimerTypeOK'
  OBVIOUS
<1>1. CASE BeginStore
  BY <1>1, DurationsAssumption DEF BeginStore, TimerTypeOK
<1>2. CASE StoreByte
  <2>1. toStore \in 0 .. 3 /\ value[toStore] \in Byte
    BY <1>2 DEF StoreByte, TimerTypeOK, Word
  <2>2. duration' \in Word
    BY <1>2, <2>1, SetWordByteType DEF StoreByte, TimerTypeOK
  <2>. QED
    BY <1>2, <2>1, <2>2 DEF StoreByte, TimerTypeOK
<1>3. CASE Halt
  BY <1>3 DEF Halt, TimerTypeOK
<1>4. CASE TimerStep
  BY <1>4 DEF TimerStep, Sleep, Leave, Wake, TestDuration, Raise, TimerTypeOK
<1>5. CASE UNCHANGED timerVars
  BY <1>5 DEF timerVars, TimerTypeOK
<1>. QED
  BY <1>1, <1>2, <1>3, <1>4, <1>5 DEF TimerNext, Done

(* Type correctness of the timer, for every set of durations.              *)
THEOREM TimerTypeCorrect == TimerSpec => []TimerTypeOK
BY TimerTypeInit, TimerTypeNext, PTL DEF TimerSpec

-----------------------------------------------------------------------------
(* What a store leaves in the register: the low half of the word, whatever *)
(* was there before and whatever the timer's thread does meanwhile.        *)
LowStored == toStore = 4 => duration = LowHalf(value)

(* This is not inductive: it says nothing of a store under way.  Each      *)
(* byte clears its mirror image before that image is written, or after:    *)
(* what is known of the register grows with every byte.                    *)
StoreInv ==
  /\ toStore \in 1 .. 3 => duration[3] = {}
  /\ toStore = 2 => duration[2] = {}
  /\ toStore \in {3, 4} => duration[1] = {} /\ duration[2] = value[2]
  /\ toStore = 4 => duration[0] = {} /\ duration[3] = value[3]

LEMMA StoreNext ==
  TimerTypeOK /\ StoreInv /\ [TimerNext]_timerVars => StoreInv'
<1>. SUFFICES ASSUME TimerTypeOK, StoreInv, [TimerNext]_timerVars
     PROVE  StoreInv'
  OBVIOUS
<1>1. CASE BeginStore
  BY <1>1 DEF BeginStore, StoreInv
<1>2. CASE StoreByte
  <2>. DEFINE d(k) == IF k = toStore THEN duration[k] \cup value[toStore]
                      ELSE IF k = 3 - toStore THEN {} ELSE duration[k]
  <2>1. \A k \in 0 .. 3 : duration'[k] = d(k)
    BY <1>2 DEF StoreByte, SetWordByte
  <2>2. toStore' = toStore + 1 /\ value' = value /\ toStore \in 0 .. 3
    BY <1>2 DEF StoreByte, TimerTypeOK
  <2>3. CASE toStore = 0
    BY <2>1, <2>2, <2>3 DEF StoreInv
  <2>4. CASE toStore = 1
    BY <2>1, <2>2, <2>4 DEF StoreInv
  <2>5. CASE toStore = 2
    BY <2>1, <2>2, <2>5 DEF StoreInv
  <2>6. CASE toStore = 3
    BY <2>1, <2>2, <2>6 DEF StoreInv
  <2>. QED
    BY <2>2, <2>3, <2>4, <2>5, <2>6
<1>3. CASE UNCHANGED <<duration, value, toStore>>
  BY <1>3 DEF StoreInv
<1>. QED
  BY <1>1, <1>2, <1>3
  DEF TimerNext, Halt, TimerStep, Sleep, Leave, Wake, TestDuration, Raise,
      Done, timerVars

LEMMA StoreDone == TimerTypeOK /\ StoreInv => LowStored
BY DEF TimerTypeOK, Word, StoreInv, LowStored, LowHalf

LEMMA StoreInit == TimerInit => StoreInv
BY DEF TimerInit, StoreInv, Zero

(* util.py:4, for every history of stores and every interleaving with the  *)
(* timer's thread.                                                         *)
LEMMA LowStoredHolds == TimerSpec => []LowStored
BY TimerTypeInit, TimerTypeNext, StoreInit, StoreNext, StoreDone, PTL
   DEF TimerSpec

-----------------------------------------------------------------------------
(* The late interrupt.  Once it has been raised the thread cannot be about *)
(* to raise another: the duration it would have to find is 0.              *)
LateInv ==
  /\ late <= 1
  /\ late = 1 /\ toStore = 4 /\ value = Zero => timerAt # "raise"

LEMMA LateNext ==
  TimerTypeOK /\ LowStored /\ LateInv /\ [TimerNext]_timerVars => LateInv'
<1>. SUFFICES ASSUME TimerTypeOK, LowStored, LateInv, [TimerNext]_timerVars
              PROVE  LateInv'
  OBVIOUS
<1>0. late \in 0 .. 1
  BY DEF TimerTypeOK, LateInv
<1>1. CASE StoreByte
  BY <1>0, <1>1 DEF StoreByte, LateInv, TimerTypeOK
<1>2. CASE TestDuration
  <2>1. toStore = 4 /\ value = Zero => duration = Zero
    BY DEF LowStored, LowHalf, Zero
  <2>. QED
    BY <1>0, <1>2, <2>1 DEF TestDuration, LateInv
<1>3. CASE Raise
  BY <1>0, <1>3 DEF Raise, LateInv
<1>4. CASE BeginStore \/ Halt \/ Sleep \/ Leave \/ Wake \/ UNCHANGED timerVars
  BY <1>0, <1>4 DEF BeginStore, Halt, Sleep, Leave, Wake, timerVars, LateInv
<1>. QED
  BY <1>1, <1>2, <1>3, <1>4 DEF TimerNext, TimerStep, Done

(* README:99, as far as it goes: a timer set to 0 raises at most one more  *)
(* interrupt.                                                              *)
THEOREM OneLateInterruptHolds == TimerSpec => []OneLateInterrupt
<1>1. TimerInit => LateInv
  BY DEF TimerInit, LateInv
<1>2. LateInv => OneLateInterrupt
  BY DEF LateInv, OneLateInterrupt
<1>. QED
  BY <1>1, <1>2, TimerTypeInit, TimerTypeNext, LateNext, LowStoredHolds,
     PTL DEF TimerSpec

-----------------------------------------------------------------------------
(* What the timer sleeps for.  The high half of a duration is only there   *)
(* while a word is being stored, and comes from that word; the low half is *)
(* part of the word before it, and then of that word.                      *)
Within(w, half) ==
  \E v \in Durations \cup {Zero} : \A k \in half : w[k] \subseteq v[k]

SleepInv ==
  /\ value \in Durations \cup {Zero}
  /\ \A k \in {0, 1} : duration[k] \subseteq value[k]
  /\ Within(duration, {2, 3})
  /\ NoOversleep

LEMMA SleepInit == TimerInit => SleepInv
<1>. SUFFICES ASSUME TimerInit PROVE SleepInv
  OBVIOUS
<1>1. duration = Zero /\ value = Zero /\ slept = Zero
  BY DEF TimerInit
<1>2. \A k \in 0 .. 3 : Zero[k] \subseteq Zero[k]
  OBVIOUS
<1>. QED
  BY <1>1, <1>2 DEF SleepInv, Within, NoOversleep

LEMMA SleepStore ==
  ASSUME TimerTypeOK, StoreInv, SleepInv, StoreByte
  PROVE  SleepInv'
<1>. DEFINE d(k) == IF k = toStore THEN duration[k] \cup value[toStore]
                    ELSE IF k = 3 - toStore THEN {} ELSE duration[k]
<1>1. \A k \in 0 .. 3 : duration'[k] = d(k)
  BY DEF StoreByte, SetWordByte
<1>2. toStore \in 0 .. 3 /\ value' = value /\ slept' = slept
  BY DEF StoreByte, TimerTypeOK
<1>3. \A k \in {0, 1} : duration'[k] \subseteq value[k]
  <2>1. duration'[0] = d(0) /\ duration'[1] = d(1)
    BY <1>1
  <2>2. duration[0] \subseteq value[0] /\ duration[1] \subseteq value[1]
    BY DEF SleepInv
  <2>. QED
    BY <1>2, <2>1, <2>2
<1>4. Within(duration', {2, 3})
  <2>1. duration'[2] = d(2) /\ duration'[3] = d(3)
    BY <1>1
  <2>2. CASE toStore \in {0, 1}
    <3>1. duration'[2] \subseteq duration[2] /\ duration'[3] \subseteq duration[3]
      BY <2>1, <2>2
    <3>. QED
      BY <3>1 DEF SleepInv, Within
  <2>3. CASE toStore \in {2, 3}
    <3>1. duration'[2] \subseteq value[2] /\ duration'[3] \subseteq value[3]
      BY <2>1, <2>3 DEF StoreInv
    <3>. QED
      BY <3>1 DEF SleepInv, Within
  <2>. QED
    BY <1>2, <2>2, <2>3
<1>. QED
  BY <1>2, <1>3, <1>4 DEF SleepInv, Within, NoOversleep

LEMMA SleepNext ==
  TimerTypeOK /\ StoreInv /\ SleepInv /\ [TimerNext]_timerVars => SleepInv'
<1>. SUFFICES ASSUME TimerTypeOK, StoreInv, SleepInv, [TimerNext]_timerVars
     PROVE  SleepInv'
  OBVIOUS
<1>1. CASE BeginStore
  <2>1. duration[0] = {} /\ duration[1] = {} /\ value' \in Durations
    BY <1>1 DEF BeginStore, StoreInv
  <2>. QED
    BY <1>1, <2>1 DEF BeginStore, SleepInv, Within, NoOversleep
<1>2. CASE StoreByte
  BY <1>2, SleepStore
<1>3. CASE Sleep
  <2>1. /\ slept' = duration /\ duration' = duration /\ value' = value
        /\ \A k \in {0, 1} : duration[k] \subseteq value[k]
        /\ value \in Durations \cup {Zero} /\ Within(duration, {2, 3})
    BY <1>3 DEF Sleep, SleepInv
  <2>. QED
    BY <2>1 DEF SleepInv, Within, NoOversleep
<1>4. CASE UNCHANGED <<duration, value, slept>>
  BY <1>4 DEF SleepInv, Within, NoOversleep
<1>. QED
  BY <1>1, <1>2, <1>3, <1>4
  DEF TimerNext, Halt, TimerStep, Leave, Wake, TestDuration, Raise, Done,
      timerVars

(* timer.py:24.  Whatever words are stored, and however the reads of the   *)
(* timer's thread fall between their bytes, it does not oversleep.         *)
THEOREM NoOversleepHolds == TimerSpec => []NoOversleep
<1>1. SleepInv => NoOversleep
  BY DEF SleepInv
<1>. QED
  BY <1>1, TimerTypeInit, TimerTypeNext, StoreInit, StoreNext, SleepInit,
     SleepNext, PTL
  DEF TimerSpec

-----------------------------------------------------------------------------
(* The keyboard: the handler never loads a byte of a key that was gone     *)
(* before it was entered.                                                  *)

InHandler == cpuAt \in {"load", "save"}

(* What a byte of the cache, or of what was loaded, may be.                *)
Fresh(bytes) ==
  \A b \in 0 .. 1 :
    bytes[b] # NoByte => \E k \in since : bytes[b] = k[b]

(* Only the handler puts bytes into the cache, and leaves it empty; what   *)
(* the register holds is among what it held.                               *)
CacheInv ==
  /\ ~InHandler => cache = Empty
  /\ InHandler => char \in since /\ Fresh(cache) /\ Fresh(got)

KeyInv == KeyTypeOK /\ CacheInv

LEMMA BytesFacts ==
  /\ NoByte \notin Bytes
  /\ Empty \in [0 .. 1 -> Bytes \cup {NoByte}]
  /\ \A k \in Keys, b \in 0 .. 1 : k[b] \in Bytes
BY KeysAssumption DEF NoByte, Empty

LEMMA KeyInvInit == KeyInit => KeyInv
<1>. SUFFICES ASSUME KeyInit PROVE KeyInv
  OBVIOUS
<1>1. queued \in 0 .. MaxQueued /\ nextByte \in 0 .. 1
  BY KeysAssumption DEF KeyInit
<1>2. KeyTypeOK
  BY <1>1, BytesFacts DEF KeyInit, KeyTypeOK
<1>3. CacheInv
  BY DEF KeyInit, CacheInv, InHandler
<1>. QED
  BY <1>2, <1>3 DEF KeyInv

(* The keyboard's thread adds to what the register held.                   *)
LEMMA KeyboardStep ==
  ASSUME KeyInv, Type \/ EndInput \/ Notify \/ Ignore
  PROVE  KeyInv'
<1>1. CASE Type
  <2>1. PICK k \in Keys : char' = k /\ since' = since \cup {k}
    BY <1>1 DEF Type
  <2>2. UNCHANGED <<enabled, queued, cache, cpuAt, nextByte, got>>
        /\ keyAt' = "test"
    BY <1>1 DEF Type
  <2>3. KeyTypeOK'
    BY <2>1, <2>2 DEF KeyInv, KeyTypeOK
  <2>4. CacheInv'
    BY <2>1, <2>2 DEF KeyInv, CacheInv, InHandler, Fresh
  <2>. QED
    BY <2>3, <2>4 DEF KeyInv
<1>2. CASE Notify
  BY <1>2, KeysAssumption
  DEF Notify, KeyInv, KeyTypeOK, CacheInv, InHandler, Fresh
<1>3. CASE Ignore \/ EndInput
  BY <1>3 DEF Ignore, EndInput, KeyInv, KeyTypeOK, CacheInv, InHandler, Fresh
<1>. QED
  BY <1>1, <1>2, <1>3

(* A store empties the cache, and a handler starts with an empty one.      *)
LEMMA StoreStep ==
  ASSUME KeyInv, SetEnabled \/ Enter \/ Return
  PROVE  KeyInv'
<1>1. CASE SetEnabled
  BY <1>1, BytesFacts
  DEF SetEnabled, ClearCache, KeyInv, KeyTypeOK, CacheInv, InHandler
<1>2. CASE Enter
  <2>1. KeyTypeOK'
    BY <1>2, BytesFacts, KeysAssumption DEF Enter, KeyInv, KeyTypeOK
  <2>2. CacheInv'
    <3>1. cache' = Empty /\ got' = Empty /\ char' \in since'
      BY <1>2 DEF Enter, KeyInv, CacheInv, InHandler
    <3>2. cpuAt' = "load"
      BY <1>2 DEF Enter
    <3>. QED
      BY <3>1, <3>2 DEF CacheInv, InHandler, Fresh, Empty
  <2>. QED
    BY <2>1, <2>2 DEF KeyInv
<1>3. CASE Return
  BY <1>3, BytesFacts
  DEF Return, ClearCache, KeyInv, KeyTypeOK, CacheInv, InHandler
<1>. QED
  BY <1>1, <1>2, <1>3

(* A byte is loaded from the cache or from the register.                   *)
LEMMA LoadStep ==
  ASSUME KeyInv, LoadByte
  PROVE  KeyInv'
<1>1. PICK byte \in {cache[nextByte], char[nextByte]} \ {NoByte} :
        /\ cache' = [cache EXCEPT ![nextByte] = byte]
        /\ got' = [got EXCEPT ![nextByte] = byte]
  BY DEF LoadByte
<1>2. /\ cpuAt = "load" /\ cpuAt' \in {"load", "save"}
      /\ nextByte \in 0 .. 1 /\ nextByte' \in 0 .. 1
      /\ UNCHANGED <<char, enabled, keyAt, queued, since>>
  BY DEF LoadByte, KeyInv, KeyTypeOK
<1>3. byte \in Bytes
  BY <1>1, <1>2, BytesFacts DEF KeyInv, KeyTypeOK
<1>4. \E k \in since : byte = k[nextByte]
  BY <1>1, <1>2 DEF KeyInv, CacheInv, InHandler, Fresh
<1>5. KeyTypeOK'
  BY <1>1, <1>2, <1>3 DEF KeyInv, KeyTypeOK
<1>6. Fresh(cache)' /\ Fresh(got)'
  BY <1>1, <1>2, <1>4
  DEF KeyInv, KeyTypeOK, CacheInv, InHandler, Fresh
<1>. QED
  BY <1>2, <1>5, <1>6 DEF KeyInv, CacheInv, InHandler

LEMMA KeyInvStep == KeyInv /\ [KeyNext]_keyVars => KeyInv'
<1>1. KeyInv /\ UNCHANGED keyVars => KeyInv'
  BY DEF keyVars, KeyInv, KeyTypeOK, CacheInv, InHandler, Fresh
<1>. QED
  BY <1>1, KeyboardStep, StoreStep, LoadStep DEF KeyNext, Handler

LEMMA KeyInvHolds == KeySpec => []KeyInv
BY KeyInvInit, KeyInvStep, PTL DEF KeySpec

-----------------------------------------------------------------------------
(* Type correctness of the keyboard and its handler.                       *)
THEOREM KeyTypeCorrect == KeySpec => []KeyTypeOK
<1>1. KeyInv => KeyTypeOK
  BY DEF KeyInv
<1>. QED
  BY <1>1, KeyInvHolds, PTL

(* In spite of the cache, a byte the handler loads is one that the         *)
(* character register held since the handler was entered.                  *)
THEOREM NotStaleHolds == KeySpec => []NotStale
<1>1. KeyInv => NotStale
  BY DEF KeyInv, KeyTypeOK, CacheInv, InHandler, Fresh, NotStale
<1>. QED
  BY <1>1, KeyInvHolds, PTL

-----------------------------------------------------------------------------
(* The real-time clock.                                                    *)

(* The registers hold the time of the last latch, and so does what is      *)
(* cached and what was loaded of them.                                     *)
Latched(bytes) == \A f \in Fields : bytes[f] # NoValue => bytes[f] = taken[f]

ClockInv == ClockTypeOK /\ now = taken /\ Latched(held) /\ Latched(seen)

LEMMA ClockInvInit == ClockInit => ClockInv
BY DEF ClockInit, ClockInv, ClockTypeOK, Latched, Unread

LEMMA LoadFieldStep ==
  ASSUME ClockInv, NEW f \in Fields, LoadField(f)
  PROVE  ClockInv'
<1>1. PICK v \in {held[f], now[f]} \ {NoValue} :
        /\ held' = [held EXCEPT ![f] = v]
        /\ seen' = [seen EXCEPT ![f] = v]
  BY DEF LoadField
<1>2. UNCHANGED <<time, now, taken>>
  BY DEF LoadField
<1>3. v = taken[f] /\ v \in Values
  BY <1>1, TimesAssumption DEF ClockInv, ClockTypeOK, Latched
<1>. QED
  BY <1>1, <1>2, <1>3 DEF ClockInv, ClockTypeOK, Latched

LEMMA ClockInvStep == ClockInv /\ [ClockNext]_clockVars => ClockInv'
<1>. SUFFICES ASSUME ClockInv, [ClockNext]_clockVars PROVE ClockInv'
  OBVIOUS
<1>1. CASE Tick
  BY <1>1 DEF Tick, ClockInv, ClockTypeOK, Latched
<1>2. ASSUME NEW latches \in BOOLEAN, StoreClock(latches) PROVE ClockInv'
  BY <1>2 DEF StoreClock, ClockInv, ClockTypeOK, Latched, Unread
<1>3. ASSUME NEW f \in Fields, LoadField(f) PROVE ClockInv'
  BY <1>3, LoadFieldStep
<1>4. CASE UNCHANGED clockVars
  BY <1>4 DEF clockVars, ClockInv, ClockTypeOK, Latched
<1>. QED
  BY <1>1, <1>2, <1>3, <1>4 DEF ClockNext

LEMMA ClockInvHolds == ClockSpec => []ClockInv
BY ClockInvInit, ClockInvStep, PTL DEF ClockSpec

(* Type correctness of the clock.                                          *)
THEOREM ClockTypeCorrect == ClockSpec => []ClockTypeOK
<1>1. ClockInv => ClockTypeOK
  BY DEF ClockInv
<1>. QED
  BY <1>1, ClockInvHolds, PTL

(* README:112.  What a guest reads after a latch is the time of the latch. *)
THEOREM SnapshotHolds == ClockSpec => []Snapshot
<1>1. ClockInv => Snapshot
  BY DEF ClockInv, Latched, Snapshot
<1>. QED
  BY <1>1, ClockInvHolds, PTL
=============================================================================
