-------------------------------- MODULE Timer --------------------------------
(***************************************************************************)
(* compyter/hardware/timer.py: the timer's thread, which reads the         *)
(* duration once to sleep and once more to decide whether to raise an      *)
(* interrupt, beside a CPU thread that stores words to the duration one    *)
(* byte at a time.  No lock protects the duration.  Sleeping takes any     *)
(* time.                                                                   *)
(***************************************************************************)
EXTENDS WordRegister

CONSTANT Durations   \* the words the guest stores

ASSUME DurationsAssumption == Durations \subseteq Word

VARIABLES
  duration,  \* Timer.duration
  value,     \* the word the CPU is storing, or stored last
  toStore,   \* the byte it stores next; 4 when the store is complete
  timerAt,   \* where the timer's thread is
  slept,     \* the duration it read for its sleep
  exit,      \* CPU.exit_event
  late       \* history: interrupts since a store of 0 was completed

timerVars == <<duration, value, toStore, timerAt, slept, exit, late>>

TimerInit ==
  /\ duration = Zero /\ value = Zero /\ toStore = 4
  /\ timerAt = "loop" /\ slept = Zero
  /\ exit = FALSE
  /\ late = 0

(* savew to the duration register.                                         *)
BeginStore ==
  /\ toStore = 4 /\ ~exit
  /\ value' \in Durations
  /\ toStore' = 0
  /\ UNCHANGED <<duration, timerAt, slept, exit, late>>

StoreByte ==
  /\ toStore < 4
  /\ duration' = SetWordByte(duration, toStore, value[toStore])
  /\ toStore' = toStore + 1
  /\ late' = IF toStore = 3 THEN 0 ELSE late
  /\ UNCHANGED <<value, timerAt, slept, exit>>

(* halt() sets exit_event.                                                 *)
Halt ==
  /\ toStore = 4 /\ ~exit
  /\ exit' = TRUE
  /\ UNCHANGED <<duration, value, toStore, timerAt, slept, late>>

(* A mistaken loop that does not look at exit_event.                       *)
SleepAlways ==
  /\ timerAt = "loop"
  /\ slept' = duration
  /\ timerAt' = "sleep"
  /\ UNCHANGED <<duration, value, toStore, exit, late>>

(* The loop of Timer.timer().                                              *)
Sleep ==
  /\ timerAt = "loop" /\ ~exit
  /\ slept' = duration
  /\ timerAt' = "sleep"
  /\ UNCHANGED <<duration, value, toStore, exit, late>>

Leave ==
  /\ timerAt = "loop" /\ exit
  /\ timerAt' = "done"
  /\ UNCHANGED <<duration, value, toStore, slept, exit, late>>

Wake ==
  /\ timerAt = "sleep"
  /\ timerAt' = "test"
  /\ UNCHANGED <<duration, value, toStore, slept, exit, late>>

(* A mistaken loop that raises whatever the duration is by then.           *)
TestNothing ==
  /\ timerAt = "test"
  /\ timerAt' = "raise"
  /\ UNCHANGED <<duration, value, toStore, slept, exit, late>>

TestDuration ==
  /\ timerAt = "test"
  /\ timerAt' = IF duration # Zero THEN "raise" ELSE "loop"
  /\ UNCHANGED <<duration, value, toStore, slept, exit, late>>

(* A mistaken thread that ends with its first interrupt.                   *)
RaiseOnce ==
  /\ timerAt = "raise"
  /\ timerAt' = "done"
  /\ late' = IF toStore = 4 /\ value = Zero /\ late < 2 THEN late + 1 ELSE late
  /\ UNCHANGED <<duration, value, toStore, slept, exit>>

(* interrupt() queues the timer's number; the count stops at 2.            *)
Raise ==
  /\ timerAt = "raise"
  /\ timerAt' = "loop"
  /\ late' = IF toStore = 4 /\ value = Zero /\ late < 2 THEN late + 1 ELSE late
  /\ UNCHANGED <<duration, value, toStore, slept, exit>>

TimerStep == Sleep \/ Leave \/ Wake \/ TestDuration \/ Raise

Done == timerAt = "done" /\ UNCHANGED timerVars

TimerNext == BeginStore \/ StoreByte \/ Halt \/ TimerStep \/ Done

TimerSpec == TimerInit /\ [][TimerNext]_timerVars

(* The timer's thread keeps running, and the CPU finishes its stores.      *)
FairTimer == TimerSpec /\ WF_timerVars(TimerStep) /\ WF_timerVars(StoreByte)

-----------------------------------------------------------------------------
TimerTypeOK ==
  /\ duration \in Word /\ value \in Word /\ toStore \in 0 .. 4
  /\ timerAt \in {"loop", "sleep", "test", "raise", "done"}
  /\ slept \in Word /\ exit \in BOOLEAN /\ late \in 0 .. 2

(* README:99.  A duration can be written as a word: when the store is      *)
(* complete, that word is the duration.                                    *)
DurationAsked == toStore = 4 => duration = value

(* README:99.  Once a store of 0 is complete the timer raises at most one  *)
(* more interrupt: the one it had already decided on.                      *)
OneLateInterrupt == late <= 1

(* timer.py:24.  The duration may be read while it is half stored, but the  *)
(* thread never oversleeps: the low half of the duration it sleeps for has  *)
(* no bit that some one stored word does not have, and so has the high half.*)
NoOversleep ==
  /\ \E v \in Durations \cup {Zero} : \A k \in {0, 1} : slept[k] \subseteq v[k]
  /\ \E v \in Durations \cup {Zero} : \A k \in {2, 3} : slept[k] \subseteq v[k]

(* README:99.  As long as a duration stays set, interrupts keep coming.    *)
Ticks ==
  <>[](toStore = 4 /\ duration # Zero /\ ~exit) => []<>(timerAt = "raise")

(* cpu.py:34.  After halt() the thread ends and can be joined.             *)
Stops == exit ~> timerAt = "done"
=============================================================================
