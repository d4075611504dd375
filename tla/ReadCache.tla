------------------------------ MODULE ReadCache ------------------------------
(***************************************************************************)
(* How the CPU reaches memory: the loads and stores of compyter/cpu.py,    *)
(* byte by byte through the MMU's get_address, which keeps an LRU cache of *)
(* what it returned, and write_address (compyter/mmu.py), to the RAM image,*)
(* the trap vectors and the registers of the devices (compyter/memory.py). *)
(* The devices change their registers on their own.                        *)
(*                                                                         *)
(* The cache is keyed by the arguments of the call, so a fetch, a loadw    *)
(* and a loadb of one address have entries of their own.  Which entry is   *)
(* evicted from a full cache is left open.                                 *)
(***************************************************************************)
EXTENDS Integers, FiniteSets

CONSTANTS
  Top,        \* the last address
  TrapBase,   \* the address of the first trap vector
  RamSize,    \* size of the memory image
  Mmio,       \* the addresses of the devices' registers
  ByteValues, \* the values a byte can have
  WordLen,    \* bytes in a word
  CacheSize,  \* entries in the cache: 128, the default of lru_cache
  NoEntry     \* not a byte: the cache has no entry

Addr     == 0 .. Top
Ordinary == {a \in Addr : a >= TrapBase \/ (a \notin Mmio /\ a < RamSize)}

ASSUME AddressAssumption ==
  /\ Top \in Nat /\ TrapBase \in Nat /\ RamSize \in Nat
  /\ Mmio \subseteq 0 .. TrapBase - 1 /\ Mmio \subseteq Addr
ASSUME ValuesAssumption == 0 \in ByteValues /\ NoEntry \notin ByteValues
ASSUME SizeAssumption == WordLen \in Nat \ {0} /\ CacheSize \in Nat \ {0}

(* The calls of get_address: by decode_next_instr, by loadw and by loadb.  *)
Calls == {"fetch", "word", "byte"}
Width(how) == IF how = "byte" THEN 1 ELSE WordLen

Key == Addr \X Calls

VARIABLES
  mem,    \* the image and the trap vectors
  dev,    \* the registers of the devices
  lru,    \* the cache of get_address
  mmu,    \* the MMU bit of REG_STATUS
  memAt,  \* "idle", "load", "save" or "crashed"
  how,    \* the access being made, or made last
  base,   \* its address
  next,   \* the byte it is at
  last,   \* the plain address loaded last and the byte returned
  past    \* history: what each register held since the cache was cleared

memVars == <<mem, dev, lru, mmu, memAt, how, base, next, last, past>>

MemInit ==
  /\ mem \in [Ordinary -> ByteValues]
  /\ \A a \in Ordinary : a >= TrapBase => mem[a] = 0
  /\ dev = [a \in Mmio |-> 0]
  /\ lru = [k \in Key |-> NoEntry]
  /\ mmu = FALSE
  /\ memAt = "idle" /\ how = "byte" /\ base = 0 /\ next = 0
  /\ last = <<>>
  /\ past = [a \in Mmio |-> {0}]

-----------------------------------------------------------------------------
(* An access to more than the last address traps and touches nothing.      *)
Begin(what) ==
  /\ memAt = "idle"
  /\ how' \in Calls /\ base' \in Addr
  /\ base' + Width(how') - 1 <= Top
  /\ next' = 0
  /\ memAt' = what
  /\ UNCHANGED <<mem, dev, lru, mmu, last, past>>

BeginLoad == Begin("load")

(* There is no store like a fetch.                                         *)
BeginSave == Begin("save") /\ how' # "fetch"

(* A mistaken loop over the bytes of an access, one too long.              *)
ContinueBeyond ==
  IF next = Width(how)
  THEN memAt' = "idle" /\ UNCHANGED next
  ELSE next' = next + 1 /\ UNCHANGED memAt

Continue ==
  IF next + 1 = Width(how)
  THEN memAt' = "idle" /\ UNCHANGED next
  ELSE next' = next + 1 /\ UNCHANGED memAt

Give(a, byte) ==
  /\ last' = IF a \in Ordinary THEN <<a, byte>> ELSE last
  /\ Continue

Cached == {k \in Key : lru[k] # NoEntry}

Insert(key, byte) ==
  IF Cardinality(Cached) < CacheSize
  THEN lru' = [lru EXCEPT ![key] = byte]
  ELSE \E old \in Cached : lru' = [lru EXCEPT ![old] = NoEntry, ![key] = byte]

(* get_address finds the byte in its cache and does nothing else, with the *)
(* MMU on or off.                                                          *)
Hit ==
  /\ memAt = "load"
  /\ LET key == <<base + next, how>>
     IN  lru[key] # NoEntry /\ Give(base + next, lru[key])
  /\ UNCHANGED <<mem, dev, lru, mmu, how, base, past>>

Contents(a) == IF a \in Ordinary THEN mem[a] ELSE dev[a]

Miss ==
  /\ memAt = "load" /\ ~mmu
  /\ LET a == base + next
     IN  /\ lru[<<a, how>>] = NoEntry /\ a \in Ordinary \cup Mmio
         /\ Insert(<<a, how>>, Contents(a))
         /\ Give(a, Contents(a))
  /\ UNCHANGED <<mem, dev, mmu, how, base, past>>

Crash ==
  /\ memAt' = "crashed"
  /\ UNCHANGED <<mem, dev, lru, mmu, how, base, next, last, past>>

(* Beyond the image memory[item] raises IndexError, and with the MMU on    *)
(* "pte & mask" raises TypeError: nothing catches either.                  *)
LoadFails ==
  /\ memAt = "load" /\ lru[<<base + next, how>>] = NoEntry
  /\ mmu \/ base + next \notin Ordinary \cup Mmio
  /\ Crash

(* A mistaken store that does not call clear_cache().                      *)
AfterSaveCached ==
  /\ Continue
  /\ past' = IF memAt' = "idle" THEN [a \in Mmio |-> {dev'[a]}]
            ELSE [a \in Mmio |-> past[a] \cup {dev'[a]}]
  /\ UNCHANGED lru

(* The store of the last byte is followed by clear_cache().                *)
AfterSave ==
  /\ Continue
  /\ IF memAt' = "idle"
     THEN /\ lru' = [k \in Key |-> NoEntry]
          /\ past' = [a \in Mmio |-> {dev'[a]}]
     ELSE /\ past' = [a \in Mmio |-> past[a] \cup {dev'[a]}]
          /\ UNCHANGED lru

SavePlain ==
  /\ memAt = "save" /\ ~mmu /\ base + next \in Ordinary
  /\ \E b \in ByteValues : mem' = [mem EXCEPT ![base + next] = b]
  /\ UNCHANGED dev
  /\ AfterSave
  /\ UNCHANGED <<mmu, how, base, last>>

(* What a device makes of the byte is its own affair.                      *)
SaveDevice ==
  /\ memAt = "save" /\ ~mmu /\ base + next \in Mmio
  /\ \E b \in ByteValues : dev' = [dev EXCEPT ![base + next] = b]
  /\ AfterSave
  /\ UNCHANGED <<mem, mmu, how, base, last>>

SaveFails ==
  /\ memAt = "save"
  /\ mmu \/ base + next \notin Ordinary \cup Mmio
  /\ Crash

(* loadwi $stat stores nothing: the cache is kept.                         *)
SwitchMmu ==
  /\ memAt = "idle"
  /\ mmu' = ~mmu
  /\ UNCHANGED <<mem, dev, lru, memAt, how, base, next, last, past>>

(* A device's thread changes a register.                                   *)
DeviceChange ==
  /\ memAt # "crashed"
  /\ \E a \in Mmio, b \in ByteValues :
       /\ dev' = [dev EXCEPT ![a] = b]
       /\ past' = [past EXCEPT ![a] = @ \cup {b}]
  /\ UNCHANGED <<mem, lru, mmu, memAt, how, base, next, last>>

MemDead == memAt = "crashed" /\ UNCHANGED memVars

MemNext ==
  \/ BeginLoad \/ Hit \/ Miss \/ LoadFails
  \/ BeginSave \/ SavePlain \/ SaveDevice \/ SaveFails
  \/ SwitchMmu \/ DeviceChange \/ MemDead

MemSpec == MemInit /\ [][MemNext]_memVars

-----------------------------------------------------------------------------
MemTypeOK ==
  /\ mem \in [Ordinary -> ByteValues] /\ dev \in [Mmio -> ByteValues]
  /\ lru \in [Key -> ByteValues \cup {NoEntry}]
  /\ mmu \in BOOLEAN
  /\ memAt \in {"idle", "load", "save", "crashed"}
  /\ how \in Calls /\ base \in Addr /\ next \in 0 .. WordLen - 1
  /\ base + next \in Addr
  /\ last \in {<<>>} \cup (Ordinary \X ByteValues)
  /\ past \in [Mmio -> SUBSET ByteValues]

(* mmu.py:249.  Between stores the cache agrees with ordinary memory: the  *)
(* bytes of a store that is not finished are the only ones it may miss.    *)
Coherent ==
  memAt \in {"idle", "load"} =>
    \A k \in Cached : k[1] \in Ordinary => lru[k] = mem[k[1]]

(* The cache cannot be told from plain memory: a load, also of code that   *)
(* was just stored, returns what the address holds.                        *)
Memory == INSTANCE PlainMemory WITH Plain <- Ordinary, Bytes <- ByteValues
PlainMemorySpec == Memory!Spec

(* mmu.py:249.  What is cached of a device's register is no older than the *)
(* last store of the guest, to whatever address.                           *)
NotOlder == \A k \in Cached : k[1] \in Mmio => lru[k] \in past[k[1]]
=============================================================================
