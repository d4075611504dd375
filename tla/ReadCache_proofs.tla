--------------------------- MODULE ReadCache_proofs ---------------------------
(***************************************************************************)
(* Theorems about ReadCache, for every memory map, word length and size of *)
(* the cache: the cache cannot be told from plain memory, and what it      *)
(* holds of a device's register is no older than the last store.           *)
(***************************************************************************)
EXTENDS ReadCache, TLAPS

(* An access in progress ends within the address space.                    *)
InRange ==
  memAt \in {"load", "save"} =>
    next <= Width(how) - 1 /\ base + Width(how) - 1 <= Top

(* History and register agree.                                             *)
HeldNow == \A a \in Mmio : dev[a] \in past[a]

MemInv == MemTypeOK /\ InRange /\ Coherent /\ HeldNow /\ NotOlder

USE DEF Key, Calls

LEMMA Regions ==
  /\ Ordinary \cap Mmio = {}
  /\ Ordinary \subseteq Addr /\ Mmio \subseteq Addr
BY AddressAssumption DEF Ordinary, Addr

LEMMA Widths ==
  ASSUME NEW h \in Calls
  PROVE  Width(h) \in Nat /\ 1 <= Width(h) /\ Width(h) <= WordLen
BY SizeAssumption DEF Width

(* The entry put into the cache is there; every other entry is the one     *)
(* that was there, or gone.                                                *)
LEMMA InsertFacts ==
  ASSUME lru \in [Key -> ByteValues \cup {NoEntry}],
         NEW key \in Key, NEW byte \in ByteValues, Insert(key, byte)
  PROVE  /\ lru' \in [Key -> ByteValues \cup {NoEntry}]
         /\ lru'[key] = byte
         /\ \A k \in Key : k # key => lru'[k] \in {lru[k], NoEntry}
<1>1. CASE lru' = [lru EXCEPT ![key] = byte]
  BY <1>1
<1>2. ASSUME NEW old \in Cached,
             lru' = [lru EXCEPT ![old] = NoEntry, ![key] = byte]
      PROVE  /\ lru' \in [Key -> ByteValues \cup {NoEntry}]
             /\ lru'[key] = byte
             /\ \A k \in Key : k # key => lru'[k] \in {lru[k], NoEntry}
  BY <1>2 DEF Cached
<1>. QED
  BY <1>1, <1>2 DEF Insert

-----------------------------------------------------------------------------
LEMMA MemInvInit == MemInit => MemInv
<1>. SUFFICES ASSUME MemInit PROVE MemInv
  OBVIOUS
<1>1. MemTypeOK
  <2>1. mem \in [Ordinary -> ByteValues] /\ mmu \in BOOLEAN
    BY DEF MemInit
  <2>2. dev \in [Mmio -> ByteValues] /\ past \in [Mmio -> SUBSET ByteValues]
    BY ValuesAssumption DEF MemInit
  <2>3. lru \in [Key -> ByteValues \cup {NoEntry}]
    BY DEF MemInit
  <2>4. memAt \in {"idle", "load", "save", "crashed"} /\ how \in Calls
    BY DEF MemInit
  <2>5. /\ base \in Addr /\ next \in 0 .. WordLen - 1
        /\ base + next \in Addr
    BY AddressAssumption, SizeAssumption DEF MemInit, Addr
  <2>6. last \in {<<>>} \cup (Ordinary \X ByteValues)
    BY DEF MemInit
  <2>. QED
    BY <2>1, <2>2, <2>3, <2>4, <2>5, <2>6 DEF MemTypeOK
<1>2. InRange
  BY DEF MemInit, InRange
<1>3. Coherent /\ NotOlder
  BY DEF MemInit, Coherent, NotOlder, Cached
<1>4. HeldNow
  BY DEF MemInit, HeldNow
<1>. QED
  BY <1>1, <1>2, <1>3, <1>4 DEF MemInv

(* Going on to the next byte stays within the access.                      *)
LEMMA ContinueFacts ==
  ASSUME MemTypeOK, InRange, memAt \in {"load", "save"}, Continue,
         UNCHANGED <<how, base>>
  PROVE  /\ memAt' \in {"idle", memAt} /\ next' \in 0 .. WordLen - 1
         /\ base + next' \in Addr /\ InRange'
<1>1. next \in Nat /\ base \in Nat /\ Top \in Nat /\ how \in Calls
  BY AddressAssumption DEF MemTypeOK, Addr
<1>2. Width(how) \in Nat /\ 1 <= Width(how) /\ Width(how) <= WordLen
  BY <1>1, Widths
<1>3. next <= Width(how) - 1 /\ base + Width(how) - 1 <= Top
  BY DEF InRange
<1>4. CASE next + 1 = Width(how)
  BY <1>4 DEF Continue, MemTypeOK, InRange
<1>5. CASE next + 1 # Width(how)
  <2>1. next' = next + 1 /\ memAt' = memAt
    BY <1>5 DEF Continue
  <2>2. next + 1 <= Width(how) - 1
    BY <1>1, <1>2, <1>3, <1>5
  <2>3. next' \in 0 .. WordLen - 1
    BY <1>1, <1>2, <2>1, <2>2, SizeAssumption
  <2>4. base + next' \in Addr
    BY <1>1, <1>2, <1>3, <2>1, <2>2 DEF Addr
  <2>5. InRange'
    BY <1>2, <1>3, <2>1, <2>2 DEF InRange, Width
  <2>. QED
    BY <2>1, <2>3, <2>4, <2>5
<1>. QED
  BY <1>4, <1>5

-----------------------------------------------------------------------------
LEMMA BeginInv ==
  ASSUME MemInv, NEW what \in {"load", "save"}, Begin(what)
  PROVE  MemInv'
<1>1. how' \in Calls /\ base' \in Addr /\ next' = 0 /\ memAt' = what
  BY DEF Begin
<1>2. Width(how') \in Nat /\ 1 <= Width(how')
  BY <1>1, Widths
<1>3. base' + next' \in Addr
  <2>1. base' \in Int /\ next' = 0
    BY <1>1 DEF Addr
  <2>2. \A n \in Int : n + 0 = n
    OBVIOUS
  <2>3. base' + next' = base'
    BY <2>1, <2>2
  <2>. QED
    BY <1>1, <2>3
<1>4. MemTypeOK'
  BY <1>1, <1>3, SizeAssumption DEF Begin, MemInv, MemTypeOK
<1>5. InRange'
  BY <1>1, <1>2 DEF Begin, InRange, Width
<1>6. Coherent'
  BY <1>1 DEF Begin, MemInv, Coherent, Cached
<1>7. HeldNow' /\ NotOlder'
  BY DEF Begin, MemInv, HeldNow, NotOlder, Cached
<1>. QED
  BY <1>4, <1>5, <1>6, <1>7 DEF MemInv

(* The byte returned by a hit is one that Coherent and NotOlder vouch for. *)
LEMMA HitInv ==
  ASSUME MemInv, Hit
  PROVE  MemInv'
<1>. DEFINE key == <<base + next, how>>
<1>1. key \in Key /\ lru[key] \in ByteValues
  BY DEF MemInv, MemTypeOK, Hit
<1>2. /\ memAt' \in {"idle", memAt} /\ next' \in 0 .. WordLen - 1
      /\ base + next' \in Addr /\ InRange'
  BY ContinueFacts DEF MemInv, Hit, Give
<1>3. last' \in {<<>>} \cup (Ordinary \X ByteValues)
  BY <1>1 DEF Hit, Give, MemInv, MemTypeOK
<1>4. MemTypeOK'
  BY <1>2, <1>3 DEF Hit, MemInv, MemTypeOK
<1>5. Coherent'
  BY <1>2 DEF Hit, MemInv, Coherent, Cached
<1>6. HeldNow' /\ NotOlder'
  BY DEF Hit, MemInv, HeldNow, NotOlder, Cached
<1>. QED
  BY <1>2, <1>4, <1>5, <1>6 DEF MemInv

(* A miss caches what the address holds at that moment.                    *)
LEMMA MissInv ==
  ASSUME MemInv, Miss
  PROVE  MemInv'
<1>. DEFINE a == base + next
            key == <<a, how>>
<1>1. /\ key \in Key /\ a \in Ordinary \cup Mmio /\ Contents(a) \in ByteValues
      /\ Insert(key, Contents(a))
      /\ Give(a, Contents(a))
  BY DEF MemInv, MemTypeOK, Miss, Contents
<1>2. /\ memAt' \in {"idle", memAt} /\ next' \in 0 .. WordLen - 1
      /\ base + next' \in Addr /\ InRange'
  BY <1>1, ContinueFacts DEF MemInv, Miss, Give
<1>3. /\ lru' \in [Key -> ByteValues \cup {NoEntry}]
      /\ lru'[key] = Contents(a)
      /\ \A k \in Key : k # key => lru'[k] \in {lru[k], NoEntry}
  <2>1. lru \in [Key -> ByteValues \cup {NoEntry}]
    BY DEF MemInv, MemTypeOK
  <2>. HIDE DEF key, a
  <2>. QED
    BY <1>1, <2>1, InsertFacts
<1>4. last' \in {<<>>} \cup (Ordinary \X ByteValues)
  BY <1>1 DEF Give, MemInv, MemTypeOK
<1>5. MemTypeOK'
  BY <1>2, <1>3, <1>4 DEF Miss, MemInv, MemTypeOK
<1>6. Coherent'
  <2>. SUFFICES ASSUME NEW k \in Cached', k[1] \in Ordinary
                PROVE  lru'[k] = mem'[k[1]]
    BY DEF Coherent
  <2>1. CASE k = key
    BY <1>3, <2>1 DEF Contents, Miss
  <2>2. CASE k # key
    BY <1>3, <2>2 DEF MemInv, Coherent, Cached, Miss
  <2>. QED
    BY <2>1, <2>2
<1>7. HeldNow'
  BY DEF Miss, MemInv, HeldNow
<1>8. NotOlder'
  <2>. SUFFICES ASSUME NEW k \in Cached', k[1] \in Mmio
                PROVE  lru'[k] \in past'[k[1]]
    BY DEF NotOlder
  <2>1. CASE k = key
    BY <1>3, <2>1, Regions DEF Contents, Miss, MemInv, HeldNow
  <2>2. CASE k # key
    BY <1>3, <2>2 DEF MemInv, NotOlder, Cached, Miss
  <2>. QED
    BY <2>1, <2>2
<1>. QED
  BY <1>2, <1>5, <1>6, <1>7, <1>8 DEF MemInv

LEMMA CrashInv ==
  ASSUME MemInv, Crash
  PROVE  MemInv'
<1>1. MemTypeOK' /\ InRange' /\ Coherent'
  BY DEF Crash, MemInv, MemTypeOK, InRange, Coherent
<1>2. HeldNow' /\ NotOlder'
  BY DEF Crash, MemInv, HeldNow, NotOlder, Cached
<1>. QED
  BY <1>1, <1>2 DEF MemInv

(* A store leaves the cache as it was until it clears it.                  *)
LEMMA SaveInv ==
  ASSUME MemInv, memAt = "save", AfterSave, UNCHANGED <<mmu, how, base, last>>,
         mem' \in [Ordinary -> ByteValues], dev' \in [Mmio -> ByteValues]
  PROVE  MemInv'
<1>1. /\ memAt' \in {"idle", "save"} /\ next' \in 0 .. WordLen - 1
      /\ base + next' \in Addr /\ InRange'
  BY ContinueFacts DEF MemInv, AfterSave
<1>2. CASE memAt' = "idle"
  <2>1. lru' = [k \in Key |-> NoEntry] /\ past' = [a \in Mmio |-> {dev'[a]}]
    BY <1>2 DEF AfterSave
  <2>2. MemTypeOK'
    BY <1>1, <2>1 DEF MemInv, MemTypeOK
  <2>3. Coherent' /\ NotOlder' /\ HeldNow'
    BY <2>1 DEF Coherent, NotOlder, HeldNow, Cached
  <2>. QED
    BY <1>1, <2>2, <2>3 DEF MemInv
<1>3. CASE memAt' = "save"
  <2>1. lru' = lru /\ past' = [a \in Mmio |-> past[a] \cup {dev'[a]}]
    BY <1>3 DEF AfterSave
  <2>2. MemTypeOK'
    BY <1>1, <2>1 DEF MemInv, MemTypeOK
  <2>3. Coherent' /\ HeldNow'
    BY <1>3, <2>1 DEF Coherent, HeldNow
  <2>4. NotOlder'
    BY <2>1 DEF MemInv, NotOlder, Cached
  <2>. QED
    BY <1>1, <2>2, <2>3, <2>4 DEF MemInv
<1>. QED
  BY <1>1, <1>2, <1>3

LEMMA MemInvNext == MemInv /\ [MemNext]_memVars => MemInv'
<1>. SUFFICES ASSUME MemInv, [MemNext]_memVars PROVE MemInv'
  OBVIOUS
<1>1. CASE BeginLoad
  BY <1>1, BeginInv DEF BeginLoad
<1>2. CASE Hit
  BY <1>2, HitInv
<1>3. CASE Miss
  BY <1>3, MissInv
<1>4. CASE LoadFails
  BY <1>4, CrashInv DEF LoadFails
<1>5. CASE BeginSave
  BY <1>5, BeginInv DEF BeginSave
<1>6. CASE SavePlain
  <2>1. mem' \in [Ordinary -> ByteValues] /\ dev' \in [Mmio -> ByteValues]
    BY <1>6 DEF SavePlain, MemInv, MemTypeOK
  <2>. QED
    BY <1>6, <2>1, SaveInv DEF SavePlain
<1>7. CASE SaveDevice
  <2>1. mem' \in [Ordinary -> ByteValues] /\ dev' \in [Mmio -> ByteValues]
    BY <1>7 DEF SaveDevice, MemInv, MemTypeOK
  <2>. QED
    BY <1>7, <2>1, SaveInv DEF SaveDevice
<1>8. CASE SaveFails
  BY <1>8, CrashInv DEF SaveFails
<1>9. CASE SwitchMmu
  <2>1. MemTypeOK' /\ InRange' /\ Coherent'
    BY <1>9 DEF SwitchMmu, MemInv, MemTypeOK, InRange, Coherent, Cached
  <2>2. HeldNow' /\ NotOlder'
    BY <1>9 DEF SwitchMmu, MemInv, HeldNow, NotOlder, Cached
  <2>. QED
    BY <2>1, <2>2 DEF MemInv
<1>10. CASE DeviceChange
  <2>1. PICK a \in Mmio, b \in ByteValues :
          /\ dev' = [dev EXCEPT ![a] = b]
          /\ past' = [past EXCEPT ![a] = @ \cup {b}]
    BY <1>10 DEF DeviceChange
  <2>2. UNCHANGED <<mem, lru, mmu, memAt, how, base, next, last>>
    BY <1>10 DEF DeviceChange
  <2>3. MemTypeOK'
    BY <2>1, <2>2 DEF MemInv, MemTypeOK
  <2>4. InRange' /\ Coherent'
    BY <2>2 DEF MemInv, InRange, Coherent, Cached
  <2>5. HeldNow'
    BY <2>1 DEF MemInv, MemTypeOK, HeldNow
  <2>6. NotOlder'
    BY <2>1, <2>2 DEF MemInv, MemTypeOK, NotOlder, Cached
  <2>. QED
    BY <2>3, <2>4, <2>5, <2>6 DEF MemInv
<1>11. CASE UNCHANGED memVars
  <2>1. MemTypeOK' /\ InRange' /\ Coherent'
    BY <1>11 DEF memVars, MemInv, MemTypeOK, InRange, Coherent, Cached
  <2>2. HeldNow' /\ NotOlder'
    BY <1>11 DEF memVars, MemInv, HeldNow, NotOlder, Cached
  <2>. QED
    BY <2>1, <2>2 DEF MemInv
<1>. QED
  BY <1>1, <1>2, <1>3, <1>4, <1>5, <1>6, <1>7, <1>8, <1>9, <1>10, <1>11
  DEF MemNext, MemDead

LEMMA MemInvHolds == MemSpec => []MemInv
BY MemInvInit, MemInvNext, PTL DEF MemSpec

-----------------------------------------------------------------------------
(* Type correctness, for every memory map: a word that is read or written  *)
(* never goes beyond the last address, and no other byte is ever cached.   *)
THEOREM MemTypeCorrect == MemSpec => []MemTypeOK
BY MemInvHolds, PTL DEF MemInv

(* mmu.py:249.  Between the guest's stores the cache of get_address agrees *)
(* with ordinary memory.                                                   *)
THEOREM CoherentHolds == MemSpec => []Coherent
BY MemInvHolds, PTL DEF MemInv

(* mmu.py:249.  A cached byte of a device's register is one the register   *)
(* held since the guest's last store.                                      *)
THEOREM NotOlderHolds == MemSpec => []NotOlder
BY MemInvHolds, PTL DEF MemInv

(* The MMU with its cache implements plain memory: loads return what the   *)
(* address holds, fetches of code that was just stored included.           *)
THEOREM ImplementsPlainMemory == MemSpec => PlainMemorySpec
<1>1. MemInit => Memory!Init
  BY DEF MemInit, Memory!Init
<1>2. MemInv /\ [MemNext]_memVars => [Memory!Next]_<<mem, last>>
  <2>. SUFFICES ASSUME MemInv, [MemNext]_memVars
                PROVE  Memory!Next \/ UNCHANGED <<mem, last>>
    OBVIOUS
  <2>. DEFINE a == base + next
  <2>1. CASE Hit
    <3>1. lru[<<a, how>>] # NoEntry /\ <<a, how>> \in Key /\ memAt = "load"
      BY <2>1 DEF Hit, MemInv, MemTypeOK
    <3>2. a \in Ordinary => lru[<<a, how>>] = mem[a]
      BY <3>1 DEF MemInv, Coherent, Cached
    <3>3. CASE a \in Ordinary
      <4>1. last' = <<a, mem[a]>> /\ UNCHANGED mem
        BY <2>1, <3>2, <3>3 DEF Hit, Give
      <4>. QED
        BY <3>3, <4>1 DEF Memory!Next, Memory!Load
    <3>4. CASE a \notin Ordinary
      BY <2>1, <3>4 DEF Hit, Give
    <3>. QED
      BY <3>3, <3>4
  <2>2. CASE Miss
    <3>1. CASE a \in Ordinary
      <4>1. last' = <<a, mem[a]>> /\ UNCHANGED mem
        BY <2>2, <3>1 DEF Miss, Give, Contents
      <4>. QED
        BY <3>1, <4>1 DEF Memory!Next, Memory!Load
    <3>2. CASE a \notin Ordinary
      BY <2>2, <3>2 DEF Miss, Give
    <3>. QED
      BY <3>1, <3>2
  <2>3. CASE SavePlain
    BY <2>3 DEF SavePlain, Memory!Next, Memory!Store
  <2>4. CASE SaveDevice
    BY <2>4 DEF SaveDevice
  <2>5. CASE BeginLoad \/ BeginSave
    BY <2>5 DEF BeginLoad, BeginSave, Begin
  <2>6. CASE LoadFails \/ SaveFails
    BY <2>6 DEF LoadFails, SaveFails, Crash
  <2>7. CASE SwitchMmu \/ DeviceChange
    BY <2>7 DEF SwitchMmu, DeviceChange
  <2>8. CASE UNCHANGED memVars
    BY <2>8 DEF memVars
  <2>. QED
    BY <2>1, <2>2, <2>3, <2>4, <2>5, <2>6, <2>7, <2>8 DEF MemNext, MemDead
<1>. QED
  BY <1>1, <1>2, MemInvHolds, PTL DEF MemSpec, PlainMemorySpec, Memory!Spec
=============================================================================
