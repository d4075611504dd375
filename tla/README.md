# A TLA+ model of ComPyter

ComPyter is an emulator of a small 32-bit machine: a CPU that interprets
instructions, an MMU, a memory map, and devices, several of which run a thread
of their own and raise interrupts through an interrupt controller. This
directory holds TLA+ modules for the parts of it that are hard to test, TLC
configurations that check them on small instances, and theorems about them
checked by TLAPS for instances of every size. Line numbers refer to the sources
beside this directory; `cpu.py`, `mmu.py` ... are in `src/compyter/`, the devices
in `src/compyter/hardware/`, `assemble.py` in `src/`, and `README:55` is line 55
of the repository's own `README.md`.

## The system

| Component | State | Operations | Talks to |
| --- | --- | --- | --- |
| CPU (`cpu.py`, `register.py`) | 40 registers; `intr_pending`, `trap_event`, `exit_event`, `cpu_lock` | fetch and execute one instruction, `trap`, `intr`, `rfe`, `wait`, `halt` | every register write may take a pending interrupt (`register.py:208`); loads and stores go through the MMU |
| MMU (`mmu.py`) | three LRU caches | `get_address`, `write_address`, page-table walk, `clear_cache` | memory map; PageFault and InvalidBasePointer become traps |
| Memory map (`memory.py`) | RAM image, 4096 bytes of trap vectors, address-to-device table | get, set | calls the device on the CPU's thread |
| Interrupt controller (`intc.py`) | mask (an Event), queue, vector table, current vector, `interrupt_lock`; a thread | register reads and writes, `interrupt`, `process_pending` | calls `CPU.intr` from its own thread |
| Timer (`timer.py`) | duration; a thread | sleep, raise | queue of the controller |
| Keyboard (`keyboard.py`) | enabled, one character; a thread | read a key, raise | queue of the controller |
| Storage (`storage.py`) | offset, write-enable, mapped image | window reads and writes | CPU thread only |
| Real-time clock, printer | a latched time; the last character | latch, print | CPU thread only |
| Internet controller (`internet.py`) | command registers, buffer, sockets, selector, `async_done`; a thread | 18 commands, notification loop | queue of the controller |
| Assembler (`assemble.py`, `assembler/grammar.py`) | labels, output position | one pass over the text | none |

What is hard:

* **Two locks and two threads.** The controller's thread takes an interrupt
  from its queue, waits for the mask, masks itself, and calls `CPU.intr` under
  `interrupt_lock`; `CPU.intr` reads the enable bit without `cpu_lock` and traps
  under it. The CPU thread holds `cpu_lock` for an instruction and takes
  `interrupt_lock` for each byte it reads from or writes to the controller.
* **Interrupts from inside a register write.** An interrupt that found the CPU
  with interrupts disabled stays pending, and the next write to any register
  that sees the enable bit set takes it: between two words of a fetch, between
  the steps of `rfe`, or in the middle of an instruction.
* **Word registers are byte registers.** A word stored to a device is four
  calls. Device threads read the register with no lock between them.
* **A read cache over device registers.** `MMU.get_address` is an `lru_cache`;
  what it holds of a device register, or of the controller's jump instruction,
  is stale until the guest's next store.
* **One event at a time.** The Internet controller's thread announces the events
  of one `select()` one by one and waits for `ASYNC_DONE` after each, while the
  guest opens and closes sockets, whose descriptors the host uses again.
* **Failure of a thread.** `halt` called by the controller's thread joins that
  thread and raises; an exception on the CPU thread ends the process.

What makes each part correct: every raised interrupt is handled, once, at the
vector of its number, with the interrupted state restored (CPU and controller);
a read returns what memory holds, and of a device nothing older than the last
store (MMU); a stored word is the word the device uses (timer, storage); keys
arrive (keyboard); what is read of the clock is one time; results are those of
arithmetic on 32 bits (CPU); every event of a socket is announced once and about
a socket the guest still has, and the CPU is never held up by a peer (Internet
controller); a label is the address of what it stands before (assembler).

## Modules

| Module | Models | State and actions in terms of the code |
| --- | --- | --- |
| `InterruptDelivery` | CPU traps and fetch, interrupt controller, devices as a source of interrupts | `cpuAt` and `ppAt` are the places of the CPU thread and of `process_pending`; `status`, `fc`, `pc`, `ret` are the registers REG_STATUS, REG_FC, REG_PC, REG_RET; one action per step between two points at which the threads can see each other. `RegWrite` is `RegisterFile.__setitem__`, and every action that writes a register goes through it |
| `Delivery` | what the controller and the CPU promise a guest that unmasks outside its handlers: interrupts are accepted in the order they were raised, none left out, and the handler of one is entered and left before the next is accepted | abstract specification, implemented by two modules: `InOrder` of `InterruptDelivery`, with the interrupt its thread holds as the head of the queue, and `InOrder` of `InternetServer` |
| `DisciplinedGuest` | what a guest has to observe for its interrupts to be delivered in order | a condition on the instructions of a program, of which `Polled`'s is evaluated to satisfy it; no state |
| `MCInterrupt` | guest programs for it | one instruction per slot; `Guest` may allow several in a slot |
| `Internet` | `internet.py`: the registers, the 18 commands, the selector and the thread `process_async`, under any guest | `reg` are the registers, `sock` the sockets with what the host knows of them, `keys` the selector's map and `watched` what epoll watches (a closed descriptor leaves `watched` and stays in `keys`); one action per command, one per step of the thread; `stalled` is a command blocked in the host, `dead` an uncaught exception |
| `InternetServer` | `Internet` with a program in place of any guest, and interrupts | an instruction of the CPU per action; the interrupt controller and the CPU are reduced to what `Delivery` promises |
| `DisciplinedServer` | what a server has to observe for its interrupts to be delivered in order, and to keep order among its sockets | likewise a condition on its instructions, which `Server`'s echo server satisfies |
| `MCInternet` | two server programs for it | in the manner of `examples/helloserver.txt` |
| `WordRegister` | `set_word_byte`, a word stored byte by byte | a byte is the set of its bits |
| `Timer` | `timer.py` beside a guest that stores durations | `timerAt` is the place of the timer's thread, `toStore` the byte the CPU stores next |
| `KeyboardRead` | `keyboard.py` beside a handler that loads the character through the cache | `keyAt` is the place of the input thread, `cache` what the read cache holds of the register |
| `RealTimeClock` | `rtc.py` beside a guest that loads its registers through the cache | `now` is the latch, `time` the host's clock, `held` what the cache holds of the registers |
| `PlainMemory` | what a guest expects of memory | abstract specification |
| `ReadCache` | loads, stores and fetches of `cpu.py` through `get_address`/`write_address` to RAM, trap vectors and devices | `lru` maps an address and a kind of access (the arguments of the cached call) to a byte; implements `PlainMemory` on RAM and trap vectors |
| `Arithmetic` | arithmetic and comparison instructions, `_divmod` round by round | one action per instruction, one per round |
| `Storage` | `storage.py` | one action per guest store or access |
| `Assembler` | `do_parse` of `assemble.py` | one action per kind of statement; `here`, `symtable` and `pending` are `tell()`, `symtable_label` and `label_pending` |
| `MCParts` | `Timer`, `KeyboardRead`, `RealTimeClock`, `ReadCache`, `Storage`, `Arithmetic`, `Assembler` for one run | they share no state: a behaviour has one of them |
| `*_proofs` | the theorems | `Sequential_proofs` has those of the storage and the assembler, and of the composition `MCParts`; `Devices_proofs` those of the timer, the keyboard and the clock |

`InternetServer` is where components meet: a program, the CPU's traps, the
controller's mask and the Internet controller's thread. It extends `Internet`
and implements it (`ServerImplements`), so what is proved of every guest holds
of every server.

An operator whose comment begins "A mistaken" is no part of a specification. It
is a plausible bug in the definition that follows it, kept to confirm that the
properties notice it: substituted for that definition it makes a property fail.

Choices that shape the models:

* `InterruptDelivery` counts addresses in words, four to an instruction. An
  instruction is told apart by its effect on the interrupt state only: all
  instructions that just write a plain register are `alu`. Stores to the
  controller are the immediate forms, `savebi` and `savewi`; a `mask` store
  carries the list of bytes it writes, so 1 byte and 4 bytes are different
  instructions. A word of the controller's jump instruction is read in one step,
  though the code takes `interrupt_lock` for each byte.
* Words of different instructions decoded together may decode to anything in
  the constant `TornInstr`.
* Which entries a full `lru_cache` still holds is left open in
  `InterruptDelivery`, `KeyboardRead` and `RealTimeClock`; `ReadCache` has the
  bound and evicts any entry.
* The run is not followed once the fault counter exceeds `MaxFaults`, and at
  most `MaxRaise` interrupts are raised.
* With the MMU bit set, `pte & mask` (`mmu.py:202`, `237`) raises TypeError, so
  every access that misses the cache ends the emulator. `ReadCache` has exactly
  that, and no page table is modelled, because none is ever used.
* `div` and `mod` of `Arithmetic` run on words of `WordBits` bits; `WordBits` is
  32 in the code. `swap` stores the number of a register, as `cpu.py:351` does.
* `Internet` has stream sockets. The selector always reports a socket as ready to
  be written, though what is sent on a blocking one may wait for the peer; a
  message is received whole, and of the buffer the model knows whose data
  it holds: a socket's, a text of the guest or of an error, or nothing. A
  command is one step, since the CPU runs it with `cpu_lock` held and the thread
  shares only `sockets`, `keys` and `async_done` with it.
* The host's epoll watches an open file, not a number: closing a descriptor
  ends the watch and leaves Python's key, so that a new socket with that number
  is not watched and cannot be registered (`KeyError`).
* `InternetServer` enters the handler between two instructions of the main
  program, and its controller has one step from the queue to the mask. What
  connects it to the two threads of `InterruptDelivery` is `Delivery`: both
  implement it, for the guests that observe the same rules about the mask.
* The `Assembler` tells the bytes of an output apart by what they are for: byte
  `k` of a label's address, or anything else, which the pass only copies.

## Runs

| Run | Specification | Question | Outcome |
| --- | --- | --- | --- |
| `Polled` | `MCInterrupt` | a guest whose handlers only leave a note, and whose main loop polls or waits for it and unmasks with one byte | interrupts are accepted in order and one at a time, each is delivered to its vector, no fetch is torn, `rfe` resumes what was interrupted, traps only come when enabled, `wait` ends in the handler |
| `Free` | same | any instruction in any slot | types, mode of handlers |
| `EchoReturn` | same | the skeleton of `examples/echo.txt` | **violated**: `rfe` does not return to the address in REG_RET |
| `WaitUnmask` | same | a main loop that unmasks after `wait` | **violated**: the two threads wait for each other's lock |
| `CriticalTrap` | same | a critical section with interrupts disabled | **violated**: the trap comes all the same |
| `Faulty` | same | a main loop that divides by zero | **violated**: a third fault does not halt |
| `DoubleFault` | same | a handler that divides by zero | **violated**: the handler of double faults is not called |
| `Parts` | `MCParts` | any durations stored at any time; keys at any time; a clock read while time goes on or back | how long a sleep can be, one late interrupt, ticks, end of the thread; bytes are not stale, the last key is read; a latched time is one time |
| | | any access to memory, devices that change | refinement of `PlainMemory`, staleness bounded by a store |
| | | any moves and writes of the storage, any operation on any operand, any short source | bytes are where they were put, nothing beyond the image; long division, signed comparisons; labels, one pass as good as two |
| `LongDuration` | same | the durations of `Parts` | **violated**: the duration is not the word that was stored |
| `NetFree` | `Internet` | any guest, with descriptors the host uses again | what epoll watches is open, registered and does not block; it never stalls the CPU |
| `Server` | `MCInternet` | an echo server with as many clients as there are descriptors | no exception, no stall; the event registers are those of the handler's interrupt, its socket is registered; what is sent was received there; interrupts come as `Delivery` says; every event is served |
| `OneClient` | same | a server that closes one client while it serves another event | **violated**: it is told of the closed socket afterwards |

### What the properties of disciplined guests say

The machine is sound for a guest that (1) unmasks with a single byte, (2) does
so only in its main loop, after the handler has returned, (3) changes the
interrupt bits only while the controller is masked, and stays in kernel mode,
(4) has a handler for every number before it unmasks, and (5) causes no trap of
its own. `DisciplinedGuest` states these rules for any program, by dividing it
into areas: `closed` (masked, nothing on its way), `open` (unmasked), `noted`
(the handler has left its note) and `handler`. An instruction may lead from one
area to another only as `MayFall` says, so that whether a program is
disciplined is seen from its instructions alone; `NotesDisciplined` of
`MCInterrupt` is that evaluation for the guest of `Polled`. Then `InOrder` (an
implementation of `Delivery`: none is overtaken, overwritten or dropped, and
none is accepted before the handler of the last has returned), `VectorFresh`
(in spite of the cache the jump goes to the accepted vector),
`TrapsOnlyEnabled`, `Resumes` (`rfe` goes back to the address that was
interrupted, with the enable and user bits found there), `NoTornFetch`,
`Delivered` and `WaitEntersHandler` all hold. The first five are theorems of
every disciplined guest; the two that say that something happens in the end are
checked for this one. `Delivered` has one exception: the note may come between
the test of the flag and `wait`, and `wait` then waits for an interrupt that
only the main loop could unmask (`cpu.py:345`). `WaitEntersHandler` says that
this is all that can go wrong: an interrupt that is announced to a waiting CPU
leads into its handler.

Five of the violated runs, each with a guest that breaks one of the rules, show
that the rules are needed:

* **`EchoReturn`** (`cpu.py:340`). The handler unmasks before `rfe`. The next
  interrupt finds interrupts disabled and stays pending. `rfe` restores the
  bits, then its write to REG_FC takes the pending interrupt on the spot, and
  that trap overwrites REG_RET with the address after `rfe`.
* **`WaitUnmask`** (`intc.py:97`, `intc.py:70`, `cpu.py:42`). `wait` ends when
  the trap is announced, not when it is taken. The CPU thread takes `cpu_lock`
  and stores to the controller, which needs `interrupt_lock`; the controller's
  thread holds that and needs `cpu_lock`.
* **`CriticalTrap`** (`cpu.py:324`). The enable bit is tested without the lock.
* **`Faulty`** (`cpu.py:57`). The main loop's trap raises the fault counter to 1
  after the controller's thread has tested the enable bit; its own trap counts
  two more and calls `halt`, which joins the calling thread and raises. The
  controller's thread is gone and the CPU goes on.
* **`DoubleFault`** (`cpu.py:53`). A handler that divides by zero traps with one
  fault counted. That trap counts 2 and calls `trap` again with the vector of
  double faults; the second call counts 3 and halts.

A guest that breaks rule (1) alone may lose interrupts: a `savewi` to the mask
unmasks four times, once a byte (`intc.py:99`). If the controller's thread
accepts an interrupt and masks itself after one of them, the next byte unmasks it
again, and a second interrupt may be accepted before the CPU has read the vector
of the first. The guest of `EchoReturn` unmasks so, as `examples/echo.txt` does.

### What the properties of servers say

A server that registers a socket when it is accepted, answers each interrupt
with one `ASYNC_DONE` at the end of its handler, and stops and closes **only the
socket its own interrupt is about** has all the properties of `Server`:
`AnnouncedRegistered`, `ReadsOwnEvent` (the event registers do not change under
a handler), `SendsOwn` (one buffer serves all connections), `NeverDies` (the
selector never raises although numbers come back), `NeverStalls` (it never waits
in the host with `cpu_lock` held, even when an announced connection was
withdrawn), and `EventsServed`, which makes an exception for a connection that
waits while the host has no descriptor left.

`DisciplinedServer` states this for any program. The areas of its main program
are those of `DisciplinedGuest`, and it unmasks only as such a guest does; those
of its handler are `event` until `ASYNC_DONE` and `done` after it. Beside the
areas it has facts that are known at a place of the program: the handle register
has the socket of the interrupt, that socket is registered, the current socket
is not, the buffer has what the current socket received, there is something to
register for. `Effect` says for each command what has to be known for it, and
what is known afterwards, part of it only if the command succeeded, which the
program finds out by testing the status. `EchoDisciplined` of `MCInternet`
evaluates it for the echo server. All of the properties but `EventsServed` are
theorems of every disciplined server.

* **`OneClient`** (`internet.py:94`) breaks the last rule. `process_async` goes
  through the events of one `select()` and waits for `ASYNC_DONE` in between. A
  handler that unregisters and closes another socket, in the order `README:222`
  asks for, is interrupted for it all the same; its number may by then be of
  another connection, on which the server then blocks or which it closes.

Of every guest, `WatchedInOrder` says that what epoll watches is open,
registered and non-blocking, in whatever order the guest issues its commands,
and `WatchedNeverStalls` that a command on such a socket never holds up the CPU.

### Where the code departs from its documentation

* **`LongDuration`** (`util.py:4`, `README:99`): only the low half of a stored
  word survives, because the masks of `set_word_byte` are in the wrong order; so
  no duration above 65535 ms can be set, and no storage offset above 0xffff
  (`StoredLow` is of guests that stay below). The tables for double bytes and for
  quad bytes are in the right order.

Two registers have the opposite sense to the documented one, which the models
take from the code: 0 in the mask unmasks the interrupt controller (`intc.py:99`,
`README:230`), and 0 in the enable register of the storage protects the image
(`storage.py:48`, `README:124`; `examples/storage.txt:34` agrees with the code).

The passing properties are worded as sharply as the code allows, and what they
leave out is often where the code departs from what one would expect:

* `OneLateInterrupt`: a store of 0 may be followed by one interrupt.
  `NoOversleep`: the timer may sleep for a half-stored duration, but not for
  longer than stored words allow.
* `NotStale`: each byte a handler reads is of some key since the handler began,
  not of one key. `LastKeyRead`: earlier keys of a burst may be lost.
* `Snapshot`: what is loaded after a store to the latch is of the latched
  instant; the store empties the cache, so no older register survives in it.
* `LongDivision`: the division is right for divisors up to 2^31. Above that it
  is wrong (`cpu.py:219`: the borrow is taken from the sign bit).
* `StaysInside` is of offsets stored as words: with an offset that is stored byte
  by byte the window may be anywhere in between, and an access beyond the image
  ends the emulator.
* `cpu.py:19` has a digit too few in the address of double faults, and
  `README:224` gives `ASYNC_DONE` the number of `ASYNC_STOP`.
* `OnePass`: one pass with forward references gives the image two passes would,
  for sources without floats as parameters, which are counted but not put out
  (`assemble.py:54`). Alignment moves a position that is aligned already by a
  whole step, in both.

### Bounds

* `Polled` raises 4 interrupts with two numbers. Delivery has room for one
  interrupt accepted, one taken from the queue and waiting for the mask, and
  others in the queue; four interrupts fill each place and leave one more for
  after the handler has unmasked, and two numbers tell an order from another.
  `Free` raises 1 by a device or by the guest's `INTC_TRIGGER`, and the `intr`
  instruction adds others; every instruction is allowed everywhere.
* `EchoReturn` raises 3 interrupts for one number: one that is handled and two
  that come while it is. The guest of `DoubleFault` needs none to trap.
* `MaxFaults` = 3 lets the counter pass every value the code tests for.
* `Free` has five slots: one of code, the three vectors and the controller's.
  Since each may hold any instruction at every visit, more slots only add
  places with the same choices.
* Timer and storage: bytes of one bit, since bits are independent of each other
  in `set_word_byte`. Durations: one of the last byte, one of the byte before
  it, one with a byte of the high half, and 0.
* Keyboard: three keys such that any mixture of two bytes is told apart; a
  queue of 3. Clock: two registers, three times, of which two differ in one
  register and two in both.
* `ReadCache`: two-byte words, one RAM byte, one device register, one address
  in neither, one trap vector, two byte values, and a cache of two entries so
  that eviction happens.
* Arithmetic: words of 4 bits; the algorithm treats every bit alike, so the
  boundary cases (sign bit, carry, wrap) are all there. One general register
  and the carry register.
* Storage: an image of three windows of two bytes, of which the offsets reach the
  first two and a place inside the first, and one offset that is beyond the low
  half. For the enable register, any byte, and the words 0 and 1.
* Assembler: two labels, seven statements that move what follows by 3, 12 or 16
  bytes, or to a multiple of 4, and use labels in different places of an
  instruction; sources of up to 5. That is enough for two labels to wait
  at once, one twice, and to be defined in either order.
* `NetFree` has two descriptors, so that a listener and a connection exist and
  each number is closed and used again; `Server` and `OneClient` have three, so
  that two clients wait in one `select()` beside the listener. Each socket has
  at most one message or connection waiting (`MaxArrived` = 1), and `Params` are
  0 and 1: nothing and `ASYNC_READ`, or a port, or a length.

`CHECK_DEADLOCK FALSE` is set where the machine may rightly stop: a guest in
`wait` when no device raises any more (`Polled`, `Free`, `EchoReturn`,
`CriticalTrap`, `Faulty`, `DoubleFault`), and the run that shows the two locks
(`WaitUnmask`), where the property and not the deadlock check is to find it. In
`Free` and `Faulty` a run also ends at `MaxFaults`.

### Fairness

* `InterruptDelivery`: `WF_vars(CpuStep)`, `WF_vars(PpStep)`: the interpreter
  schedules every thread that can run. `SF_vars(PpTrap)`: the controller's
  thread, which waits for `cpu_lock`, gets it in the end although the CPU thread
  takes it again and again. The CPU thread calls `sleep(0)` before each
  acquisition (`cpu.py:488`), outside the lock, for that purpose.
* `Timer`: weak fairness for the thread, and for the bytes of a store under
  way. Nothing is assumed of the guest's decision to store or halt.
* `KeyboardRead`: weak fairness for the handler and for the notification that
  follows a key. Strong fairness of `Enter` stands for what `Polled` shows
  (`Delivered`): an interrupt in the queue is delivered although the main loop
  keeps storing. Nothing is assumed of the clock.
* `InternetServer`: weak fairness for the CPU, the trap, the controller's thread
  and the device's thread. Nothing is assumed of the peers: they may connect,
  send, withdraw and hang up as they like, or never.

No run assumes that a device raises an interrupt or that a guest stores.

## Theorems

TLAPS proves, for all values of the constants that satisfy the `ASSUME`s:

* `InterruptDelivery_proofs`: `TypeCorrect` and `HandlerModeHolds`, for every
  guest program, every set of interrupt numbers and every layout of vectors.
  The type invariant needs `FetchInSlots` beside `TypeOK`: what is executed is
  an instruction only because the address it was fetched from was that of a
  slot. `HandlerMode` needs that the bits only change by a trap, by `rfe` and
  by the guest's own write, which clears `clean`; the proof carries the state
  between the two halves of `rfe`.
* `DisciplinedGuest_proofs`: `NoTornFetchHolds`, `TrapsOnlyEnabledHolds`,
  `VectorFreshHolds`, `ResumesHolds` and `InOrderHolds`, for every program that
  is `Disciplined`, every set of interrupt numbers and any number of
  interrupts. None of these properties is inductive. `GuestInv` joins three
  parts: `Flow`, the places an accepted interrupt can be in on its way from the
  mask to the CPU's load of its vector, of which at most one is taken, and what
  is cached, locked and pending meanwhile; `VectorsHandle`, every vector that
  is set is where a handler begins; and where the CPU is: in the main program,
  in one of the two vectors, or in a handler, with what is known in each about
  the bits, the fault counter, the note and REG_RET. The rules are what makes
  it inductive: an interrupt can only be on its way in the open, so the bits
  that it tests without the lock are changed by nobody, and a vector that is
  loaded cannot have been cached since the byte that unmasked emptied the
  cache. `InOrder` follows with `Outside` (the controller is open only while
  the fault counter is 0, also when the CPU has halted): every step maps to a
  step of `Delivery` or to a stutter. The controller counts as open until its
  thread accepts what it holds; the load of the vector's word is the entry, and
  the write of REG_FC by `rfe` the return.
* `Internet_proofs`, about the device: `TypeCorrect`, `WatchedInOrderHolds` and
  `WatchedNeverStallsHolds`, for every guest and every set of descriptors.
  `WatchedInOrder` is inductive once the types are known (`CommandInv`), because
  a descriptor leaves `watched` when it is closed, before the host can use it
  again, and a socket gets its key, becomes non-blocking and is watched in one
  command. A command stalls only on a blocking socket, so `WatchedNeverStalls`
  follows, and it stays true because the CPU issues no command while it is
  stalled. `ServerImplements`: every program, with its interrupts, is such a
  guest; its steps map to a command, a store, a step of the thread or of a peer,
  or to a stutter. So `ServerWatched`: the two hold of every program.
* `Internet_proofs`, about servers: `NeverDiesHolds`, `NeverStallsHolds`,
  `AnnouncedRegisteredHolds`, `ReadsOwnEventHolds`, `SendsOwnHolds` and
  `ServerInOrderHolds`, for every
  program that is `Disciplined`, every set of descriptors and any behaviour of
  the peers. `ServerInv` joins `Inv` of the device; `KnowsInv`, what is known at
  the place of the program counter is true; `PlaceInv`, the CPU is in the handler
  exactly if it has somewhere to return to, in the open, and an interrupt is let
  in or on its way only in the open and before the note is left; `TokenInv`, one
  token goes from the announcement of an event through the controller's queue
  and the trap to the handler and back with `ASYNC_DONE`, so that there is no
  second interrupt, and what is still to be announced is registered; and
  `KeysWatched`, which no guest keeps but a disciplined one does: the selector
  has no key that epoll has forgotten. The last is why the selector never
  raises. Each command's lemma (`SocketOutcome` ... `DoneOutcome`) shows that it
  does what `Effect` says of it, and `CommandOutcome` that it neither ends the
  emulator nor blocks. `TokenInv` survives `ASYNC_STOP` only because that is of
  the socket whose event is being handled (`StopArea`), the rule `OneClient`
  breaks. `ServerInOrder`: every step maps to a step of `Delivery` or to a
  stutter, since by `PlaceInv` a disciplined server unmasks only what is masked,
  outside the handler and with no interrupt on its way. With `InOrderHolds` the
  simple controller and CPU of `InternetServer` and the detailed ones of
  `InterruptDelivery` are two implementations of one promise.
* `Devices_proofs`. Timer: `TimerTypeCorrect`; `OneLateInterruptHolds`, from
  `StoreInv`, which says after each byte of a store what is known of the
  register (so that a 0 is stored when its bytes are, `LowStoredHolds`), and
  `LateInv` (once it has raised, a thread with a completed 0 cannot be about to
  raise); `NoOversleepHolds`, from `SleepInv` (the high half of a duration
  comes from the word being stored, the low half from the word before it until
  both its bytes have been cleared). Keyboard: `KeyTypeCorrect`, and
  `NotStaleHolds` from `CacheInv` (the cache is empty outside the handler, and
  inside it what the register holds, what is cached and what was read are of
  keys since it was entered). Clock: `ClockTypeCorrect`, and `SnapshotHolds`
  from `ClockInv` (the latch, the cache and what was read agree on the latched
  instant).
* `ReadCache_proofs`: `MemTypeCorrect`, `CoherentHolds`, `NotOlderHolds` and
  `ImplementsPlainMemory`, for every set of addresses, every size of word, every
  capacity of the cache. The invariant joins `MemTypeOK`, `InRange` (an access
  under way is inside its width), `Coherent`, `HeldNow` (what a register holds
  is among what it held) and `NotOlder`. With it every step of `ReadCache` maps
  to a load or a store of `PlainMemory`, or to a stutter.
* `WordRegister_proofs`: `StoreWordLowHalf`, about four byte stores for every
  word and every width of byte, on which the timer and the storage rest.
* `Sequential_proofs`, storage: `StorageTypeCorrect`, `StoredLowHolds` and
  `StaysInsideHolds`, for every image, window and width of byte. `LowInv`: as
  long as the guest wrote words with an empty high half, the register holds the
  offset asked for and the image the bytes written. `InsideInv`: the window is
  on a multiple of its size within the image. It is kept although the high half
  of a word is lost, because what is lost counts a multiple of `Base * Base`,
  which the window divides (2^16 and 512 in the code): the number of a word is
  that of its bytes as digits (`ValueFacts`). `ByteAssumption` states that a
  byte is a digit, a sum over the bits of a byte that the provers cannot
  compute; TLC evaluates it.
* `Sequential_proofs`, assembler: `AsmTypeCorrect`, `ResolvedHolds` and
  `OnePassHolds`, for sources of any length over any statements. The invariant
  of `Resolved`: the words that stand for labels lie in the output and do not
  overlap (`Apart`), so that filling in one leaves the others alone; a word
  waits for a label exactly until the label is defined (`Waiting`); and each
  holds the address, or 0 until the label is defined (`Filled`). `OnePass`
  compares the output with two passes, the first of which is a recursive
  function of the source. `OneInv` says of *every* function that satisfies the
  equations of the first pass where each statement was put (`Placement`), that
  bytes that stand for no label are copied (`Bare`), and that at the end no word
  waits for a label (`Complete`); and that there is such a function. Then both
  images agree byte by byte.
* `Sequential_proofs`, together: `PartsAsSpecified`, the composition that `Parts`
  checks implements the specification of each of its seven parts, so that what is
  proved of a part holds of it; and so `TypesCorrect`.
* `Arithmetic_proofs`: `NumbersCorrect`, `JumpsOrderHolds` and
  `LongDivisionHolds`, at every width of word. The loop invariant
  `DivisionInv` is that quotient and remainder are those of the bits taken so
  far (`LongDivision`); it needs `WholeWord` (the two powers of two that split
  the word at the round multiply to its size), and the case of each round is a
  lemma about `\div` and `%` by a number twice as large. `PowersAssumption`
  states how powers of two grow, which the provers do not know; TLC evaluates
  it in `Parts`.

The theorems about disciplined programs assume only the discipline, which names
`Area` and `Known` (and `Unless`), what is said of the places of the program.
The assumption is not empty: TLC evaluates it to be true of the programs of
`Polled` and `Server`, with the division of each. It is a sufficient condition:
another program may behave as well for other reasons.

Every invariant and every action property that a passing run checks is a
theorem. Model-checked only is what has to happen in the end: `Delivered`,
`WaitEntersHandler`, `Ticks`, `Stops`, `LastKeyRead` and `EventsServed`, for the
programs and bounds of their runs, since the prover has no ENABLED and with it
no fairness.

## Not modelled

* Page tables, page faults, base-pointer traps: no translation is ever used, see
  above. `get_page` and `write_page` are called by nobody, and the base pointer
  stays 0.
* REG_PC near 0xffffffff: a fetch there traps four times and decodes stale words
  (`cpu.py:254`). The guests are a few slots long.
* The bitwise instructions, `cpuid`, the stack: single Python operators.
* Reading back controller registers (`INTC_GET_INT`), and setting its number and
  vector byte by byte: `add` and `del` carry them.
* Of the Internet controller: a parameter of 2^31 or more, with which `LISTEN`
  raises OverflowError and ends the emulator (`internet.py:245`); datagram
  sockets, the address registers, name lookup beyond its outcome, and the bytes
  of the buffer, which are read four places after where they were written
  (`internet.py:504`).
* A guest that stores to the keyboard's character register; opening and closing
  the storage's file.
* The assembler's grammar: a table of keywords for a parser library, with the
  opcodes of `CPU.INSTRS`.
* Printer: pure output. `storage.py:14` names an address other than the one it
  uses, and `examples/storage.txt` writes to it; a byte stored there is lost.
* The old assembler, superseded.

## Plan

Done, in this order: `InterruptDelivery` with its guests, `WordRegister`,
`Timer`, `KeyboardRead`, `ReadCache` over `PlainMemory`, `Arithmetic`, `Storage`;
then `Internet` and `InternetServer`, `Delivery` as what `InterruptDelivery`
implements, `RealTimeClock`, `Assembler`; and the theorems above.

Then the conditions on programs, `DisciplinedGuest` and `DisciplinedServer`, with
the theorems of every program that meets them, and the remaining invariants.

Left:

1. That `InternetServer` leaves out nothing that a server on the two threads of
   `InterruptDelivery` could do: both implement `Delivery`, but that the former
   allows every behaviour `Delivery` leaves to a server is not stated.
2. Datagram sockets, and the fetch at the end of the address space.
