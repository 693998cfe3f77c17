# microPOSIX in TLA+

A verification development kept beside the sources of microPOSIX, a small
real-time kernel with its memory managers, drivers and services. Modules model
the code in `src/`; TLC checks them on small instances; TLAPS proves the results
that should hold for every value of the constants.

All line references are to the sources as they stand. A definition is translated
from the code; documents are quoted only where the code is compared with them.

## 1. Inventory

| part | sources | state it keeps | operations | what is hard |
|---|---|---|---|---|
| message queue | `kernel/mq.c` | ring buffer, `head`, `tail`, `cur_msgs` | init, send, receive | wrap-around; its critical sections are commented out, so interrupts fall inside a call |
| scheduler, threads | `kernel/scheduler.c`, `kernel/thread.c`, `platform/nrf54l15/m33/irq_handlers.c` | `ready_list` of every TCB ever created, `state`, `sleep_ticks`, `current_thread`, `next_thread` | create, yield, sleep, exit, join, reschedule; SysTick, PendSV | reschedule scans, then stores: ticks fall between; `next_thread` is never cleared by a later choice |
| mutex, semaphore | `kernel/ipc.c` | owner and 8-bit count; a count | lock, unlock, wait, post | no critical section, no wake-up: `waiting_list` is never filled, a blocked caller is told 0 |
| software timers | `kernel/timer.c` | an intrusive list | init, create, start, stop, tick | callbacks change the list that the tick walks, the walk's own timer included; nothing in `src/` calls the tick |
| watchdog | `kernel/watchdog.c` | 32 entries: thread, period, last check-in | register, check in, supervise | stale clock, double registration |
| block pool | `mm/pool.c` | free list inside the free blocks | init, alloc, free | links share memory with the owners' data |
| arena and views | `mm/memory_view.c` | offset into a buffer; pointer/size pairs | alloc, reset, slice, subslice, copy | alignment of addresses against sizes; overlapping views of growing capacity |
| shared heap | `mm/shared_heap.c` | headers inside the heap, free list, totals | alloc, free, realloc, reset, defragment | split and merge on a doubly linked list; unsigned underflow |
| collector | `mm/gc.c` | objects with counts and flags, three lists through one pair of links | alloc, references, roots, collections | roots and generations share `next` and `prev` |
| simple heap | `mm/tlsf.c` | list of blocks | alloc, free, realloc | an allocated block is not marked |
| inter-core layer | `platform/nrf54l15/shared/` | words in memory shared by two cores | spinlock, mutex, barrier, rendezvous, handshake, mailbox, registry | critical sections mask the local core's interrupts only |
| platform code | `platform/*/` | device registers, stacks | context switch, start-up, UART, GPIO, MPU | assembly and registers |
| BLE | `ble/ble_mgr.c`, `ble/ble_esp32.c` | two copies of a connection state, an event queue | init, scan, connect, send, process events | copies drift when the queue is full |
| sockets | `network/socket.c` | socket table behind a test-and-set lock | socket, bind, listen, accept, send, close | slots taken outside the lock |
| WiFi | `network/wifi.c` | connection state, scan results | init, connect, scan, events | events that arrive before the state is set |
| HTTP client | `network/http_client.c` | a request of allocated blocks, a socket | get, post: create, send step by step, receive, destroy | a dozen early returns, each with blocks and a socket to give back |
| SPI, I2C | `drivers/spi.c`, `drivers/i2c.c` | device tables | open, transfer, close | one step of several failing |
| serialization | `serialization/` | a parser's stack of containers, writers' buffers, registered schemas, an OData service's tables and the data of a request | parse, generate, edit and compare values; write, read and skip fields; answer a query | allocations that fail half-way, repeated keys, buffers that end inside a field, sign and width of integers, data changed in place |
| log, shell, faults | `debug/` | a ring of text | write, drain | readers overtaken by writers |
| ABI tables | `kernel/abi*.c` | constant tables | lookup | nothing changes state |
| boot loader, demos | `bootloader/`, `main.c` | none | start-up | straight-line code |

How they interact. Threads call the kernel with interrupts enabled: the tick
(`mp_hal_cpu_systick_handler`) may fall between any two accesses of a call, wakes
sleepers, reschedules and pends PendSV, which switches. The mutex, the semaphore
and the sleep calls mark the caller's TCB and then reschedule, which switches
nothing itself: a caller runs on until a tick. The timers' tick calls back into
code that calls the timers again. The collector takes memory from `malloc`; the
pool, the arena and the shared heap own their buffers. Sockets, WiFi, BLE and
HTTP are built from tables and state machines of their own and sleep by busy
loops. The two cores of the nRF54L15 share words of memory and nothing else.

What makes each part correct: the queue is a FIFO queue that says when it refuses;
the scheduler wakes sleepers and gives the core to the best ready thread; the
mutex has one holder; a semaphore's count is bounded; a walk of the tick
passes over no due timer and fires no stopped one; every allocator gives a byte to one owner at a time; a root
is never collected; whoever waits for the other core is let go and a lock has one
holder among the two; services' copies of a state agree once events are processed;
what a reader returns is what a writer wrote, and a query's answer is the one asked for.

`PROJECT.json` lists the components with their status and 40 hazards, each at the
line where it bites, with the property that covers it or the reason none does.

## 2. The modules

| module | models | correspondence |
|---|---|---|
| `BoundedFifo` | what the queue promises | abstract: a sequence of at most `Capacity` messages and the answer of the last call |
| `MessageQueue` | `mq.c`, one action per call | fields of `mp_mq_t` by name; `answer` is the return value and the message handed out; `ImplementsFifo` maps the ring to `BoundedFifo` |
| `MessageQueueIsr` | `mq.c` under an interrupt handler | extends `MessageQueue`: the thread's call is one step per access to a shared field, the handler's call is an action of `MessageQueue`, whole, since a thread does not interrupt a handler |
| `Scheduler` | `scheduler.c`, `thread.c`, SysTick and PendSV | `pc` is where the call of each thread stands; `Scan` and `Store` are the halves of `mp_sched_reschedule`; `Tick` is the handler with the switch it pends |
| `Kernel` | `ipc.c` on top of `Scheduler` | every load and store of `owner`, `count` and `sem->count` is a step; `loaded` is a register; `holds`, `inside` and `overwritten` are history |
| `Timer` | `timer.c` | `next` and `timer_list` by name; `stage` and `curr` are the position of the walk of `mp_timer_tick`; `due` is expiry less the clock; `started`, `waiting` and `lost` are history |
| `Watchdog` | `watchdog.c` | `wdt_table` by name, times as ages; the supervisor's round is one step per entry, with its clock read once (`passed`) |
| `LogRing` | the ring of `log.c` | storing a byte and advancing `log_head` are two steps of each writer |
| `Sockets` | `socket.c` | test and set of the lock, the search for a slot and the store into it are steps; the system below is a set of open descriptors |
| `Http` | `http_client.c` | one action per step of `mp_http_request_send` with its early return; `heap` holds the blocks of every request made, so that what one leaves behind is seen |
| `Wifi` | `wifi.c` | `wifi_state` by name; calls ask ESP-IDF and store later; ESP-IDF is a mode, a link and a queue of events |
| `Ble` | `ble_mgr.c` over `ble_esp32.c` | the two copies of `ble_state`, the manager's queues, the stack's callbacks |
| `Buses` | `spi.c` and `i2c.c` over ESP-IDF | `device` is the table of handles, `bus` the buses that are up and their speed |
| `Services` | `MessageQueue`, `Timer`, `Watchdog`, `LogRing`, `Sockets`, `Http`, `Wifi`, `Ble`, `Buses` side by side | they share no state; a behaviour moves one part, picked in `ServicesInit` |
| `CrossCore` | spinlock and cross-core mutex of `shared_memory.c` | `pc` is where the call of each core stands, one step per access to a shared word; `call` is what to do with the spinlock once taken; `holds`, `overlapped` and `torn` are history |
| `CoreMeeting` | barrier and rendezvous of `core_sync.c`, mailbox, events and semaphores of the nRF's `ipc.c`, registry of `shared_memory.c` | `at` is where the call of each core stands; shared words by name; `turn` numbers the calls and stands for what they carry |
| `Multicore` | `CrossCore` and `CoreMeeting` side by side | `Parts` are the parts to move, one picked in `MulticoreInit` |
| `Pool` | `pool.c` | a block's first word is a link while it is free and its owner's data otherwise |
| `MemoryView` | the arena, views and slices of `memory_view.c` | regions are sets of bytes; addresses keep their alignment |
| `Gc` | `gc.c` | `gnext`, `gprev` are an object's links on whichever list wrote them last |
| `SharedHeap` | `shared_heap.c` | `header` maps addresses to headers; the list's head is the `next` of `Null`, so that writing through `prev` or to `free_list` is one case |
| `Tlsf` | `tlsf.c` | `blocks` is the list in the order of addresses, `lent` the memory callers hold |
| `Json` | parser and generator of `json.c` | a text is a sequence of tokens, each chosen as the parser comes to it; the recursion of the C functions is `stack`; `jlive` counts blocks |
| `JsonTree` | the values of `json.c` | an object is the sequence of its pairs; `queued` is what each key should answer; `dangling` and `freed_twice` are what failed additions and copies do to memory, `key_blocks` counts strings |
| `Wire` | varints and fixed widths of both binary formats | functions over sequences of bytes |
| `Protobuf` | writer and reader of `protobuf.c` | `pbuf` is the buffer, `rpos` the reader's position; `fields` is what was written |
| `Edf` | writer, reader and schema registry of `edf.c` | as `Protobuf`, with values that nest |
| `Odata` | properties, entity set and response of `odata.c` | one action per step of `mp_odata_generate_response`, `work` is the array it works on |
| `SeqFunctions` | sums and selections along a sequence | recursive functions of the places passed, which is the form theorems can be proved about |
| `Libraries` | `Pool`, `MemoryView`, `Gc`, `SharedHeap`, `Tlsf`, `Json`, `JsonTree`, `Protobuf`, `Edf`, `Odata` side by side | as `Services`; `Parts` are the parts to move |
| `MC*` | instances for TLC | values, symmetry and constraints that a configuration cannot give are defined in modules `MC*`; a run that needs none names the module it checks |
| `Chains` | sequences of linked members, walks along links, induction on naturals | lemmas free of any model, used where a list is proved about |
| `*Proofs` | theorems | `KernelProofs` is about `Scheduler` and `Kernel`; `MulticoreProofs` about `CrossCore` and `Multicore`; `MemoryProofs` about `MemoryView`, `Pool`, `Gc`, `Tlsf` and `SharedHeap`; `ServiceProofs` about `MessageQueue`, `Timer` and `Watchdog`; `DeviceProofs` about `Buses`, `Wifi` and `Ble`; `LibraryProofs` about `Http`, `LogRing`, `Sockets`, `JsonTree` and `Protobuf`; `SerializationProofs` about `Json` and `Odata` |

Abstractions that hold everywhere: messages, data and names are model values;
statistics, logging and return values nothing depends on are left out; a null or
misaligned argument that a call rejects at once is not a step.

Choices to know of.

* `mp_sched_tick` has one definition in `scheduler.c`; `current_thread` and
  `next_thread` are static there and declared `extern` in the M33's files. The
  model takes them for the same variables, as the port needs them to be.
* The walk over `ready_list` in a reschedule is one step (`Scan`): its result is a
  local variable, and the tick, which alone can change what it reads, is tried
  before and after it. A walk torn by a tick is not covered.
* `mp_thread_create` is one step, with one creator inside it at a time.
* `sem_wait` stores what its test loaded less one, and `pthread_mutex_unlock` tests
  what it stored, as optimised builds do. At `-O0` a second load would make
  `TypeOK` of `Kernel` fail (that is the mutant `WaitStoreReload`).
* `Timer` does not interrupt its own calls: calls come from threads between two
  walks and from callbacks during one, where any timer may be meant, that of the
  callback included. Creating a timer that is on the list and a period of 0 in a
  periodic timer are left out. Nothing in `src/` calls `mp_timer_tick`, so a walk
  may begin at any time or never: the module states no fairness and nothing about
  when a timer fires, only what a walk does and must not do.
* In `Http` a block is a part of a numbered request. `mp_http_request_destroy` does
  not free host and path; they stay in `heap`, which the number of requests bounds.
* In `JsonTree` an addition whose growth fails half way (`json.c:1257`) leaves the object
  with a freed array: no call follows on it, but for a copy being made in its place.
  A copy that fails may free a value twice (`json.c:1494`). Of the blocks only the
  strings of the keys are counted, as they are what is leaked (lines 1235 and 1483).
* A copy of a string or bytes for which memory lacks fails at a place of its own:
  `Protobuf` leaves the reader behind the value (`protobuf.c:335`), `Edf` behind its
  length (`edf.c:531`).
* A walk of the collector that reads freed memory is undefined, and one that
  closes on itself does not return: neither is a step of `Gc`.
  `mp_gc_collect` sets `gc_running` before it calls the collections that test it
  (`gc.c:515`), so it collects nothing; it has no action.
* `CrossCore` and `CoreMeeting` have one caller at a time on each core: the thread
  id that would tell them apart comes from a weak function that answers 0. The
  accesses to the words of one core's critical section are seen by the other in
  program order. A wait may time out whenever it has found its condition false.
* `SharedHeap` serves requests of the default alignment, in its units. Its locks are
  placeholders in the code: calls are whole steps, and a caller from another thread
  in the middle of one is not modelled. Neither is what `Tlsf` writes, by a later
  split, into memory somebody still holds.
* Sizes in `MemoryView` stay below the width of `size_t`.
* In `Sockets` the system gives out descriptors above 0, as lwIP does; the table
  starts zeroed, and 0 is not its mark of a free slot, so that a slot has to be
  closed once before it is used.
* `Wire` has the size of a varint's group as a constant, `Group`. The run gives it 2
  bits in place of 7: a byte has 3, and the integers of 4 and 8 bytes have 12 and 24,
  so that every boundary of a group, a byte or a sign is there, in fewer bits. Only
  the type bytes of `Edf` keep their codes, which 3 bits do not hold.
* `edf.c` and `odata.c` do not compile as they stand (`edf.h` uses types at line 27
  that it declares from line 34 on; `odata.c:350` indexes a `void *`, and
  `mp_odata_response_free_error` is used before it is declared). The modules say what
  the functions say. In `odata.c` an option with a value is never recognised in a
  URL (lines 405 to 414), against `odata.h:370` and `test_odata.c:88`; strings in filters
  never compare equal (lines 876 to 878), against the comment at line 842. Both are in
  the model, whose options come from a URL or from a caller, and `ODataAnswers`, which
  measures the answer by what was asked for, excepts them by name. A page that begins past the end, or no data at
  all, is answered with 500; adding a property that is a key cuts the list of
  properties (line 219); ordering is done in the caller's own array.

## 3. What is checked

| run | module | bounds | shows |
|---|---|---|---|
| `services` | `Services` | queue: 3 messages, depth 3; timers: 3, delays 0 or 2, periods 0 or 1, 3 calls per callback; watchdog: 2 threads, 3 entries, time-out 1; log: 2 writers, a ring of 5, entries of 2 bytes; sockets: 2 threads, 2 slots, 3 descriptors; HTTP: 2 chunks, 2 requests, whose leaks add up; WiFi: 5 events waiting; BLE: queues of 2, 2 callbacks waiting; buses: 2 threads, handles, buses and speeds, SPI and I2C | the queue is a bounded FIFO queue; the list of timers is the started timers, a walk fires no stopped timer and passes over no due one; the watchdog reports who is late; the log is read as written; descriptors, buses, radio states and what a request holds are accounted for, each up to the races and failures its property names |
| `mq_isr` (violation) | `MessageQueueIsr` | 2 messages, depth 2 | a handler's call between the load and the store of `cur_msgs` leaves indices and count apart, although the architecture document lists the queue as ISR-safe |
| `scheduler` | `Scheduler` | 2 threads and idle, 2 priorities, sleeps of 0 to 2 ticks | types; a pending switch is a switch; sleepers wake; a thread that stays foremost gets the core and keeps it |
| `scheduler_priority` (violation) | `Scheduler` | the same, sleeps of 0 or 1 | a stale `next_thread` makes the tick dispatch the idle thread while a better one is ready |
| `kernel` | `Kernel` | 2 threads and idle, 2 priorities, sleeps of 0 ticks, semaphore 0 to 1, nesting 2 | the semaphore's count stays in its bounds; unless a lock overwrote an owner, takers own the mutex and it counts their locks |
| `kernel_mutex` (violation) | `Kernel` | the same, sleeps of 0 or 1 | two threads are told that they hold the mutex and both run on |
| `libraries` | `Libraries` | pool: 4 blocks; arena: 8 bytes at address 5; collector: 4 objects, 2 references; shared heap: 40 units, headers of 4, requests of 1 and 10; tlsf: 14 units, headers of 2, requests of 0, 1 and 3; JSON: texts of up to 5 tokens, buffers of 0 and 6; values: 2 names, 3 pairs, 5 keys leaked; protobuf: buffers of 0 and 30, numbers 1 and 513, 2 fields; EDF: buffers of 0 and 14, 2 fields, 2 schemas; OData: 3 entities, 4 properties, tops 0 and 2, skips 1 and 3 | one owner per block or byte; regions and views inside and apart; the list of objects exact under reference counting; what is parsed, written, read back or answered is what was meant, nothing is leaked or freed twice, each up to the defects its property names |
| `gc_roots` (violation) | `Gc` | 3 objects | a young collection cuts the root list and the next full one frees a root |
| `shared_heap` (violation) | `SharedHeap` | a heap of 24 units | an allocation and its free leave the free list going round |
| `cross_core` | `Multicore` | 2 cores, nesting 2, 3 calls of a kind by each core, a registry of 2 | unless the cores' tests of the spinlock overlapped: one holder, also when a core gives up waiting and releases what it does not have; the mutex's owner and depth are those granted; a taken spinlock is let go of. Nobody passes the barrier alone, a rendezvous pairs calls that overlap and ends for both, the mailbox is in order, the registry exact; each up to the window its history names |
| `spinlock` (violation) | `CrossCore` | the same | both cores test the flag before either sets it, and both hold the lock |
| `json_quotes` (violation) | `Json` | texts of up to 4 tokens | a string in double quotes is refused |

Why the bounds are enough. The ring's behaviour depends on the distance of head
and tail modulo the depth; depth 3 has every distance, and the proofs cover all
depths. Two threads and the idle thread interrupt one another in every order; a
third adds bystanders that the walk of the list treats alike. Three timers give a
walk a predecessor, a current and a successor to be changed under it, and three
calls let one callback stop its own timer, stop or create another and start one
again. A log entry
of 2 bytes can be cut by another writer, and a ring of 5 wraps inside one. Two
threads on two slots collide on one slot, on the search and on the lock; the
third descriptor is the one that leaks. Two objects already break the root list;
four give every position on a doubly linked list. In the heap, requests of 1 and
10 against headers of 4 give every outcome of a split: a block is cut, too small
to be cut (its tail is lost), or fits exactly. The device has two cores; nesting 2
has the first, an inner and the last unlock, and the third call of a kind meets
what the two before left behind. JSON texts of 5 tokens have a container inside a
container with an element; the field numbers 1 and 513 have headers of one byte
and of several; buffers of 0 and of more grow at different fields, and every end
of the data inside a field is tried.

What is followed. Properties of the races and defects that the code has are
stated with a proviso, a history variable that is never reset once the defect has
shown: `overwritten` (kernel), `strayed`, `raced`, `slipped`, `overtaken`,
`muddled` (services), `damaged`, `pspilled`, `ew.spilled` (libraries), `overlapped`,
`torn`, `clobbered`, `stranded`, `raced` (inter-core). The constraints `Explored`
cut what lies behind those of the first three groups: such a state is checked, but
not followed, since its property says nothing of it any more, and memory behind an
overrun or a torn list is not what the model says it is. Without the proviso the
properties fail, as the violation runs and the windows named in the modules show.
Other provisos are about one walk, object or request, and what lies behind them is
followed: `lost` in `Timer` ends with the walk, `dangling` in `JsonTree` with the object,
`url` and `ComparesText` in `Odata` speak of the request that is answered.
`freed_twice` of `JsonTree` is cut like the others.
`kernel` also uses the symmetry of the threads, whose properties are invariants
and name no thread. `services`, `kernel` and `libraries` check no liveness.

Which hazards this leaves to the violation runs, and which to nobody. Where a
property excepts the very window a hazard names, it says that the window is the
only way to go wrong; that it does go wrong there is shown by a violation run for
the mutex, the spinlock, the free list, the roots, the queue, the scheduler and
quoted strings, and for the others by the guard that sets the history variable.

Fairness. `WF(Tick)`: SysTick is a free-running hardware timer and its handler
runs at the next instruction boundary, so a tick is always enabled and must come.
No fairness is assumed of threads: they may compute for ever between calls.
`Services` assumes none at all. `MulticoreSpec` assumes `WF(Locks(c))` and `WF(Meets(c))` for each core: a core
executes the calls it has entered; it need not enter any, and no time-out need
come. Deadlock checking is off where the system may stop: both cores may spin for
ever on a lock whose owner was wiped out (`torn`), which is what the code does and
what the proviso of `LetGo` excludes; a finished request, text, buffer or answer has
nothing to follow; and bounded calls run out.

Every property of a passing run has a mutant in `PROJECT.json`: a change of one
definition, of the kind a programming error would make, under which the run fails.

## 4. What is proved

`ServiceProofs`, of the message queue for any depth and any set of messages: `TypeCorrect`,
`RingStaysConsistent`, `NoJunkDelivered` and the refinement `RingImplementsFifo`.
Types alone are not inductive, since head = tail means full or empty only by the
count, so `RingInv` joins them with `RingConsistent`; `MqInv` adds that counted
slots hold sent messages. The arithmetic is in `ModTurn` and `SlotAfter`: an advance
of at most one turn is a sum or a sum less one turn, which frees every later step
of division. `SendAppends` and `ReceiveShifts` say what a call does to the counted
slots, and `StepsMap` turns these into steps of `BoundedFifo`.

`KernelProofs`, for any threads, priorities, sleeps and bounds: `SchedulerTyped` and
`SwitchIsASwitch` of `Scheduler`, `KernelTyped`, `MutexOwnedByTakers` and
`MutexCountsItsLocks` of `Kernel`. The first two are one invariant: a pending switch
to another thread stays one because `NextAfter` never returns the current thread
unless it kept a value that already was another one. It is stated without `pc`, so
that the same lemmas serve `Kernel`, which has more steps. `SemInv` strengthens the
types with what a thread carries between a load and a store. `MutexInv` says for
each step of lock and unlock what its thread knows there of owner and count; it is
inductive under the proviso `~overwritten`, which names the single window (between
`ipc.c:27` and `ipc.c:28`) through which the mutex is lost.

`MulticoreProofs`. Of `CrossCore`, for any number of cores and any nesting:
`CrossCoreTyped`, `SpinlockExact`, `CrossMutexExact`. `LockInv` is the strengthening that
matters: a core outside its section is never the recorded owner, which is why the
release after a time-out is refused. `OwnerInv` carries the mutex over the step
between reading its owner and writing. Both hold under `~overlapped`, which names the
single window, between lines 149 and 150, through which the lock is lost. Of
`Multicore`, for two cores and any number of calls, releases, time-outs and
re-initialisations: `NobodyPassesAlone`, `DataOfThisMeeting`, `MailArrives` and
`TablesStayExact`. The invariant `MeetingInv` has one conjunct for each part, which
speaks when that part moves. `BarrierInv` says what the arrival bits that are set,
loaded or about to be written back stand for, as long as no write wiped one out
(`clobbered`). `RendezvousInv` dates the data: what a core may read is of a call no
older than the other's oldest during its own. `MailInv` says that a message a core is
about to clear has been received and that nothing is sent before. `TableInv` has one
core inside at a time (`OneInside`), whose entry is still as it found it
(`SlotStands`), until two were in at once (`raced`).

`LibraryProofs`, for any number of requests, writers, threads, slots, descriptors,
names and numbers: `RequestsRelease`, `LogReadsBack`, `SocketsStayExact`,
`TreesStayAgreed` and `FieldsReadBack`. `HttpInv` ties the socket and the request's blocks to the step the
call is at, and says that of earlier requests only hosts and paths are left. `LogInv` needs what a writer has stored at the head (`AtHead`) and that it
is alone (`OneWriter`); the ring's arithmetic is in `RingArithmetic` and `RingMoves`,
free of remainders. `SocketInv` says of the threads in the lock, about to store a
descriptor or using a slot that they are alone there, and of each descriptor that
it is in a slot, on its way into one or closed, as long as no two calls met in a
window (`raced`). For JSON objects `TreesAgree` only says what a key answers now, and
after a removal that is the next pair with the key: `TreeInv` holds for each key an
increasing enumeration of the places of all its pairs, which carry, in this order,
the values queued for it; it says this of every object that does not dangle. That
the strings allocated are those of the pairs and those lost is an invariant beside
it (`KeysCounted`), which sums over both objects.

`FieldsReadBack` is about Protocol Buffers, for any width of a group, any field
numbers and any values in the range of their kind; the module is as `Wire` has it,
with `Group` = 128 as with the 4 of the run. `PbInv` says that each field lies in the
buffer where the one before it ends (`Laid`), and that a reader that has not failed
stands where its next field starts (`Reading`). Under it are the numbers: a varint's
groups and the bytes of a fixed integer are the digits of the value (`VarintIs`,
`FixedIs`), and the fold that reads them sums the digits up again (`GatheredIs`); a
byte of a field that is cut off is missing or marked, so that reading stops at the
end of the data (`ReadVarintBack`); and taking the sign off or putting it on, cutting
to 32 bits and zigzag undo each other on every kind's range (`CookedBack`).

`SerializationProofs`, for any length of text, any first capacity of a container and
any buffers: `JsonGoesThroughWhole`. `JsonExact` speaks of parses that are over, so the
invariant says what holds on the way. `ParserOk`: what the containers begun hold,
joined from the outermost in, is the text read, and then closers that were not
read, those of containers the end of the text closed (`TextRead`); the blocks live
are the blocks of what they hold (`HeldBy`); and what they give back on a failure is
all of that, as long as no string or finished container hangs on one of them
(`Stained`), since `parse_object` frees its keys and items but not what is in them.
`ValueArrives` is the step that counts: a value delivered takes the blocks it came
with, the arrays of a container that grows included, and leaves the other
containers alone. `WriterOk`: what is in the buffer, apart from commas, quotes and
blanks, is what is to be said of the value up to the generator's place, unless a
piece was dropped; and a buffer that may grow, and found the memory, drops none and
keeps its terminator inside (`Ample`, `Neat`), since among the doublings of a capacity
there is one that is long enough (`DoubledIs`).

In the same module, for any entities, filters, orderings and numbers asked for:
`AnswersAreThePage`. `ODataAnswers` speaks of a finished response; `OdataInv` says, of
each step of the call before it, whose array is worked on, how many are live and,
unless memory lacked, that it has what the steps so far ask for: first the entities
that match (`Chosen`), then the same in order (`SortedAs`), then the page of them
(`IsPage`). What is picked keeps its order (`PickedSelects`). Of the sort in place
two things are shown. With any options it moves entities and loses none
(`SameItems`), so the ids of the data stay those of its places, as `DataOk` says.
If all entities have what they are ordered by, `Precedes` is a strict total order, a
comparison leaves alike ones in their order (`Stable`), a pass brings what is last of
the rest to its end and leaves what is sorted behind it alone (`BubbledSorts`,
`PassSorts`), and after all of them no entity stands behind one it precedes
(`OrderedSorts`); its place is then its rank (`RankIsPlace`), and the page starts after
those skipped. A type's lists go their own way: `ListsOk` keeps that a key put in front
cuts off properties, never keys.

`MemoryProofs`, for any sizes, addresses, alignments, objects and requests.

* `ArenaHandsOutApart` and `ViewsStayWithin`: `MemoryInv` joins the two with types,
  because a view stays within its region only as long as regions stay where they
  are. Rounding an address up, whole elements and products are in lemmas free of the
  model.
* `PoolListExact` and `YoungListExact`: the properties speak of what a walk along the
  links meets, and a call changes links. `PoolInv` and `GcInv` say that there is a
  sequence without repetition whose members are linked in its order (`IsChain`, in the
  module `Chains`): of the free blocks, and of the objects that are allocated, whose
  back links mirror it. Taking out a member and putting one in front are lemmas about
  chains; `WalkGoesAlong` brings the result back to the walk.
* `TlsfStaysApart`: as long as the sizes asked for are alike, blocks can be cut only
  from the last one. `TlsfInv` says that the blocks tile the buffer in the order of
  the list, and that what callers hold is on it, before the last.
* `HeapStaysApart`: `HeapApart` speaks of the blocks a walk meets. `HeapInv` says that, until
  a split overran or a merge was made, there is a set `F` of free blocks such that
  the header is `Sound`: linked in the order of addresses, both ways, marked free,
  apart from one another and from what was granted, inside the buffer; `heap_used` is
  the sum of what was granted and, with the sum of what is free, at most the buffer,
  which is why the unsigned additions and subtractions do not wrap. `DefragSound`
  takes `F` through the merging pass one block at a time.

`ServiceProofs`, of the services of the tick for any timers, delays, periods and
entries: `TimerListExact`, `StoppedStaySilent` and `WalksMissNone` (action properties) and
`WatchdogReports`. `TimerInv` says that the started timers are a chain and where the walk
may stand on it; after a callback that stopped its own timer the walk is at a timer
that is no longer on the list, whose link still leads into it unless the place is
`lost`; and a timer that still waits to be fired in this walk is ahead of where the
walk stands (`WaitersAhead`), which every call of a callback has to keep. `WdtInv` says that an entry is as old as its thread
is silent (`Mirrors`, but for threads registered twice), and in a round who was late
when it began and which of those the supervisor has passed (`RoundOf`).

`DeviceProofs`, for any threads, handles, buses, speeds and depths of queues:
`BusesStayExact`, `WifiTellsTruth` and `BleStaysInStep`. `BusesExact` speaks of the drivers at
rest and of transfers; `BusInv` says what holds in between: a handle has one call,
which finds its slot as it left it (`OneCall`, `SlotStands`), and the buses that are
up are those of the devices neither being opened nor being closed (`Settled`), one
each, at the speed of the table. `WifiInv` and `BleInv` speak of states that are not
reached yet: what `wifi_state` will be when the call in progress has stored its value
and the waiting events have been handled is always what the radio is (`Told`); and a
change of BLE link the manager has not heard of is in the queue of callbacks or in
the queue of events, of which only the last one counts (`Ended`).

Assumptions: the named `ASSUME`s of the modules, which TLC evaluates on every run. The
depth is at least 1, the TCBs are not the null pointer, at most 255 nested locks,
two cores that meet, a log ring, a socket table and a watchdog table that are not
empty, no descriptor 0, no speed 0, an arena's own alignment above 0, finitely many
timers and objects, a link that cannot be taken for data (`pool.c` has no such
mark: it is how the model tells whose word it is), a heap larger than one header,
smaller than the width of `size_t`, and requests of at least 1 and at most its size;
a first capacity of a container
and of a growing buffer that is not 0; groups of at least 2 values, enough of them for 32 and 64 bits, field numbers of 32
bits and values that the parameter of the function for their kind can hold; entities
that have a number, 0 for one that lacks the property, for what they may be ordered
by, and numbers asked for that are not negative.

Induction. The library's induction theorems take a predicate, which the provers
cannot instantiate; `Chains` states instead that a set of naturals has a least
element (`LeastNatural`, from well-foundedness) and derives induction for a set
(`InductionTo`). So a recursive function is shown to be what it should be by naming
the set of arguments for which it is.

Only model-checked. Liveness (`SleepersWake`, `ForemostRuns`, `LetGo`, `RendezvousEnds`), which rests on ENABLED. `EdfReads`, as `Edf` nests its values by
recursive operators.

## 5. Findings

Seven places where the code does not do what a document, a comment or a test says
of it (`findings` in `PROJECT.json`): the ISR-safe queue (`mq.c:37`), preemption by
priority (`scheduler.c:116`), full mutex support (`ipc.c:34`), roots that are always
live (`gc.c:176`), the atomic spinlock (`shared_memory.c:149`), the sorted free list
(`shared_heap.c:116`), and strings in double quotes (`json.c:369`).

Four hazards have no property, for the reasons given with them: threads created
by two threads at once (`thread.c:31`), joining a thread of lower priority
(`thread.c:110`), waiters on a mutex or semaphore that nobody wakes (`ipc.c:49`), and
timer calls that the tick interrupts (`timer.c:24`).

## 6. Not modelled, and what is left

Not modelled, because there is no state of the program to follow: platform code
other than the M33's tick and switch (registers and assembly), the ABI tables
(constant tables; the entries for `mp_tlsf_alloc` pass it a size where it takes a
heap and a size), the boot loader and the demos (straight-line code), the shell
and the fault handler (text output). Functions that are stubs in the code have no
actions: JSON files, messages of EDF and of Protocol Buffers. Left out of
modelled parts: escapes, white space and the digits of numbers in JSON; OData
navigation, functions, batches and text; what is sent over sockets, radio and
buses; the start-up handshake of the two cores and the wake-up of the other, which
write registers; `mp_sched_remove_thread`, which nobody calls; finalizers, pinning,
dump and validation of the collector; statistics.

What a next step would add, most important first.

1. `Scheduler` with `join` and two creators at once; `Timer` with calls that a tick
   interrupts.
2. Aligned requests and the table of tracked allocations of `SharedHeap`.
3. A theorem for `EdfReads` without arrays and objects, on the lemmas about `Wire`.
