# A verification of the NodeFlight firmware

NodeFlight is firmware for flight controllers on STM32 microcontrollers, on top
of FreeRTOS. A configuration file on a disk names modules and how they are
connected; `main_task` reads it line by line, each line starts a module, modules
connect to each other through variables and are run by schedulers. This
directory has TLA+ models of its core and of the drivers and protocols in which
tasks, interrupts and time meet, the TLC configurations that check them on small
instances, and proofs, which TLAPS checks, of what the scheduler, start-up, the
clock and all of these drivers and protocols promise for instances of any size.

All source paths below are relative to the repository's `src/`.

## 1. The system

### Parts, state and operations

| Part | State | Operations | Interaction |
| --- | --- | --- | --- |
| Scheduler, `core/scheduler.c` | list of schedulers, each with a period, a list of pools of clients, `clients_initialized`; one mutex | `sc_define`, `sc_configure_source`, `sc_register_client`, `sc_init_clients`, `sc_trigger`, `sc_task` | modules define and register during start-up; interrupts and tasks trigger; one task per scheduler runs the clients without the mutex |
| Start-up, `core/main.c` | `sc_is_enabled` | read configuration, `vr_connect`, `sc_init_clients`, enable | calls all of the core, in `main_task` |
| Configuration, `core/config.c` | ring of file names to read | `cf_init`, `cf_process_line` | a line starts a module, or includes a file |
| Variables, `core/variable.c` | registered variables, pending relocations, the pointers of the modules | `vr_register`, `vr_request`, `vr_connect` | modules in any order |
| System time, `platform/stm32f*/systime.c` | hardware counter, `systime_high` | timer interrupt, `systime_get_runtime` | any task reads while the interrupt runs |
| UART, `platform/stm32/peripheral/uart.c` | receive and transmit rings, interrupt enables, task notification | `uart_rx_read`, `uart_tx_write`, interrupt handler | one reader, writers that exclude each other, one interrupt handler |
| NFCP, `module/nfcp` | session id and its end, receive and transmit buffers, recursive mutex | `nfcp_task`, its classes' operations, a log handler | host over a serial port; log handler in `log_task` |
| Log, `core/log.c`; stdout, `module/mgmt/stdout.c` | bounded queue, list of handlers | `log_println`, `log_register`, `log_task` | every task prints; handlers run in `log_task` |
| FPort, `module/rc_io/fport.c` | frame being received, channels, loss of signal | its task | serial port; triggers a scheduler whose clients read the channels |
| SD card, `module/mgmt/sdcard.c` | job queue, phase of the card, chip select, bus speed | calls through `core/disk_access.c`, the card's task | callers wait for a notification with the result |
| SPI and motion sensor, `spi.c`, `motion_mpu6500.c` | transfer in progress, notification word of the task | transfer, two interrupts, sensor task | the end of a transfer and a sample are bits of one word |
| Timers, DMA, servo, `sch_timer`, `sch_decim` | configuration of a timer, update and completion flags, pulse values, counter | configure, the shared interrupt handlers, run of a client | channels share a timer, timers a vector, streams a flag register |
| Module loader, resources, peripherals, interfaces | counts of allocated resources, templates, interfaces | `md_init_mod`, `if_create`, `rs_allocate`, `map_set` | `main_task` only, driven by the configuration |
| Libraries, `lib/` | buffers of the caller, a chunked map | hdlc, crc, map, strops, pack | called everywhere |

`PROJECT.json` lists every part, the ones left out too, with the reason.

### What is hard

* `sc_task` walks the client pools without the mutex, while other tasks may
  register, grow the pools, and initialise.
* Interrupt handlers and tasks share rings, counters and flags without locks.
* Notifications are bits that stay set: a wait can end for a reason that is past.
* Start-up has an order (register, connect, initialise, enable) that the running
  tasks rely on, with error returns that callers ignore.
* Queues are bounded, and not all of them are tested for being full.
* Tick and microsecond counters wrap.

The hazards in `PROJECT.json` name the lines.

### What makes each part correct

Scheduler: only complete and initialised clients are run, each is initialised
once, no registration is lost, no trigger is lost, all calls return.
Configuration: every included file is read, in order, as long as no more are
pending than the queue has places. Variables: no pointer is ever
set to another variable than the one requested, and an enabled system has those
set whose variable exists. Time: the value read is one the clock had during the
call (it wraps after 71 minutes). UART: received bytes are read once and in order,
every written byte is sent, new bytes in the order of writing (old ones may be
sent again), no lost wakeup. NFCP: frames of two tasks never mix, an empty reply
tells the host that its session was kept, and a silent session is closed but not
before its time-out. Log: every line reaches every handler. FPort: only frames
that were sent are published, whole, and silence is noticed. SD card: a call
returns the result of its own job, unless the card never leaves its idle state,
and the card is left deselected whatever failed. Sensor: the outputs are one sample, and no sample
waits for ever. Timers: what shares a timer, a vector or a flag register does
not disturb its neighbours. Start-up: an enabled system has only interfaces of
the right type that share no pin. Libraries: loops that work in place lose
nothing, and what is written can be read.

## 2. Modules

| Module | Models | State and actions |
| --- | --- | --- |
| `Scheduler` | `core/scheduler.c`, and the calls of `main_task` | One `pc` per caller of the API and one `tpc` per scheduler task. A pool list is one function from slot numbers to records (init, run, storage) of which the first `pools[s] * PoolSize` exist; each field is written by a step of its own. The mutex is taken and given as in the code; `sc_task` has no guard on it. |
| `MCScheduler` | constants for TLC | |
| `SchedulerProofs` | proofs about `Scheduler` | |
| `SerialPort` | what `if_serial_s` promises a reader (`core/interface_types.h`) | abstract: bytes arrive, are taken in order, and a delimiter ends a read |
| `UartRx`, `UartProofs` | `uart_rx_read` and the receive half of the interrupt handler | the ring, both indices, the notification; the reader's loads and stores are separate steps; it implements `SerialPort` |
| `UartTx`, `UartProofs` | `uart_tx_write_irq` and the transmit half of the handler | the ring, TXEIE, the writer's local copy of the tail; the handler may run between any two accesses |
| `MCUart` | both halves for TLC | a behaviour is one of the half it chooses first: they share no variable |
| `Config` | `cf_init`, `cf_process_line` | the path ring; the lines of a file are chosen as they are read, up to a bound, after a fixed prelude |
| `Map` | `lib/map.c` | operators on a sequence of chunks; a place is found by the loops' order |
| `Variable` | `core/variable.c` | registered names, the relocation lists, every module's pointer; an index may be negative and is kept modulo its width in a relocation |
| `Boot`, `MCBoot`, `BootProofs` | `main_task`, `core/module.c`, `core/interface.c`, `core/peripheral.c`, `core/resource.c`, `core/disk_access.c`; composes `Config`, `Map` and `Variable` | `curarg` walks the arguments of a `mod` line, `todo` the calls of the module's init; a kind of module is described by its declared arguments and what its init does |
| `Systime`, `TimerProofs` | `systime.c` of both ports | counter, pending update flag, high part; a reader with one step per access |
| `Log` | `core/log.c` | queue, list of handlers, `log_task`'s walk |
| `Nfcp`, `NfcpProofs` | `module/nfcp`, `module/mgmt/stdout.c`, composed with `Log` | `nfcp_task` and the log handler as two processes; tick counter that wraps; recursive mutex; one shared transmit buffer |
| `Spi`, `Mpu6500`, `Mpu6500Proofs` | `spi_transfer` and its interrupt handler; `motion_mpu6500.c` over it | the counts of bytes left, both FIFOs, the task's notification value and state; the sensor shifts bytes and drives its pin; wait, transfer, conversion and trigger are steps of the task |
| `SdCard`, `SdCardProofs` | `module/mgmt/sdcard.c`, `core/disk_access.c`, the lock of `ffsystem.c` | callers, job queue, the task's command sequence with every error path; the card may answer anything |
| `Hdlc`, `HdlcLoops` | what `lib/hdlc.c` returns, as recursive functions; its loops | a step is a round of a loop, with the code's variables; a packet is stuffed, delivered and unstuffed, or any bytes are unstuffed |
| `FPort`, `FPortProofs` | `fport.c` with a client of its scheduler, over `Hdlc`; the proofs are about `HdlcLoops` too | bytes of three bits on a line that loses or adds some; the buffer, the two groups of outputs written one by one |
| `Dma`, `Timer`, `MCTimer`, `TimerProofs` | `resource/dma.c`; `peripheral/timer.c`, `servo.c`, `sch_timer.c`, `sch_decim.c`, `uart_tx_write_dma` | flags of streams and timers, handlers that run to their end, tasks that run when no interrupt pends |
| `Lib`, `MCLib` | `Lib` composes `HdlcLoops` with `strops_split_argv`, `strops_argv_dup`, `crc16`, `sdcard_crc7`, the unpacking of channels in `fport.c` | one call at a time; indices count as in the code, a step is a round of a loop. `MCLib` gives `Lib` its bounded inputs and checks `Systime` beside it, in behaviours of its own |

`UartProofs` is about two models and `TimerProofs` too. Where two modules meet in
one module of proofs, their variables differ in name, and the definitions of
`UartRx`, `UartTx`, `Systime` and `HdlcLoops` that every specification has begin with
`Rx`, `Tx`, `St` and `Hdlc` (`RxInit`, `StNext`, `HdlcTypeOK`).

Definitions have the names of the C functions where one action is the function;
where a function is several steps, they have a prefix of its name.
A few operators directly before an action are variants of it with a plausible
mistake in them; `PROJECT.json` ("mutants") says which property each must break.
No specification uses them.

Abstractions. A client, a file, a session id is a model value or a small number.
Texts, formatting, timing statistics and scaling to floating point are left out;
CRCs are computed in `Lib` only. Allocation fails nondeterministically in
`Scheduler`, where the error paths are interesting; in the other models it
succeeds. An access to a variable of word size is one step.
In `Nfcp` a log handler called before its storage is assigned reads an arbitrary
value, as the memory is uninitialised.

## 3. Runs

| Run | Bounds | Shows |
| --- | --- | --- |
| `scheduler_boot` | 2 schedulers, 2 clients, one pool of 2, only `main_task` calls; periods -1 (invalid), 1 and 2 | `EnabledMeansReady`, `TriggerRunsClients`, `CallsReturn` |
| `scheduler_api` | 2 schedulers, 3 clients, 2 pools of 2, two callers at any time | `RunsInitialisedOnly`, `PassReachesAllClients`, `InitAtMostOnce`, `RegistrationsKept` |
| `uart` | receive ring of 8, 9 bytes, buffers of 2 and 8; transmit ring of 3, writes of 1, 2 and 4 bytes, 8 in all | `ImplementsSerialPort`, `NoLostWakeup`, `SentInOrder`, `WrittenIsSent` |
| `boot` | after a prelude of 5 lines, any 4 lines out of 21 in files of two volumes; path ring of 3, chunks of 2, 6 kinds of module, 6 resources, indices of 2 bits, among them -1 and one that does not fit | `ReadsAllWithinCapacity`, `ResourcesAccounted`, `LatestTemplate`, `EnabledInterfacesFit`, `PointersAreRequested` |
| `boot_unresolved` | those of `boot` | a violation of `EnabledPointersResolved`: what `scheduler.h:44` says of `sc_enable` |
| `nfcp` | 2 session ids, 2 log lines, queue of 1, time-out of 1 tick, ticks modulo 4 | `FramesIntact`, `RepliesTellSession`, `NotClosedEarly`, `SilentSessionCloses`, `LinesReachHandlers` |
| `nfcp_close` | those of `nfcp` | a violation of `ZeroCloses`: what `docs/nfcp.md:202` says of session id 0 |
| `mpu6500` | bursts of 5 bytes, FIFOs of 2 and 3, 4 register writes, sample numbers modulo 3 | `OutputsAreOneSample`, `TransfersSeparate`, `SamplesAreRead` |
| `sdcard` | 2 callers, reads of up to 2 blocks, queue of 2, 2 retries | `BusFollowsPhase`, `ReturnsOwnResult`, `CallsReturn` |
| `fport` | 3 frames, 1 byte lost or added, buffer of 11, up to 2 bytes unread | `PublishedWereSent`, `FaultsCostTwoFrames`, `ClientSeesOneUpdate`, `SilenceReachesClient` |
| `timer` | 2 timers on one vector, a servo with and one without DMA, `sch_timer`, factors 0 and 2, 2 streams, 3 bytes in a buffer of 2 | `TransfersWhole`, `DecimationExact`, `AllServed` |
| `lib` | packets and received bytes of up to 4 out of 5 bytes, with the characters of `hdlc.h`; lines of up to 2 words, 2 messages with up to 3 (crc7: 2) changed bits, every bit of the channels; counter of 3 and high part of 3 | `HdlcCorrect`, `WordsSplit`, `CrcRejects`, `ChannelsUnpacked`, `ReturnsTimeOfCall` |

Why the bounds are enough. Two pools of two make a client the first and another
the last of a pool, let a pool be added while a task is at the end of the list,
and leave a slot free. A receive ring of 8 is the smallest whose "nearly full"
differs from full, and 9 bytes wrap both indices. A ring of 3 paths holds 2, so
both sides of the limit occur, and chunks of 2 make the templates of the prelude
need several. Four free lines are enough for a template that is replaced after
its use, an include, a module whose variable comes later and one whose second
resource is taken. A burst longer than the FIFOs makes the handler run several
times, and a transfer's wait can swallow the sensor's bit. Three frames and one
fault leave a frame before and one after the fault. Two timers on one vector and
two streams in one register are the least that can disturb each other. The
loops of `HdlcLoops` treat bytes of a kind alike, and four bytes let escape
sequences meet each other and both ends of the buffer; two words give every pair
of neighbours, and a checksum is linear, so that the message hardly matters.
Two session ids let one session replace another; 4 ticks wrap between any refresh and its time-out; a queue of 1 fills with the
second line. Symmetry is used only in runs without liveness properties.

What holds, in words: see the comment above each property. Some properties are
conjunctions of named parts (`EnabledMeansReady`, `NoLostWakeup`,
`PointersAreRequested`, `ReturnsOwnResult`, `TransfersSeparate`,
`AllServed`, `HdlcCorrect`, `TransfersWhole`). `TypeOK` of a module documents its
state and is the first part of an inductive invariant where there is a proof; the
runs do not list it.

### Fairness

* `Scheduler`: weak fairness of every scheduler task (its priority is above
  `main_task`'s and the run callbacks return) and of a caller inside a call.
  Nobody must call or trigger.
* `MCUart`: the reader calls `uart_rx_read` again and again, as the loops of
  `fport_task` and `nfcp_rx_packet` do, and runs when ready. No timeout is
  assumed to expire, so a lost wakeup would be seen.
  The writer runs and the transmit register empties.
* `Mpu6500`: the bus shifts, its interrupt is taken and the task runs; its wait
  ends with its timeout at the latest. The sensor need not have a sample. `Spi`
  also assumes (`ReadInTime`) that the interrupt is never held up for as long as
  the receive FIFO takes to fill: the hardware would go on and lose a byte,
  `spi.c` handles no overrun, and `spi_transfer` would wait for ever.
* `SdCard`: the card's task and a caller that was answered run. Nothing is assumed
  of the card: `CallsReturn` says that every call returns, or from some time on
  the task does nothing but repeat ACMD41 (`sdcard.c:443`, a loop without a
  bound) because the card says that it is idle. The lock need not be granted to anyone in particular.
* `FPort`: both tasks run, and a read returns with its timeout. The line need not
  send.
* `Timer`: timers and streams run and interrupts are taken. The tasks are
  strongly fair, since every interrupt disables their steps for a moment.
* `Nfcp`: both tasks, strongly, because they compete for a mutex that each gives
  back and then waits for input before it takes it again; ticks go on. The host
  need not send and nobody must print.

### Observations made while modelling

Where the code does something else than a document or a comment of the repository
says:

* `scheduler.h:44` says of `sc_enable` that all pointers are resolved before, and
  `variable.c:150` that a source that is registered has no relocation left. But a
  request that fails is ignored by the modules, and a relocation that fails is
  taken off its list (`variable.c:195`): the schedulers may be enabled with a NULL
  pointer. `boot_unresolved` shows it; `PointersAreRequested` is about the pointers
  that are set and those whose variable exists.
* `docs/nfcp.md:202`: session id 0 closes the session. The code answers it with an
  error and keeps the session (`nfcp_cls_mgmt.c:153`), so that a later request with
  the old id gets the empty reply. `nfcp_close` shows it; `RepliesTellSession` is
  about sessions that were reset, not about one the host meant to close.
* `docs/nfcp.md:190`, step 5 of the start of a session: the client sends an abort
  sequence before its reply. The code sends one only if a session was open, as
  part of its reset.
* `docs/nfcp.md:200`: a session ends after 3 s. The code has 5 s (`nfcp.c:57`). The
  time-out is a constant of `Nfcp`.
* `systime.h:42`: the clock wraps after about 25 days. It counts microseconds in 32
  bits and wraps after 71 minutes. `ReturnsTimeOfCall` is a statement modulo this
  range: of two calls, the later returns the smaller number if the clock wrapped
  between them.
* `dma.c:136`, "Any missed flags will be taken next IRQ": the flags of a stream are
  shifted but not masked, so that a handler clears the completion flags of higher
  streams of its register too, and their own handlers find nothing. `AllServed`
  says that the users of the model get done all the same: the writer of a serial
  port polls the stream, and the update of a pulse that is lost is made at a later
  completion.
* `uart.c:412`: the handler says that it cannot be reached with an empty ring. It
  can: the writer enables the interrupt after the handler has sent its last byte,
  and the old contents of the ring are sent again. `SentInOrder` and
  `WrittenIsSent` show that nothing new is lost or reordered by it.

What a reader of the code may not expect, and the models say:

* `uart.c:351`: a notification of bytes that were already read ends the next
  wait, and `uart_rx_read` returns 0 without a timeout. FPort (`fport.c:232`)
  takes this for a loss of signal; `FPort` lets any read return nothing.
* `uart.c:394`: the receive interrupt does not test for a full ring. The model
  assumes that the reader keeps up, as the code does.
* `config.c:97`: a full ring of pending includes looks like an empty one. Lines
  longer than `LINEBUF_SIZE` are read as two, and the 32 words of a line are not
  counted.
* `variable.c:222`: the index of a request may be negative, `rc.-1`. If the source
  is registered, the type and the pointer are read from before its arrays; a
  relocation keeps the index in 16 bits without a sign. `Variable` leaves such a
  pointer NULL or sets it to anything, and nothing is claimed of it.
* `config.c:88`: a module named `-` has no name, which modules with outputs pass
  on to `vr_register`.
* `resource.c`: `count_allocated` has 8 bits and `count_avail` 16.
* `interface.c:53`: what was allocated before a failure stays allocated.
* `disk_access.c`: nothing calls `disk_access_init`.
* `motion_mpu6500.c:268`: the bit that a transfer's wait left in the notification
  value is seen again by later waits that time out: a sample may be read twice.
* `sdcard.c:508`: `card_available` is never reset.
* `nfcp_cls_mgmt.c:125`: the log handler is registered before its storage is
  assigned; `Nfcp` reads an arbitrary value there. Line 243: a log message may
  follow the abort sequence that closed its session.
* `scheduler.c:265`: init callbacks run with the mutex held and must not use the
  scheduler's API. None does.
* `hdlc.h`: the values named XON and XOFF are 0x17 and 0x19.
* `fport.c`: channel 17 and frame lost are read from the same bit; line 302 tests
  the length where the comment means the type.
* `timer.c`: a vector reads the flag of a timer that was never configured through
  a NULL register pointer, and a second interface of a channel replaces the first.

## 4. Proofs

`TypeOK` and the safety properties of the passing runs are theorems of the
specifications for every value of the constants, but for the exceptions at the
end of this section. Each module of proofs has an inductive invariant, most often
called `IInv`, where the property is not inductive itself, lemmas about the
operators of the model, one lemma per action or per conjunct an action can
disturb, and the theorems.

| Module | Theorems | For any |
| --- | --- | --- |
| `SchedulerProofs` | `TypeCorrect`, `RunsOnlyInitialised`, `PassesComplete`, `InitialisedOnce`, `RegistrationsStay`; `ReadyWhenEnabled` | number of callers, schedulers, clients, pools; the last with `main_task` as the only caller |
| `BootProofs` | `TypeCorrect`, `ReadsAllCorrect`, `AccountCorrect`, `TemplateCorrect`, `InterfacesCorrect`, `PointersCorrect`, and `SetGet` about `map_set` and `map_get` | files, lines, kinds of module, resources, variables; length of the ring, of the chunks, width of counts and indices |
| `UartProofs` | `TxTypeCorrect`, `SentInOrderCorrect` | size of the ring, lengths of the writes |
| | `RxTypeCorrect`, `PortImplemented` | size of the ring, sizes of the reads, line |
| `NfcpProofs` | `TypeCorrect`, `FramesCorrect`, `RepliesCorrect`, `TimeoutCorrect` | session ids, width of the tick counter, time-out, log lines |
| `SdCardProofs` | `TypeCorrect`, `BusCorrect`, `ResultsCorrect` | callers, length of the queue, retries, blocks |
| `Mpu6500Proofs` | `TypeCorrect`, `OutputsCorrect`, `TransfersCorrect` | depth of the hardware's buffers, length of a burst, number of register writes |
| `TimerProofs` | `StTypeCorrect`, `RuntimeNotTorn` | width of the counter and of the high part |
| | `TypeCorrect`, `TransfersAreWhole`, `DecimationIsExact` | timers, vectors, channels, streams, users, factors, size of the buffer, width of the counter |
| `FPortProofs` | `HdlcTypeCorrect`, `HdlcIsCorrect` | bytes and lengths of packets, special characters |
| | `FPortTypeCorrect`, `ClientSees`, `FaultsCost`, `FaultlessPublishes` | number of frames and faults, bytes of noise, cuts by reads, size of the buffer, special characters |

### Assumptions

Constants have the named assumptions of the modules. Most of them are ranges:
`PoolSize` is at least 1, rings have at least two slots, periods are integers,
NULL is no client, caller or name. `Wild` (`Variable`), a pointer from before an array,
is neither NULL nor a variable; indices are any integers. These say more:

* `LinesAssumption` (`Config`) and `KindsAssumption` (`Boot`) give the form of the
  configuration: an `inc` line names a path, a `per` line a template; a module
  gives a period only to a scheduler among its arguments, has a link where its
  init expects one, and has a name if it has outputs. The code does not test the
  last: `vr_register` would be called with no name.
* `TickAssumption` (`Nfcp`): the session's time-out is less than half the range of
  the tick counter, which the comparison at its end needs.
* `HandlerAssumption` (`Nfcp`): the log handlers are those of `nfcp` and `stdout`.
* `CountAssumption` (`Boot`): what there is of a resource fits the width of its
  count.
* `StreamsApart` (`Timer`): no channel of a timer has the stream of the serial port.
  A stream is a resource of which there is one, and `BootProofs` shows that
  nothing allocates it twice (`AccountCorrect`).
* `HdlcAssumption` (`Hdlc`): the boundary and the escape character differ, and no
  special character becomes a boundary by the bit that is flipped: true of the
  values in `hdlc.h`.
* `ByteAssumption` and `PacketAssumption` (`FPort`): what is on the line are bytes,
  flipping a bit leaves them bytes, and the buffer has room for a control frame
  all of whose bytes are escaped, and its boundary (`FPORT_RX_MAX_PACKET_SIZE` is
  64). The other constants are numbers (`BoundAssumption`).

Bounds remain where a model has them in its guards: a request takes a free
pointer of `Targets`, `UartTx` writes up to `MaxWritten` bytes, `UartRx` receives up
to `MaxBytes`, and so on. The theorems hold for every bound. `UartRx` assumes a
reader that keeps up, as in section 3, `Spi` an interrupt that is not held up
(`ReadInTime`), and `Systime` a reader's pass that is
shorter than a whole round of the high part.

### The inductive invariants

**Scheduler.** Exactly the caller in a critical section holds the mutex
(`MutexInv`); a slot is empty, complete, or being written by the caller registering
it (`SlotInv`); slots are filled from the first on and only in pools that exist
(`FilledInOrder`), which is why the client to be initialised next is in the slot
whose number is `clients_initialized`; a client has one slot (`OneSlot`);
`clients_initialized` counts exactly the initialised ones but for the one a
caller is about to count (`CountInv`); what a caller knows between its steps
(`CallerInv`); a pass never goes beyond the count it read, which only grows
(`PassInv`). `EnabledMeansReady` is about `main_task` and is false if another task
may register during the initialisation. `ReadyWhenEnabled` therefore has the
hypothesis `Callers = {Main}`, which is what the code does, and uses `BootInv` on
top of `IInv`: a scheduler that `sc_init_clients` has passed is ready; a client
was initialised with the period that stays in force, because a source is refused
once a period is set (`PeriodUnset`, `InitialisedWithPeriod`); nothing is called
after `sc_init_clients` but `sc_enable` (`ReadyAfterInit`).

**System time.** How far the high part is behind the counter while the interrupt
pends (`HighFollows`), how many overflows the present pass of the reader has seen
(`PassCounts`), and that a low part read without one belongs to the high part
(`LowBelongs`).

**Start-up.** One part per component. *Configuration*: as long as the ring was
never full, the slots between head and tail are the paths queued and not yet
loaded, in order (`QueueHolds`). *Map*: all elements come before the
first free place (`IsMap`), so that the loops, which end there, pass every element;
from it follow `SetGet` (after `map_set` a key has the new value and no other
changes) and that the map of templates holds for every tag the last one read
(`MapHoldsLatest`). *Resources*: a
count is the number of places of its resource in the interfaces (part of
`ResourcesAccounted` itself, with `UsesFinite`), also when an allocation fails half-way.
*Interfaces*: one that does not fit its module ends in an error, and a second one
of a serial port is refused (`InterfacesFit`).
*Variables*: a request is answered with what it names, or there is a relocation for
it (`RequestsAnswered`), and relocations are only of sources that `vr_connect`
visits (`RelocsRequested`), which is why an enabled system has none left over. A
request that names nothing is answered by leaving its pointer NULL.
`PhaseInv` ties these to the steps of `main_task`. Where a fact about all numbers
up to one is needed (the first place of a key, the first free place), the proof
takes the least number that violates it (`MinOfNats`).

**UART, sending.** The handler may run past the tail and send old bytes again, so
that "head to tail is what is left to send" is not invariant. The proof follows
the age of the slot that the head points to: the ring holds the last `Size` bytes
each in the slot of its age (`Contents`); all bytes older than the head's slot were
sent (`HeadInOrder`); and when the writer is about to store, a head that equals the
tail means that the ring is empty and never that it is full (`EqualMeansSent`).

**UART, receiving.** `PortImplemented` is the refinement of `SerialPort`: initial
states map to initial states and every step of `UartRx` is a step of `SerialPort` or
a stutter. It needs that the slots between tail and head are the bytes that
arrived and were not taken (`RingHoldsLine`), that the byte in the reader's hands
is the next one of the line (`Loaded`), and that a read that goes on has taken no
delimiter (`NoDelimiterYet`).

**NFCP.** Which steps of the two tasks hold the recursive mutex and how often
(`MutexHeld`); between a task's take and its send the buffer is its own
(`BufferOwned`); the session `nfcp_task` has and the one the host can tell from
the replies agree at every step but those that are about to tell it
(`SessionShown`); until the time-out is over, the end of the session is as many
ticks ahead as the last refresh put it, less the ticks since (`EndAhead`, in the
arithmetic of the counter).

**SD card.** The lock of the volume admits one caller (`LockHeld`), so that there is
at most one job, in the queue or in the task's hands (`OneJob`); its caller waits
with no notification pending (`Outstanding`), and a caller that waits has a job with
the driver or its result (`Waiting`). That is why a notification can only be the
one of the caller's own job. `Phase` says for every step of the task which kind of
job it belongs to and which bus speed and chip select it has, `Reading` and
`ReadDone` what is in the caller's buffer.

**SPI and sensor.** The proof counts the bytes of a transfer: those that the task
still waits for are the ones not yet written, being shifted, or received and not
yet read (`Transfer`). The completion is notified by the last of them, and then
nothing is left in the hardware (`Quiet`), which makes a late bit harmless. The
bytes of a burst are those of the sample it began with (`OneBurst`,
`BufferComplete`, `WholeOutputs`).

**Timers and DMA.** Flags and interrupts are only those of streams (`DmaTypes`). For `TransfersWhole`: the byte the stream moves next is the one after those it has moved, and the transfer in progress ends with the
last byte written (`InStep`); the writer only starts a stream that is disabled
(`WriterWaits`); and a completion that waits for its handler means that nothing is
under way which the handler, which disables the stream, could cut short
(`NoLateCompletion`). For `DecimationExact`: the runs since the last trigger and
those counted down add up to the factor (`CounterRuns`), which the width of the
counter does not disturb (`WrapWithin`).

**Byte stuffing.** Both loops work in the buffer they read. *Stuffing* runs
backwards: the bytes up to `rd` are still those of the packet, those from `wr` on are
already the frame's, and `wr` is where the frame of the bytes to be read will
end (`Stuffing`), which is never below `rd` (`StuffedLength`). *Unstuffing* runs
forwards: the first `wr` bytes are what those before `rd` stand for, `wr` is at
most `rd`, and no escape sequence is open at `rd` (`Unstuffing`). `RoundTrip`, the
second part of `HdlcCorrect`, follows from these and from a fact about the
functions alone: at the end of each byte's part of a frame, unstuffing has got as
far as that byte (`UnstuffsTo`).

**FPort.** `ClientSeesOneUpdate` needs that a client above the task has run to its
end before the task goes on (`ClientIInv`). For `FaultsCostTwoFrames` the proof looks
at the text `t` that is made of the buffer, the port and the line, behind what was
taken out of the buffer, which ends at `o`. `Begins(t, o)` are the places from `o` on at
which a whole frame stands in `t`, behind a boundary or at its start. Frames
published and to be published, two for each fault and these places together are
at least the frames that were sent, and one more while what stands last in `t` has
no boundary (`LineIInv`, `Counted`): a byte lost or added is at the end of what has
arrived and spoils the frame it is in and the one behind it (`FaultBegins`); and as
the task takes bytes up to the next boundary, never beyond it (`ShapeIInv`), what
it takes has at most one such place, and is accepted if it has. Without faults the
frames stand in `t` one behind the other, and the buffer begins at the end of the
last that was taken (`WholeIInv`), so that what is published is a prefix of what was
sent.

### Induction

The library's induction theorems have an operator as a parameter and are out of
reach of the provers. Facts about all numbers up to one are proved by taking the
least number that violates them: `MinOfNats` in `BootProofs`, `LeastOf` and `UpTo` in
`FPortProofs`. In the same way the recursive functions of `Hdlc` and `FPort` are
shown to exist and to satisfy their equations (`StuffedToRecursion`,
`UnstuffedToRecursion` and others), and what they compute for arguments of any
length is proved from the equations.

### Only model-checked

* All liveness properties: fairness and ENABLED are beyond the prover.
* `PublishedWereSent` when bytes were lost or added. It is not true of every
  instance: enough noise is a frame, and a lost byte may leave one whose checksum
  is right. `fport` shows that one fault does not; `FaultlessPublishes` proves it for
  none.
* `Lib`: `WordsSplit`, `CrcRejects` and `ChannelsUnpacked` are about bits and about the
  form of a line of text. `CrcRejects` is about distances of a polynomial code,
  which hold for bounded lengths only; `ChannelsUnpacked` is checked for every bit
  there is, so that there is no larger instance.
* The bytes of `FPort` have three bits and a control frame one channel, in the proofs
  as in the run: the scale of the model is part of its definitions.

## 5. Not modelled

* GPIO and the USB port: register writes, and calls into the vendor's stack,
  which is not in the repository. `tx_wait_done` of the UART: nothing calls it.
* The clock divider and pins of SPI, the layout of the timers' and streams'
  registers: what the hardware makes of them is outside the repository.
* The arithmetic of `module/math`, of the servo and the sensor: floating point,
  which TLC does not have. Their init functions are kinds of module in `Boot`.
* Conversion of words to numbers, comparison of words, big-endian packing.
* Heap, hooks, tracing, random numbers, fault handlers.
* Hardware maps: constant tables (about 2000 lines). fatfs and FreeRTOS: vendored
  or not in the repository; modelled as the code uses them.

## 6. Plan

All components of the plan are modelled, and every safety property the passing runs
check is a theorem but for those listed under "Only model-checked". What would come
next, in order of importance:

1. `WordsSplit`, for lines of any length: the loops of `strops_split_argv` have the
   form of those of `HdlcLoops`, and the same argument applies once they have a
   module of their own, without the operators on bits that `Lib` needs for the
   checksums.
2. `PublishedWereSent` with faults, under a hypothesis on them (one byte lost from
   a frame, say) under which the length and the checksum refuse every fragment.
3. A model of the loss of a whole ring by a reader that falls behind
   (`uart.c:394`), with what the protocols above make of it.
