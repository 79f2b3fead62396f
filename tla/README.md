# A TLA+ development of ST-LIB

ST-LIB is the C++20 firmware library that the boards of a Hyperloop pod share (STM32H7, no
operating system): drivers (`Inc/HALAL`, `Src/HALAL`) and, above them, state machines,
protections, fault handling and communication (`Inc/ST-LIB_LOW`, `Inc/ST-LIB_HIGH`). This
directory holds TLA+ modules translated from that code, TLC configurations that check them on
small instances, and theorems about them that TLAPS checks for every value of the constants.

Contents: 1 the execution model; 2 inventory of the system; 3 the modules and how they
correspond to the code; 4 the runs, their bounds and the fairness they assume; 5 what is proved;
6 where code and documentation disagree; 7 what is not modelled; 8 the plan; 9 conventions.

To check a run: `tlc -workers 2 -config MCScheduler_safety.cfg MCScheduler`.
To check the proofs: `tlapm SchedulerProofs.tla` (likewise the other `*Proofs` modules).

## 1. Execution model

One processor, one thread. The application's `main` initialises the board and then loops for
ever, calling `Scheduler::update()`, `ProtectionEngine::evaluate()`,
`FaultController::check_transitions()`, `Diagnostics::Hub::flush()`, `Server::update_servers()`
and the Ethernet poll. Concurrency has three sources:

- **Interrupts.** The scheduler's timer, captures, DMA, MDMA, SPI and SD completions, EXTI lines. An interrupt runs to
  its end while the main context stands still. A main-context call can be interrupted between
  any two of its accesses unless the interrupt is masked (`SchedLock` masks only the
  scheduler's own interrupt and does not nest).
- **Callbacks in main context.** lwIP is polled, so its TCP callbacks run one at a time inside
  the main loop and never inside one of the library's own calls, except where lwIP itself calls
  back. Scheduler callbacks, state-machine actions and diagnostic sinks call back into the
  library (a cyclic action may register tasks or raise a fault).
- **Other boards.** FAULT orders travel over TCP connections that come and go.

Before all that there is a second program, which the compiler runs: a board's devices are constants
whose constructors check them, and `Board<devices...>` builds tables of pins, streams, timers,
buffers and memory regions in constant expressions. A request that cannot be served stops the
compilation. `Board::init` later turns the tables into register writes.

The models split a call into steps exactly where one of these can change what the call reads
later, and nowhere else.

## 2. Inventory

| Component | State it keeps | Operations | Interacts with | What is hard, and what makes it correct |
|---|---|---|---|---|
| **Scheduler** `Services/Time/Scheduler` | 16 task slots, a `uint64_t` that packs the queue of slot numbers, its count, ready and free bitmaps, the 32-bit tick, the running interval, the timer's registers | `register_task`, `set_timeout`, `unregister_task`, `cancel_timeout`, `update`, the timer interrupt | state machines' cyclic actions, SNTP, sockets' owners; its tick times protections, hub and fault retry | interrupt against calls; masking that does not nest; 32-bit wrap; slot reuse. No task is lost, fires late for ever, or fires after its end; the queue is in firing order; the timer is armed while anything waits |
| **FaultController** `Protections/FaultController` | the outer machine OPERATIONAL/FAULT, `faulted`, first cause, propagation targets and pending mask | `install_runtime`, `start`, `check_transitions`, `request_fault`, `register_fault_propagation`, order reception | state machine, sockets, hub | faults at any time, also in the middle of a state change and before the runtime exists. FAULT is entered once, for its first cause, stops the application's actions, and every peer is told once |
| **StateMachine** `StateMachine.hpp` | current state, nested machines, registered cyclic actions per state | `start`, `check_transitions`, state change (exit, enter, register timed actions) | Scheduler, FaultController | re-entrance from predicates and actions; running out of scheduler slots half-way |
| **Diagnostics hub** `Services/Diagnostics` | history ring, pending queue with a delivered mask per record, sinks, throttle times | `publish`, `emplace_sink`, `flush`, `flush_urgent` | everything that reports; UART and TCP sinks | sinks that fail; eviction during a flush; interrupt handlers that publish. Nothing is lost except by a full queue, nothing is sent twice, order is kept |
| **Protections** `Protections/*` | per rule: state, accumulated times; per protection: time of the last request | `evaluate`, `reset` | FaultController, hub, global tick | throttle that must not swallow; time that depends on the rate of evaluation; edges against state |
| **TCP client** `LWIP/TCP/Socket` | state, two control-block pointers, transmit queue, poll counter, pending reset | constructor, `send_order`, `add_order_to_queue`, `send`, `reconnect`, `reset`, `close`, seven lwIP callbacks | lwIP, order layer, FaultController | lwIP frees blocks and calls back later; partial writes; giving up and retrying. Orders keep their order, pointers never dangle, the socket recovers |
| **TCP server** `LWIP/TCP/ServerSocket`, `ST-LIB_LOW/Communication/Server` | one listening object, an array of sessions, objects with queue and control block | `update`, `broadcast_order`, `close_all`, `send_order`, lwIP callbacks | lwIP, order layer | objects created, handed over and deleted while clients come and go |
| **Order layer** `Packets/*`, `TcpOrderStreamParser` | tables of orders by id, receive buffer | parsing, serialising, dispatch of callbacks | sockets, SPI | a stream cut anywhere; unknown ids |
| **SNTP client** `Services/Communication/SNTP`, `Time/RTC` | server, counts, request and retry ids of the scheduler; the clock | `start`, `stop`, request, receive, timeout, retry | Scheduler, RTC, UDP | late, lost and repeated answers, refused timeouts. One chain of timeouts, and it ends |
| **MDMA** `Models/MDMA`, `Packets/MdmaPacket` | channel free map, stack of waiting transfers, lists of nodes | `build`, `parse`, `transfer_data`, `update`, completion and error interrupt | SD, packets | main loop and interrupt write one word. A request is kept until its caller has seen it end, and all of it is moved |
| **SPI driver** `Models/SPI` | HAL state, pointer to the caller's flag, `was_aborted` | blocking and DMA transfers of master and slave, `listen`, abort, recover, callbacks | HAL, DMA | calls against completions. A flag that is set speaks of its own transfer |
| **SD card** `ST-LIB_LOW/Sd` | two buffers, completion flag, the card | `init_card`, `read_blocks`, `write_blocks`, `get_current_buffer`, callbacks | HAL SD, interrupt | buffers switched against failure and completion. CPU and controller never share a buffer |
| **Board** `ST-LIB.hpp` | entries in declaration order, with their owners; configurations; instances | inscribe, `build`, `init`, `instance_of` | all domains | each owner gets its own instance, whatever stands around it |
| **Domains** `GPIO`, `DMA2`, `SPI2`, `ADC`, `DFSDM`, `TimerDomain`, `MPU`, and devices made of them | constant tables | checks, `build`, contributions to the DMA, `Init::init` | Board | several passes over several lists. Nothing is given out twice, and indices of one table agree with another's |
| **Timers, PWM, input capture** `TimerWrapper`, `PWM`, `DualPWM`, `InputCapture`, `TimerDomain.cpp` | the registers of a timer, shared; objects per output; what a capture last read | `turn_on`, `turn_off`, `configure`, `set_duty_cycle`, `set_timer_frequency`, `set_dead_time`, `set_counting_mode`, the capture interrupt | Board | objects that share a period, a prescaler and a mode; edges while the interrupt runs |
| **SPI orders** `Services/Communication/SPI` | per peripheral: state of the hand-shake, queued orders | master/slave order exchange | order layer | the callback that drives it is commented out |
| **Flash storer** `FlashStorer`, `Flash` | a sector of variables | read all, store all | hard-fault trace | reset between erase and write |
| **Containers** `Inc/C++Utilities` | ring, stack, static vector, moving average | push, pop, index | most others | limits and wrap |
| Others: UART, I2C, FDCAN, inputs and outputs, EXTI, encoders, watchdog, CORDIC, FMAC, Ethernet glue | registers; a few counters | thin calls of the HAL | hardware | mostly hardware |

`PROJECT.json` gives the same list with sources and status, and, under `hazards`, every place
where something can go wrong that a test would hardly reach, with the properties that cover it.

Interactions that matter, and where they are modelled:

- cyclic actions of a state are scheduler tasks: StateMachine models which slots they take, and
  the refusal half-way that takes all of them back; FaultController sees that as all-or-PANIC;
  Scheduler models what becomes of a task;
- a fault enters FAULT, publishes a diagnostic and sends orders: FaultController (state and
  orders), DiagnosticsHub (the record, also from an interrupt), Socket (the order's way out);
- a protection in FAULT calls `request_fault`: Protections up to the call (`faulted`),
  FaultController from the call on;
- the global tick advances only while the scheduler has a task: Protections (`Elapse` may leave it where
  it is), DiagnosticsHub (`TimerToggles`) and FaultController (`TickRuns`) all let it stop;
- the SNTP client lives on `set_timeout`: Sntp uses what TaskLifecycle promises of it (an id, one
  call, late perhaps, or no slot at all);
- ADC, SPI and DFSDM devices add entries to the DMA domain, and everything adds pins: Board composes
  the domains as `Board::build` does and follows the indices between their tables.

## 3. Modules

| Module | Extends / instantiates | Models |
|---|---|---|
| `IdQueue` | | the packed queue of slot ids: insert, remove, pop on the word with stale nibbles |
| `Scheduler` | `IdQueue`, `TaskLifecycle` (refinement) | scheduler, its timer peripheral, interrupt, main loop |
| `TaskLifecycle` | | abstract: what the scheduler promises, one slot at a time |
| `SchedulerProofs` | `Scheduler` | eight theorems |
| `FaultController` | | fault runtime, nested machine and orders between boards |
| `DiagnosticsHub` | | history, pending queue, sinks, flushes, interrupt context |
| `DiagnosticsHubProofs` | `DiagnosticsHub` | four theorems |
| `Protections` | | rules, engine, throttle, time |
| `FaultProofs` | `FaultController`, `Protections` | seven theorems about the one, nine about the other |
| `TcpSend` | | the transmit path common to client and server sockets, as sets of outcomes |
| `TcpSendProofs` | `TcpSend` | what every outcome of that path does to the stream of orders; one theorem |
| `Socket` | `TcpSend` | TCP client and lwIP's control blocks |
| `SocketProofs` | `Socket`, `TcpSendProofs` | two theorems |
| `ServerSocket` | `TcpSend` | one server-side object, as operators on a record |
| `Server` | `ServerSocket` | the server over its objects |
| `ServerProofs` | `Server`, `TcpSendProofs` | three theorems |
| `StateMachine` | | machines nested to any depth and their cyclic actions over the scheduler's slots |
| `BuildCtx` | | what the devices of a board write down, entry by entry, with owners |
| `Pins` | | pins and their alternate functions, GPIO, lines |
| `DmaDomain` | `BuildCtx` | the sixteen streams |
| `SpiDomain`, `AdcDomain`, `DfsdmDomain` | `Pins`, `DmaDomain` | the three domains that contribute to the DMA |
| `TimerDomain` | `Pins`, `BuildCtx` | timers for requests, pins for channels |
| `MpuDomain`, `Devices` | `BuildCtx`, `Pins` | buffers and regions; inputs, outputs, lines, Ethernet, SD and packets on a board |
| `Board` | all domains | inscribe, build, start, and words of the running DFSDM; the properties that relate the domains |
| `BoardProofs` | `Board` | four theorems |
| `TimerDriver` | | what shares one timer, and the capture interrupt |
| `Mdma`, `SpiDriver`, `SdCard`, `Sntp` | | one driver each |
| `DriverProofs` | `SpiDriver`, `SdCard`, `Sntp`, `Mdma`, `TimerDriver` | six theorems |
| `MCFaults`, `MCBoard`, `MCDrivers` | `FaultController`, `Protections`; `Board`, `TimerDriver`; the drivers and `StateMachine` | instances of parts that share no state: the initial state picks one, the others stay put. `TimersServeTheirOwners`, which is refuted, stands in `MCBoard`; every other property stands in the module it is about |
| other `MC*` | the module of that name | bounds and instances for TLC |

The `map` of `PROJECT.json` names for every definition the lines it translates.

### Scheduler

The queue word is a function from nibble position to id; positions past the count hold whatever
was shifted in, because `remove_sorted` searches them too. `tim` is the timer: enable bit, CNT,
ARR and update flag UIF. `Tick` counts, wraps at ARR and sets UIF; `IsrEnter` starts the handler
when UIF is set and the interrupt enabled; `IsrPop` is one turn of its loop, `IsrExit` its
`schedule_next_interval`. An API call is a guard plus an entry action (`register_task`,
`set_timeout`, `unregister_task`, `cancel_timeout`) and then the steps named by `step`:
insertion or removal under the mask, then the tail of `schedule_next_interval`, which unmasks
before it writes the interval (`Unlock`, `SetInterval`, `ForceUpdate`, `SetReload`,
`CheckOvershoot`, `EnableTimer`), so the interrupt and the counter can come between any two of
them. `update()` is `UpdateBegin`, `UpdateWarned`, `RunTask`, `CallbackReturn`, `UpdateEnd`; while a
callback runs (`pc = "callback"`) it may make API calls. Ticks, counts and ids wrap
(`TickRange`, `CountRange`, `IdRange` for 2^32, 2^8 and 2^16), deadlines are compared by signed
difference as in the code. In `CheckOvershoot` what follows the mask's end is taken apart too: the
counter is read and compared, reset, and added to the 64-bit tick by a load and a store, between any two
of which the interrupt may come (steps `overshoot`, `count`, `restart`, `load`, `store`).

Clients do what the code lets them, and there are two things the code does not stand: ending a one-shot
that has fired in slot 0, and registering from a callback that has ended its own task. `broken` remembers
that one of them has happened; what is claimed of the queue is claimed until then (section 6 has what
becomes of it afterwards). Nothing bars a client from them.

### FaultController

`board[b]` is a record of what the statics and the machines of one board hold. The state change
of the nested machine is split at its user callbacks (`at`: predicate, exit, enter), because a
fault raised there enters FAULT inside a state change that then goes on. `Install`, `Start`,
`RegisterTarget`, `CheckTransitions`, `Retry` are the calls of those names; `request_fault` is an
operator used by every action that can raise one (`Fault`, `EnterActions` when a scheduler slot
is missing, `Arrive`). `wire` and `sent` are the orders in flight and ever accepted; `up` the
connections. A fault may be raised anywhere, in the machine's own predicates, exit and enter actions
too, as `docs/protections-and-diagnostics.md:201` invites; `crossed` remembers that FAULT was entered in
the middle of a state change, which then goes on to register the cyclic actions of its target
(`StateMachine.hpp:353`). The property says that these, and no others, may be left; `faults_nested` shows
that they are. `busy` is whether the application keeps a scheduler task of its own beside its machine, and
`TickRuns` whether the board has a task at all: without one the tick, and with it the 100 ms between two
retries, stands still. `Install` happens once, as in `Board::init`, and a peer is registered once.

### DiagnosticsHub

A record is its number and priority; the ring and the array are the code's arrays with their
indices and counts, including the copies that `remove_pending` leaves past the count. A flush is
taken apart at the calls into the sinks: `NextRecord`, `NextSink`, `SinkReturns`, with what the
code reads once (target mask, time) kept in `pass`. `publish` is two steps, the ring (`Publish`) and the
queue (`Enqueue`), and so is `emplace_sink` (`EmplaceSink`, `ReplayHistory`). Two contexts, `main` and
`isr`; the second comes at any of these points and runs to its end first; `interrupted` remembers that it
published in the middle of a call of the first. A handler that cuts into the assignments of one step is
not modelled. `accepting` is which sinks answer true, `due` whether the 100 ms of a level have passed,
`ticking` whether the tick has left 0, at which the throttle is open, and `running` whether it moves.

### Protections

`EvaluateOne(p, sample)` is one protection's turn in `evaluate`: every rule is judged
(`Evaluate`), the edges are computed and published, the fault requested if due. `told`, `forgotten`,
`requested`, `read_at`, `since`, `since_tick` and `cleared` are histories for the properties and influence
nothing: `told` is what the hub last heard of a rule, `forgotten` that `reset()`, which tells it nothing,
started the rule over since. `now` is time, `tick` the part of it that the scheduler's timer counted. A
rule is a record of optional thresholds; not-a-number compares with nothing, which makes it NORMAL for all
rules but `not_equals`.

### TcpSend, Socket

An operation of the transmit path is the set of its outcomes, since lwIP may refuse memory, the
pbuf pool may be empty and a write may fail at every order of a flush. Orders are numbers in the
order of acceptance; each takes one unit of the send buffer. `lwip[p]` is what lwIP holds a
control block for; `bound` is a block whose `tcp_connect` failed and which is in none of lwIP's
lists, `closing` one that we closed and lwIP still owns. The three ways an attempt can go
(no block, bound, under way) are `Attempts`. Whole calls and callbacks are single steps, because
lwIP is polled in main context.

### ServerSocket, Server

An object is a record and a handler the set of objects it may leave; `Server` keeps them by
address, so that leaks, double deletion and stale pointers can be expressed. `update` is the
whole of `Server::update()`: adopt or reject the open connection, delete ended sessions,
construct a new listener (whose constructor may fail). `Compacted` is what is left of the array:
the entries that are connected, moved up in their order. The destructor of an object is `Closed`.

### StateMachine

`sm` holds the machines' current states and `called_start`, the id each cyclic action was given,
and the scheduler's slots. `Declared` is a machine as the program writes it (states in any order,
with targets and actions), `NestedIn` what it is bound to. `exit`, `enter`,
`register_all_timed_actions` (with its way back when a registration is refused) and
`perform_state_change` are the functions of those names; transitions, polls, `force_change_state`,
`remove_cyclic_action` and other tasks that take and free slots are the actions. FaultController
has the same change taken apart at the user's callbacks.

### BuildCtx, Pins, the domains, Devices, Board

Everything the compiler computes is an operator: `XCompiles` is what a device's constructor lets
through, `InscribeX` what it writes down, `XAccepts` and `XBuild` the domain's `build`,
`XInit` its `Init::init`. A domain's entries are a sequence of records with `owner`; indices between
tables are kept as indices (from 1), because they are what can go wrong. Tables of pins, channels
and timers are those of the headers: `Pins.AfWords` is the table of alternate functions, bit for
bit, `TimerDomain.TimerPins` the pin macros. Registers are sets of named bits or records.
`Board` has the actions `Inscribe` (one device of a pool), `Build`, `Start` (with one part of each kind
refused by the HAL, or none) and `Word` (the DFSDM ends a conversion, and the stream or the interrupt
stores it in the buffer cell its counters say; a stream that did not start, through whose null pointer the
code calls `start`, stores nothing). A board that does not compile has no state. The walks that pass some entries by
(`build_dma_contributions`, the converters in use) are `Pick`, what is left of a list at given places; the
layout of buffers (`MpuLayout`) is a function that recurses on the entry laid out just before, where the
code keeps one running offset for each memory. `PoolsAssumption` gives the fields of devices the types
they have in C++: values of an enumeration, lists where there are arrays, sizes that are numbers.

### TimerDriver

`tim` is the timer's registers as far as its users share them: ARR, PSC, CNT, compare values and
modes, output enables (`out`, of `<<channel, "P">>` and the complementary `<<channel, "N">>`), MOE,
CEN, the dead time, interrupt enables and flags. `hal` is the HAL's channel states, by which
captures claim their channels (both polarities). `pwm` and `capture` are the objects' fields. The
interrupt is three steps per channel, because the HAL macro and the handler each clear the flag and an
edge can come in between, and because `CLEAR_BIT` on the status register is a load and a store: `IsrRead`,
`IsrLoad`, `IsrClear`, which loses the flags of other channels that were set in between. `Edge(gap)` is the
signal, `wave` what is true of it; `wave` counts how many edges in a row were heard cleanly, and `fits`
whether the counter made no turn between them. Registers hold `TimRange` values, the 32-bit arithmetic of
the callback wraps at `WordRange`. `RigsAssumption` says of the rigs what the static_asserts let through,
and that no frequency is 0 and no two edges fall on one count.

A compare value is a product of floats: `(uint32_t)((float)(ARR + 1) * (duty / 100.0f))`. That is the
constant operator `FloatShare`, of which `FloatAssumption` says only what three roundings and a cut give:
the share asked for, to a count and four parts in `FloatRange` (2^24). Up to that many counts this is "to a
count"; a 32-bit timer with a longer period is many counts off, and the property says so. The run takes
floats of five bits, so that its periods of up to 64 counts are rounded. `Duties` are the percentages used,
also more than 100, where a 16-bit register wraps and a 32-bit one saturates. The PRECISION branch of
`set_timer_frequency` is float arithmetic too, but exact here (`Reload`): no property depends on its
last digit, as they speak of the period that is set.

### Mdma, SpiDriver, SdCard, Sntp

- **Mdma**: addresses are numbers, so that the tests on the address bits that choose the bus mean
  what they do. `Begin` is split in two (`freeMap` is loaded in `Pick`'s step and stored in the
  next), with the interrupts between. A packet's nodes are set up at `Build` and `Parse`; what a call asks
  for (`caller.asks`) is the whole packet, also where the code cuts the list (`parse` without a source,
  remembered in `cut`). `blocked` is the caller that waits inside a call without a flag of its own. `Fail` is
  a transfer error: the HAL sets its state back, the channel is not given back, the flag stays down
  (`failed`). What a chain of nodes moves
  (`Walk`, `List`, `Reach`) is a recursive function over the nodes. `MdmaAssumption` says that every packet
  has a value, and that packets, channels and the caller's own buffer have names of their own.
- **SpiDriver**: `StartCall` stores the caller's flag, `HalStart` is the HAL's answer; completions and
  errors fall between. `spiCrossed` remembers who called while another's transfer ran, or was met
  that way.
- **SdCard**: `Multi` is the library's copy of the HAL's multi-buffer functions, statement by statement
  up to the answer of the card; `SetFlag` is the store of the flag that comes after the start. `IdmaTurns`
  is the controller, not the code: in double-buffer mode it turns to the other buffer once a request is
  longer than one, which a request too large does (`Sd.hpp:363` only PANICs).
- **Sntp**: `timers` are the scheduler's timeouts alive, each with the call it makes; replies come in
  any number and order (`RecvTime`, `RecvKiss`, `RecvOther`).

## 4. Runs

Most safety runs check one property that is the conjunction of the type invariant and the structural
invariants of the module (`QueueIsSound`, `FaultIsEntered`, `SocketIsConsistent`, `ServerIsConsistent`,
`FaultsAreReported`). For each property, `PROJECT.json` names a mutant: a definition of the model changed
the way a plausible bug in that code would change it (dropped guard, off-by-one, missing reset), with
which TLC finds the property violated. The mutated bodies stand beside the definitions they would
break, marked `Defect`.

| Run | Question | Bounds |
|---|---|---|
| `scheduler` | Until a client breaks it, is the queue sound and sorted, is every task kept, are deadlines close together, and is every step one of `TaskLifecycle`? Always: is the timer armed, do timeout ids stay apart? | 3 slots, 3 API calls at any point (from the application or a callback), period 2, delay 3, 16 ticks, 8 counts, 12 ids |
| `scheduler_live` | Does a queued task fire and a ready one run? | 2 slots, 2 API calls, period 3, delay 2, 8 ticks |
| `faults` | Is FAULT entered once, with its first cause, without stray actions, and is each peer told once, eventually? Is a protection's fault latched, reported again but throttled, is the hub told, does accumulated time judge by the tick? | 2 boards, 1 connection that breaks once, 2 states with cyclic actions; on one board predicates and actions raise faults and the application has tasks of its own. 2 protections of 2 rules (range, time, below, equals) and as many events, samples -2, 0, 2, 3 and NaN, time to 4, in which the tick may stand still, notify delay 3 |
| `faults_nested` | Does no cyclic action of the application's machine run in FAULT? (violated) | the same boards |
| `diagnostics` | Is anything lost, reordered, delivered twice, mis-marked or never delivered? | 2 sinks, ring of 2, queue of 2, 3 records, published by both contexts, 2 changes of what sinks accept, the timer stops once; until a handler comes into the middle of a call |
| `diagnostics_isr` | Do marks stay true when it does? (violated) | 2 sinks, ring and queue of 2, 4 records, 2 changes |
| `socket` | Do pointers and blocks agree, do orders keep their order, do the queue and a close end, does the socket reconnect? | 3 control blocks, queue 3, send buffer 3, 3 polls per attempt, 8 orders per connection |
| `server` | Are objects owned once, sessions left alone, orders in order, and does it listen again? | 2 sessions, queue 1, buffer 1, 2 orders for each client |
| `board` | Does every device of a board that compiles get what it asked for, and nobody else the same? Do outputs and captures that share a timer keep their meaning? | all orders of up to 4 devices out of 7 pools of 6 to 7; 7 timers with what may hang on them, 51 clocks, registers of 64 values, floats of five bits, up to 5 edges |
| `board_timers` | Do owners get the timers they asked for? (violated) | the pool of timers |
| `drivers` | Do flags and statuses of the drivers tell the truth, are buffers apart, do cyclic actions follow the states, and does what starts end? | 2 MDMA channels, a stack of 2, 3 requesters; 2 SPI peripherals, 2 callers; a card of 4 blocks and buffers of 2; 2 requests and 2 replies; 2 machines, 4 slots |
| `machines_deep` | Do actions follow the states through two levels of nesting? (violated) | 3 machines, one in the other |

**Why the bounds are enough to be of interest.** Two slots already give an insertion before, after
and beside another task and a queue that is empty, partly full and full; the third makes the
nibble word move in the middle. The tick wraps within a behaviour (16 ticks against periods of 2
and 3 with counters that never stop), so deadlines on both sides of a wrap meet; three calls are
enough to register, end and register again, from a callback too, and to break the queue in either way. `IdRange` 12 with three slots and
ids odd makes `timeout_idx_` wrap. In `faults` every order of install, register, start, connect,
fault, break occurs for both boards, and faults on both sides cross on the wire; that orders do
not bounce in larger topologies either is proved (section 5). The two boards run the same code, so it is enough that one of them raises
faults inside state changes: the other is there to be told. In `diagnostics` three records
overflow a ring and a queue of two, and two sinks with two changes give a sink that refuses, accepts, or
comes round in between. The samples of the protections lie below, between, at and above every threshold, and
the time exceeds the window and the delay. In `socket` three control blocks are one more than the
socket can hold while the third is closing, and the pool can run out; a queue and a buffer of
three let a flush stop at the start, in the middle and at the end; eight orders per connection (a
bound on acceptance, which resets with the connection) fill both with some acknowledged. In
`server` a third client meets a full array, and every interleaving of arrival, loss and update
occurs.

In `board` each pool holds devices that compete: pins with two converters and a stream another device
names; SPI peripherals that share pins or streams; named and any-timers; injected and regular channels
on one filter, with and without DMA, two and three of them, of equal and unequal lengths; buffers of every alignment; lines on one number. Four devices are
enough for one that leaves a gap, one that fills it and one on either side. The timers are one with
plain and complementary outputs, one whose period has more digits than the floats have bits, one with dead times in each of the four ranges, three with a capture
beside an output (16 and 32 bits; one claims the output's own channel), and one whose captures have no
vector. Five edges are a disturbance (an edge lost, a restart) and the three clean edges after it. In
`drivers` two channels are taken by transfers that fail while two requests wait, so the order of the stack
matters (a push that is refused needs a third packet, and is covered by the theorem alone); packets have two values of different size in
different memories; two SPI callers meet on one peripheral and use both; the card has a request that
is cut by its end and one whose block number wraps; the client stops by each of its two counts; the
machines take every slot, so that a registration is refused half-way.

**Bounds that are part of the modules.** `MaxLatency` (Scheduler): a requested interrupt is
served within that many ticks; without it a processor slower than its timer would wrap the counter.
`MaxCalls`, `MaxBreaks`, `MaxRecords`, `MaxToggles`, `MaxStops`, `MaxTime`, `MaxElapse` are in the `MC`
modules and bound only the environment, and so does `MaxLost`: one interrupt at most between the load and
the store of a tick of sixteen values. `FollowBroken` and `FollowInterrupted` say whether a run goes on
after clients have broken the queue, or a handler has come into a call of the hub: where the properties
say nothing of what follows, the run stops there. `Erratic` is the set of boards whose actions raise faults; `MaxOrders` (Socket, Server) bounds the numbers of
orders a connection accepts, `rig.edges` (TimerDriver) the signal, `MaxErrors` (SpiDriver) the errors
counted, `MaxRemoved` (StateMachine) the actions taken out by hand. Scheduler, interrupt, main loop,
retry, polls and flushes are never bounded. With two periodic tasks of period 2 and a latency of 1 the
interrupt can starve the main context for ever, which is why `scheduler_live` has period 3.

**Deadlock** is not checked in the runs of `MCDrivers`: a card that was taken out, a client that
stopped or a transfer that failed may be the end of what that part can do.

**Fairness and what justifies it.**

- Scheduler: weak fairness of the counter (hardware) and of the interrupt handler (it is entered
  when requested and unmasked, and the main context waits for its end); strong fairness of
  main-context steps, because each interrupt disables them for a while and they are enabled again
  after it. That includes that callbacks return and `update()` is called for ever. `TasksFireAndRun` speaks
  of behaviours in which no client breaks the queue. Its part
  on ready tasks assumes in its statement that the main loop gets out of `update()` again and again: with tasks
  so short-period that it does not, low slots may starve high ones.
- FaultController: the main loop polls `check_transitions` (weak); the 100 ms of a retry pass (weak), but
  only while the board has a scheduler task, because the tick stands still without; an order on
  a connection that lasts arrives although it cannot while a state change is under way (strong).
  `PendingIsRetried` assumes in its statement that from some time on the connection stays up and the tick
  runs; without the second (`RetriesGoOn`) it does not hold.
- DiagnosticsHub: calls return (weak); the throttle's 100 ms pass (weak), but only while the scheduler's
  timer counts; `flush()` is called between other work (strong). `SinksAreServed` assumes in its statement
  that from some time on the sink accepts and the timer runs, whatever the other sink does, and that no
  handler publishes in the middle of a call.
- Socket: lwIP's slow timer polls its blocks (weak, lwIP's documented behaviour); acknowledgements
  come while a connection is up, a closed connection leaves TIME_WAIT, a route that went away
  comes back (weak); and three assumptions about peers and pools that no code can give: a peer
  that is tried again and again answers once, memory that is waited for again and again comes, and
  an application that calls `send_order` again and again finds a block and a route once.
  `Reconnects` needs all of them; it shows that no state of the *code* keeps the socket from
  connecting.
- Server: `update()` is called for ever (weak), now and then its new listener finds a control
  block (strong), lwIP polls (weak).
- Mdma: `update` runs (weak), the unit ends what it began (weak), a caller that waits looks at its flag
  (weak). `TransfersEnd` excepts in its statement what the code does lose: transfers that failed or
  were refused, and the case that no channel is left; without the exceptions
  (`BlockingCallsReturn`) it does not hold.
- SpiDriver: a master's transfer ends, by completion or error (weak), because the master makes the
  clock; nothing is promised of a slave's.
- Sntp: timeouts fire (weak), as TaskLifecycle has it. `SntpStops` excepts a client that found no slot
  and one that is started again. Nothing is assumed of the network.
- SdCard: completions come (weak); no liveness property rests on it.

## 5. Proofs

All for arbitrary values of the constants, from the `ASSUME`s stated with them.

**SchedulerProofs.** For any clients: `TypeCorrect`; `TimerStaysArmed`, whose invariant
(`Arming`) says what each step of the tail of `schedule_next_interval` still relies on when an
interrupt has come in between; and `TimeoutIdsStayApart`: `timeout_idx_` stays odd through its wrap, so
that no timeout has the id of a task or `INVALID_ID`.

What clients may break holds until one has (`broken`, which lasts: `BrokenStays`), without any assumption
about what they call: `QueueIsAlwaysSound` (types, distinct ids of tasks in use, zeros past the count, what
a call in progress holds), `NoTaskIsLost` and `SchedulerImplementsLifecycle` (the refinement: the abstract
specification has a `void` that promises nothing, mapped to `broken`). The invariant is `TypeOK` with
`QueueInv == QueueSound /\ TasksKept /\ CallSound` until `broken` (`QueueInvariance`). None of the parts is
inductive alone: an insertion keeps ids distinct only because the call half-way
through it holds a slot that is nowhere yet, and there is room for it only because everything
queued is a slot in use other than the one held (`RoomForOther` counts that); and nibbles past the
count must be zero for a pop to leave a well-formed word. `CallSound` says what a call in progress
holds. `InsertHeld` and `RemoveHeld` say what inserting and removing do to the set of ids held by
the word, once for all. A client breaks the queue by exactly two steps: the removal of slot 0 when it is not
queued, and a registration from a callback that is given the running task's own slot.

`QueueStaysSorted` and `WrapsDoNoHarm` rest on one more condition, `DeadlinesAreClose`: what waits is due
within half a turn of the tick from some point on. That holds of the run (where tick, periods and latency
have their ratio) and depends on the clients' periods and the processor's speed, for which the code states
no bound. The condition is therefore a conjunct of `WrapsAreHarmless` that only the run shows; the theorem
is that the others, firing order and ids, hold exactly as long as it does, whatever wraps. `SignIsOrder`
turns the comparison by `int32_t` into the order of offsets from that point, `InsertSorted` and
`RemoveSorted` say what the two queue operations do to that order.

**FaultProofs, the fault runtime.** `TypeCorrect`, `FaultIsEnteredOnce` (together `FaultHasOneEntry`),
`PeersAreToldOnce`,
`FirstCauseIsKept` (an action property) and `ActionsStopInFault`, for
any boards, connections and application machine, faults in its own predicates and actions included. The invariant is that every board is `Sound`
(type, cause and state agree, a board not started has entered nothing, pending targets are
registered), that what was sent and what is pending are `Told` apart, and that the network's parts
have their types. `request_fault` is used by several actions; `Requested` proves once what it
keeps. `ActionsStopInFault` strengthens further with `Calm`: between exit and enter no action is
registered, and only a state change that FAULT came into (`crossed`) can leave any in FAULT, those of one
state at most.

**FaultProofs, protections.** `ProtTypeCorrect`, `NoFaultIsSwallowed`, `FaultIsReportedAgain` (together
`EveryFaultIsReported`), `RepeatedRequestsAreThrottled` (an action property), `SustainedConditionIsFault`
and `TimedFaultIsEarned` (together `AccumulationJudgesByTime`), and `HubIsKeptInformed`. They say what they
except in their statements and assume nothing of the tick or the protections: a sustained condition is one
during which the tick ran; a fault of accumulated time means that every sample since one above the threshold
was above it, and that the last which was not lies a window of ticks back (not the first which was:
`FaultTakesTheWindow`, section 6); and the hub agrees with every rule that is not in FAULT, of protections with no more
rules than the array of events has places, unless `reset()` has started the rule over since. The invariant relates each
protection's `last_fault_publish_tick` to its history (`RequestOK`: 0 means never, or at tick
0) and each rule's accumulated time to the ticks of its samples (`RuleOK`). The proof that an
evaluation keeps it goes by the kind of rule.

**TcpSendProofs.** `SendOrderAnswers`: of every outcome of `send_order`, if the answer is TRUE the
stream (send buffer, then queue) is the old one with the order at its end, and if it is FALSE the old
one; both stay within their capacities. It rests on one lemma for each operation of the path
(`SendKeeps` for a flush, wherever it stops). Streams of consecutive numbers (`Numbers`, `Numbered`)
are described once: what appending an order and acknowledging a prefix makes of them.

**SocketProofs.** `PointersAgreeWithLwip` and `ClientKeepsTheOrder`, for any number of control blocks,
capacities and orders. The invariant adds to `ControlBlocksAgree` and `OrdersKeepTheirOrder` that an
INACTIVE socket holds nothing of an earlier connection (`Inactive`: without it the first order of a new
connection could stand behind the rest of the old one's) and that an attempt that has used up its polls
has asked for its reset (`PollsLeft`). At most one block can call back (`OneBlock`), so every callback is
about the block the socket points to.

**ServerProofs.** `ServerOwnsItsSockets`, `EveryClientKeepsItsOrder` and `SessionsStay` (an action
property), for every capacity of the array. The invariant is `ServerIsConsistent` and one statement about
each object (`ObjectOK`): with a client it is ACCEPTED or CLOSING and its stream is that client's next
orders; without one it is as blank as it was made, so that whoever is accepted begins with nothing that
was meant for another. Every handler of `ServerSocket` leaves a sound object; `update()` is then about
owners only: what is neither waiting nor rejected is in the array (`NothingIsForgotten`), compacting it
keeps the entries that are connected and their order (`CompactedIsFit`), and since the array and the open
connection take at most `MAX_CONNECTIONS_TCP_SERVER + 1` objects there is an address for the new listener
(`OneIsSpare`).

**DiagnosticsHubProofs.** `HubStaysInRange`, whatever comes in between: places and indices are those of
the arrays, and the ring holds the latest records in order. `QueueIsSoundBetweenCalls`, `NoSinkTakesTwice`
and `NoRecordIsLost` hold until a handler has published in the middle of a call of main context
(`interrupted`), also of handlers that publish between calls; after that they do not, which
`diagnostics_isr` shows. What is inductive (`CallInv`) is stronger than that marks are true: a place says of
a sink that it was delivered exactly if the sink has taken the record, except for the one record and sink a
flush is in the middle of (`MarksAreExact`, `BeingTaken`); a flush speaks of a place that is still in use
(`OffersWhatWaits`); what is on its way from the ring to the queue is the latest record
(`QueueingTheLatest`); and before the replay to the first sink nothing is anywhere but in the ring
(`BeforeTheReplay`).

**DriverProofs.** `FlagsSpeakTheTruth` (SPI): a transfer is one caller's and runs exactly while the HAL
is busy (`OneTransferEach`), the pointer it will write through is that caller's or was crossed
(`FlagsOfTransfers`), and between the two halves of a call the pointer is in place and nothing runs there
(`CallUnderWay`), at whatever step a completion or an error of an earlier transfer comes in.
`CardBuffersStayApart` (SD) is inductive with the types; it speaks of requests that fit a buffer, the
controller's turn in a larger one being what breaks the claim without that (`CurrentIsTheCpus`). `OneTimeoutDrivesTheClient` (SNTP): until a kiss of
death the scheduler's timeouts of the client are at most one, none when stopped, and known by one of the
two ids it keeps; that ids of timeouts are never INVALID is the assumption `IdsAssumption`, which for the
scheduler is the theorem `TimeoutIdsStayApart`.

`MdmaKeepsItsRequests` (MDMA) follows a request from place to place: what was asked for stands on the
stack, in a channel, in the main loop's hands between the two, or is reported, or has failed (`KeptOK`), and
in one of these places only (`StackOK`, `UnitOK`, `DataOK`, `FailedOK`); interrupts may come between the load of the free map
and its store, where the loop's word is still a subset of the map (`ChannelsOK`). That a flag means "all
of it was moved", which the property says of every call but a parse whose list the code has cut (`cut`,
section 6), needs what is in the lists: `NodesOK` says that a packet's nodes are chained in the order
of its values, ending where the packet ends, each set for the addresses it has. `WalkFollowsAChain` and
`ListIsTheChain` say that the unit, which only follows successors, then goes through exactly those;
`BuildSetsItsNodes`, `ParseSetsItsNodes` and `DataSetsItsNode` that to set up one caller's nodes makes a
request of his and leaves everybody else's alone.

`OutputsShowTheirDuty` and `CapturesReadTheSignal` (timers) rest on one invariant, because outputs and
captures take each other's bits. `Driven`: an output that is on has its channel in PWM mode, the counter
running and the gate open, and its enable bit, or, for the complement of a pair that was configured late,
that of its positive half; so whoever goes last and stops the counter would have found it. `Follows`:
every compare register is what the duty and the present period give, whoever set the period. `Captures`:
a capture that is on keeps counter and rising channel enabled, one that is off holds nothing. `Hears`:
an edge heard alone either waits for the interrupt, with its count still in the compare register and the
edge before still in the object (`Waiting`), or was read (`Heeded`). `CapturesReadTheSignal`
speaks of signals whose edges fall within one turn of the counter. What numbers mean is said by lemmas
on quotients: `DutyIsAShare` (a compare value shows its percentage to a count and what `FloatAssumption`
leaves to the floats' rounding, for every timer and period) and `DeadTimeIsGiven` (the
four ranges of dead times each hit the time asked for to a step, also at their borders).

**BoardProofs.** `AdcSlotsAlwaysMatch`, `EveryStreamAlwaysHasItsHandle`, `OwnersAlwaysGetTheirs` and
`NothingHasTwoOwners`, for any pools of devices, any number of them and any order, from `PoolsAssumption`.
`OwnersAlwaysGetTheirs` speaks of the kinds of device in `Served`: not of timers, for which the claim is
false (`board_timers`), nor of clock outputs and plain streams, which read nothing back.
One invariant carries them (`BoardInv`): the configurations are `Built` of the context and the instances
`Started` from them, and the context is what its devices wrote (`CtxOK`). That last part is what is
inductive: a device adds entries at the ends of the lists and under its own name only (`Grows`), so what an
earlier device refers to stays where it was, and its claim (`Claim`: one entry of its own, and at the
places this entry names what it needs) survives whatever comes after. `EntriesOK` says of the entries
what the constructors checked, and that no two SPI devices share an entry of the DMA.

The rest is about constant expressions. ADC: the entries of one converter get cells one after the other
from that converter's start in the pool, so two inputs never share a cell (`RanksCount` counts places left of
a place). DMA: an entry's stream is the one it named or the first free one, so entries end with one each, and
the streams refused by the HAL are in no table. Contributions: `Pick` names the converters and filters that
have no entry yet, each once; that one which has an entry has only one is what `AdcAccepts` and
`DfsdmAccepts` demand. Layout: entries of one memory take turns by alignment, then by place. That order is
total (`TurnsOrder`), so each entry but the first has a last one before it (`OneIsLast`), the recursion is
well-founded (`LayoutPlaces`, by the least entry at which it would fail), and each buffer begins where the
one before ends or after (`LaidApart`, `LaidInside`).

Two properties of Board are proved in part or not at all. Of `NothingIsSharedTwice` the parts
`OneOwnerEach` and `BuffersLieApart` hold of every board. That timers go to one each is only claimed of
boards with at most five requests, one of them at most for any of 32 bits (`FewTimers`;
section 6 has two), and only shown by the run; and that a region governs its whole array needs an array no larger than
the largest region modelled (2^20 bytes, more than any memory of the processor), which no constant
expression checks. `DfsdmWordsLandInTheirBuffer` is claimed of filters laid out as `LaidOut` says (at most
two injected channels where the DMA stores the words, equal lengths where the interrupt does;
section 6 has the others) and only model-checked.

**Only model-checked.** All liveness properties (the prover has no fairness or ENABLED);
`DfsdmWordsLandInTheirBuffer`, and timers and regions in `NothingIsSharedTwice`, for the reasons above;
`DeadlinesAreClose`; and `ActionsFollowTheStates`, because StateMachine recurses over machines nested in
machines, and what a recursion computes at every depth needs induction over an operator, which the
installed provers cannot instantiate. No module proved about uses RECURSIVE.

## 6. Where code and documentation disagree

Shown by a run (each a counterexample of a few steps, see `findings` in `PROJECT.json`):

1. `faults_nested`: a fault raised in an action or predicate of the nested machine leaves cyclic actions
   registered in FAULT (`StateMachine.hpp:353`).
2. `diagnostics_isr`: an interrupt handler's fault makes an interrupted flush mark the wrong
   record (`DiagnosticsHub.cpp:332`).
3. `board_timers`: configurations are appended in the order of three passes and read in the order of
   the requests (`TimerDomain.hpp:647`), so owners can get each other's timer.
4. `machines_deep`: a change of state exits and enters the machines nested in it, but not those nested
   in them (`StateMachine.hpp:342`); under the fault runtime, which is one level itself, cyclic actions
   of a machine nested in the application's survive FAULT.

The modules state more of what comments, tests and docs promise and the code does not keep. Beside each
stands the property with the exception the code needs, which a run checks. Added to the `.cfg` named here,
TLC refutes it within seconds:

| Claim | Add to | What happens |
|---|---|---|
| `TasksKept`, `QueueSound` | `MCScheduler_safety.cfg`, with `FollowBroken = TRUE` | a one-shot of slot 0 that has fired and not run is cancelled: `remove_sorted` finds the zero of an unused nibble and lowers the count, and the last queued task is dropped (`Scheduler.cpp:191`, where `scheduler_test.cpp:203` expects the others kept); or a callback ends its own task and registers another, whose slot `update()` then frees (`Scheduler.cpp:96`) |
| `TickNeverGoesBack` | `MCScheduler_safety.cfg` | an interrupt within the unmasked sum of the 64-bit tick has its interval overwritten (`Scheduler.cpp:238`) |
| `RetriesGoOn` | `MCFaults_safety.cfg` | the board has no scheduler task left, and the tick that the retry waits for stands still (`FaultController.cpp:170`, `Scheduler.cpp:211`) |
| `FaultTakesTheWindow` | `MCFaults_safety.cfg` | the time before the first sample above the threshold counts as active (`Protection.hpp:205`; the docs, line 106, speak of continuous active time) |
| `RealTimeIsMeasured` | `MCFaults_safety.cfg` | accumulated time is that of the tick, which stops with the last task (`Scheduler.cpp:211`) |
| `EveryEdgeIsPublished` | `MCFaults_safety.cfg`, with `events_capacity = 1` | edges that do not fit a protection's array are dropped for good (`Protection.hpp:517`) |
| `TimersGoToOne` | `MCBoard_safety.cfg` | every request for any 32-bit timer gets the same one (`TimerDomain.hpp:675`) |
| `EveryWordLandsInItsBuffer` | `MCBoard_safety.cfg` | a third injected channel of a filter is not in the first one's group (`DFSDM.hpp:587`), or channels of unequal length share one index (`DFSDM.hpp:1187`) |
| `FlagSignalsCompletion` | `MCDrivers_safety.cfg` | a refused call has its flag set by the end of the other's transfer (`SPI2.hpp:803`) |
| `AllIsMoved` | `MCDrivers_safety.cfg` | `parse` without a source cuts the packet's list, for good (`MdmaPacket.hpp:284`) |
| `BlockingCallsReturn` (a `PROPERTY`) | `MCDrivers_safety.cfg` | the transfer of a blocking `build` fails, and its flag is never set (`MDMA.cpp:237`) |
| `CurrentIsTheCpus` | `MCDrivers_safety.cfg` | in a request larger than a buffer, which `Sd.hpp:363` only PANICs about, the controller turns to the CPU's |

`TickNeverGoesBack` and `RetriesGoOn` are `PROPERTY`s too, the others `INVARIANT`s.

Seen while modelling besides, and outside of what the properties speak of or excepted by them:

Scheduler, faults, protections, communication:

- `schedule_next_interval` ends its caller's masked region (`Scheduler.cpp:222`); the interrupt may
  then add an interval that did not elapse;
- a peer registered after the fault is never told (`FaultController.cpp:190`);
- the hub's throttle stands still with the tick, at whatever it was;
- the overrun warning of `update()` is not shown while the overload lasts (`Scheduler.cpp:87`),
  since it needs `update()` to return;
- `get_global_tick` may fall back when the counter has overflowed and the interrupt is masked
  (`Scheduler.cpp:107`);
- a protection's `reset()` forgets a WARNING without telling the hub (`forgotten` in HubKnowsState);
- a NORMAL record evicts the oldest record from a full queue even if that is URGENT;
- an order for which `send_order` answered TRUE may only be queued, and is lost if the connection
  breaks; a FAULT order lost that way is no longer pending (`Socket.cpp:415`,
  `FaultController.cpp:216`);
- a client whose `tcp_connect` failed is retried by `send_order` or `reconnect` only
  (`Socket.cpp:159`);
- the priority of a server-side control block is lowered twice (`ServerSocket.cpp:210`), and
  `ServerSocket.hpp:36-40` says that closing faults the board, which the code does not do;
- `FDCAN.cpp:115` compares the caller's identifier before it stores the received one.

State machines:

- state orders cannot exist (a `StaticVector` of size 0 panics on the first), `register_task` refuses
  periods of `kMaxIntervalUs` and more, and millisecond periods times 1000 wrap in 32 bits;
- `start()` twice, or a forced change of a nested machine while it is not current, registers actions
  a second time;
- a nested machine keeps its last state when its holder is left and entered again; one at depth three
  under a state that is not the first gets no `start`, so that its `check_transitions` panics.

Board and domains:

- the unordered removal in the first pass of `TimerDomain::build` can refuse a board that could be
  built; the third pass ignores the scheduler's timer and those of the second;
- `get_gpio_af` ignores the pin;
- `spi6` can never be built (`DMA2.hpp` has no requests for it); the first refusal of
  `HAL_SPI_Init` returns and leaves the other peripherals as they are; the prescaler 512 panics;
- an ADC pin is not checked when both converter and channel are named; the callback of a DFSDM's
  lost clock is not copied, the test of the watchdog's filter is never true, and of several channels
  whose flag is set only the lowest's callback runs though all flags are cleared; a stream that the HAL
  refused leaves a null pointer through which the filter's init calls `start`;
- buffer sizes of a DFSDM device are cut to a byte; the alignment of an MPU region's base to its size
  is not checked.

Timers:

- `DualPWM::turn_off_positive` and its like do not compile (`timer->tim`); `turn_on_negative` before
  `turn_on` leaves the half off that the object says is on (`pwm.early`);
- `PWM::configure(f, 0)` keeps the old compare value while the duty reads 0 (`pwm.silent`), and does
  not clamp; with 16 bits, 100 % of the full period is 0; with 32 bits a full ARR is a period of 0;
- duties are products of 32-bit floats, so on a 32-bit timer a period of more than 2^24 counts is not
  shown to a count;
- in center-aligned mode the stored frequency is doubled, so what is read back is twice what was set;
- nothing keeps two objects off one channel; `get_input_capture` rewrites the prescaler under the
  outputs of the same timer; `set_dead_time` sets MOE with nothing on, and goes on with 0 after a
  PANIC for a dead time out of range;
- captures of TIM1 and TIM8 are never served (`HasCaptureVector`); after the counter wrapped a period
  is two counts short; two edges pending at once are taken in the order of the channels; an edge
  between the two clearings of its flag is lost, and so is one of another channel between the load and the
  store of the status register (`TimerDomain.cpp:88`); `frequency` and `duty` may be read torn.

Drivers:

- MDMA: a free bit set by an interrupt between load and store is lost, and the channel with it; a
  failed transfer and a refused start keep their channel; waiting transfers are a stack, so the first may
  wait for ever; `transfer_data` drops the request when no channel is free, and its nodes lack the bits
  for tightly coupled memory; a blocking `build` never returns when the stack is full;
- SPI: a recovery that fails leaves a peripheral that answers busy for ever; the answer of
  `abort_and_recover` is not looked at;
- SD: the flag is stored after the start, and a completion before it is lost; the buffer is switched
  before the command and not back; after a PANIC the call goes on and answers true; `is_busy` is false
  of a card that is not initialized; block numbers wrap at 2^32;
- SNTP: a kiss of death starts a second chain, after which `stop()` does not find the first's
  timeout (`kissed`); with no slot the chain ends silently (`starved`); `UPDATE_DELAY` is 3.6 s, not
  an hour (`SNTP.hpp`: microseconds); `start()` on a running client resets its counts.

## 7. Not modelled

Per component in `PROJECT.json`, with the reason. In short:

- thin layers over the HAL with no protocol of their own: UART, I2C, FDCAN, CORDIC and FMAC, watchdog,
  low-power timer, flash, the raw register calls of `TimerWrapper`, the run-time setters of DFSDM filters;
- formatting and the wire format of values, the order parser and received bytes: what they recognise
  rests on template types that only an application has;
- numeric filters and sensor conversions (floating point), and the encoder, which counts in hardware;
- SPI orders, whose driving callback is commented out;
- containers on their own: where their limits matter they are modelled in place;
- faults raised by interrupt handlers are modelled in DiagnosticsHub only, not in FaultController,
  whose `request_fault` is one step;
- the integer width of samples, keep-alive settings, priorities of control blocks, moving of socket
  objects, cache maintenance and memory barriers.

## 8. Plan

What was planned and is done: scheduler, faults, diagnostics, protections, client and server sockets, the
build and start-up of boards with all domains, timers in use, MDMA, SPI, SD and SNTP drivers, nested
state machines. What would add most next:

1. A proof of `ActionsFollowTheStates` for machines nested once, and of where the DFSDM's words land
   in filters that are `LaidOut`.
2. `request_fault` from interrupt handlers in FaultController, taken apart at the test of `faulted`.
3. The composition of Socket with FaultController: what becomes of a FAULT order end to end.
4. The receive side: the parser over an abstract table of orders, against the stream as it was sent.
5. Flash storer with a reset between erase and write.

## 9. Conventions

Variables and operators have the source's names where TLA+ allows; a constant that stands for
one of the code gives its value in a comment. Actions are whole handlers unless the module's
header says at which calls they are split. `MC` modules add bounds and instances and define no
behaviour of their own. `Defect` marks an operator that is not part of the specification.
