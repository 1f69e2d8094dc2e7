# Formal models of the university collection

`university-collection` holds the laboratory work of several courses. Each
directory under `src/` is a program of its own; they share no state. This
directory models them in TLA+: TLC checks small instances, TLAPS proves the
most important properties for every value of the constants.

The programs differ in weight. The one that runs unattended for days, with
threads, a network connection and a clock, is
`RealTime_Embedded_Systems` (RTES): it is modelled first and in most depth.
The others follow in the order of the plan below.

## 1. Inventory

### RTES: from the exchange to the files

A websocket client receives trades. For every symbol the callback in
`main.cpp:108-132` puts each trade into two queues, one drained by a *recording*
worker, one by a *statistics* worker. An *exporting* worker wakes every minute
and writes a candlestick and a moving average for each symbol it is given.

    Finnhub ──> WebsocketClient ──enqueue──> ThreadSafeQueue ──> QueuedWorker (record)
               (main thread,  \──enqueue──> ThreadSafeQueue ──> QueuedWorker (statistics)
                SIGINT: stop)                                        │ addTrade
                                              CandlestickManager, MovingAverage
                                                                     │ getCandlestick, getStatic
                                                               TimedWorker (export) ──> files

| Component | State | Operations | What is hard | What makes it correct |
|---|---|---|---|---|
| `ThreadSafeQueue` | `m_queue`, `m_mutex`, `m_cv` | `enqueue`, `dequeueConditional`, `wakeConsumers` | the stop flag in the wait predicate is not protected by the mutex | nothing lost, repeated or reordered; no lost wake-up; no pop of an empty queue |
| `QueuedWorker` | `m_stop_flag`, the thread | `start`, `stop`, `loop` | three unprotected reads of the flag per item; restart | `stop()` returns; one item at most is dropped by it; items are worked on |
| `TimedWorker` | `m_stop_flag`, the thread, `timer_target` | `start`, `stop`, `timedLoop` | early and spurious wake-ups, notification without the mutex | at most one call per period; `stop()` returns |
| `WebsocketClient` | `m_should_stop`, `m_wsi`, `m_subscribed`, `m_connection_attempts` | `run`, `connect`, `stop`, `reset`, the libwebsockets callback | SIGINT between any two steps, reconnection with backoff in `int` arithmetic | one connection, a right idea of the subscription, the documented backoff, an end |
| `CandlestickManager` | candlesticks by minute | `addTrade`, `getCandlestick` | trades out of order, late, early; eviction in hash order | every stored candlestick is that of its trades; bounded |
| `MovingAverage` | totals and per-minute sums | `addTrade`, `getStatic`, `prune` | totals and containers pruned apart; pruning only when too many | totals agree with containers; the window is complete; bounded |
| tasks | | `updateStatistics`, `exportStatistics`, `recordTrade` | interleaving of the calls with each other and with the clock | an exported row counts its window |
| pipeline set-up | vectors of workers, maps from symbols to queues | `main`, `worker_setup.hpp`, the receive callback | construction and destruction while threads run, the callback's map look-ups, symbols listed twice | no thread outlives what it refers to; every trade reaches the two workers of its symbol, and no others; the teardown ends |
| configuration | `Config` | `loadFromFile`, `sanitize` | 64-bit numbers narrowed to `int` or converted to `size_t`, negative and huge ones, no symbols | what is sanitised is usable by every later stage |
| logger, scripts | none | logging, offline plots | | |

### The other programs

| Program | State | Operations | What is hard | What makes it correct |
|---|---|---|---|---|
| Sailing game (`Structured_Programming/main.c`) | the lake, positions, lives, moves, wind, wrecks, all global arrays | declare moves, move all ships a step at a time, collisions, wind, win | sealed moves of several players executed together; positions are looked up on the drawn lake | every living ship is on the lake once; every ship still sailing moves; a race ends with a winner or with all ships lost |
| Virtual modem (`Computer_Networks_1`) | the session with an external modem | echo, image, GPS, ARQ | reads that time out in any place, answers later than the timeout, a connection that dies | a call ends with an answer to a request of its own; calls return; the fixes of a trace are covered |
| RISC-V multicycle processor (`Low_Level_HW_1`) | FSM state, PC, registers | fetch, decode, execute, memory, write-back | control signals of each state | it executes the instructions the ISA defines |
| Floating-point multiplier (`Low_Level_HW_2`) | operands and mode | multiply, normalise, round, exceptions | carries into the exponent, boundaries of the format, six modes | the exact product correctly rounded, and truthful status bits |
| Microcontroller: assembly | none | hash, digital root, sum | machine words | the routines compute their definitions |
| Microcontroller: GPIO and timers | input buffer, two queues, LED, timer, count of presses | main loop, interrupt handlers | an interrupt between a test and a sleep, full queues, a buffer that is never initialized | the terminal shows what happened; keys and messages are handled |
| Microcontroller: final project | sensor period, AEM, display mode | touch, sensor and UART handlers | nothing after the input is reached | |
| Calculator (`Low_Level_HW_1`) | accumulator | buttons to ALU operations | two clocks write one register | |
| Operating systems: forks and signals | process tree, counters | fork, wait, signal handlers | order of processes and signals | every child is waited for |
| Operating systems: vector | size, capacity, data | `push_back`, `pop`, `remove` | resizing | it is a sequence within its capacity |
| Operating systems: shell scripts | the user's files | | effects outside the repository | |

`PROJECT.json` has the same list with what is left out of each, and every hazard
at the line where it bites.

## 2. Plan

Modules, most important behaviour first. Each modelled component has a
module, an MC module with a configuration, and, unless the list says otherwise, a
`...Proofs` module.

1. **done** `TaskChannel`, `ThreadSafeQueue`, `QueuedWorker`: the queue and its
   worker, down to locks and flag reads, implement an abstract FIFO channel.
2. **done** `TimedWorker`: periodic work against a clock of minutes.
3. **done** `WebsocketClient`: connection, reconnection, subscription, SIGINT.
4. **done** `Candlesticks`, `MovingAverage`, `TradeStatistics`: what the rows of
   the exporting worker contain.
5. **done** `SailingGame`: a race over the lake; collisions, wrecks, wind, the end.
6. **done** `Multicycle`: control FSM, datapath, ALU and register file, refining an
   instruction-level specification.
7. **done** `Config`, `Pipeline`: the whole of `main()`, with one `TaskChannel` per
   queue: construction, distribution, callback, teardown.
8. **done** `FloatMultiplier`: normalisation, rounding and exceptions on a
   narrow format against the exact product.
9. **done** `BlinkConsole`: main loop and handlers of the GPIO lab, queues and WFI.
10. **done** `VirtualModem`: the four requests over an external modem that is late,
    garbles packets or dies.
11. **done** Theorems about every invariant a run checks. Two components share a proof module
    where each has few theorems: `ClientAndTimerProofs`, `HardwareProofs`.
12. The pure routines that are left (assembly, vector, the calculator's decoder) as
    operators compared with reference definitions, and the fork exercise.

Abstract specifications: `TaskChannel`, implemented by `QueuedWorker` in every detail and by
`Pipeline` for each of its queues; `InstructionSet`; to come, the sequence behind
the vector (12). Liveness stays with TLC throughout.

## 3. Modules

`ThreadSafeQueue` holds the queue's state and the pieces of its operations;
`QueuedWorker` extends it with the threads and is the complete specification.
`Candlesticks` and `MovingAverage` are the two containers; `TradeStatistics`
extends both with the threads and the clock. `Pipeline` extends `Config` and composes the
parts: it has a queued worker at the grain of `TaskChannel`, which is what
`QueuedWorker` is shown to implement. `TaskChannel` and `InstructionSet` are
abstract and are instantiated by `QueuedWorker`, `Pipeline` and `Multicycle` under a
refinement mapping. The MC modules add constants only. In every module, an operator
introduced by "Faulty variant" is not part of the specification: it is a change of
the code that a property of the module is known to detect.

### QueuedWorker and ThreadSafeQueue

A step is one access to shared memory, or a critical section all of whose
accesses the mutex protects. `m_stop_flag` is atomic and outside the mutex, so
each of its reads is a step of its own: in the wait predicate (`DequeueTest`),
after the wait (`DequeueFetch`) and in `loop()` (`Decide`).

| Code | Model |
|---|---|
| `enqueue` | `EnqueueLock`, `EnqueuePush` (push, `notify_one`, unlock) |
| `dequeueConditional` | `DequeueLock`, `DequeueTest`, `DequeueSleep` (release and sleep atomically), `DequeueFetch`; `SpuriousWakeup` |
| `loop` | `Decide`, `WorkDone` |
| `start` | `Start` |
| `stop`, `wakeConsumers`, `join` | `StopSetFlag`, `WakeLock`, `WakeNotify`, `Join` |

`T()`, which `dequeueConditional` returns when it is made to give up, is the empty
hand; `sent`, `settled` and `lost` are history.

### TimedWorker

The target is a whole minute, so all the loop can tell about time is how many
minute boundaries are left: `left`. `MinuteTurn` may happen between any two steps
and as often as it likes, which stands for work of any length and threads that
are scheduled late. `Arm` computes the target, `Check` is the inner `while`,
`Sleep` and `Wake` are `wait_until`, `Decide` is the test before `m_work`. The names that other
modules have too are prefixed here (`TimedInit`, `TimedNext`, `TimedSpec`, `TimedInv`), because
`ClientAndTimerProofs` extends this module and `WebsocketClient`.

### WebsocketClient

One variable `at` is the main thread's place in `main()`, `run()`, `connect()` or the
callback. The signal handler runs on that thread, so `stop()` is one step, but
between any two others: `SignalIgnored` before `clientPtr` is set, `SignalStops`
while the client lives, `SignalDangles` after its destructor. libwebsockets is
external: a connection object is made or not (`Connect`), and a call of `lws_service`
delivers any number of callbacks (`Established`, `ConnectionError`, `Closed`,
`Writeable`) and returns (`ServiceReturns`) or reports an error (`ServiceFails`). After an error
`connect()` returns with everything as it is: the connection stays in the context, and
`abandoned` counts those that are left there when the next one is opened. Their callbacks
(`OldEstablished`, `OldDropped`, `OldWriteable`) go to the same client and act on its
`m_wsi` and `m_subscribed`. The statement `m_wsi = lws_client_connect_via_info(...)`
is two steps, `Connect` and `Assign`. The delay is computed in two's complement
of `Width` bits; the C++ standard leaves the overflow undefined, wrapping is what
the compiled code does. `Fits(n)` says that the delay after `n` failures in a row does not overflow.
The place `crashed` stands for a null or dangling pointer; `NoNullPointer` says that only a signal or an
error of `lws_service` leads there. The claims of `OneConnection` and
`Subscription` are graded: some hold always, some until `lws_service` reports an error (`errors = 0`).

### Candlesticks, MovingAverage, TradeStatistics

A container's method holds its mutex from start to end and is one step.
`updateStatistics` makes two calls (`UpdateCandle`, `UpdateAverage`),
`exportStatistics` three reads (`Wake` takes the time, `ExportCandle`,
`ExportAverage`), and the exporter, the updater and the clock interleave between
them. Trades carry a minute up to `Ahead` minutes after the system clock's and any
number before it. Prices and volumes are small integers: the fixed-point
conversion is left out. `candleLog` and `averageLog` are history, the trades each
container accepted; the reference definitions compute from them: `CandleOf` the candlestick of a
minute, `LoggedIn` the trades of a set of minutes, whose prices and volumes are summed.

`ExportCountsWindow` says exactly what an exported average counts: the window, never the current
minute, older minutes only while some minute since has no container, and minutes
that are ahead of the system clock (`EarlyMinutes`), which the code leaves in (a deviation, below).
`RowLacksOneTrade` relates the two halves of a row, which are read one after the other while
the updater adds to both containers one after the other.

### Config and Pipeline

`Config` is `loadFromFile` and `sanitize`: `Narrow` is the conversion of a 64-bit number
of the file to `int`, `ToSize` to `size_t`, `Clamped` is `std::clamp`, of which an
empty list of symbols leaves undefined which bound is taken (both are possible).
`Sanitized(raw)` are the settings that can come of a file, `Defaults` those of the constructor.

In `Pipeline`, `mainAt` says in which part of `main()` the main thread is, and `todo`
what is still to be constructed or destroyed there, in the order the language
gives it: `Construction` follows the declarations in `main.cpp:70-123`, `Destruction`
is their reverse, with the elements of a vector in their own order.

| Code | Model |
|---|---|
| `Config::loadFromFile`; a file that does not parse, or has no token | `Load`; places "terminated" and "refused" |
| declarations of maps and vectors in `main`, `worker_setup.hpp` | `Create`, `StartWorker`, one job each |
| `assign_symbols`, the map from symbols to workers | `assign_symbols`, `TaskWorker` (of equal symbols the last one counts) |
| the receive callback and `parseMessage` | `Receive`, then `EnqueueRecording` and `EnqueueStatistics` for each trade; `Throw` where `at()` or `value()` throws |
| queued workers | `Take`, `GiveUp`, `Decide`, `WorkDone`: the steps of `TaskChannel` |
| exporting workers | `WakeExport`, one `WriteRow` per symbol of the worker, `GiveUpExport` |
| `run()` returns; the destructors | `RunReturns`; `StopWorker`, `JoinWorker` (waits for the thread), `Destroy`, `Exit` |

The abstract specification each queue is shown to implement is `Channel(w)`: its pending
items are the one in hand and those in the queue. `Uses(w)` are the containers
that the worker's function captures by reference. `received`, `accepted`, `settled`, `lost`
and `rounds` are history. `OneOwnerPerSymbol` compares what a worker was given with what was
received of its symbol, position by position: nothing missing, nothing twice, in order.

### SailingGame

The lake is the only record of where a ship is: `findship()` looks for the ship's
colour, and returns the corner (0,0) when it finds none. So the model keeps the
`lake` array, cell by cell, and `Ship(p)` is what `findship()` returns. A ship is two
cells wide and moves two columns at a time. The colours that differ only on the
screen (open water, the preview of a move, the finish line) are one, `Sea`.

| Code (`main.c`) | Model |
|---|---|
| `windchange` | `WindChange` |
| `declaremove` | `DeclareMove`: any sequence the keys can leave declared (`Declarable`); `PassOver` for a lost ship |
| `moveplayers`, its beginning | `StartMoving` |
| `wincheck` before each phase | `WinCheck` |
| `windcheck` | `WindCheck` (the wind takes the ship along or not), `SkipWreck` |
| `moveto`, `crashcheck`, `wreck` | `MoveTo`, with `LookedAt`, `Rammed`, `Damage`, `Wreck` |
| the end of a phase, drawing of the ships the wind took | `EndPhase` |
| the end of `play_turn` | `EndTurn` |

`crashcheck()` looks at cells next to the lake's edge too. `Read` gives what lies in
memory there: the next row, or, behind the last one, the array the linker put there
(nothing ship-like lies in front of the lake). `astray` (ships that were painted over) and `rounded`
(ships that were on the far side of the island) are history. The model is of the first race
of a process.

`WinnersRounded` is a statement about the shape of the island. `IslandAssumption` says what it needs: between
start and finish there is a row that bars the way. `Barriers` are the rows in which every place as far
as column `East` has land in its right cell, which is the one `crashcheck()` looks at in every
direction (of a move to the left it never looks at the left one). In the source this is row 8, land in
columns 1 to 58 (`main.c:784`), with `East` = 58; in the run, row 2 with `East` = 2.

`WrecksAreTimed` has an exception. A wreck is remembered by the cell `wreck()` found the ship in,
and a ship that is not on the lake is found in the corner. This happens to a ship that was painted
over, and to one that is a wreck already: a ship at the lower edge that heads off the lake reads
`prevlake`, which `setpreview()` filled at the beginning of the phase, may find in its first row a
ship that has been wrecked since, and so wrecks it again. The first wreck is then forgotten and
stays. The small lake of the run cannot show the second case; a model with the finish in row 3 and
gusts of wind can.

### Multicycle, InstructionSet, Instructions, Alu

A step of `Multicycle` is a clock edge, with the reset low (`Tick`) or high (`Reset`).
Wires are operators with their names in the Verilog; registers load together, from
the wires before the edge. Words are numbers of `Width` bits, the fields and
immediates of the instructions have their real widths. The two memories are
external (`ram.v` and `rom.v` are not in the repository) and, as their clock input
says, answer at the edge. `Alu` defines the bitwise operators without recursion, by
counting, so that modules with proofs may use them.

`InstructionSet` is the abstract machine: one RISC-V instruction a step, signed
offsets, register 0 always zero. The refinement mapping gives it what the next edge
will load into the PC and the registers (`NextPC`, `NextRegs`): an instruction is done at
the end of the memory state, when its store takes effect, and the write-back is a
stutter. The processor deviates from RISC-V where it writes register 0, and where a
branch or a store has a negative offset; `Supported` is the rest, and the theorem is
about programs of supported instructions.

### FloatMultiplier

The wires of `fp_mult`, `normalization_module`, `rounding_module` and `exception_mult` are
operators of the operands with their names, and the widths of exponent and fraction
are constants. `SignedWire` wraps an exponent to the two extra bits its wire has.
The steps are those of the test bench (`FirstInputs`, `NextInputs`, `Bench`): every mode for a pair of
operands, then the next pair. `PowersAssumption` says of the powers of two a magnitude may hold that
each is positive and twice the one before: true of all numbers, but not known to the provers.
The reference is the exact product as an integer, compared with all numbers of the format.

### BlinkConsole

The interrupts have one priority and do not nest, and what `main()` shares with them is
the queues, of which each call is safe: a handler is one step (`switchPressed_isr`,
`timer_callback_isr`, `uart_rx_isr`), and so is one call of `checkUart()` or `checkMessg()`.
The tests of the two queues and `WFI` are steps of their own, so that an interrupt may come between them.
Characters are odd and even digits, and others. `buff` is never initialized: its first
contents are any. `isValidAEM` tests all of it and `atoi()` reads on behind it; `beyond` is
the byte there. The drivers and the queue are external: a message that does not fit
is dropped. `pressed`, `shownLed`, `overflowed`, `line`, `reached` and `cleared` are history.

### VirtualModem

`call` holds the locals of the method that runs, or ran last; `at` is the loop it is in. A
symbol stands for bytes the program treats alike, and a method reads one symbol a
step (`ReadSymbol`). The end of an answer is in two symbols, between which a read may time out;
an image may have one more FF before its end marker. The modem is external: a
stream of answers, each symbol tagged with the request it belongs to, which may be
late (`Timeout` with something on the line), garbled (`Packet("noise")`) or lost with
the connection (`Disconnect`). The answers of a GPS request are the sentences of one of the given
`Traces`, of any length; those of the others are the few that `Answers` lists. `read()` gives -1 for a timeout and for a dead
connection alike, and where the code does not look for it (`TimeoutIgnored`) it
counts as a character.

## 4. Runs

| Run | Bounds | What it shows |
|---|---|---|
| `worker_queue` | 2 producers, 2 kinds of item, 3 items, 2 sessions | mutual exclusion, conservation of items, no lost wake-up and no pop of an empty queue (all in `IInv`), refinement of the channel, `stop()` returns, items settle |
| `timed_worker` | period 3 | the timer keeps its meaning (`TimedInv`), the work runs once per period at most, `stop()` returns |
| `websocket_client` | 2 symbols, 3 attempts, 2 signals, 2 errors of `lws_service`, 6-bit `int`, delay 10 to 30 | one connection at most per error and none without, the subscription, one late connection at most (all in `IInv`), exact backoff, giving up, the end of the loop |
| `websocket_client_stop` | 1 symbol, 1 attempt, 1 signal | finding: `stop()` during the backoff does not end `run()` |
| `trade_statistics` | 3 minutes, 3 trades of 2 kinds, 2 candlesticks, window 1, clock 1 minute ahead | containers bounded (`IInv`), candlesticks and totals faithful, exported rows complete, their halves one trade apart at most |
| `sailing_game` | a lake of 4 by 6, 2 ships, a light and a heavy one, 3 rounds of 2 phases, wind of speed 0 or 4 | ships drawn once and whole, lives and wrecks in step (`IInv`), wrecks go in time, moves are made or paid for, collisions are mutual, winners have been round the island |
| `multicycle` | programs of 3 out of 13 instructions, 14-bit words, 2 words of memory, 1 reset | the processor implements the instruction set, its operands are never stale (`IInv`) |
| `float_multiplier` | 3 bits of exponent, 3 of fraction; every pair of operands in every mode | no wire is too narrow, every result is the exact product correctly rounded, the status bits are truthful |
| `pipeline` | lists of no symbol, one, two, and one twice; counts of workers negative, 0, too large; 4-bit `int`, 8-bit `size_t`; 2 trades, 2 workers of a kind, 1 round of export | no thread outlives its containers and queues conserve trades (`IInv`), one owner per symbol, every queue implements its channel, the teardown ends, trades settle |
| `blink_console` | a buffer of 2, room for 3 messages and 2 keys, 2 presses, 4 keys | the buffer holds the line (`IInv`), the terminal is truthful, only full lines switch the timer, keys wait only for a sleeping processor |
| `blink_console_sleep` | a buffer of 2, 2 presses, no keys | finding: a press before WFI is not printed |
| `modem` | 4 calls, 2 late answers, 1 garbled packet, GPS traces of 2 and 3 fixes, one disconnection | answers on the line are accounted for (`IInv`), a call ends with an answer of its own, a trace is covered, calls return |

Why the bounds are enough. Two producers and two kinds of item distinguish order
and multiplicity; three items let the queue hold two while one is in hand; two
sessions include a restart over a non-empty queue. A period of three has a first,
a middle and a last minute to be woken in. Two signals are the first that stops
and one that finds the client already stopped, or destroyed; three attempts
reach the delay that overflows (10, 20, then 40 in 6 bits). Two errors
of `lws_service` leave two connections behind, so that callbacks of an earlier one meet a later one. A window of one minute and two stored
candlesticks over three minutes make every kind of minute occur: current, in the
window, stale, and ahead. Three trades make two share a minute and a second, and
leave a third for another minute. On the small lake each ship can meet the other, land,
half a place of land, all four edges and the finish line, be wrecked, and (after three
rounds) have its wreck removed, or win; the bounds shorten a race, not a turn. Three
instructions let one use what the one before computed, loaded or stored and what the one
before that did; words of 14 bits are longer than every immediate, so that a wrong
extension shows. A format of 3 and 3 bits has results that overflow before and after
rounding, underflow, tie and carry out of the mantissa, in every mode; with 2 bits of
fraction the sticky bit would have one bit only. Two workers and lists of up to two symbols make
more workers than symbols, fewer, and a symbol with two exporters; two trades make
one wait behind another, or two queues be stopped one before the other. A
buffer of two has a line that is empty, half full and full; three messages are one
less than two presses make, so that the queue overflows. Two late answers make a call
read the answer of the call before, and a retry; a fourth call reads what three left behind.
Where there is a theorem, it has none of these bounds.

Deadlock is checked where the system never stops: both workers, whose owner can
always call `stop()` again, and the multiplier's inputs. It is not where it does stop: the
client's process and that of `Pipeline` exit, the statistics run ends at the bounds of its clock and
its trades, a race ends (or the run does, after `MaxRounds`), the processor's clock is
stopped when the PC leaves the program, the console may sleep for ever when
nobody presses or types, and the modem's calls come to an end.

### Fairness

* `QueuedWorker`: the worker thread runs and `m_work` returns, the owner finishes a
  `stop()` it began, and a producer that holds the mutex releases it. Weak fairness
  of whole threads is enough; the mutex is not assumed fair, nobody has to
  enqueue or stop.
* `TimedWorker`: time passes, the thread and `stop()` run.
* `WebsocketClient`: weak fairness of the main thread; strong fairness of "established
  or failed", because `lws_set_timeout` (`finnhub_client.cpp:104`) gives the attempt two
  seconds. The server may keep a connection for ever, or close it at any time.
* `TradeStatistics`, `SailingGame`, `FloatMultiplier`: none; only safety is claimed.
* `Multicycle`: the clock goes on without reset. No liveness is claimed of it.
* `Pipeline`: the callback finishes a message, the teardown takes its next step when it can,
  each queued worker runs and its work returns, and an exporter writes its rows and
  looks at its flag. Nobody has to send a trade, and `run()` need not return. Weak
  fairness is enough: a thread that can take a step keeps it until it does, as
  only the worker itself empties its queue.
* `BlinkConsole`: the processor runs while it does not sleep, and a timer that is enabled
  fires. Nobody has to press or type. Messages wait behind keys as long as those keep coming
  (`checkUart()` goes first), and no property says otherwise.
* `VirtualModem`: a read takes what is on the line, or times out when there is nothing. No
  fairness is asked of the server but what its bounds say: it is late and garbles finitely often.

### Findings

1. SIGINT in the backoff sleep, or before the result of
   `lws_client_connect_via_info` is stored, leaves the client running until the
   server closes the next connection (`finnhub_client.hpp:49`).
2. A press of the button between the tests of the two queues and `__WFI()` is handled
   before the processor sleeps, and is not printed until another interrupt comes
   (`main.c:33-34` and `:216-218` of the GPIO lab say that it is).

Other deviations the models contain and the properties are stated around; no run
shows them:

* `TimedWorker::stop` notifies without `m_mutex`: the worker, between its check and its
  wait, misses it and sleeps out its timer (`timed_worker.hpp:57`). `StopReturns` still
  holds: it returns at the target minute.
* SIGINT in a call of `lws_service` that has a WRITEABLE callback still to deliver, or between
  two `lws_write` calls, makes the callback use a null `m_wsi` (`finnhub_client.cpp:253`); so it does in
  `lws_set_timeout` (`:104`). `StopEndsLoop` is about the other signals in the event
  loop and admits no crash; `NoNullPointer` allows one only after a signal or an error of `lws_service`.
* When `lws_service` reports an error, `connect()` returns without `reset()` (`finnhub_client.cpp:106`): `m_subscribed` stays
  true, and the next connection is open and subscribed to nothing, beside the old
  one (`finnhub_client.hpp:98` says of the flag "Whether the client is currently subscribed to symbols or
  not"). What `OneConnection`, `Subscription` and `BackoffExact` claim in spite of it, and what only until then, their `errors` say.
* The backoff is computed in `int` before it is limited (`finnhub_client.cpp:57`): with the
  defaults the client no longer waits after 18 failures in a row. `BackoffExact` claims the
  documented delay where the product fits, and elsewhere only that the delay is not above the limit.
* A trade whose timestamp is ahead of the system clock counts in an exported average before its
  minute begins, where `finnhub_data.hpp:189` promises "the moving average of the past
  completed minutes". `ExportCountsWindow` names these trades (`EarlyMinutes`).
* One call of the average a minute does not keep its window exact
  (`finnhub_data.hpp:175`): `prune` runs only when there are too many containers.
* A row read while the minute turns has the candlestick of one minute and the average of another
  (`tasks.cpp:52`): `RowLacksOneTrade` is about rows read within one minute.
* An AEM of five digits never switches the timer, as its sixth cell is tested too (`main.c:22`, `:100`), although the
  labs' `README.md:38` says "If the number is odd, set a timer to blink the LED". `LineSwitchesTimer`
  says what the code does.
* Messages of the console wait behind keys for as long as those keep coming (`main.c:219`): no property is
  about it, and the bound on keys would hide it.
* An answer later than the timeout ends the next call (`virtualModem.java:56`): the response time is then that of
  another packet. `AnswersOwn` is about the calls before the first such answer.
* A ship that moves onto the place of one whose turn in the phase is still to come
  paints over it (`Structured_Programming/main.c:1320`): that ship sails on, but is nowhere on the lake.
* Where there is no ship, `crashcheck()` reads `donemoving[4]`, behind an array of four (`main.c:1317`).
  The model takes it to be false; with another value no ship could cross open water.
* The immediates of branches and stores are not sign-extended (`datapath.v:38`): the
  processor cannot run a loop, and `Supported` leaves negative ones out.
* A symbol listed twice has one queue, but each exporter that has it writes its file
  (`worker_setup.hpp:49`); `OneOwnerPerSymbol` says of the export only what holds of distinct symbols.
* The ARQ loop and the reading of a GPS sentence do not end on a dead connection
  (`virtualModem.java:241`, `:162`): `CallsEnd` leaves them out when the connection is down.
* The final microcontroller project accepts no input (see section 6).

## 5. Proofs

Each proof rests on the named assumptions of its module (the constants are
natural numbers, threads have distinct names, powers of two double, a row of the island bars the way) and has the same shape:
`Init => IInv`, `IInv /\ [Next]_vars => IInv'` with a step per action, then temporal
logic.

* **QueuedWorkerProofs** — `InvariantHolds`, `QueueImplementsChannel`. Conservation alone is not inductive: that
  `DequeueFetch` pops a non-empty queue needs `DequeueSafe`, which needs that a
  worker at "fetch" holds the mutex (`MutexInv`) so that nobody pops in between;
  `NoLostWakeup` needs that `stop()` takes the mutex between setting the flag and
  notifying (`FlagInv`, `MutexInv`). For the refinement, a pop is a stutter (the item
  stays undecided), `Decide` is `Work` or `Finish`, and setting the flag is `Close`.
* **ClientAndTimerProofs** — of the client `InvariantHolds`, `ConnectionIsUnique`,
  `SubscriptionIsTracked`, `LateConnectIsUnique`, `NullPointersAreSignalled`, `BackoffIsExact`, for any number of
  signals and of errors of `lws_service`. `LoopInv` is the
  strengthening: what each place of the main thread knows about the connection, the flag and a late
  attempt. Its first conjunct counts: the connections left behind, and the present one where it is
  about to be (`Leaving`), are at most as many as the errors, since an error is the only way out of the
  event loop with a connection and without a stop. `ServedInv` is what holds in addition until the first error: a
  subscription under way is that of the present connection. `CountInv` adds what `m_connection_attempts` counts until then: the attempts
  that failed in a row, and while one is on its way one more. With it the delay computed in `int` arithmetic is the
  documented one wherever the product fits (`Fits`), in every configuration, the
  default one included; that no delay is longer than the limit needs none of this. Of the timer
  `TimedInvariantHolds`, `WorksOncePerPeriod`. The strengthening is `TimeInv`: minutes passed and minutes left add up to
  a period.
* **TradeStatisticsProofs** — `InvariantHolds`, `ContainersAreBounded`, `AverageIsFaithful`,
  `ExportsCountTheirWindow`, `RowsLackOneTrade`, `CandlesAreFaithful`. With one
  container too many, all of whose minutes are at most the current one plus
  `Ahead`, one of them is stale (a pigeonhole argument over
  `FiniteSetTheorems`), so the eviction finds something to erase. The sums over a set of trades
  unfold to one trade and the rest: `SumTakesOut` proves it of `SumFunctionOnSet` by
  induction on the size of the set, as an induction over the subset of the naturals for which it holds,
  and from it follow the sum of disjoint sets (`SumSplits`) and that totals are the sums of
  their minutes. Each candlestick is by cases the first trade of its minute or one more
  (`FirstCandle`, `NextCandle`). `RowsLackOneTrade` needs `RowInv`: the two logs differ by the trade in
  hand, and a candlestick read in this minute counts no more than its log had then. An old trade counts in an export only while a minute of the window
  has no container (`WindowFull`): with all of them there, `prune()` has run.
* **SailingGameProofs** — `InvariantHolds`, `WrecksTimed`, `MovesArePaid`, `RammingCostsBoth`,
  `RacesEndRight`, `WinnersHaveRounded`, for every lake, island, fleet, wind and number of rounds. Everything rests on
  whole places: a place is a cell of an even column with the one beside it, and whatever is painted (the
  finish line, a ship, a wreck, what lies under an old wreck) is a union of places (`Aligned`). So
  painting covers a ship or spares it (`PaintedShips`). That holds of wrecks because
  `wreckship` names the cell right of an even column (`WreckInv`), and of the finish line because
  it ends in an odd column, which is assumed as the source draws it. A lost ship is erased with the
  step in which it is lost, so ships on the lake sail; that needs that ships sail as long as they have
  lives (`LivesInv`). `WrecksAreTimed` is inductive together with `IInv`: a ship that
  is wrecked although it does not sail is not on the lake, so the second wreck is in the corner.
  `MovesArePaid` needs that the corner is never painted under a ship that just collided:
  `findship()` gives it for a rammed ship that is not on the lake, which is seen only in `prevlake`,
  from the last row (`GhostsAreBelow`).
  `WinnersHaveRounded` rests on `Course`: the wall (the right cells of one barrier) is land whatever is painted,
  no wreck is remembered on it, a ship that was neither painted over nor beyond the island is below the
  barrier's row, and a ship that sails but is not on the lake has been painted over. A move changes the row by one and
  looks at the right cell of the place it ends in (`LooksRight`), so a ship that comes to the barrier's row
  has its right cell outside the wall, hence at `East` or beyond (`PlaceOffWall`). The other ways
  to get to the finish, a drawing in the corner above all, are open only to ships painted over or in row 0
  already; and clearing an old wreck opens no gap, because what it clears is a place the wall has no cell in.
* **HardwareProofs** — of the processor `InvariantHolds`, `ProcessorImplementsInstructionSet`,
  `DifferenceIsZero`. That the operands in execution are those of the registers
  (`ReadInv`) needs that the instruction stays that of the PC (`FetchInv`), and a loaded word that of
  memory (`LoadInv`) that the operands stay; all three rest on PC and registers changing in
  write-back only. The step that refines is the end of the memory state, by kind of
  instruction; `DecodeIsRight` says that ALU control and immediate are what the instruction
  means, and needs the instruction to be supported. BEQ compares by
  subtraction: `DifferenceIsZero` needs words in range, hence the types of every ALU
  result. Assumed of the powers of two up to `Width`: that they are natural numbers
  and 2^n > n.
  Of the multiplier `WidthsAreSufficient`, `ProductsAreRounded` and `StatusIsTruthful`, for every width of
  exponent (2 and more) and fraction. The state is its inputs, so all is arithmetic. `ProductFacts`: the product of two mantissas
  has its leading one in one of two places, and what normalisation cuts off is guard and sticky bit.
  `ProductNeighbours` places the exact product between the number with the normalised mantissa and the next one, and
  relates guard and sticky to where between; `Gap` says that no number of the format lies between
  those two. Each mode then picks the neighbour that its definition names (`RoundedToNeighbour`),
  with the carry of rounding going into the exponent (`NeighbourResult`). Beyond the range of the format the
  result is what the mode prescribes, and the status bits compare the result with the exact product
  (`StatusOfProduct`).
* **BlinkConsoleProofs** — `InvariantHolds`, `OnlyFullLinesSwitch`, `ReportsAreTruthful`.
  That only full lines switch the timer needs that behind the longest the line has been
  the buffer is cleared (`BufferHoldsLine`): a cell that is a digit has been typed
  since. Truthful reports are inductive when stated with the set of waiting messages
  (`ReportInv`): a message that is dequeued moves from what is waiting to what is shown.
* **PipelineProofs** — `InvariantHolds`, `SymbolsHaveOneOwner`, `ChannelsImplemented`, for every
  configuration, every number of workers and trades. That no thread outlives its containers is not inductive:
  `TeardownInv` says of the jobs still to do that in set-up threads start after the last
  container is created, each of them once, and that in the teardown every thread
  has its join to come, before the first container is destroyed. It holds of
  `Construction` and `Destruction` because of the positions of their four parts
  (`FourParts`), and a job taken from the front keeps it (`TailJobs`). That a
  trade goes to an existing worker needs `MessageInv` (a trade that is in its first queue only has a
  known symbol) and that a symbol of the list has a last occurrence, which
  well-foundedness of the naturals gives. That symbols have one owner is an invariant about all trades
  received (`OwnerInv`): each is in the queues of its workers, or was taken from them, behind those
  received before it, once; the last one may still be missing in its second queue. From it the
  property follows by conservation, as what is settled comes first in what was accepted. For
  the export it needs that every `count`-th symbol of the list is in the list (`StrideFits`),
  by counting them. For the refinement, `Take` is a stutter (the trade stays
  pending), `Decide` is `Work` or `Finish`, `StopWorker` is `Close`.
* **VirtualModemProofs** — `InvariantHolds`, `AnswersAreOwn`, `FixesAreCovered`, for any traces, number of
  calls, late answers and garbled packets. That the line holds at most one answer more than there
  were early reads (`Backlog`) is inductive only with what is on the line: no two symbols that may end
  an answer belong to the same request (`LineInv`), so whoever reads one has finished it, and with the place a
  method can be in (`PlaceInv`). `AnswersAreOwn` needs in addition, as long as no read was too early, that all of
  the line belongs to the call that runs, and that an image and what it has read of it make one
  of the possible answers (`OwnInv`). `FixesAreCovered` is about traces whose times ascend (`Ascending`, its hypothesis,
  which the traces of a day satisfy and those of the run do): the fields of a fix are read in their order (`FieldInv`), and the fixes to
  come are no earlier than those selected (`TimeInv`), so that a fix that was not selected is near one that was.

Every invariant and action property of a passing run is stated by a theorem. Only model-checked: every
liveness property, as fairness and ENABLED are beyond the prover, and the two findings. Recursive
definitions are not used where something is proved, and inductions are over sets of naturals and
finite sets.

## 6. Not modelled

* Of RTES: `recordTrade`, logging, file names and columns (formatting); the syntax of
  messages and of the configuration; thread affinity, which changes no state the
  threads read; the conversion of prices to fixed point and the overflow of price times volume
  (listed as a hazard: the source gives no range for either); `ThreadSafeQueue::dequeue`, `front` and `isEmpty`, which no thread
  calls; a signal in the teardown of `main()` beyond `SignalDangles`; the analysis scripts.
* Of the sailing game, menus, drawing and what a second race finds in the globals of the first.
* Of the virtual modem, `DDMtoDMS` and the files `main()` writes: text.
* The final microcontroller project: `get_uart_input()` keeps five characters at most
  (`03. Final/main.c:152`), `isValidAEM()` wants six digits (`:120`), and the static buffer
  is zero, so no input is ever accepted and what follows line 181 is not reached. The console of the GPIO lab, which is
  modelled, has the same loop with room for the whole number.
* The pipelined multiplier that the test bench names: it is not in the repository.
* The assembly lab, the vector, the calculator, forks and signals: planned (12), short programs without
  a state that lasts.
* Shell scripts, reports and notebooks: no state, or state outside the repository.
