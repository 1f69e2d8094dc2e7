------------------------------ MODULE Pipeline ------------------------------
(***************************************************************************)
(* main() of RealTime_Embedded_Systems with worker_setup.hpp, tasks.cpp    *)
(* and the client's receive callback: the configuration is loaded, maps,   *)
(* queues and workers are built, the client puts every trade into the two  *)
(* queues of its symbol, and when run() returns everything is destroyed in *)
(* the order the language gives it while the worker threads still run.     *)
(*                                                                         *)
(* The parts have modules of their own: a queue with its worker appears    *)
(* here as coarsely as TaskChannel allows, the timed worker without its    *)
(* clock, the client without its connection.                               *)
(***************************************************************************)
EXTENDS Config, SequencesExt

CONSTANTS Unknown,      \* a symbol nobody subscribed to
          MaxWorkers,   \* the most workers of a kind any configuration asks for
          MaxTrades,    \* bound: trades received
          MaxRounds     \* bound: rounds of an exporting worker

ASSUME PipelineAssumption ==
    /\ Unknown \notin Symbols
    /\ MaxWorkers \in Nat /\ MaxTrades \in Nat /\ MaxRounds \in Nat
    /\ \A l \in SymbolLists \cup {DefaultSymbols} : AtLeast(1, Len(l)) <= MaxWorkers

VARIABLES mainAt,    \* where main() is
          settings,  \* the Config
          todo,      \* what main() still has to construct or destroy
          alive,     \* the objects the workers refer to that exist
          flag,      \* m_stop_flag of each worker
          thread,    \* where each worker's thread is; "none": not joinable
          queue,     \* the queue of each queued worker
          hand,      \* the trade it has dequeued and not decided about
          row,       \* how many rows an exporting worker has left
          message,   \* the trades of the message in the callback
          half,      \* whether the first of them is in its recording queue
          received,  \* history: the trades the callback has put into queues
          accepted,  \* history: those of each queue
          settled,   \* history: those each worker decided about
          lost,      \* history: the positions in settled it did not work on
          rounds     \* history: the rounds of each exporting worker

vars == <<mainAt, settings, todo, alive, flag, thread, queue, hand, row, message, half,
          received, accepted, settled, lost, rounds>>
mainVars == <<mainAt, settings, todo, alive>>
channelVars == <<queue, hand, accepted, settled, lost>>
exportVars == <<row, rounds>>
clientVars == <<message, half, received>>

Indices == 1..MaxWorkers
QueueWorkers == {"recording", "statistics"} \X Indices
Exporters == {"exporting"} \X Indices
Workers == QueueWorkers \cup Exporters

Trades == [symbol : Symbols, id : 1..MaxTrades]

\* The objects a worker's function captures by reference (main.cpp:94-121).
Uses(w) ==
    CASE w[1] = "recording"  -> {"files"}
      [] w[1] = "statistics" -> {"candlesticks", "averages"}
      [] w[1] = "exporting"  -> {"files", "candlesticks", "averages"}

Containers == {"files", "candlesticks", "averages"}

Init ==
    /\ mainAt = "load" /\ settings = Defaults /\ todo = <<>> /\ alive = {}
    /\ flag = [w \in Workers |-> FALSE]
    /\ thread = [w \in Workers |-> "none"]
    /\ queue = [w \in QueueWorkers |-> <<>>]
    /\ hand = [w \in QueueWorkers |-> <<>>]
    /\ row = [e \in Exporters |-> 0]
    /\ message = <<>> /\ half = FALSE
    /\ received = <<>>
    /\ accepted = [w \in QueueWorkers |-> <<>>]
    /\ settled = [w \in QueueWorkers |-> <<>>]
    /\ lost = [w \in QueueWorkers |-> {}]
    /\ rounds = [e \in Exporters |-> 0]

-----------------------------------------------------------------------------
(* Distribution of the symbols (worker_setup.hpp). *)

\* The symbols given to worker i of kind k, in the order of the list.
assign_symbols(s, k, i) ==
    [j \in 1..Cardinality({n \in 1..Len(s.symbols) : (n - 1) % s.count[k] = i - 1}) |->
        s.symbols[(j - 1) * s.count[k] + i]]

\* Faulty variant: a queue is picked for each trade, not for each symbol.
TaskWorkerPerTrade(k, symbol) ==
    <<k, ((Len(received) + (IF half THEN 1 ELSE 0)) % settings.count[k]) + 1>>

\* The worker of kind k whose queue takes the trades of a symbol: of equal symbols
\* the last one counts, as it overwrites the map.
TaskWorker(k, symbol) ==
    LET last == CHOOSE n \in 1..Len(settings.symbols) :
                    /\ settings.symbols[n] = symbol
                    /\ \A m \in (n + 1)..Len(settings.symbols) : settings.symbols[m] # symbol
    IN  <<k, ((last - 1) % settings.count[k]) + 1>>

Known(symbol) == \E n \in 1..Len(settings.symbols) : settings.symbols[n] = symbol

-----------------------------------------------------------------------------
(* main() *)

Job(do, what) == [do |-> do, what |-> what]
\* Faulty variant: the loop that starts the workers stops one short.
JobsOfShort(s, k, do) == [i \in 1..(s.count[k] - 1) |-> Job(do, <<k, i>>)]

JobsOf(s, k, do) == [i \in 1..s.count[k] |-> Job(do, <<k, i>>)]

\* Everything main() declares that a thread refers to, in order.
Construction(s) ==
    <<Job("create", "files"), Job("create", "averages"), Job("create", "candlesticks")>>
    \o JobsOf(s, "recording", "start") \o JobsOf(s, "statistics", "start")
    \o JobsOf(s, "exporting", "start")

\* A worker's destructor is stop(), which ends with join(): two jobs for each.
StopAll(s, k) ==
    [i \in 1..(2 * s.count[k]) |->
        Job(IF i % 2 = 1 THEN "stop" ELSE "join", <<k, (i + 1) \div 2>>)]

\* Faulty variant: the containers are declared after the recording workers.
DestructionContainersFirst(s) ==
    StopAll(s, "exporting") \o StopAll(s, "statistics")
    \o <<Job("destroy", "candlesticks"), Job("destroy", "averages"), Job("destroy", "files")>>
    \o StopAll(s, "recording")

\* Objects are destroyed in the reverse order, the elements of a vector in its own.
Destruction(s) ==
    StopAll(s, "exporting") \o StopAll(s, "statistics") \o StopAll(s, "recording")
    \o <<Job("destroy", "candlesticks"), Job("destroy", "averages"), Job("destroy", "files")>>

\* loadFromFile(): no file, a file that does not parse (simdjson throws outside of
\* the try block), one with a field missing, or a complete one.  The token may be missing.
Load ==
    /\ mainAt = "load"
    /\ \/ /\ mainAt' \in {"terminated", "refused"}
          /\ UNCHANGED <<settings, todo>>
       \/ /\ mainAt' = "setup"
          /\ \/ UNCHANGED settings
             \/ \E raw \in Files : settings' \in Sanitized(raw)
          /\ todo' = Construction(settings')
    /\ UNCHANGED <<alive, flag, thread, channelVars, exportVars, clientVars>>

FirstJob(place, do) ==
    /\ mainAt = place
    /\ todo # <<>>
    /\ Head(todo).do = do
    /\ todo' = Tail(todo)
    /\ UNCHANGED <<mainAt, settings>>

Create ==
    /\ FirstJob("setup", "create")
    /\ alive' = alive \cup {Head(todo).what}
    /\ UNCHANGED <<flag, thread, channelVars, exportVars, clientVars>>

StartWorker ==
    /\ FirstJob("setup", "start")
    /\ flag' = [flag EXCEPT ![Head(todo).what] = FALSE]
    /\ thread' = [thread EXCEPT ![Head(todo).what] = "wait"]
    /\ UNCHANGED <<alive, channelVars, exportVars, clientVars>>

Run ==
    /\ mainAt = "setup" /\ todo = <<>>
    /\ mainAt' = "run"
    /\ UNCHANGED <<settings, todo, alive, flag, thread, channelVars, exportVars, clientVars>>

\* run() returns: stopped, or out of attempts.  main() returns.
RunReturns ==
    /\ mainAt = "run" /\ message = <<>>
    /\ mainAt' = "leave"
    /\ todo' = Destruction(settings)
    /\ UNCHANGED <<settings, alive, flag, thread, channelVars, exportVars, clientVars>>

\* Faulty variant: stop() joins without setting the flag.
StopWorkerSilently ==
    /\ FirstJob("leave", "stop")
    /\ UNCHANGED <<alive, flag, thread, channelVars, exportVars, clientVars>>

StopWorker ==
    /\ FirstJob("leave", "stop")
    /\ flag' = [flag EXCEPT ![Head(todo).what] = TRUE]
    /\ UNCHANGED <<alive, thread, channelVars, exportVars, clientVars>>

JoinWorker ==
    /\ FirstJob("leave", "join")
    /\ thread[Head(todo).what] = "exited"
    /\ thread' = [thread EXCEPT ![Head(todo).what] = "none"]
    /\ UNCHANGED <<alive, flag, channelVars, exportVars, clientVars>>

Destroy ==
    /\ FirstJob("leave", "destroy")
    /\ alive' = alive \ {Head(todo).what}
    /\ UNCHANGED <<flag, thread, channelVars, exportVars, clientVars>>

Exit ==
    /\ mainAt = "leave" /\ todo = <<>>
    /\ mainAt' = "exited"
    /\ UNCHANGED <<settings, todo, alive, flag, thread, channelVars, exportVars, clientVars>>

-----------------------------------------------------------------------------
(* The client's callback, on the main thread. *)

\* What parseMessage() returns, of any message: items that do not parse are left out,
\* and there are none in a message that is no JSON or is of another type.
Items == Symbols \cup {Unknown}

Receive(trades) ==
    /\ mainAt = "run" /\ message = <<>>
    /\ Len(received) + Len(trades) <= MaxTrades
    /\ message' = trades
    /\ UNCHANGED <<mainVars, flag, thread, channelVars, exportVars, half, received>>

\* at() throws for an unknown symbol, and value() for a message without a type; the
\* exception has no handler.
Throw ==
    /\ mainAt = "run"
    /\ \/ message = <<>>
       \/ message # <<>> /\ ~half /\ ~Known(Head(message))
    /\ mainAt' = "terminated"
    /\ UNCHANGED <<settings, todo, alive, flag, thread, channelVars, exportVars, clientVars>>

Enqueue(w, trade) ==
    /\ queue' = [queue EXCEPT ![w] = Append(@, trade)]
    /\ accepted' = [accepted EXCEPT ![w] = Append(@, trade)]
    /\ UNCHANGED <<mainVars, flag, thread, hand, settled, lost, exportVars>>

EnqueueRecording ==
    /\ mainAt = "run" /\ message # <<>> /\ ~half
    /\ Known(Head(message))
    /\ LET trade == [symbol |-> Head(message), id |-> Len(received) + 1]
       IN  /\ Enqueue(TaskWorker("recording", trade.symbol), trade)
           /\ received' = Append(received, trade)
    /\ half' = TRUE
    /\ UNCHANGED message

EnqueueStatistics ==
    /\ mainAt = "run" /\ half
    /\ LET trade == received[Len(received)]
       IN  Enqueue(TaskWorker("statistics", trade.symbol), trade)
    /\ half' = FALSE
    /\ message' = Tail(message)
    /\ UNCHANGED received

-----------------------------------------------------------------------------
(* The recording and statistics workers. *)

Running == mainAt \notin {"terminated", "refused", "exited"}

Take(w) ==
    /\ Running
    /\ thread[w] = "wait" /\ ~flag[w] /\ queue[w] # <<>>
    /\ hand' = [hand EXCEPT ![w] = <<Head(queue[w])>>]
    /\ queue' = [queue EXCEPT ![w] = Tail(@)]
    /\ thread' = [thread EXCEPT ![w] = "decide"]
    /\ UNCHANGED <<mainVars, flag, accepted, settled, lost, exportVars, clientVars>>

GiveUp(w) ==
    /\ Running
    /\ thread[w] = "wait" /\ flag[w]
    /\ thread' = [thread EXCEPT ![w] = "exited"]
    /\ UNCHANGED <<mainVars, flag, channelVars, exportVars, clientVars>>

\* Faulty variant: an item found with the flag set goes back to the end of the queue.
DecideRequeue(w) ==
    /\ Running
    /\ thread[w] = "decide"
    /\ hand' = [hand EXCEPT ![w] = <<>>]
    /\ IF flag[w]
       THEN /\ thread' = [thread EXCEPT ![w] = "exited"]
            /\ queue' = [queue EXCEPT ![w] = @ \o hand[w]]
            /\ UNCHANGED settled
       ELSE /\ thread' = [thread EXCEPT ![w] = "work"]
            /\ settled' = [settled EXCEPT ![w] = @ \o hand[w]]
            /\ UNCHANGED queue
    /\ UNCHANGED <<mainVars, flag, accepted, lost, exportVars, clientVars>>

Decide(w) ==
    /\ Running
    /\ thread[w] = "decide"
    /\ settled' = [settled EXCEPT ![w] = @ \o hand[w]]
    /\ hand' = [hand EXCEPT ![w] = <<>>]
    /\ IF flag[w]
       THEN /\ thread' = [thread EXCEPT ![w] = "exited"]
            /\ lost' = [lost EXCEPT ![w] = @ \cup {Len(settled[w]) + 1}]
       ELSE /\ thread' = [thread EXCEPT ![w] = "work"]
            /\ UNCHANGED lost
    /\ UNCHANGED <<mainVars, flag, queue, accepted, exportVars, clientVars>>

WorkDone(w) ==
    /\ Running
    /\ thread[w] = "work"
    /\ thread' = [thread EXCEPT ![w] = "wait"]
    /\ UNCHANGED <<mainVars, flag, channelVars, exportVars, clientVars>>

QueueWorkerStep(w) == Take(w) \/ GiveUp(w) \/ Decide(w) \/ WorkDone(w)

-----------------------------------------------------------------------------
(* The exporting workers: one row for each symbol of the worker, in order. *)

\* Faulty variant: the function captures the list of all symbols, which main() calls symbols too.
AssignedAll(e) == settings.symbols

Assigned(e) == assign_symbols(settings, "exporting", e[2])

WakeExport(e) ==
    /\ Running
    /\ thread[e] = "wait" /\ ~flag[e]
    /\ rounds[e] < MaxRounds
    /\ thread' = [thread EXCEPT ![e] = "work"]
    /\ row' = [row EXCEPT ![e] = Len(Assigned(e))]
    /\ rounds' = [rounds EXCEPT ![e] = @ + 1]
    /\ UNCHANGED <<mainVars, flag, channelVars, clientVars>>

WriteRow(e) ==
    /\ Running
    /\ thread[e] = "work"
    /\ IF row[e] > 1
       THEN row' = [row EXCEPT ![e] = @ - 1] /\ UNCHANGED thread
       ELSE row' = [row EXCEPT ![e] = 0] /\ thread' = [thread EXCEPT ![e] = "wait"]
    /\ UNCHANGED <<mainVars, flag, channelVars, rounds, clientVars>>

GiveUpExport(e) ==
    /\ Running
    /\ thread[e] = "wait" /\ flag[e]
    /\ thread' = [thread EXCEPT ![e] = "exited"]
    /\ UNCHANGED <<mainVars, flag, channelVars, exportVars, clientVars>>

ExporterStep(e) == WakeExport(e) \/ WriteRow(e) \/ GiveUpExport(e)

-----------------------------------------------------------------------------
Messages == SeqOf(Items, 2)

Setup == Load \/ Create \/ StartWorker \/ Run
Leave == StopWorker \/ JoinWorker \/ Destroy \/ Exit
Callback == EnqueueRecording \/ EnqueueStatistics

Next ==
    \/ Setup
    \/ \E trades \in Messages : Receive(trades)
    \/ Throw
    \/ Callback
    \/ RunReturns
    \/ Leave
    \/ \E w \in QueueWorkers : QueueWorkerStep(w)
    \/ \E e \in Exporters : ExporterStep(e)

\* The threads run; nobody has to send a trade, and run() need not return.
Fairness ==
    /\ WF_vars(Callback)
    /\ WF_vars(Leave)
    /\ \A w \in QueueWorkers : WF_vars(QueueWorkerStep(w))
    /\ \A e \in Exporters : WF_vars(WriteRow(e) \/ GiveUpExport(e))

Spec == Init /\ [][Next]_vars /\ Fairness

-----------------------------------------------------------------------------
(* Properties *)

Places == {"load", "setup", "run", "leave", "exited", "refused", "terminated"}
ThreadPlaces == {"none", "wait", "decide", "work", "exited"}

TypeOK ==
    /\ mainAt \in Places
    /\ todo \in Seq([do : {"create", "start", "stop", "join", "destroy"},
                     what : Containers \cup Workers])
    /\ alive \subseteq Containers
    /\ flag \in [Workers -> BOOLEAN]
    /\ thread \in [Workers -> ThreadPlaces]
    /\ queue \in [QueueWorkers -> Seq(Trades)]
    /\ hand \in [QueueWorkers -> Seq(Trades)]
    /\ accepted \in [QueueWorkers -> Seq(Trades)]
    /\ settled \in [QueueWorkers -> Seq(Trades)]
    /\ lost \in [QueueWorkers -> SUBSET (Nat \ {0})]
    /\ half \in BOOLEAN
    /\ message \in Seq(Items) /\ received \in Seq(Trades)
    /\ Usable(settings) /\ settings.symbols \in Seq(Symbols)
    /\ \A k \in Counts : settings.count[k] \in 0..MaxWorkers

\* A thread between start() and the return of join().
Joinable(w) == thread[w] # "none"

\* main.cpp:70-123 declares the containers before the workers that refer to them, and
\* the language destroys them after: no thread is left when its containers go.
ContainersOutliveThreads ==
    \A w \in Workers : Joinable(w) => Uses(w) \subseteq alive

\* What a queue has accepted is settled, in the worker's hand, or waiting, in order.
Conservation ==
    \A w \in QueueWorkers :
        /\ accepted[w] = settled[w] \o hand[w] \o queue[w]
        /\ hand[w] # <<>> <=> thread[w] = "decide"
        /\ Len(hand[w]) <= 1

\* A trade that is in one of its queues only is the last one received.
MessageInv ==
    /\ message # <<>> => mainAt \in {"run", "terminated"}
    /\ half => message # <<>> /\ received # <<>> /\ Known(received[Len(received)].symbol)
    /\ Len(received) + Len(message) <= MaxTrades + (IF half THEN 1 ELSE 0)

\* A worker main() has asked for.
Wanted(w) == w[1] \in Counts /\ w[2] \in 1..settings.count[w[1]]

JobOK(job) ==
    IF job.do \in {"create", "destroy"} THEN job.what \in Containers
    ELSE job.do \in {"start", "stop", "join"} /\ job.what \in Workers /\ Wanted(job.what)

Jobs(do) == {n \in DOMAIN todo : todo[n].do = do}

\* What is constructed is on its way: threads start after the last container exists,
\* each of them once.
SetupInv ==
    /\ Jobs("stop") \cup Jobs("join") \cup Jobs("destroy") = {}
    /\ \A m \in Jobs("start"), n \in Jobs("create") : n < m
    /\ \A c \in Containers : c \in alive \/ \E n \in Jobs("create") : todo[n].what = c
    /\ \A n \in Jobs("start") :
          /\ ~Joinable(todo[n].what)
          /\ \A m \in Jobs("start") : todo[m].what = todo[n].what => m = n
    /\ Jobs("create") # {} => \A w \in Workers : ~Joinable(w)

\* What is destroyed waits: no container goes before the last join.
LeaveInv ==
    /\ Jobs("create") \cup Jobs("start") = {}
    /\ \A m \in Jobs("join"), n \in Jobs("destroy") : m < n
    /\ Jobs("join") # {} => alive = Containers
    /\ \A w \in Workers : Joinable(w) => \E n \in Jobs("join") : todo[n].what = w

TeardownInv ==
    /\ \A n \in DOMAIN todo : JobOK(todo[n])
    /\ \A w \in Workers : Joinable(w) => Wanted(w)
    /\ mainAt \in {"load", "refused", "exited"} => \A w \in Workers : ~Joinable(w)
    /\ mainAt = "setup" => SetupInv
    /\ mainAt = "run" => alive = Containers
    /\ mainAt = "terminated" => alive = Containers \/ \A w \in Workers : ~Joinable(w)
    /\ mainAt = "leave" => LeaveInv

\* A trade in the queue of w, or taken from it, is one that was received, and w the
\* owner of its symbol; while half, the last one is in its recording queue only.
Delivered(w, trade) ==
    /\ trade.id \in 1..Len(received) /\ received[trade.id] = trade
    /\ TaskWorker(w[1], trade.symbol) = w
    /\ half /\ w[1] = "statistics" => trade.id < Len(received)

HasIt(w, trade) == \E p \in 1..Len(accepted[w]) : accepted[w][p] = trade

QueueOwnerInv(w) ==
    /\ \A p \in 1..Len(accepted[w]) : Delivered(w, accepted[w][p])
    /\ \A p, q \in 1..Len(accepted[w]) : p < q => accepted[w][p].id < accepted[w][q].id

\* The owner of a symbol is given every trade of it.
Distributed(n) ==
    LET trade == received[n]
    IN  /\ trade.id = n /\ Known(trade.symbol)
        /\ HasIt(TaskWorker("recording", trade.symbol), trade)
        /\ \/ half /\ n = Len(received)
           \/ HasIt(TaskWorker("statistics", trade.symbol), trade)

DeliveryInv == \A n \in 1..Len(received) : Distributed(n)

\* A worker drops no trade but its last.
LostInv(w) ==
    lost[w] # {} => lost[w] = {Len(settled[w])} /\ thread[w] \in {"exited", "none"}

OwnerInv ==
    /\ mainAt \in {"load", "setup"} => received = <<>>
    /\ DeliveryInv
    /\ \A w \in QueueWorkers : QueueOwnerInv(w) /\ LostInv(w)

IInv ==
    /\ TypeOK /\ ContainersOutliveThreads /\ Conservation
    /\ MessageInv /\ TeardownInv /\ OwnerInv

SymbolsOf(s) == {s.symbols[n] : n \in 1..Len(s.symbols)}

\* Where the trades of a symbol that a worker has worked on are among those it settled.
Worked(w, symbol) ==
    {p \in 1..Len(settled[w]) : p \notin lost[w] /\ settled[w][p].symbol = symbol}

\* The worker of kind k that owns a symbol is the only one to be given its trades, and
\* it works on them in the order in which the exchange sent them, with none missing.
\* The id of a trade is its place among those received.
OwnedInOrder(k, symbol) ==
    \E w \in {k} \X Indices :
        /\ \A v \in ({k} \X Indices) \ {w} :
              \A p \in 1..Len(accepted[v]) : accepted[v][p].symbol # symbol
        /\ \A p, q \in Worked(w, symbol) : p < q => settled[w][p].id < settled[w][q].id
        /\ \A p \in Worked(w, symbol) :
              /\ settled[w][p].id \in 1..Len(received)
              /\ settled[w][p] = received[settled[w][p].id]
              /\ \A n \in 1..settled[w][p].id : received[n].symbol = symbol =>
                    \E q \in Worked(w, symbol) : settled[w][q] = received[n]

Exports(e, symbol) ==
    thread[e] = "work" /\ \E i \in DOMAIN Assigned(e) : Assigned(e)[i] = symbol

\* A symbol has one owner of each kind, whatever the interleaving of the workers, also
\* with more workers than symbols (worker_setup.hpp:47-81): its file and its statistics
\* are never written by two threads.  Of a symbol that the list names twice this holds
\* for the queues, but not for the export.
OneOwnerPerSymbol ==
    \A symbol \in SymbolsOf(settings) :
        /\ \A k \in {"recording", "statistics"} : OwnedInOrder(k, symbol)
        /\ \A e, f \in Exporters :
              e # f /\ Exports(e, symbol) /\ Exports(f, symbol) => ~IsInjective(settings.symbols)

\* Each queue with its worker, from its start to the join in main()'s teardown, does
\* what QueuedWorker is shown to do: one trade at most is dropped, the one in hand.
Channel(w) == INSTANCE TaskChannel WITH
    Items   <- Trades,
    pending <- hand[w] \o queue[w],
    settled <- settled[w],
    lost    <- lost[w],
    phase   <- IF thread[w] \in {"none", "exited"} THEN "off"
               ELSE IF flag[w] THEN "closing" ELSE "on"

ImplementsChannels ==
    /\ \A w \in QueueWorkers : Channel(w)!Init
    /\ [][\A w \in QueueWorkers : Channel(w)!Next \/ UNCHANGED Channel(w)!vars]_vars

\* The teardown ends: no destructor waits for a thread that waits for main().
TeardownEnds == mainAt = "leave" ~> mainAt = "exited"

\* While the client runs, every trade is worked on by both workers of its symbol.
SettledByBoth(n) ==
    \A k \in {"recording", "statistics"} : \E i \in Indices :
        \E p \in DOMAIN settled[<<k, i>>] : settled[<<k, i>>][p].id = n

TradesSettle ==
    \A n \in 1..MaxTrades :
        Len(received) >= n ~> mainAt \in {"leave", "exited", "terminated"} \/ SettledByBoth(n)
=============================================================================
