--------------------------- MODULE PipelineProofs ---------------------------
(***************************************************************************)
(* Proofs about Pipeline, for every list of symbols, every number of       *)
(* workers and every bound: the inductive invariant IInv, from which no    *)
(* thread outlives the containers it refers to, and that each queue with   *)
(* its worker implements TaskChannel, from its start to its join.          *)
(***************************************************************************)
EXTENDS Pipeline, SequenceTheorems, FiniteSetTheorems, WellFoundedInduction, TLAPS

-----------------------------------------------------------------------------
(* Sequences of trades *)

LEMMA AppendBehind ==
    ASSUME NEW s \in Seq(Trades), NEW h \in Seq(Trades), NEW q \in Seq(Trades),
           NEW x \in Trades
    PROVE  Append(s \o h \o q, x) = s \o h \o Append(q, x)
<1>1. <<x>> \in Seq(Trades) /\ Append(q, x) = q \o <<x>>
    BY AppendIsConcat
<1>2. s \o h \in Seq(Trades) /\ s \o h \o q \in Seq(Trades)
    BY ConcatProperties
<1>3. Append(s \o h \o q, x) = (s \o h \o q) \o <<x>>
    BY <1>2, AppendIsConcat
<1>4. (s \o h \o q) \o <<x>> = (s \o h) \o (q \o <<x>>)
    BY <1>1, <1>2, ConcatAssociative
<1> QED BY <1>1, <1>3, <1>4

(* Popping moves the front of a queue into the empty hand. *)
LEMMA PopMovesHead ==
    ASSUME NEW s \in Seq(Trades), NEW q \in Seq(Trades), q # <<>>
    PROVE  /\ <<Head(q)>> \in Seq(Trades) /\ Tail(q) \in Seq(Trades) /\ Head(q) \in Trades
           /\ q = <<Head(q)>> \o Tail(q)
           /\ s \o <<>> \o q = s \o <<Head(q)>> \o Tail(q)
<1>1. Head(q) \in Trades /\ Tail(q) \in Seq(Trades) /\ <<Head(q)>> \in Seq(Trades)
    BY HeadTailProperties
<1>2. q = <<Head(q)>> \o Tail(q)
    <2>1. /\ <<Head(q)>> \o Tail(q) \in Seq(Trades)
          /\ Len(<<Head(q)>> \o Tail(q)) = Len(q)
        BY <1>1, ConcatProperties, HeadTailProperties
    <2>2. \A i \in 1..Len(q) : q[i] = (<<Head(q)>> \o Tail(q))[i]
        BY <1>1, ConcatProperties, HeadTailProperties
    <2> QED BY <2>1, <2>2, SeqEqual
<1>3. s \o <<>> = s
    BY ConcatEmptySeq
<1>4. s \o (<<Head(q)>> \o Tail(q)) = (s \o <<Head(q)>>) \o Tail(q)
    BY <1>1, ConcatAssociative
<1> QED BY <1>1, <1>2, <1>3, <1>4

(* A hand that is not empty is the head of what is pending. *)
LEMMA HandIsHead ==
    ASSUME NEW h \in Seq(Trades), NEW q \in Seq(Trades), NEW s \in Seq(Trades),
           h # <<>>, Len(h) <= 1
    PROVE  /\ h \o q # <<>> /\ Tail(h \o q) = q
           /\ s \o h = Append(s, Head(h \o q))
<1>1. Len(h) = 1 /\ h[1] \in Trades /\ h = <<h[1]>>
    <2>1. Len(h) = 1
        <3>1. Len(h) \in Nat \ {0}
            BY EmptySeq
        <3>2. \A n \in Nat \ {0} : n <= 1 => n = 1
            OBVIOUS
        <3> QED BY <3>1, <3>2
    <2>2. h[1] \in Trades
        BY <2>1, ElementOfSeq
    <2>3. <<h[1]>> \in Seq(Trades) /\ Len(<<h[1]>>) = 1 /\ <<h[1]>>[1] = h[1]
        BY <2>2
    <2> QED BY <2>1, <2>2, <2>3, SeqEqual
<1>2. h \o q \in Seq(Trades) /\ Len(h \o q) = 1 + Len(q) /\ Len(q) \in Nat
      /\ \A i \in 1..(1 + Len(q)) : (h \o q)[i] = IF i <= 1 THEN h[1] ELSE q[i - 1]
    <2>1. /\ h \o q \in Seq(Trades) /\ Len(h \o q) = Len(h) + Len(q) /\ Len(q) \in Nat
          /\ \A i \in 1..(Len(h) + Len(q)) :
                (h \o q)[i] = IF i <= Len(h) THEN h[i] ELSE q[i - Len(h)]
        BY ConcatProperties, LenProperties
    <2> QED BY <1>1, <2>1
<1>3. h \o q # <<>>
    BY <1>2, EmptySeq
<1>4. Tail(h \o q) = q
    <2>1. /\ Tail(h \o q) \in Seq(Trades) /\ Len(Tail(h \o q)) = Len(q)
          /\ \A i \in 1..Len(q) : Tail(h \o q)[i] = (h \o q)[i + 1]
        BY <1>2, <1>3, HeadTailProperties
    <2>2. \A i \in 1..Len(q) : Tail(h \o q)[i] = q[i]
        BY <1>2, <2>1
    <2> QED BY <2>1, <2>2, SeqEqual
<1>5. Head(h \o q) = h[1]
    BY <1>2
<1>6. Append(s, h[1]) = s \o <<h[1]>>
    BY <1>1, AppendIsConcat
<1> QED BY <1>1, <1>3, <1>4, <1>5, <1>6

-----------------------------------------------------------------------------
(* Settings and workers *)

LEMMA WorkerIsPair ==
    /\ \A w \in Workers : w[1] \in Counts /\ w[2] \in Indices /\ w = <<w[1], w[2]>>
    /\ \A k \in Counts, i \in Indices : <<k, i>> \in Workers
    /\ \A w \in Workers : w \in QueueWorkers <=> w[1] # "exporting"
    /\ QueueWorkers \subseteq Workers /\ Exporters \subseteq Workers
    /\ QueueWorkers \cap Exporters = {}
BY DEF Workers, QueueWorkers, Exporters, Counts, Indices

LEMMA DefaultsUsable ==
    /\ Usable(Defaults) /\ Defaults.symbols \in Seq(Symbols)
    /\ \A k \in Counts : Defaults.count[k] \in 0..MaxWorkers
<1>1. Len(DefaultSymbols) \in Nat \ {0}
    BY ConfigAssumption, EmptySeq
<1>2. AtLeast(1, Len(DefaultSymbols)) <= MaxWorkers
    BY PipelineAssumption
<1>3. 1 <= MaxWorkers /\ MaxWorkers \in Nat
    BY <1>1, <1>2, PipelineAssumption DEF AtLeast
<1> QED BY <1>1, <1>3, ConfigAssumption DEF Defaults, Usable, Counts

LEMMA SanitizedUsable ==
    ASSUME NEW raw \in Files, NEW s \in Sanitized(raw)
    PROVE  /\ Usable(s) /\ s.symbols \in Seq(Symbols)
           /\ \A k \in Counts : s.count[k] \in 0..MaxWorkers
<1> DEFINE size == Len(raw.symbols)
<1>1. /\ raw.symbols \in SymbolLists /\ raw.symbols \in Seq(Symbols) /\ raw.number \in Int
      /\ raw.count \in [Counts -> Int]
    BY ConfigAssumption DEF Files, Counts
<1>2. size \in Nat /\ (raw.symbols # <<>> => size # 0)
    BY <1>1, EmptySeq, LenProperties
<1>3. AtLeast(1, size) <= MaxWorkers /\ MaxWorkers \in Nat
    BY <1>1, PipelineAssumption
<1>4. Narrow(raw.number) \in Int
    BY <1>1, ConfigAssumption DEF Narrow
<1>5. \A k \in Counts : ToSize(raw.count[k]) \in Int
    BY <1>1, ConfigAssumption DEF ToSize
<1>6. PICK c \in [Counts -> 0..AtLeast(1, size)] :
          /\ \A k \in Counts : c[k] \in Clamped(ToSize(raw.count[k]), size)
          /\ s = [symbols |-> raw.symbols, count |-> c,
                  interval |-> AtLeast(1, Narrow(raw.number)),
                  delay |-> AtLeast(0, Narrow(raw.number)),
                  window |-> AtLeast(1, Narrow(raw.number))]
    BY DEF Sanitized
<1>7. \A k \in Counts : c[k] \in 0..MaxWorkers
    BY <1>2, <1>3, <1>6 DEF AtLeast
<1>8. size # 0 => \A k \in Counts : c[k] \in 1..size
    BY <1>2, <1>5, <1>6 DEF Clamped, AtLeast
<1> QED BY <1>1, <1>2, <1>4, <1>6, <1>7, <1>8 DEF Usable, AtLeast

(* A known symbol has a worker of each kind. *)
LEMMA KnownHasWorker ==
    ASSUME TypeOK, NEW symbol, Known(symbol), NEW k \in {"recording", "statistics"}
    PROVE  TaskWorker(k, symbol) \in QueueWorkers /\ symbol \in Symbols
<1> DEFINE len == Len(settings.symbols)
           At == {n \in 1..len : settings.symbols[n] = symbol}
           Behind == {len - n : n \in At}
           IsLast(n) == /\ settings.symbols[n] = symbol
                        /\ \A m \in (n + 1)..len : settings.symbols[m] # symbol
<1>1. settings.symbols \in Seq(Symbols) /\ len \in Nat
    BY LenProperties DEF TypeOK
<1>2. At # {} /\ At \subseteq Nat
    BY <1>1 DEF Known
<1>3. Behind # {} /\ Behind \subseteq Nat
    <2>1. PICK n \in At : TRUE
        BY <1>2
    <2>2. len - n \in Behind
        BY <2>1
    <2>3. \A m \in At : len - m \in Nat
        BY <1>1
    <2> QED BY <2>2, <2>3
<1>4. PICK b \in Behind : \A c \in Behind : ~(<<c, b>> \in OpToRel(<, Nat))
    BY <1>3, NatLessThanWellFounded, WFMin
<1>5. PICK n \in At : b = len - n
    BY <1>4
<1>6. \A m \in (n + 1)..len : settings.symbols[m] # symbol
    <2> SUFFICES ASSUME NEW m \in (n + 1)..len, settings.symbols[m] = symbol PROVE FALSE
        OBVIOUS
    <2>1. m \in At /\ len - m \in Behind
        BY <1>1, <1>5
    <2>2. len - m < b /\ len - m \in Nat /\ b \in Nat
        BY <1>1, <1>3, <1>5, <2>1
    <2>3. <<len - m, b>> \in OpToRel(<, Nat)
        BY <2>2 DEF OpToRel
    <2> QED BY <1>4, <2>1, <2>3
<1>7. IsLast(n) /\ n \in 1..len
    BY <1>5, <1>6
<1> DEFINE last == CHOOSE m \in 1..len : IsLast(m)
<1>8. last \in 1..len
    BY <1>7
<1>9. settings.symbols # <<>> /\ settings.count[k] \in 1..MaxWorkers
    <2>1. settings.symbols # <<>>
        BY <1>1, <1>7, EmptySeq
    <2> QED BY <1>1, <2>1, PipelineAssumption DEF TypeOK, Usable, Counts
<1>10. ((last - 1) % settings.count[k]) + 1 \in Indices
    <2> HIDE DEF last
    <2> QED BY <1>1, <1>8, <1>9, PipelineAssumption DEF Indices
<1>11. TaskWorker(k, symbol) = <<k, ((last - 1) % settings.count[k]) + 1>>
    BY DEF TaskWorker
<1>12. symbol \in Symbols
    BY <1>1, <1>7, ElementOfSeq
<1> QED BY <1>10, <1>11, <1>12 DEF QueueWorkers

-----------------------------------------------------------------------------
(* Types *)

JobRecords == [do : {"create", "start", "stop", "join", "destroy"},
               what : Containers \cup Workers]

LEMMA ConstructionTyped ==
    ASSUME NEW s, \A k \in Counts : s.count[k] \in 0..MaxWorkers,
           NEW k \in Counts
    PROVE  /\ JobsOf(s, k, "start") \in Seq(JobRecords)
           /\ Len(JobsOf(s, k, "start")) = s.count[k]
           /\ StopAll(s, k) \in Seq(JobRecords)
           /\ Len(StopAll(s, k)) = 2 * s.count[k]
<1>1. s.count[k] \in Nat /\ 2 * s.count[k] \in Nat /\ s.count[k] <= MaxWorkers
    BY PipelineAssumption
<1>2. \A i \in 1..s.count[k] : Job("start", <<k, i>>) \in JobRecords
    BY <1>1, WorkerIsPair, PipelineAssumption DEF Job, JobRecords, Indices
<1>3. \A i \in 1..(2 * s.count[k]) :
          Job(IF i % 2 = 1 THEN "stop" ELSE "join", <<k, (i + 1) \div 2>>) \in JobRecords
    <2> SUFFICES ASSUME NEW i \in 1..(2 * s.count[k])
                 PROVE  Job(IF i % 2 = 1 THEN "stop" ELSE "join", <<k, (i + 1) \div 2>>)
                            \in JobRecords
        OBVIOUS
    <2>1. (i + 1) \div 2 \in Indices
        BY <1>1, PipelineAssumption DEF Indices
    <2> QED BY <2>1, WorkerIsPair DEF Job, JobRecords
<1>4. JobsOf(s, k, "start") \in [1..s.count[k] -> JobRecords]
    BY <1>2 DEF JobsOf
<1>5. StopAll(s, k) \in [1..(2 * s.count[k]) -> JobRecords]
    BY <1>3 DEF StopAll
<1> QED BY <1>1, <1>4, <1>5, SeqDef, LenProperties

LEMMA TodoTyped ==
    ASSUME NEW s, \A k \in Counts : s.count[k] \in 0..MaxWorkers
    PROVE  Construction(s) \in Seq(JobRecords) /\ Destruction(s) \in Seq(JobRecords)
<1>1. /\ <<Job("create", "files"), Job("create", "averages"), Job("create", "candlesticks")>>
             \in Seq(JobRecords)
      /\ <<Job("destroy", "candlesticks"), Job("destroy", "averages"), Job("destroy", "files")>>
             \in Seq(JobRecords)
    BY DEF Job, JobRecords, Containers
<1>2. {"recording", "statistics", "exporting"} \subseteq Counts
    BY DEF Counts
<1> QED BY <1>1, <1>2, ConstructionTyped, ConcatProperties DEF Construction, Destruction

LEMMA InitTypeOK == Init => TypeOK
<1> SUFFICES ASSUME Init PROVE TypeOK
    OBVIOUS
<1>1. \A S : <<>> \in Seq(S)
    BY EmptySeq
<1> QED BY <1>1, DefaultsUsable DEF Init, TypeOK, Places, ThreadPlaces

(* What the actions on main()'s list of jobs leave alone. *)
LEMMA JobActions ==
    ASSUME Create \/ StartWorker \/ StopWorker \/ JoinWorker \/ Destroy
    PROVE  /\ todo # <<>> /\ todo' = Tail(todo)
           /\ UNCHANGED <<mainAt, settings, channelVars, exportVars, clientVars>>
BY DEF Create, StartWorker, StopWorker, JoinWorker, Destroy, FirstJob

LEMMA ReceivedTyped ==
    ASSUME TypeOK, MessageInv, EnqueueRecording
    PROVE  /\ [symbol |-> Head(message), id |-> Len(received) + 1] \in Trades
           /\ TaskWorker("recording", Head(message)) \in QueueWorkers
           /\ Tail(message) \in Seq(Items) /\ Len(Tail(message)) = Len(message) - 1
           /\ Len(message) \in Nat /\ Len(received) \in Nat
<1>1. message # <<>> /\ Known(Head(message)) /\ ~half
    BY DEF EnqueueRecording
<1>2. message \in Seq(Items) /\ received \in Seq(Trades)
    BY DEF TypeOK
<1>3. /\ Len(message) \in Nat \ {0} /\ Tail(message) \in Seq(Items)
      /\ Len(Tail(message)) = Len(message) - 1 /\ Len(received) \in Nat
    BY <1>1, <1>2, EmptySeq, HeadTailProperties, LenProperties
<1>4. Head(message) \in Symbols /\ TaskWorker("recording", Head(message)) \in QueueWorkers
    BY <1>1, KnownHasWorker
<1>5. Len(received) + 1 \in 1..MaxTrades
    BY <1>1, <1>3, PipelineAssumption DEF MessageInv
<1> QED BY <1>3, <1>4, <1>5 DEF Trades

LEMMA StatisticsTyped ==
    ASSUME TypeOK, MessageInv, EnqueueStatistics
    PROVE  /\ received[Len(received)] \in Trades
           /\ TaskWorker("statistics", received[Len(received)].symbol) \in QueueWorkers
           /\ Tail(message) \in Seq(Items) /\ Len(Tail(message)) = Len(message) - 1
           /\ Len(message) \in Nat /\ Len(received) \in Nat
<1>1. /\ message # <<>> /\ received # <<>> /\ Known(received[Len(received)].symbol)
      /\ message \in Seq(Items) /\ received \in Seq(Trades)
    BY DEF EnqueueStatistics, MessageInv, TypeOK
<1>2. /\ Len(message) \in Nat /\ Tail(message) \in Seq(Items)
      /\ Len(Tail(message)) = Len(message) - 1 /\ Len(received) \in Nat \ {0}
    BY <1>1, EmptySeq, HeadTailProperties, LenProperties
<1>3. received[Len(received)] \in Trades
    BY <1>1, <1>2, ElementOfSeq
<1>4. TaskWorker("statistics", received[Len(received)].symbol) \in QueueWorkers
    BY <1>1, KnownHasWorker
<1> QED BY <1>2, <1>3, <1>4

(* The first of main()'s jobs, and the others. *)
LEMMA HeadJob ==
    ASSUME TypeOK, TeardownInv, todo # <<>>
    PROVE  /\ 1 \in DOMAIN todo /\ Head(todo) = todo[1] /\ JobOK(Head(todo))
           /\ DOMAIN todo \subseteq Nat /\ DOMAIN Tail(todo) \subseteq Nat
           /\ \A n \in DOMAIN Tail(todo) : n + 1 \in DOMAIN todo /\ Tail(todo)[n] = todo[n + 1]
           /\ \A n \in DOMAIN todo \ {1} : n - 1 \in DOMAIN Tail(todo)
<1>1. todo \in Seq(JobRecords)
    BY DEF TypeOK, JobRecords
<1>2. /\ Len(todo) \in Nat \ {0} /\ DOMAIN todo = 1..Len(todo)
      /\ Tail(todo) \in Seq(JobRecords) /\ Len(Tail(todo)) = Len(todo) - 1
      /\ \A n \in 1..Len(Tail(todo)) : Tail(todo)[n] = todo[n + 1]
    BY <1>1, EmptySeq, HeadTailProperties, LenProperties
<1>3. DOMAIN Tail(todo) = 1..(Len(todo) - 1)
    BY <1>2, LenProperties
<1>4. Head(todo) = todo[1]
    BY <1>1, <1>2
<1> QED BY <1>2, <1>3, <1>4 DEF TeardownInv

LEMMA StepTypeOK == IInv /\ [Next]_vars => TypeOK'
<1> SUFFICES ASSUME TypeOK, MessageInv, Conservation, TeardownInv, [Next]_vars PROVE TypeOK'
    BY DEF IInv
<1> USE DEF Places, ThreadPlaces
<1>1. CASE Load
    <2>1. UNCHANGED <<alive, flag, thread, channelVars, exportVars, clientVars>>
        BY <1>1 DEF Load
    <2>2. CASE mainAt' \in {"terminated", "refused"} /\ UNCHANGED <<settings, todo>>
        BY <2>1, <2>2 DEF TypeOK, channelVars, exportVars, clientVars, Usable
    <2>3. CASE mainAt' = "setup" /\ todo' = Construction(settings')
        <3>1. settings' = settings \/ \E raw \in Files : settings' \in Sanitized(raw)
            BY <1>1, <2>3 DEF Load
        <3>2. /\ Usable(settings') /\ settings'.symbols \in Seq(Symbols)
              /\ \A k \in Counts : settings'.count[k] \in 0..MaxWorkers
            BY <3>1, SanitizedUsable DEF TypeOK
        <3>3. todo' \in Seq(JobRecords)
            BY <2>3, <3>2, TodoTyped
        <3> QED BY <2>1, <2>3, <3>2, <3>3
                DEF TypeOK, channelVars, exportVars, clientVars, JobRecords
    <2> QED BY <1>1, <2>2, <2>3 DEF Load
<1>2. CASE Create \/ StartWorker \/ StopWorker \/ JoinWorker \/ Destroy
    <2>1. /\ todo # <<>> /\ todo' = Tail(todo)
          /\ UNCHANGED <<mainAt, settings, channelVars, exportVars, clientVars>>
        BY <1>2, JobActions
    <2>2. todo' \in Seq(JobRecords) /\ Head(todo) \in JobRecords
        BY <2>1, HeadTailProperties DEF TypeOK, JobRecords
    <2>3. flag' \in [Workers -> BOOLEAN] /\ thread' \in [Workers -> ThreadPlaces]
        BY <1>2 DEF TypeOK, Create, StartWorker, StopWorker, JoinWorker, Destroy
    <2>4. alive' \subseteq Containers
        <3>1. CASE Create
            <4>1. Head(todo).do = "create" /\ alive' = alive \cup {Head(todo).what}
                BY <3>1 DEF Create, FirstJob
            <4>2. Head(todo).what \in Containers
                BY <2>1, <4>1, HeadJob DEF JobOK
            <4> QED BY <4>1, <4>2 DEF TypeOK
        <3>2. CASE ~Create
            BY <1>2, <3>2 DEF TypeOK, StartWorker, StopWorker, JoinWorker, Destroy
        <3> QED BY <3>1, <3>2
    <2> QED BY <2>1, <2>2, <2>3, <2>4
            DEF TypeOK, channelVars, exportVars, clientVars, JobRecords
<1>3. CASE Run \/ RunReturns \/ Throw \/ Exit
    <2>1. /\ UNCHANGED <<settings, alive, flag, thread, channelVars, exportVars, clientVars>>
          /\ mainAt' \in Places /\ (todo' = todo \/ todo' = Destruction(settings))
        BY <1>3 DEF Run, RunReturns, Throw, Exit
    <2>2. todo' \in Seq(JobRecords)
        BY <2>1, TodoTyped DEF TypeOK, JobRecords
    <2> QED BY <2>1, <2>2 DEF TypeOK, channelVars, exportVars, clientVars, JobRecords
<1>4. ASSUME NEW trades \in Messages, Receive(trades) PROVE TypeOK'
    <2>1. trades \in Seq(Items)
        <3>1. PICK m \in 0..2 : trades \in [1..m -> Items]
            BY DEF Messages, SeqOf
        <3> QED BY <3>1, SeqDef
    <2>2. message' = trades /\ UNCHANGED <<mainVars, flag, thread, channelVars, half, received>>
        BY <1>4 DEF Receive
    <2> QED BY <2>1, <2>2 DEF TypeOK, mainVars, channelVars
<1>5. CASE EnqueueRecording
    <2> DEFINE trade == [symbol |-> Head(message), id |-> Len(received) + 1]
               w == TaskWorker("recording", Head(message))
    <2>1. trade \in Trades /\ w \in QueueWorkers
        BY <1>5, ReceivedTyped
    <2>2. /\ queue' = [queue EXCEPT ![w] = Append(@, trade)]
          /\ accepted' = [accepted EXCEPT ![w] = Append(@, trade)]
          /\ UNCHANGED <<mainVars, flag, thread, hand, settled, lost, message>>
          /\ half' = TRUE /\ received' = Append(received, trade)
        BY <1>5 DEF EnqueueRecording, Enqueue
    <2> HIDE DEF trade, w
    <2>3. /\ Append(queue[w], trade) \in Seq(Trades) /\ Append(accepted[w], trade) \in Seq(Trades)
          /\ Append(received, trade) \in Seq(Trades)
        BY <2>1, AppendProperties DEF TypeOK
    <2> QED BY <2>1, <2>2, <2>3 DEF TypeOK, mainVars
<1>6. CASE EnqueueStatistics
    <2> DEFINE trade == received[Len(received)]
               w == TaskWorker("statistics", trade.symbol)
    <2>1. trade \in Trades /\ w \in QueueWorkers /\ Tail(message) \in Seq(Items)
        BY <1>6, StatisticsTyped
    <2>2. /\ queue' = [queue EXCEPT ![w] = Append(@, trade)]
          /\ accepted' = [accepted EXCEPT ![w] = Append(@, trade)]
          /\ UNCHANGED <<mainVars, flag, thread, hand, settled, lost, received>>
          /\ half' = FALSE /\ message' = Tail(message)
        BY <1>6 DEF EnqueueStatistics, Enqueue
    <2> HIDE DEF trade, w
    <2>3. /\ Append(queue[w], trade) \in Seq(Trades) /\ Append(accepted[w], trade) \in Seq(Trades)
        BY <2>1, AppendProperties DEF TypeOK
    <2> QED BY <2>1, <2>2, <2>3 DEF TypeOK, mainVars
<1>7. ASSUME NEW w \in QueueWorkers, Take(w) PROVE TypeOK'
    <2>1. queue[w] # <<>> /\ queue[w] \in Seq(Trades)
        BY <1>7 DEF Take, TypeOK
    <2>2. <<Head(queue[w])>> \in Seq(Trades) /\ Tail(queue[w]) \in Seq(Trades)
        BY <2>1, PopMovesHead, EmptySeq
    <2> QED BY <1>7, <2>2, WorkerIsPair DEF Take, TypeOK, mainVars, clientVars
<1>8. ASSUME NEW w \in QueueWorkers, Decide(w) PROVE TypeOK'
    <2>1. /\ settled[w] \in Seq(Trades) /\ hand[w] \in Seq(Trades) /\ <<>> \in Seq(Trades)
        BY EmptySeq DEF TypeOK
    <2>2. settled[w] \o hand[w] \in Seq(Trades) /\ Len(settled[w]) + 1 \in Nat \ {0}
        BY <2>1, ConcatProperties, LenProperties
    <2>3. /\ settled' = [settled EXCEPT ![w] = @ \o hand[w]] /\ hand' = [hand EXCEPT ![w] = <<>>]
          /\ UNCHANGED <<mainVars, flag, queue, accepted, clientVars>>
          /\ thread' = [thread EXCEPT ![w] = IF flag[w] THEN "exited" ELSE "work"]
          /\ \/ lost' = [lost EXCEPT ![w] = @ \cup {Len(settled[w]) + 1}]
             \/ lost' = lost
        BY <1>8 DEF Decide
    <2>4. lost' \in [QueueWorkers -> SUBSET (Nat \ {0})]
        <3>1. lost[w] \cup {Len(settled[w]) + 1} \in SUBSET (Nat \ {0})
            BY <2>2 DEF TypeOK
        <3> QED BY <2>3, <3>1 DEF TypeOK
    <2>5. thread' \in [Workers -> ThreadPlaces]
        BY <2>3 DEF TypeOK
    <2> QED BY <2>1, <2>2, <2>3, <2>4, <2>5 DEF TypeOK, mainVars, clientVars
<1>9. ASSUME NEW w \in QueueWorkers, GiveUp(w) \/ WorkDone(w) PROVE TypeOK'
    BY <1>9 DEF GiveUp, WorkDone, TypeOK, mainVars, channelVars, clientVars
<1>10. ASSUME NEW e \in Exporters, ExporterStep(e) PROVE TypeOK'
    <2>1. /\ thread' \in [Workers -> ThreadPlaces]
          /\ UNCHANGED <<mainVars, flag, channelVars, clientVars>>
        BY <1>10 DEF ExporterStep, WakeExport, WriteRow, GiveUpExport, TypeOK
    <2> QED BY <2>1 DEF TypeOK, mainVars, channelVars, clientVars
<1>11. CASE UNCHANGED vars
    BY <1>11 DEF vars, TypeOK, Usable
<1> QED BY <1>1, <1>2, <1>3, <1>4, <1>5, <1>6, <1>7, <1>8, <1>9, <1>10, <1>11
        DEF Next, Setup, Leave, Callback, QueueWorkerStep

-----------------------------------------------------------------------------
(* Conservation *)

(* A thread that is started was none, one that is joined had exited. *)
LEMMA StartAndJoin ==
    ASSUME TypeOK, TeardownInv, todo # <<>>
    PROVE  /\ StartWorker => /\ Head(todo).what \in Workers /\ thread[Head(todo).what] = "none"
                             /\ Wanted(Head(todo).what)
           /\ JoinWorker \/ StopWorker => Head(todo).what \in Workers
<1>1. /\ 1 \in DOMAIN todo /\ Head(todo) = todo[1] /\ JobOK(Head(todo))
    BY HeadJob
<1>2. ASSUME StartWorker
      PROVE  /\ Head(todo).what \in Workers /\ thread[Head(todo).what] = "none"
             /\ Wanted(Head(todo).what)
    <2>1. mainAt = "setup" /\ Head(todo).do = "start" /\ 1 \in Jobs("start")
        BY <1>1, <1>2 DEF StartWorker, FirstJob, Jobs
    <2>2. ~Joinable(todo[1].what)
        BY <2>1 DEF TeardownInv, SetupInv
    <2> QED BY <1>1, <2>1, <2>2 DEF JobOK, Joinable
<1>3. ASSUME JoinWorker \/ StopWorker PROVE Head(todo).what \in Workers
    BY <1>1, <1>3 DEF JoinWorker, StopWorker, FirstJob, JobOK
<1> QED BY <1>2, <1>3

(* A trade enqueued at the back lands behind everything before it. *)
LEMMA EnqueueConserves ==
    ASSUME TypeOK, Conservation, NEW w \in QueueWorkers, NEW trade \in Trades, Enqueue(w, trade)
    PROVE  Conservation'
<1>1. /\ queue' = [queue EXCEPT ![w] = Append(@, trade)]
      /\ accepted' = [accepted EXCEPT ![w] = Append(@, trade)]
      /\ UNCHANGED <<thread, hand, settled>>
    BY DEF Enqueue
<1>2. Append(settled[w] \o hand[w] \o queue[w], trade)
          = settled[w] \o hand[w] \o Append(queue[w], trade)
    <2>1. settled[w] \in Seq(Trades) /\ hand[w] \in Seq(Trades) /\ queue[w] \in Seq(Trades)
        BY DEF TypeOK
    <2> QED BY ONLY <2>1, trade \in Trades, AppendBehind
<1>3. accepted[w] = settled[w] \o hand[w] \o queue[w]
    BY DEF Conservation
<1>4. accepted'[w] = settled'[w] \o hand'[w] \o queue'[w]
    BY <1>1, <1>2, <1>3 DEF TypeOK
<1>5. ASSUME NEW v \in QueueWorkers, v # w
      PROVE  accepted'[v] = accepted[v] /\ queue'[v] = queue[v]
    BY <1>1, <1>5 DEF TypeOK
<1> QED BY <1>1, <1>4, <1>5 DEF Conservation

LEMMA StepConservation == IInv /\ [Next]_vars => Conservation'
<1> SUFFICES ASSUME TypeOK, MessageInv, Conservation, TeardownInv, [Next]_vars
             PROVE  Conservation'
    BY DEF IInv
<1>1. CASE EnqueueRecording
    BY <1>1, ReceivedTyped, EnqueueConserves DEF EnqueueRecording
<1>2. CASE EnqueueStatistics
    BY <1>2, StatisticsTyped, EnqueueConserves DEF EnqueueStatistics
<1>3. ASSUME NEW w \in QueueWorkers, Take(w) PROVE Conservation'
    <2>1. /\ thread[w] = "wait" /\ queue[w] # <<>> /\ hand[w] = <<>>
          /\ hand' = [hand EXCEPT ![w] = <<Head(queue[w])>>]
          /\ queue' = [queue EXCEPT ![w] = Tail(@)]
          /\ thread' = [thread EXCEPT ![w] = "decide"]
          /\ UNCHANGED <<accepted, settled>>
        BY <1>3 DEF Take, Conservation
    <2>2. settled[w] \o <<>> \o queue[w] = settled[w] \o <<Head(queue[w])>> \o Tail(queue[w])
        <3>1. settled[w] \in Seq(Trades) /\ queue[w] \in Seq(Trades)
            BY DEF TypeOK
        <3> QED BY ONLY <2>1, <3>1, PopMovesHead
    <2>3. accepted'[w] = settled'[w] \o hand'[w] \o queue'[w]
        BY <2>1, <2>2 DEF TypeOK, Conservation
    <2>4. hand'[w] # <<>> /\ thread'[w] = "decide" /\ Len(hand'[w]) <= 1
        BY <2>1, WorkerIsPair DEF TypeOK
    <2>5. ASSUME NEW v \in QueueWorkers, v # w
          PROVE  /\ accepted'[v] = accepted[v] /\ queue'[v] = queue[v]
                 /\ hand'[v] = hand[v] /\ settled'[v] = settled[v] /\ thread'[v] = thread[v]
        BY <2>1, <2>5, WorkerIsPair DEF TypeOK
    <2> QED BY <2>3, <2>4, <2>5 DEF Conservation
<1>4. ASSUME NEW w \in QueueWorkers, Decide(w) PROVE Conservation'
    <2>1. /\ thread[w] = "decide"
          /\ hand' = [hand EXCEPT ![w] = <<>>]
          /\ settled' = [settled EXCEPT ![w] = @ \o hand[w]]
          /\ thread' = [thread EXCEPT ![w] = IF flag[w] THEN "exited" ELSE "work"]
          /\ UNCHANGED <<accepted, queue>>
        BY <1>4 DEF Decide
    <2>2. (settled[w] \o hand[w]) \o <<>> = settled[w] \o hand[w]
        <3>1. settled[w] \o hand[w] \in Seq(Trades)
            BY ConcatProperties DEF TypeOK
        <3> QED BY <3>1, ConcatEmptySeq
    <2>3. accepted'[w] = settled'[w] \o hand'[w] \o queue'[w]
        <3>1. /\ hand'[w] = <<>> /\ settled'[w] = settled[w] \o hand[w]
              /\ queue'[w] = queue[w] /\ accepted'[w] = accepted[w]
            BY <2>1 DEF TypeOK
        <3> QED BY <2>2, <3>1 DEF Conservation
    <2>4. hand'[w] = <<>> /\ thread'[w] # "decide" /\ Len(hand'[w]) <= 1
        BY <2>1, WorkerIsPair DEF TypeOK
    <2>5. ASSUME NEW v \in QueueWorkers, v # w
          PROVE  /\ accepted'[v] = accepted[v] /\ queue'[v] = queue[v]
                 /\ hand'[v] = hand[v] /\ settled'[v] = settled[v] /\ thread'[v] = thread[v]
        BY <2>1, <2>5, WorkerIsPair DEF TypeOK
    <2> QED BY <2>3, <2>4, <2>5 DEF Conservation
<1>5. ASSUME UNCHANGED <<queue, hand, accepted, settled>>,
             \A w \in QueueWorkers : thread'[w] = "decide" <=> thread[w] = "decide"
      PROVE  Conservation'
    BY <1>5 DEF Conservation
<1>6. CASE Create \/ StartWorker \/ StopWorker \/ JoinWorker \/ Destroy
    <2>1. todo # <<>> /\ UNCHANGED channelVars
        BY <1>6, JobActions
    <2>2. \A w \in QueueWorkers : thread'[w] = "decide" <=> thread[w] = "decide"
        <3>1. CASE StartWorker
            BY <2>1, <3>1, StartAndJoin, WorkerIsPair DEF StartWorker, TypeOK
        <3>2. CASE JoinWorker
            BY <2>1, <3>2, StartAndJoin, WorkerIsPair DEF JoinWorker, TypeOK
        <3>3. CASE Create \/ StopWorker \/ Destroy
            BY <3>3 DEF Create, StopWorker, Destroy
        <3> QED BY <1>6, <3>1, <3>2, <3>3
    <2> QED BY <1>5, <2>1, <2>2 DEF channelVars
<1>7. ASSUME NEW w \in QueueWorkers, GiveUp(w) \/ WorkDone(w) PROVE Conservation'
    BY <1>5, <1>7, WorkerIsPair DEF GiveUp, WorkDone, channelVars, TypeOK
<1>8. ASSUME NEW e \in Exporters, ExporterStep(e) PROVE Conservation'
    <2>1. UNCHANGED channelVars
        BY <1>8 DEF ExporterStep, WakeExport, WriteRow, GiveUpExport
    <2>2. \A w \in QueueWorkers : thread'[w] = thread[w]
        BY <1>8, WorkerIsPair DEF ExporterStep, WakeExport, WriteRow, GiveUpExport, TypeOK
    <2> QED BY <1>5, <2>1, <2>2 DEF channelVars
<1>9. ASSUME UNCHANGED <<channelVars, thread>> PROVE Conservation'
    BY <1>5, <1>9 DEF channelVars
<1>10. CASE Load \/ Run \/ RunReturns \/ Throw \/ Exit \/ UNCHANGED vars
    BY <1>9, <1>10 DEF Load, Run, RunReturns, Throw, Exit, vars, channelVars
<1>11. ASSUME NEW trades \in Messages, Receive(trades) PROVE Conservation'
    BY <1>9, <1>11 DEF Receive
<1> QED BY <1>1, <1>2, <1>3, <1>4, <1>6, <1>7, <1>8, <1>10, <1>11
        DEF Next, Setup, Leave, Callback, QueueWorkerStep

-----------------------------------------------------------------------------
(* Messages *)

LEMMA StepMessageInv == IInv /\ [Next]_vars => MessageInv'
<1> SUFFICES ASSUME TypeOK, MessageInv, [Next]_vars PROVE MessageInv'
    BY DEF IInv
<1>1. CASE EnqueueRecording
    <2> DEFINE trade == [symbol |-> Head(message), id |-> Len(received) + 1]
    <2>1. /\ trade \in Trades /\ Len(received) \in Nat /\ Len(message) \in Nat
          /\ received \in Seq(Trades)
        BY <1>1, ReceivedTyped DEF TypeOK
    <2>2. /\ mainAt = "run" /\ message # <<>> /\ ~half /\ Known(trade.symbol)
          /\ UNCHANGED <<mainAt, settings, message>>
          /\ half' = TRUE /\ received' = Append(received, trade)
        BY <1>1 DEF EnqueueRecording, Enqueue, mainVars
    <2> HIDE DEF trade
    <2>3. /\ received' # <<>> /\ Len(received') = Len(received) + 1
          /\ received'[Len(received')] = trade
        BY <2>1, <2>2, AppendProperties
    <2>4. Known(received[Len(received)].symbol)'
        BY <2>2, <2>3 DEF Known
    <2> QED BY <2>1, <2>2, <2>3, <2>4, PipelineAssumption DEF MessageInv
<1>2. CASE EnqueueStatistics
    <2>1. /\ mainAt = "run" /\ half /\ UNCHANGED <<mainAt, settings, received>>
          /\ half' = FALSE /\ message' = Tail(message)
        BY <1>2 DEF EnqueueStatistics, Enqueue, mainVars
    <2>2. Len(message') = Len(message) - 1 /\ Len(message) \in Nat /\ Len(received) \in Nat
        BY <1>2, <2>1, StatisticsTyped
    <2> QED BY <2>1, <2>2, PipelineAssumption DEF MessageInv
<1>3. ASSUME NEW trades \in Messages, Receive(trades) PROVE MessageInv'
    <2>1. /\ mainAt = "run" /\ message = <<>> /\ message' = trades /\ ~half
          /\ Len(received) + Len(trades) <= MaxTrades
          /\ UNCHANGED <<mainAt, half, received>>
        BY <1>3 DEF Receive, mainVars, MessageInv
    <2> QED BY <2>1, PipelineAssumption DEF MessageInv
<1>4. ASSUME UNCHANGED <<message, half, received, settings>>,
             message # <<>> => mainAt' \in {"run", "terminated"}
      PROVE  MessageInv'
    BY <1>4 DEF MessageInv, Known
<1>5. CASE Load
    <2>1. message = <<>> /\ ~half /\ UNCHANGED <<message, half, received>>
        BY <1>5 DEF Load, clientVars, MessageInv
    <2> QED BY <2>1 DEF MessageInv
<1>6. CASE Run \/ RunReturns \/ Throw \/ Exit
    BY <1>4, <1>6 DEF Run, RunReturns, Throw, Exit, clientVars, MessageInv
<1>7. CASE Create \/ StartWorker \/ StopWorker \/ JoinWorker \/ Destroy
    BY <1>4, <1>7, JobActions DEF clientVars, MessageInv
<1>8. ASSUME NEW w \in QueueWorkers, QueueWorkerStep(w) PROVE MessageInv'
    BY <1>4, <1>8 DEF QueueWorkerStep, Take, GiveUp, Decide, WorkDone, clientVars, mainVars,
                      MessageInv
<1>9. ASSUME NEW e \in Exporters, ExporterStep(e) PROVE MessageInv'
    BY <1>4, <1>9 DEF ExporterStep, WakeExport, WriteRow, GiveUpExport, clientVars, mainVars,
                      MessageInv
<1>10. CASE UNCHANGED vars
    BY <1>4, <1>10 DEF vars, MessageInv
<1> QED BY <1>1, <1>2, <1>3, <1>5, <1>6, <1>7, <1>8, <1>9, <1>10
        DEF Next, Setup, Leave, Callback

-----------------------------------------------------------------------------
(* The order of construction and of destruction *)

(* j consists of the elements of a, b, c and d, one part after the other. *)
InOrder(j, a, b, c, d) ==
    /\ DOMAIN j = 1..(Len(a) + Len(b) + Len(c) + Len(d))
    /\ \A i \in 1..Len(a) : j[i] = a[i]
    /\ \A i \in 1..Len(b) : j[Len(a) + i] = b[i]
    /\ \A i \in 1..Len(c) : j[Len(a) + Len(b) + i] = c[i]
    /\ \A i \in 1..Len(d) : j[Len(a) + Len(b) + Len(c) + i] = d[i]

LEMMA FourParts ==
    ASSUME NEW a \in Seq(JobRecords), NEW b \in Seq(JobRecords),
           NEW c \in Seq(JobRecords), NEW d \in Seq(JobRecords)
    PROVE  InOrder(a \o b \o c \o d, a, b, c, d)
<1>1. Len(a) \in Nat /\ Len(b) \in Nat /\ Len(c) \in Nat /\ Len(d) \in Nat
    BY LenProperties
<1>2. /\ a \o b \in Seq(JobRecords) /\ Len(a \o b) = Len(a) + Len(b)
      /\ \A i \in 1..(Len(a) + Len(b)) :
            (a \o b)[i] = IF i <= Len(a) THEN a[i] ELSE b[i - Len(a)]
    BY ConcatProperties
<1>3. /\ a \o b \o c \in Seq(JobRecords) /\ Len(a \o b \o c) = Len(a) + Len(b) + Len(c)
      /\ \A i \in 1..(Len(a) + Len(b) + Len(c)) :
            (a \o b \o c)[i] = IF i <= Len(a) + Len(b) THEN (a \o b)[i]
                               ELSE c[i - (Len(a) + Len(b))]
    BY <1>2, ConcatProperties
<1>4. /\ a \o b \o c \o d \in Seq(JobRecords)
      /\ Len(a \o b \o c \o d) = Len(a) + Len(b) + Len(c) + Len(d)
      /\ \A i \in 1..(Len(a) + Len(b) + Len(c) + Len(d)) :
            (a \o b \o c \o d)[i] = IF i <= Len(a) + Len(b) + Len(c) THEN (a \o b \o c)[i]
                                    ELSE d[i - (Len(a) + Len(b) + Len(c))]
    BY <1>3, ConcatProperties
<1>5. DOMAIN (a \o b \o c \o d) = 1..(Len(a) + Len(b) + Len(c) + Len(d))
    BY <1>4, LenProperties
<1>6. \A i \in 1..Len(a) : (a \o b \o c \o d)[i] = a[i]
    BY <1>1, <1>2, <1>3, <1>4
<1>7. \A i \in 1..Len(b) : (a \o b \o c \o d)[Len(a) + i] = b[i]
    BY <1>1, <1>2, <1>3, <1>4
<1>8. \A i \in 1..Len(c) : (a \o b \o c \o d)[Len(a) + Len(b) + i] = c[i]
    BY <1>1, <1>3, <1>4
<1>9. \A i \in 1..Len(d) : (a \o b \o c \o d)[Len(a) + Len(b) + Len(c) + i] = d[i]
    BY <1>1, <1>4
<1> QED BY <1>5, <1>6, <1>7, <1>8, <1>9 DEF InOrder

LEMMA ConstructionOrder ==
    ASSUME NEW s, \A k \in Counts : s.count[k] \in 0..MaxWorkers
    PROVE  LET con == Construction(s) IN
           /\ \A n \in DOMAIN con :
                 \/ con[n].do = "create" /\ con[n].what \in Containers
                 \/ /\ con[n].do = "start" /\ con[n].what \in Workers
                    /\ con[n].what[2] \in 1..s.count[con[n].what[1]]
           /\ \A m, n \in DOMAIN con : con[m].do = "start" /\ con[n].do = "create" => n < m
           /\ \A c \in Containers : \E n \in DOMAIN con : con[n] = Job("create", c)
           /\ \A m, n \in DOMAIN con :
                 con[m].do = "start" /\ con[n].do = "start" /\ con[m].what = con[n].what => m = n
<1> DEFINE con == Construction(s)
           r == s.count["recording"]
           t == s.count["statistics"]
           e == s.count["exporting"]
           first == <<Job("create", "files"), Job("create", "averages"),
                      Job("create", "candlesticks")>>
<1>1. r \in Nat /\ t \in Nat /\ e \in Nat /\ r <= MaxWorkers /\ t <= MaxWorkers /\ e <= MaxWorkers
    BY PipelineAssumption DEF Counts
<1>2. first \in Seq(JobRecords) /\ Len(first) = 3
    BY DEF Job, JobRecords, Containers
<1>3. con = first \o JobsOf(s, "recording", "start") \o JobsOf(s, "statistics", "start")
            \o JobsOf(s, "exporting", "start")
    BY DEF Construction
<1>4. /\ JobsOf(s, "recording", "start") \in Seq(JobRecords)
      /\ Len(JobsOf(s, "recording", "start")) = r
      /\ JobsOf(s, "statistics", "start") \in Seq(JobRecords)
      /\ Len(JobsOf(s, "statistics", "start")) = t
      /\ JobsOf(s, "exporting", "start") \in Seq(JobRecords)
      /\ Len(JobsOf(s, "exporting", "start")) = e
    BY ConstructionTyped DEF Counts
<1>5. /\ DOMAIN con = 1..(3 + r + t + e)
      /\ \A i \in 1..3 : con[i] = first[i]
      /\ \A i \in 1..r : con[3 + i] = Job("start", <<"recording", i>>)
      /\ \A i \in 1..t : con[3 + r + i] = Job("start", <<"statistics", i>>)
      /\ \A i \in 1..e : con[3 + r + t + i] = Job("start", <<"exporting", i>>)
    <2>1. \A k \in Counts : \A i \in 1..s.count[k] :
              JobsOf(s, k, "start")[i] = Job("start", <<k, i>>)
        BY DEF JobsOf
    <2> DEFINE R == JobsOf(s, "recording", "start")
               T == JobsOf(s, "statistics", "start")
               E == JobsOf(s, "exporting", "start")
    <2>2. /\ \A i \in 1..r : R[i] = Job("start", <<"recording", i>>)
          /\ \A i \in 1..t : T[i] = Job("start", <<"statistics", i>>)
          /\ \A i \in 1..e : E[i] = Job("start", <<"exporting", i>>)
        BY <2>1 DEF Counts
    <2> HIDE DEF con, first, R, T, E
    <2>3. /\ DOMAIN con = 1..(Len(first) + Len(R) + Len(T) + Len(E))
          /\ \A i \in 1..Len(first) : con[i] = first[i]
          /\ \A i \in 1..Len(R) : con[Len(first) + i] = R[i]
          /\ \A i \in 1..Len(T) : con[Len(first) + Len(R) + i] = T[i]
          /\ \A i \in 1..Len(E) : con[Len(first) + Len(R) + Len(T) + i] = E[i]
        <3>1. con = first \o R \o T \o E
            BY <1>3 DEF R, T, E
        <3>2. R \in Seq(JobRecords) /\ T \in Seq(JobRecords) /\ E \in Seq(JobRecords)
            BY <1>4 DEF R, T, E
        <3>3. InOrder(con, first, R, T, E)
            BY <1>2, <3>1, <3>2, FourParts
        <3> QED BY <3>3 DEF InOrder
    <2>4. Len(first) = 3 /\ Len(R) = r /\ Len(T) = t /\ Len(E) = e
        BY <1>2, <1>4 DEF R, T, E
    <2>5. /\ DOMAIN con = 1..(3 + r + t + e)
          /\ \A i \in 1..3 : con[i] = first[i]
          /\ \A i \in 1..r : con[3 + i] = R[i]
          /\ \A i \in 1..t : con[3 + r + i] = T[i]
          /\ \A i \in 1..e : con[3 + r + t + i] = E[i]
        BY ONLY <2>3, <2>4
    <2> QED BY <2>2, <2>5
<1> HIDE DEF con
<1>6. /\ con[1] = Job("create", "files") /\ con[2] = Job("create", "averages")
      /\ con[3] = Job("create", "candlesticks")
    BY <1>5
<1>7. ASSUME NEW n \in DOMAIN con
      PROVE  \/ n \in 1..3
             \/ \E i \in 1..r : n = 3 + i
             \/ \E i \in 1..t : n = 3 + r + i
             \/ \E i \in 1..e : n = 3 + r + t + i
    <2>1. n \in 4..(3 + r) => n - 3 \in 1..r /\ n = 3 + (n - 3)
        BY <1>1
    <2>2. n \in (4 + r)..(3 + r + t) => n - 3 - r \in 1..t /\ n = 3 + r + (n - 3 - r)
        BY <1>1
    <2>3. n \in (4 + r + t)..(3 + r + t + e)
              => n - 3 - r - t \in 1..e /\ n = 3 + r + t + (n - 3 - r - t)
        BY <1>1
    <2>4. \/ n \in 1..3 \/ n \in 4..(3 + r) \/ n \in (4 + r)..(3 + r + t)
          \/ n \in (4 + r + t)..(3 + r + t + e)
        BY <1>1, <1>5
    <2> QED BY <2>1, <2>2, <2>3, <2>4
<1> DEFINE Start(n, k, i) == /\ n > 3 /\ con[n] = Job("start", <<k, i>>)
                             /\ k \in Counts /\ i \in 1..s.count[k] /\ <<k, i>> \in Workers
                             /\ n = i + (IF k = "recording" THEN 3
                                         ELSE IF k = "statistics" THEN 3 + r ELSE 3 + r + t)
<1>8. ASSUME NEW n \in DOMAIN con
      PROVE  \/ n <= 3 /\ con[n].do = "create" /\ con[n].what \in Containers
             \/ \E k, i : Start(n, k, i)
    <2>1. CASE n \in 1..3
        BY <1>6, <2>1 DEF Job, Containers
    <2>2. \A k \in Counts : \A i \in 1..s.count[k] : <<k, i>> \in Workers
        <3> SUFFICES ASSUME NEW k \in Counts, NEW i \in 1..s.count[k] PROVE <<k, i>> \in Workers
            OBVIOUS
        <3>1. i \in Indices
            BY <1>1, PipelineAssumption DEF Indices, Counts
        <3> QED BY <3>1, WorkerIsPair
    <2>3. ASSUME NEW i \in 1..r, n = 3 + i PROVE Start(n, "recording", i)
        BY <1>1, <1>5, <2>2, <2>3 DEF Counts
    <2>4. ASSUME NEW i \in 1..t, n = 3 + r + i PROVE Start(n, "statistics", i)
        <3>1. n > 3 /\ n = i + (3 + r) /\ i \in 1..t
            BY <1>1, <2>4
        <3>2. con[n] = Job("start", <<"statistics", i>>)
            BY <1>5, <2>4
        <3>3. "statistics" \in Counts /\ i \in 1..s.count["statistics"]
            BY DEF Counts
        <3> QED BY <2>2, <3>1, <3>2, <3>3
    <2>5. ASSUME NEW i \in 1..e, n = 3 + r + t + i PROVE Start(n, "exporting", i)
        BY <1>1, <1>5, <2>2, <2>5 DEF Counts
    <2> HIDE DEF Start
    <2> QED BY <1>7, <2>1, <2>3, <2>4, <2>5
<1>8a. ASSUME NEW n \in DOMAIN con, NEW k, NEW i, Start(n, k, i)
       PROVE  /\ n > 3 /\ con[n].do = "start" /\ con[n].what = <<k, i>>
              /\ con[n].what \in Workers
              /\ con[n].what[2] \in 1..s.count[con[n].what[1]]
    <2>1. con[n].do = "start" /\ con[n].what = <<k, i>>
        BY <1>8a DEF Job
    <2>2. con[n].what[1] = k /\ con[n].what[2] = i
        BY <2>1
    <2> QED BY <1>8a, <2>1, <2>2
<1>8b. ASSUME NEW m, NEW n, NEW k, NEW i, Start(m, k, i), Start(n, k, i) PROVE m = n
    BY <1>8b
<1>9. \A c \in Containers : \E n \in DOMAIN con : con[n] = Job("create", c)
    <2>1. 1 \in DOMAIN con /\ 2 \in DOMAIN con /\ 3 \in DOMAIN con
        BY <1>1, <1>5
    <2> QED BY <1>6, <2>1 DEF Containers
<1>10. \A m, n \in DOMAIN con : con[m].do = "start" /\ con[n].do = "create" => n < m
    <2> HIDE DEF Start
    <2> QED BY <1>5, <1>8, <1>8a
<1>11. \A m, n \in DOMAIN con :
          con[m].do = "start" /\ con[n].do = "start" /\ con[m].what = con[n].what => m = n
    <2> SUFFICES ASSUME NEW m \in DOMAIN con, NEW n \in DOMAIN con, con[m].do = "start",
                        con[n].do = "start", con[m].what = con[n].what
                 PROVE  m = n
        OBVIOUS
    <2>1. PICK k, i : Start(m, k, i)
        BY <1>8
    <2>2. PICK l, j : Start(n, l, j)
        BY <1>8
    <2> HIDE DEF Start
    <2>3. k = l /\ i = j
        BY <1>8a, <2>1, <2>2
    <2> QED BY <1>8b, <2>1, <2>2, <2>3
<1>12. \A n \in DOMAIN con :
          \/ con[n].do = "create" /\ con[n].what \in Containers
          \/ /\ con[n].do = "start" /\ con[n].what \in Workers
             /\ con[n].what[2] \in 1..s.count[con[n].what[1]]
    <2> HIDE DEF Start
    <2> QED BY <1>8, <1>8a
<1> QED BY <1>9, <1>10, <1>11, <1>12 DEF con

(* The two jobs of each worker of a kind. *)
LEMMA StopAllJobs ==
    ASSUME NEW s, \A k \in Counts : s.count[k] \in 0..MaxWorkers, NEW k \in Counts
    PROVE  /\ \A j \in 1..(2 * s.count[k]) :
                 /\ StopAll(s, k)[j].do \in {"stop", "join"}
                 /\ StopAll(s, k)[j].what \in Workers
                 /\ StopAll(s, k)[j].what[2] \in 1..s.count[StopAll(s, k)[j].what[1]]
           /\ \A i \in 1..s.count[k] : /\ 2 * i \in 1..(2 * s.count[k])
                                       /\ StopAll(s, k)[2 * i] = Job("join", <<k, i>>)
<1>1. s.count[k] \in Nat /\ s.count[k] <= MaxWorkers
    BY PipelineAssumption
<1>2. ASSUME NEW j \in 1..(2 * s.count[k])
      PROVE  /\ StopAll(s, k)[j].do \in {"stop", "join"}
             /\ StopAll(s, k)[j].what \in Workers
             /\ StopAll(s, k)[j].what[2] \in 1..s.count[StopAll(s, k)[j].what[1]]
    <2>1. (j + 1) \div 2 \in 1..s.count[k]
        BY <1>1
    <2>2. <<k, (j + 1) \div 2>> \in Workers
        BY <1>1, <2>1, WorkerIsPair, PipelineAssumption DEF Indices
    <2>3. /\ StopAll(s, k)[j].do \in {"stop", "join"}
          /\ StopAll(s, k)[j].what = <<k, (j + 1) \div 2>>
        BY DEF StopAll, Job
    <2> QED BY <2>1, <2>2, <2>3
<1>3. ASSUME NEW i \in 1..s.count[k]
      PROVE  2 * i \in 1..(2 * s.count[k]) /\ StopAll(s, k)[2 * i] = Job("join", <<k, i>>)
    <2>1. 2 * i \in 1..(2 * s.count[k]) /\ (2 * i) % 2 # 1 /\ (2 * i + 1) \div 2 = i
        BY <1>1
    <2> QED BY <2>1 DEF StopAll
<1> QED BY <1>2, <1>3

LEMMA DestructionOrder ==
    ASSUME NEW s, \A k \in Counts : s.count[k] \in 0..MaxWorkers
    PROVE  LET des == Destruction(s) IN
           /\ \A n \in DOMAIN des :
                 \/ des[n].do = "destroy" /\ des[n].what \in Containers
                 \/ /\ des[n].do \in {"stop", "join"} /\ des[n].what \in Workers
                    /\ des[n].what[2] \in 1..s.count[des[n].what[1]]
           /\ \A m, n \in DOMAIN des : des[m].do = "join" /\ des[n].do = "destroy" => m < n
           /\ \A k \in Counts : \A i \in 1..s.count[k] :
                 \E n \in DOMAIN des : des[n] = Job("join", <<k, i>>)
<1> DEFINE des == Destruction(s)
           r == 2 * s.count["recording"]
           t == 2 * s.count["statistics"]
           e == 2 * s.count["exporting"]
           last == <<Job("destroy", "candlesticks"), Job("destroy", "averages"),
                     Job("destroy", "files")>>
           R == StopAll(s, "recording")
           T == StopAll(s, "statistics")
           E == StopAll(s, "exporting")
           Stops(n) == /\ des[n].do \in {"stop", "join"} /\ des[n].what \in Workers
                       /\ des[n].what[2] \in 1..s.count[des[n].what[1]]
<1>1. r \in Nat /\ t \in Nat /\ e \in Nat
    BY PipelineAssumption DEF Counts
<1>2. last \in Seq(JobRecords) /\ Len(last) = 3
    BY DEF Job, JobRecords, Containers
<1>3. /\ R \in Seq(JobRecords) /\ Len(R) = r
      /\ T \in Seq(JobRecords) /\ Len(T) = t
      /\ E \in Seq(JobRecords) /\ Len(E) = e
    BY ConstructionTyped DEF Counts
<1>4. InOrder(des, E, T, R, last)
    BY <1>2, <1>3, FourParts DEF Destruction
<1>5. /\ DOMAIN des = 1..(e + t + r + 3)
      /\ \A i \in 1..e : des[i] = E[i]
      /\ \A i \in 1..t : des[e + i] = T[i]
      /\ \A i \in 1..r : des[e + t + i] = R[i]
      /\ \A i \in 1..3 : des[e + t + r + i] = last[i]
    <2> HIDE DEF des, r, t, e, last, R, T, E
    <2> QED BY <1>2, <1>3, <1>4 DEF InOrder
<1>6. \A i \in 1..3 : last[i].do = "destroy" /\ last[i].what \in Containers
    BY DEF Job, Containers
<1>7. /\ \A j \in 1..r : R[j].do \in {"stop", "join"} /\ R[j].what \in Workers
                         /\ R[j].what[2] \in 1..s.count[R[j].what[1]]
      /\ \A j \in 1..t : T[j].do \in {"stop", "join"} /\ T[j].what \in Workers
                         /\ T[j].what[2] \in 1..s.count[T[j].what[1]]
      /\ \A j \in 1..e : E[j].do \in {"stop", "join"} /\ E[j].what \in Workers
                         /\ E[j].what[2] \in 1..s.count[E[j].what[1]]
    BY StopAllJobs DEF Counts
<1>8. /\ \A i \in 1..s.count["recording"] :
            2 * i \in 1..r /\ R[2 * i] = Job("join", <<"recording", i>>)
      /\ \A i \in 1..s.count["statistics"] :
            2 * i \in 1..t /\ T[2 * i] = Job("join", <<"statistics", i>>)
      /\ \A i \in 1..s.count["exporting"] :
            2 * i \in 1..e /\ E[2 * i] = Job("join", <<"exporting", i>>)
    BY StopAllJobs DEF Counts
<1> HIDE DEF des, r, t, e, last, R, T, E
<1>9. ASSUME NEW n \in DOMAIN des
      PROVE  \/ n > e + t + r /\ des[n].do = "destroy" /\ des[n].what \in Containers
             \/ n <= e + t + r /\ Stops(n)
    <2>1. CASE n \in 1..e
        <3>1. des[n] = E[n] /\ n <= e + t + r
            BY <1>1, <1>5, <2>1
        <3> QED BY <1>7, <2>1, <3>1
    <2>2. CASE n \in (e + 1)..(e + t)
        <3>1. n - e \in 1..t /\ n = e + (n - e) /\ n <= e + t + r
            BY <1>1, <2>2
        <3>2. des[n] = T[n - e]
            BY <1>5, <3>1
        <3> QED BY <1>7, <3>1, <3>2
    <2>3. CASE n \in (e + t + 1)..(e + t + r)
        <3>1. n - e - t \in 1..r /\ n = e + t + (n - e - t) /\ n <= e + t + r
            BY <1>1, <2>3
        <3>2. des[n] = R[n - e - t]
            BY <1>5, <3>1
        <3> QED BY <1>7, <3>1, <3>2
    <2>4. CASE n \in (e + t + r + 1)..(e + t + r + 3)
        <3>1. n - e - t - r \in 1..3 /\ n = e + t + r + (n - e - t - r) /\ n > e + t + r
            BY <1>1, <2>4
        <3>2. des[n] = last[n - e - t - r]
            BY <1>5, <3>1
        <3> QED BY <1>6, <3>1, <3>2
    <2> QED BY <1>1, <1>5, <2>1, <2>2, <2>3, <2>4
<1>10. \A m, n \in DOMAIN des : des[m].do = "join" /\ des[n].do = "destroy" => m < n
    <2> SUFFICES ASSUME NEW m \in DOMAIN des, NEW n \in DOMAIN des,
                        des[m].do = "join", des[n].do = "destroy"
                 PROVE  m < n
        OBVIOUS
    <2>1. m <= e + t + r /\ n > e + t + r
        BY <1>9
    <2> QED BY <1>1, <1>5, <2>1
<1>11. ASSUME NEW k \in Counts, NEW i \in 1..s.count[k]
       PROVE  \E n \in DOMAIN des : des[n] = Job("join", <<k, i>>)
    <2>1. CASE k = "exporting"
        <3>1. 2 * i \in 1..e /\ E[2 * i] = Job("join", <<k, i>>)
            BY <1>8, <2>1
        <3>2. 2 * i \in DOMAIN des /\ des[2 * i] = E[2 * i]
            BY <1>1, <1>5, <3>1
        <3> QED BY <3>1, <3>2
    <2>2. CASE k = "statistics"
        <3>1. 2 * i \in 1..t /\ T[2 * i] = Job("join", <<k, i>>)
            BY <1>8, <2>2
        <3>2. e + 2 * i \in DOMAIN des /\ des[e + 2 * i] = T[2 * i]
            BY <1>1, <1>5, <3>1
        <3> QED BY <3>1, <3>2
    <2>3. CASE k = "recording"
        <3>1. 2 * i \in 1..r /\ R[2 * i] = Job("join", <<k, i>>)
            BY <1>8, <2>3
        <3>2. e + t + 2 * i \in DOMAIN des /\ des[e + t + 2 * i] = R[2 * i]
            BY <1>1, <1>5, <3>1
        <3> QED BY <3>1, <3>2
    <2> QED BY <2>1, <2>2, <2>3 DEF Counts
<1> QED BY <1>9, <1>10, <1>11 DEF des

-----------------------------------------------------------------------------
(* The teardown *)

(* Doing the first job moves the others up. *)
LEMMA TailJobs ==
    ASSUME TypeOK, TeardownInv, todo # <<>>, todo' = Tail(todo),
           NEW do \in {"create", "start", "stop", "join", "destroy"}
    PROVE  /\ Jobs(do) \subseteq Nat /\ Jobs(do)' \subseteq Nat
           /\ \A n \in Jobs(do)' : n + 1 \in Jobs(do) /\ todo'[n] = todo[n + 1]
           /\ \A n \in Jobs(do) \ {1} : n - 1 \in Jobs(do)' /\ todo'[n - 1] = todo[n]
<1>1. /\ DOMAIN todo \subseteq Nat /\ DOMAIN todo' \subseteq Nat
      /\ \A n \in DOMAIN todo' : n + 1 \in DOMAIN todo /\ todo'[n] = todo[n + 1]
      /\ \A n \in DOMAIN todo \ {1} : n - 1 \in DOMAIN todo'
    BY HeadJob
<1>2. \A n \in Jobs(do)' : n + 1 \in Jobs(do) /\ todo'[n] = todo[n + 1]
    BY <1>1 DEF Jobs
<1>3. ASSUME NEW n \in Jobs(do) \ {1} PROVE n - 1 \in Jobs(do)' /\ todo'[n - 1] = todo[n]
    <2>1. n \in DOMAIN todo \ {1} /\ todo[n].do = do
        BY DEF Jobs
    <2>2. n - 1 \in DOMAIN todo' /\ (n - 1) + 1 = n
        BY <1>1, <2>1
    <2>3. todo'[n - 1] = todo[n]
        BY <1>1, <2>2
    <2> QED BY <2>1, <2>2, <2>3 DEF Jobs
<1> QED BY <1>1, <1>2, <1>3 DEF Jobs

(* Most of what a job does to TeardownInv: the jobs left are right. *)
LEMMA JobsStayOK ==
    ASSUME TypeOK, TeardownInv, todo # <<>>, todo' = Tail(todo), UNCHANGED settings
    PROVE  (\A n \in DOMAIN todo : JobOK(todo[n]))'
<1>1. \A n \in DOMAIN todo' : n + 1 \in DOMAIN todo /\ todo'[n] = todo[n + 1]
    BY HeadJob
<1>2. \A n \in DOMAIN todo' : JobOK(todo[n + 1])
    BY <1>1 DEF TeardownInv
<1> QED BY <1>1, <1>2 DEF JobOK, Wanted

LEMMA SetupStep ==
    ASSUME TypeOK, TeardownInv, mainAt = "setup", Create \/ StartWorker
    PROVE  TeardownInv'
<1>1. /\ todo # <<>> /\ todo' = Tail(todo)
      /\ UNCHANGED <<mainAt, settings, channelVars, exportVars, clientVars>>
    BY JobActions
<1>2. (\A n \in DOMAIN todo : JobOK(todo[n]))'
    BY <1>1, JobsStayOK
<1>3. SetupInv /\ 1 \in DOMAIN todo /\ Head(todo) = todo[1] /\ JobOK(Head(todo))
    BY <1>1, HeadJob DEF TeardownInv
<1>4. Jobs("stop")' \cup Jobs("join")' \cup Jobs("destroy")' = {}
    BY <1>1, <1>3, TailJobs DEF SetupInv
<1>5. \A m \in Jobs("start")', n \in Jobs("create")' : n < m
    <2> SUFFICES ASSUME NEW m \in Jobs("start")', NEW n \in Jobs("create")' PROVE n < m
        OBVIOUS
    <2>1. m + 1 \in Jobs("start") /\ n + 1 \in Jobs("create") /\ m \in Nat /\ n \in Nat
        BY <1>1, TailJobs
    <2>2. n + 1 < m + 1
        BY <1>3, <2>1 DEF SetupInv
    <2> QED BY <2>1, <2>2
<1>6. CASE Create
    <2>1. /\ Head(todo).do = "create" /\ alive' = alive \cup {Head(todo).what}
          /\ UNCHANGED thread /\ Head(todo).what \in Containers
        BY <1>3, <1>6 DEF Create, FirstJob, JobOK
    <2>2. \A w \in Workers : ~Joinable(w) /\ ~Joinable(w)'
        BY <1>3, <2>1 DEF SetupInv, Jobs, Joinable
    <2>3. ASSUME NEW c \in Containers, c \notin alive'
          PROVE  \E n \in Jobs("create")' : todo'[n].what = c
        <3>1. PICK n \in Jobs("create") : todo[n].what = c
            BY <1>3, <2>1, <2>3 DEF SetupInv
        <3>2. n # 1
            BY <1>3, <2>1, <2>3, <3>1
        <3>3. n - 1 \in Jobs("create")' /\ todo'[n - 1] = todo[n]
            BY <1>1, <3>2, TailJobs
        <3> QED BY <3>1, <3>3
    <2>4. ASSUME NEW n \in Jobs("start")', NEW m \in Jobs("start")', todo'[m].what = todo'[n].what
          PROVE  m = n
        <3>1. /\ m + 1 \in Jobs("start") /\ n + 1 \in Jobs("start") /\ m \in Nat /\ n \in Nat
              /\ todo'[m] = todo[m + 1] /\ todo'[n] = todo[n + 1]
            BY <1>1, TailJobs
        <3>2. m + 1 = n + 1
            BY <1>3, <2>4, <3>1 DEF SetupInv
        <3> QED BY <3>1, <3>2
    <2>5. \A n \in Jobs("start")' : todo'[n].what \in Workers
        BY <1>2 DEF Jobs, JobOK
    <2>6. SetupInv'
        BY <1>4, <1>5, <2>2, <2>3, <2>4, <2>5 DEF SetupInv
    <2> QED BY <1>1, <1>2, <2>2, <2>6 DEF TeardownInv
<1>7. CASE StartWorker
    <2> DEFINE w == Head(todo).what
    <2>1. /\ Head(todo).do = "start" /\ UNCHANGED alive
          /\ w \in Workers /\ thread[w] = "none" /\ Wanted(w)
          /\ thread' = [thread EXCEPT ![w] = "wait"]
        BY <1>1, <1>7, StartAndJoin DEF StartWorker, FirstJob
    <2>2. 1 \in Jobs("start") /\ Jobs("create") = {}
        <3>1. 1 \in Jobs("start")
            BY <1>3, <2>1 DEF Jobs
        <3>2. \A n \in Jobs("create") : n < 1 /\ n \in Nat /\ n # 0
            <4>1. \A n \in DOMAIN todo : n \in Nat /\ n # 0
                BY LenProperties DEF TypeOK
            <4> QED BY <1>3, <3>1, <4>1 DEF SetupInv, Jobs
        <3>3. \A n \in Nat : ~(n < 1 /\ n # 0)
            OBVIOUS
        <3> QED BY <3>1, <3>2, <3>3
    <2>3. Jobs("create")' = {}
        BY <1>1, <2>2, TailJobs
    <2>4. \A c \in Containers : c \in alive'
        BY <1>3, <2>1, <2>2 DEF SetupInv
    <2>5. ASSUME NEW n \in Jobs("start")'
          PROVE  /\ ~Joinable(todo[n].what)'
                 /\ \A m \in Jobs("start")' : todo'[m].what = todo'[n].what => m = n
        <3>1. n + 1 \in Jobs("start") /\ todo'[n] = todo[n + 1] /\ n \in Nat /\ n # 0
            <4>1. \A j \in DOMAIN todo' : j # 0
                BY <1>1, HeadJob, LenProperties, HeadTailProperties DEF TypeOK
            <4> QED BY <1>1, <4>1, TailJobs DEF Jobs
        <3>2. ~Joinable(todo[n + 1].what) /\ todo[n + 1].what # w
            <4>1. 1 # n + 1
                BY <3>1
            <4> QED BY <1>3, <2>2, <3>1, <4>1 DEF SetupInv
        <3>3. ~Joinable(todo[n].what)'
            BY <2>1, <3>1, <3>2 DEF Joinable, TypeOK
        <3>4. ASSUME NEW m \in Jobs("start")', todo'[m].what = todo'[n].what PROVE m = n
            <4>1. m + 1 \in Jobs("start") /\ todo'[m] = todo[m + 1] /\ m \in Nat
                BY <1>1, TailJobs
            <4>2. m + 1 = n + 1
                BY <1>3, <3>1, <3>4, <4>1 DEF SetupInv
            <4> QED BY <3>1, <4>1, <4>2
        <3> QED BY <3>3, <3>4
    <2>6. SetupInv'
        BY <1>4, <1>5, <2>3, <2>4, <2>5 DEF SetupInv
    <2>7. \A v \in Workers : Joinable(v)' => Wanted(v)'
        <3>1. \A v \in Workers : v # w => Joinable(v)' = Joinable(v)
            BY <2>1 DEF Joinable, TypeOK
        <3>2. \A v \in Workers : Wanted(v)' = Wanted(v)
            BY <1>1 DEF Wanted
        <3> QED BY <2>1, <3>1, <3>2 DEF TeardownInv
    <2> QED BY <1>1, <1>2, <2>6, <2>7 DEF TeardownInv
<1> QED BY <1>6, <1>7

LEMMA LeaveStep ==
    ASSUME TypeOK, TeardownInv, mainAt = "leave", StopWorker \/ JoinWorker \/ Destroy
    PROVE  TeardownInv'
<1>1. /\ todo # <<>> /\ todo' = Tail(todo)
      /\ UNCHANGED <<mainAt, settings, channelVars, exportVars, clientVars>>
    BY JobActions
<1>2. (\A n \in DOMAIN todo : JobOK(todo[n]))'
    BY <1>1, JobsStayOK
<1>3. LeaveInv /\ 1 \in DOMAIN todo /\ Head(todo) = todo[1] /\ JobOK(Head(todo))
    BY <1>1, HeadJob DEF TeardownInv
<1>4. Jobs("create")' \cup Jobs("start")' = {}
    BY <1>1, <1>3, TailJobs DEF LeaveInv
<1>5. \A m \in Jobs("join")', n \in Jobs("destroy")' : m < n
    <2> SUFFICES ASSUME NEW m \in Jobs("join")', NEW n \in Jobs("destroy")' PROVE m < n
        OBVIOUS
    <2>1. m + 1 \in Jobs("join") /\ n + 1 \in Jobs("destroy") /\ m \in Nat /\ n \in Nat
        BY <1>1, TailJobs
    <2>2. m + 1 < n + 1
        BY <1>3, <2>1 DEF LeaveInv
    <2> QED BY <2>1, <2>2
<1>6. /\ \A w \in Workers : Joinable(w)' => Joinable(w)
      /\ Head(todo).do = "join" => thread'[Head(todo).what] = "none"
    <2>1. CASE JoinWorker
        <3>1. /\ thread' = [thread EXCEPT ![Head(todo).what] = "none"]
              /\ Head(todo).what \in Workers
            BY <1>1, <2>1, StartAndJoin DEF JoinWorker
        <3> QED BY <3>1 DEF Joinable, TypeOK
    <2>2. CASE StopWorker \/ Destroy
        BY <2>2 DEF StopWorker, Destroy, FirstJob, Joinable
    <2> QED BY <2>1, <2>2
<1>7. ASSUME NEW w \in Workers, Joinable(w)'
      PROVE  \E n \in Jobs("join")' : todo'[n].what = w
    <2>1. PICK n \in Jobs("join") : todo[n].what = w
        BY <1>3, <1>6, <1>7 DEF LeaveInv
    <2>2. n # 1
        BY <1>3, <1>6, <1>7, <2>1 DEF Jobs, Joinable
    <2>3. n - 1 \in Jobs("join")' /\ todo'[n - 1] = todo[n]
        BY <1>1, <2>1, <2>2, TailJobs
    <2> QED BY <2>1, <2>3
<1>8. Jobs("join")' # {} => alive' = Containers
    <2> SUFFICES ASSUME NEW m \in Jobs("join")' PROVE alive' = Containers
        OBVIOUS
    <2>1. m + 1 \in Jobs("join") /\ m \in Nat /\ m # 0
        <3>1. \A j \in DOMAIN todo' : j # 0
            BY <1>1, HeadTailProperties, LenProperties DEF TypeOK
        <3> QED BY <1>1, <3>1, TailJobs DEF Jobs
    <2>2. ~Destroy
        <3>1. Destroy => 1 \in Jobs("destroy")
            BY <1>3 DEF Destroy, FirstJob, Jobs
        <3>2. ~(m + 1 < 1)
            BY <2>1
        <3> QED BY <1>3, <2>1, <3>1, <3>2 DEF LeaveInv
    <2>3. UNCHANGED alive
        BY <2>2 DEF StopWorker, JoinWorker
    <2> QED BY <1>3, <2>1, <2>3 DEF LeaveInv
<1>9. LeaveInv'
    BY <1>4, <1>5, <1>7, <1>8 DEF LeaveInv
<1>10. \A w \in Workers : Joinable(w)' => Wanted(w)'
    BY <1>1, <1>6 DEF TeardownInv, Wanted
<1> QED BY <1>1, <1>2, <1>9, <1>10 DEF TeardownInv

LEMMA StepTeardownInv == IInv /\ [Next]_vars => TeardownInv'
<1> SUFFICES ASSUME IInv, [Next]_vars PROVE TeardownInv'
    OBVIOUS
<1>0. TypeOK /\ TeardownInv /\ TypeOK'
    BY StepTypeOK DEF IInv
<1>1. CASE Create \/ StartWorker
    BY <1>0, <1>1, SetupStep DEF Create, StartWorker, FirstJob
<1>2. CASE StopWorker \/ JoinWorker \/ Destroy
    BY <1>0, <1>2, LeaveStep DEF StopWorker, JoinWorker, Destroy, FirstJob
<1>3. CASE Load
    <2>1. /\ mainAt = "load" /\ UNCHANGED <<alive, thread>>
          /\ \A w \in Workers : ~Joinable(w) /\ ~Joinable(w)'
        BY <1>0, <1>3 DEF Load, TeardownInv, Joinable
    <2>2. CASE mainAt' \in {"terminated", "refused"} /\ UNCHANGED <<settings, todo>>
        BY <1>0, <2>1, <2>2 DEF TeardownInv, JobOK, Wanted
    <2>3. CASE mainAt' = "setup" /\ todo' = Construction(settings')
        <3>1. \A k \in Counts : settings'.count[k] \in 0..MaxWorkers
            BY <1>0 DEF TypeOK
        <3>2. /\ \A n \in DOMAIN todo' :
                    \/ todo'[n].do = "create" /\ todo'[n].what \in Containers
                    \/ /\ todo'[n].do = "start" /\ todo'[n].what \in Workers
                       /\ todo'[n].what[2] \in 1..settings'.count[todo'[n].what[1]]
              /\ \A m, n \in DOMAIN todo' :
                    todo'[m].do = "start" /\ todo'[n].do = "create" => n < m
              /\ \A c \in Containers : \E n \in DOMAIN todo' : todo'[n] = Job("create", c)
              /\ \A m, n \in DOMAIN todo' :
                    todo'[m].do = "start" /\ todo'[n].do = "start" /\ todo'[m].what = todo'[n].what
                        => m = n
            BY <2>3, <3>1, ConstructionOrder
        <3>3. (\A n \in DOMAIN todo : JobOK(todo[n]))'
            BY <3>2, WorkerIsPair DEF JobOK, Wanted
        <3>4. \A c \in Containers : \E n \in Jobs("create")' : todo'[n].what = c
            BY <3>2 DEF Jobs, Job
        <3>5. \A n \in Jobs("start")' : ~Joinable(todo[n].what)'
            BY <2>1, <3>2 DEF Jobs
        <3>6. SetupInv'
            BY <2>1, <3>2, <3>4, <3>5 DEF SetupInv, Jobs
        <3> QED BY <2>1, <2>3, <3>3, <3>6 DEF TeardownInv
    <2> QED BY <1>3, <2>2, <2>3 DEF Load
<1>4. CASE Run
    <2>1. /\ mainAt = "setup" /\ todo = <<>> /\ mainAt' = "run"
          /\ UNCHANGED <<settings, todo, alive, thread>>
        BY <1>4 DEF Run
    <2>2. Jobs("create") = {}
        BY <2>1, EmptySeq DEF Jobs
    <2>3. alive = Containers
        BY <1>0, <2>1, <2>2 DEF TeardownInv, SetupInv, TypeOK
    <2> QED BY <1>0, <2>1, <2>3 DEF TeardownInv, Joinable, JobOK, Wanted
<1>5. CASE RunReturns
    <2>1. /\ mainAt = "run" /\ mainAt' = "leave" /\ todo' = Destruction(settings)
          /\ UNCHANGED <<settings, alive, thread>> /\ alive = Containers
          /\ \A k \in Counts : settings.count[k] \in 0..MaxWorkers
        BY <1>0, <1>5 DEF RunReturns, TeardownInv, TypeOK
    <2>2. /\ \A n \in DOMAIN todo' :
                \/ todo'[n].do = "destroy" /\ todo'[n].what \in Containers
                \/ /\ todo'[n].do \in {"stop", "join"} /\ todo'[n].what \in Workers
                   /\ todo'[n].what[2] \in 1..settings.count[todo'[n].what[1]]
          /\ \A m, n \in DOMAIN todo' : todo'[m].do = "join" /\ todo'[n].do = "destroy" => m < n
          /\ \A k \in Counts : \A i \in 1..settings.count[k] :
                \E n \in DOMAIN todo' : todo'[n] = Job("join", <<k, i>>)
        BY <2>1, DestructionOrder
    <2>3. (\A n \in DOMAIN todo : JobOK(todo[n]))'
        BY <2>1, <2>2, WorkerIsPair DEF JobOK, Wanted
    <2>4. ASSUME NEW w \in Workers, Joinable(w)'
          PROVE  Wanted(w)' /\ \E n \in Jobs("join")' : todo'[n].what = w
        <3>1. Wanted(w) /\ w = <<w[1], w[2]>>
            BY <1>0, <2>1, <2>4, WorkerIsPair DEF TeardownInv, Joinable
        <3>2. PICK n \in DOMAIN todo' : todo'[n] = Job("join", <<w[1], w[2]>>)
            BY <2>2, <3>1 DEF Wanted
        <3>3. todo'[n].do = "join" /\ todo'[n].what = w
            BY <3>1, <3>2 DEF Job
        <3> QED BY <2>1, <3>1, <3>3 DEF Wanted, Jobs
    <2>5. LeaveInv'
        BY <2>1, <2>2, <2>4 DEF LeaveInv, Jobs
    <2> QED BY <2>1, <2>3, <2>4, <2>5 DEF TeardownInv
<1>6. CASE Exit
    <2>1. /\ mainAt = "leave" /\ todo = <<>> /\ mainAt' = "exited"
          /\ UNCHANGED <<settings, todo, alive, thread>>
        BY <1>6 DEF Exit
    <2>2. Jobs("join") = {}
        BY <2>1, EmptySeq DEF Jobs
    <2>3. \A w \in Workers : ~Joinable(w)
        BY <1>0, <2>1, <2>2 DEF TeardownInv, LeaveInv
    <2> QED BY <1>0, <2>1, <2>3 DEF TeardownInv, Joinable, JobOK, Wanted
<1>7. CASE Throw
    <2>1. /\ mainAt = "run" /\ mainAt' = "terminated"
          /\ UNCHANGED <<settings, todo, alive, thread>>
        BY <1>7 DEF Throw
    <2> QED BY <1>0, <2>1 DEF TeardownInv, Joinable, JobOK, Wanted
<1>8. ASSUME UNCHANGED mainVars, \A w \in Workers : Joinable(w)' = Joinable(w)
      PROVE  TeardownInv'
    <2>1. UNCHANGED <<mainAt, settings, todo, alive>>
        BY <1>8 DEF mainVars
    <2>2. /\ \A do : Jobs(do)' = Jobs(do)
          /\ \A w : Wanted(w)' = Wanted(w)
        BY <2>1 DEF Jobs, Wanted
    <2>3. (\A n \in DOMAIN todo : JobOK(todo[n]))'
        BY <1>0, <2>1 DEF TeardownInv, JobOK, Wanted
    <2>4. mainAt = "setup" => SetupInv'
        <3> SUFFICES ASSUME mainAt = "setup" PROVE SetupInv'
            OBVIOUS
        <3>1. SetupInv /\ \A n \in Jobs("start") : todo[n].what \in Workers
            BY <1>0 DEF TeardownInv, Jobs, JobOK
        <3> QED BY <1>8, <2>1, <2>2, <3>1 DEF SetupInv
    <2>5. mainAt = "leave" => LeaveInv'
        BY <1>0, <1>8, <2>1, <2>2 DEF TeardownInv, LeaveInv
    <2> QED BY <1>0, <1>8, <2>1, <2>2, <2>3, <2>4, <2>5 DEF TeardownInv
<1>9. CASE Callback \/ \E trades \in Messages : Receive(trades)
    BY <1>8, <1>9 DEF Callback, EnqueueRecording, EnqueueStatistics, Enqueue, Receive, Joinable
<1>10. ASSUME NEW w \in QueueWorkers, QueueWorkerStep(w) PROVE TeardownInv'
    <2>1. UNCHANGED mainVars /\ \A v \in Workers : v # w => thread'[v] = thread[v]
        BY <1>0, <1>10 DEF QueueWorkerStep, Take, GiveUp, Decide, WorkDone, TypeOK
    <2>2. thread[w] # "none" /\ thread'[w] # "none"
        BY <1>0, <1>10, WorkerIsPair DEF QueueWorkerStep, Take, GiveUp, Decide, WorkDone, TypeOK
    <2> QED BY <1>8, <2>1, <2>2 DEF Joinable
<1>11. ASSUME NEW e \in Exporters, ExporterStep(e) PROVE TeardownInv'
    <2>1. UNCHANGED mainVars /\ \A v \in Workers : v # e => thread'[v] = thread[v]
        BY <1>0, <1>11 DEF ExporterStep, WakeExport, WriteRow, GiveUpExport, TypeOK
    <2>2. thread[e] # "none" /\ thread'[e] # "none"
        BY <1>0, <1>11, WorkerIsPair DEF ExporterStep, WakeExport, WriteRow, GiveUpExport, TypeOK
    <2> QED BY <1>8, <2>1, <2>2 DEF Joinable
<1>12. CASE UNCHANGED vars
    BY <1>8, <1>12 DEF vars, mainVars, Joinable
<1> QED BY <1>1, <1>2, <1>3, <1>4, <1>5, <1>6, <1>7, <1>9, <1>10, <1>11, <1>12
        DEF Next, Setup, Leave

(* While a thread is joinable, either the containers are complete or they all wait for it. *)
LEMMA ContainersStay == TypeOK /\ TeardownInv => ContainersOutliveThreads
<1> SUFFICES ASSUME TypeOK, TeardownInv, NEW w \in Workers, Joinable(w)
             PROVE  Uses(w) \subseteq alive
    BY DEF ContainersOutliveThreads
<1>1. Uses(w) \subseteq Containers
    BY WorkerIsPair DEF Uses, Containers, Counts
<1>2. Containers \subseteq alive
    <2>1. CASE mainAt = "setup"
        BY <2>1 DEF TeardownInv, SetupInv
    <2>2. CASE mainAt = "leave"
        BY <2>2 DEF TeardownInv, LeaveInv
    <2>3. CASE mainAt \in {"run", "terminated"}
        BY <2>3 DEF TeardownInv
    <2>4. mainAt \notin {"load", "refused", "exited"}
        BY DEF TeardownInv
    <2> QED BY <2>1, <2>2, <2>3, <2>4 DEF TypeOK, Places
<1> QED BY <1>1, <1>2

-----------------------------------------------------------------------------
(* Ownership *)

(* What a queue has accepted stays where it is, and a trade enqueued comes behind it. *)
LEMMA AcceptsBehind ==
    ASSUME TypeOK, NEW v \in QueueWorkers, NEW trade \in Trades, Enqueue(v, trade),
           NEW w \in QueueWorkers
    PROVE  /\ Len(accepted[w]) \in Nat
           /\ Len(accepted'[w]) \in {Len(accepted[w]), Len(accepted[w]) + 1}
           /\ Len(accepted'[w]) # Len(accepted[w]) => w = v
           /\ w = v => Len(accepted'[w]) = Len(accepted[w]) + 1
           /\ \A p \in 1..Len(accepted[w]) : accepted'[w][p] = accepted[w][p]
           /\ w = v => accepted'[w][Len(accepted[w]) + 1] = trade
<1>1. accepted' = [accepted EXCEPT ![v] = Append(@, trade)]
    BY DEF Enqueue
<1>2. accepted[w] \in Seq(Trades) /\ Len(accepted[w]) \in Nat
    BY LenProperties DEF TypeOK
<1>3. CASE w = v
    <2>1. accepted'[w] = Append(accepted[w], trade)
        BY <1>1, <1>3 DEF TypeOK
    <2> QED BY <1>2, <1>3, <2>1, AppendProperties
<1>4. CASE w # v
    <2>1. accepted'[w] = accepted[w]
        BY <1>1, <1>4 DEF TypeOK
    <2> QED BY <1>2, <1>4, <2>1
<1> QED BY <1>3, <1>4

LEMMA HeldStays ==
    ASSUME TypeOK, NEW v \in QueueWorkers, NEW trade \in Trades, Enqueue(v, trade),
           NEW w \in QueueWorkers
    PROVE  /\ \A t : HasIt(w, t) => HasIt(w, t)'
           /\ w = v => HasIt(w, trade)'
<1>1. /\ Len(accepted[w]) \in Nat
      /\ Len(accepted'[w]) \in {Len(accepted[w]), Len(accepted[w]) + 1}
      /\ w = v => Len(accepted'[w]) = Len(accepted[w]) + 1
      /\ \A p \in 1..Len(accepted[w]) : accepted'[w][p] = accepted[w][p]
      /\ w = v => accepted'[w][Len(accepted[w]) + 1] = trade
    BY AcceptsBehind
<1>2. \A p \in 1..Len(accepted[w]) : p \in 1..Len(accepted'[w])
    BY <1>1
<1>3. w = v => Len(accepted[w]) + 1 \in 1..Len(accepted'[w])
    BY <1>1
<1> QED BY <1>1, <1>2, <1>3 DEF HasIt

(* A step that enqueues nothing and leaves the settings alone. *)
LEMMA OwnersStay ==
    ASSUME OwnerInv, UNCHANGED <<settings, half, received, accepted>>
    PROVE  DeliveryInv' /\ \A w \in QueueWorkers : QueueOwnerInv(w)'
<1>1. \A k, symbol : TaskWorker(k, symbol)' = TaskWorker(k, symbol)
    BY DEF TaskWorker
<1>2. \A symbol : Known(symbol)' = Known(symbol)
    BY DEF Known
<1>3. \A w, t : HasIt(w, t)' = HasIt(w, t)
    BY DEF HasIt
<1>4. \A w, t : Delivered(w, t)' = Delivered(w, t)
    BY <1>1 DEF Delivered
<1>5. DeliveryInv'
    BY <1>1, <1>2, <1>3 DEF OwnerInv, DeliveryInv, Distributed
<1>6. \A w \in QueueWorkers : QueueOwnerInv(w)'
    BY <1>4 DEF OwnerInv, QueueOwnerInv
<1> QED BY <1>5, <1>6

LEMMA LoadOwners ==
    ASSUME TypeOK, OwnerInv, Load
    PROVE  DeliveryInv' /\ \A w \in QueueWorkers : QueueOwnerInv(w)'
<1>1. received = <<>> /\ received' = <<>> /\ UNCHANGED <<half, accepted>>
    BY DEF Load, OwnerInv, clientVars, channelVars
<1>2. Len(received) = 0 /\ Len(received') = 0
    BY <1>1, EmptySeq
<1>3. DeliveryInv'
    BY <1>2 DEF DeliveryInv
<1>4. ASSUME NEW w \in QueueWorkers PROVE QueueOwnerInv(w)'
    <2>1. \A p \in 1..Len(accepted[w]) : FALSE
        BY <1>2 DEF OwnerInv, QueueOwnerInv, Delivered
    <2> QED BY <1>1, <2>1 DEF QueueOwnerInv
<1> QED BY <1>3, <1>4

(* What was delivered is still delivered when a trade is appended to those received. *)
LEMMA DeliveredStays ==
    ASSUME NEW w, NEW t, Delivered(w, t),
           Len(received) \in Nat, Len(received') \in Nat, Len(received) <= Len(received'),
           received'[t.id] = received[t.id],
           half' /\ w[1] = "statistics" => half \/ t.id < Len(received'),
           UNCHANGED settings
    PROVE  Delivered(w, t)'
<1>1. TaskWorker(w[1], t.symbol)' = TaskWorker(w[1], t.symbol)
    BY DEF TaskWorker
<1>2. t.id \in 1..Len(received) /\ received[t.id] = t /\ TaskWorker(w[1], t.symbol) = w
      /\ (half /\ w[1] = "statistics" => t.id < Len(received))
    BY DEF Delivered
<1>3. t.id \in 1..Len(received')
    BY <1>2
<1>4. half' /\ w[1] = "statistics" => t.id < Len(received')
    BY <1>2
<1> QED BY <1>1, <1>2, <1>3, <1>4 DEF Delivered

(* A trade with a greater id than all that a worker has been given is put behind them. *)
LEMMA QueueOwnerExtends ==
    ASSUME TypeOK, NEW v \in QueueWorkers, NEW trade \in Trades, Enqueue(v, trade),
           NEW w \in QueueWorkers, QueueOwnerInv(w),
           \A p \in 1..Len(accepted[w]) : Delivered(w, accepted[w][p])',
           w = v => Delivered(w, trade)',
           w = v => \A p \in 1..Len(accepted[w]) : accepted[w][p].id < trade.id
    PROVE  QueueOwnerInv(w)'
<1> DEFINE len == Len(accepted[w])
<1>1. /\ len \in Nat /\ Len(accepted'[w]) \in {len, len + 1}
      /\ Len(accepted'[w]) # len => w = v
      /\ w = v => Len(accepted'[w]) = len + 1
      /\ \A p \in 1..len : accepted'[w][p] = accepted[w][p]
      /\ w = v => accepted'[w][len + 1] = trade
    BY AcceptsBehind
<1>2. \A p, q \in 1..len : p < q => accepted[w][p].id < accepted[w][q].id
    BY DEF QueueOwnerInv
<1>3. \A p \in 1..Len(accepted'[w]) : p \in 1..len \/ (w = v /\ p = len + 1)
    BY <1>1
<1>4. ASSUME NEW p \in 1..Len(accepted'[w]) PROVE Delivered(w, accepted[w][p])'
    <2>1. CASE p \in 1..len
        BY <2>1 DEF Delivered
    <2>2. CASE w = v /\ p = len + 1
        BY <1>1, <2>2 DEF Delivered
    <2> QED BY <1>3, <2>1, <2>2
<1>5. ASSUME NEW p \in 1..Len(accepted'[w]), NEW q \in 1..Len(accepted'[w]), p < q
      PROVE  accepted'[w][p].id < accepted'[w][q].id
    <2>1. p \in 1..len
        BY <1>1, <1>5
    <2>2. CASE q \in 1..len
        BY <1>1, <1>2, <1>5, <2>1, <2>2
    <2>3. CASE w = v /\ q = len + 1
        BY <1>1, <2>1, <2>3
    <2> QED BY <1>3, <2>2, <2>3
<1> QED BY <1>4, <1>5 DEF QueueOwnerInv

(* The trade received last goes to the recording worker of its symbol ... *)
LEMMA RecordingOwners ==
    ASSUME TypeOK, OwnerInv, NEW trade \in Trades, NEW v \in QueueWorkers,
           TaskWorker("recording", trade.symbol) = v, v[1] = "recording",
           Known(trade.symbol), trade.id = Len(received) + 1, Enqueue(v, trade),
           received' = Append(received, trade), ~half, UNCHANGED settings
    PROVE  half' => DeliveryInv' /\ \A w \in QueueWorkers : QueueOwnerInv(w)'
<1> SUFFICES ASSUME half' PROVE DeliveryInv' /\ \A w \in QueueWorkers : QueueOwnerInv(w)'
    OBVIOUS
<1>1. received \in Seq(Trades) /\ Len(received) \in Nat
    BY LenProperties DEF TypeOK
<1>2. /\ Len(received') = Len(received) + 1
      /\ received'[Len(received) + 1] = trade
      /\ \A n \in 1..Len(received) : received'[n] = received[n]
    BY <1>1, AppendProperties
<1>3. \A k, symbol : TaskWorker(k, symbol)' = TaskWorker(k, symbol)
    BY DEF TaskWorker
<1>4. \A symbol : Known(symbol)' = Known(symbol)
    BY DEF Known
<1>5. ASSUME NEW n \in 1..Len(received') PROVE Distributed(n)'
    <2>1. CASE n = Len(received) + 1
        <3>1. HasIt(v, trade)'
            BY HeldStays
        <3>2. received'[n] = trade /\ TaskWorker("recording", trade.symbol)' = v
              /\ Known(trade.symbol)' /\ n = Len(received')
            BY <1>2, <1>3, <1>4, <2>1
        <3> QED BY <2>1, <3>1, <3>2 DEF Distributed, HasIt
    <2>2. CASE n \in 1..Len(received)
        <3>1. PICK t \in Trades : received[n] = t /\ received'[n] = t
            BY <1>1, <1>2, <2>2, ElementOfSeq
        <3>2. PICK r \in QueueWorkers : r = TaskWorker("recording", t.symbol)
            BY <2>2, <3>1, KnownHasWorker DEF OwnerInv, DeliveryInv, Distributed
        <3>3. PICK s \in QueueWorkers : s = TaskWorker("statistics", t.symbol)
            BY <2>2, <3>1, KnownHasWorker DEF OwnerInv, DeliveryInv, Distributed
        <3>4. t.id = n /\ Known(t.symbol) /\ HasIt(r, t) /\ HasIt(s, t)
            BY <2>2, <3>1, <3>2, <3>3 DEF OwnerInv, DeliveryInv, Distributed
        <3>5. HasIt(r, t)'
            BY <3>4, HeldStays
        <3>6. HasIt(s, t)'
            BY <3>4, HeldStays
        <3>7. /\ TaskWorker("recording", t.symbol)' = r
              /\ TaskWorker("statistics", t.symbol)' = s
              /\ Known(t.symbol)'
            BY <1>3, <1>4, <3>2, <3>3, <3>4
        <3> QED BY <3>1, <3>4, <3>5, <3>6, <3>7 DEF Distributed, HasIt
    <2>3. n = Len(received) + 1 \/ n \in 1..Len(received)
        BY <1>1, <1>2
    <2> QED BY <2>1, <2>2, <2>3
<1>6. ASSUME NEW w \in QueueWorkers PROVE QueueOwnerInv(w)'
    <2>1. QueueOwnerInv(w)
        BY DEF OwnerInv
    <2>2. ASSUME NEW p \in 1..Len(accepted[w])
          PROVE  Delivered(w, accepted[w][p])' /\ accepted[w][p].id < trade.id
        <3>1. PICK t : t = accepted[w][p]
            OBVIOUS
        <3>2. Delivered(w, t) /\ accepted'[w][p] = t
            BY <2>1, <3>1, AcceptsBehind DEF QueueOwnerInv
        <3>3. t.id \in 1..Len(received) /\ received'[t.id] = received[t.id]
            BY <1>2, <3>2 DEF Delivered
        <3>4. t.id < Len(received')
            BY <1>1, <1>2, <3>3
        <3>5. Delivered(w, t)'
            <4>1. Len(received) \in Nat /\ Len(received') \in Nat /\ Len(received) <= Len(received')
                BY <1>1, <1>2
            <4> QED BY <3>2, <3>3, <3>4, <4>1, DeliveredStays
        <3> QED BY <1>1, <1>2, <3>1, <3>2, <3>4, <3>5 DEF Delivered
    <2>3. ASSUME w = v PROVE Delivered(w, trade)'
        <3>1. Len(received) + 1 \in 1..Len(received')
            BY <1>1, <1>2
        <3> QED BY <1>2, <1>3, <2>3, <3>1 DEF Delivered
    <2> QED BY <2>1, <2>2, <2>3, QueueOwnerExtends
<1> QED BY <1>5, <1>6 DEF DeliveryInv

(* ... and then to its statistics worker, which has none after it. *)
LEMMA StatisticsOwners ==
    ASSUME TypeOK, OwnerInv, NEW trade \in Trades, NEW v \in QueueWorkers,
           TaskWorker("statistics", trade.symbol) = v, v[1] = "statistics",
           received # <<>>, trade = received[Len(received)], Enqueue(v, trade),
           half, ~half', UNCHANGED <<settings, received>>
    PROVE  DeliveryInv' /\ \A w \in QueueWorkers : QueueOwnerInv(w)'
<1>1. received \in Seq(Trades) /\ Len(received) \in Nat
    BY LenProperties DEF TypeOK
<1>2. Len(received) \in 1..Len(received) /\ trade.id = Len(received)
    <2>1. Len(received) \in 1..Len(received)
        BY <1>1, EmptySeq
    <2> QED BY <2>1 DEF OwnerInv, DeliveryInv, Distributed
<1>3. \A k, symbol : TaskWorker(k, symbol)' = TaskWorker(k, symbol)
    BY DEF TaskWorker
<1>4. \A symbol : Known(symbol)' = Known(symbol)
    BY DEF Known
<1>5. ASSUME NEW n \in 1..Len(received) PROVE Distributed(n)'
    <2>1. PICK t \in Trades : received[n] = t
        BY <1>1, ElementOfSeq
    <2>2. PICK r \in QueueWorkers : r = TaskWorker("recording", t.symbol)
        BY <2>1, KnownHasWorker DEF OwnerInv, DeliveryInv, Distributed
    <2>3. PICK s \in QueueWorkers : s = TaskWorker("statistics", t.symbol)
        BY <2>1, KnownHasWorker DEF OwnerInv, DeliveryInv, Distributed
    <2>4. /\ t.id = n /\ Known(t.symbol) /\ HasIt(r, t)
          /\ (n = Len(received) /\ s = v /\ t = trade) \/ HasIt(s, t)
        BY <2>1, <2>2, <2>3 DEF OwnerInv, DeliveryInv, Distributed
    <2>5. HasIt(r, t)'
        BY <2>4, HeldStays
    <2>6. HasIt(s, t)'
        BY <2>4, HeldStays
    <2>7. /\ TaskWorker("recording", t.symbol)' = r
          /\ TaskWorker("statistics", t.symbol)' = s
          /\ Known(t.symbol)'
        BY <1>3, <1>4, <2>2, <2>3, <2>4
    <2> QED BY <2>1, <2>4, <2>5, <2>6, <2>7 DEF Distributed, HasIt
<1>6. ASSUME NEW w \in QueueWorkers PROVE QueueOwnerInv(w)'
    <2>1. QueueOwnerInv(w)
        BY DEF OwnerInv
    <2>2. ASSUME NEW p \in 1..Len(accepted[w])
          PROVE  Delivered(w, accepted[w][p])'
        <3>1. PICK t : t = accepted[w][p]
            OBVIOUS
        <3>2. Delivered(w, t) /\ accepted'[w][p] = t
            BY <2>1, <3>1, AcceptsBehind DEF QueueOwnerInv
        <3>3. Len(received') \in Nat /\ Len(received) <= Len(received')
            BY <1>1
        <3>4. Delivered(w, t)'
            BY <1>1, <3>2, <3>3, DeliveredStays
        <3> QED BY <3>1, <3>2, <3>4 DEF Delivered
    <2>3. ASSUME w = v PROVE Delivered(w, trade)'
        BY <1>2, <1>3, <2>3 DEF Delivered
    <2>4. ASSUME w = v, NEW p \in 1..Len(accepted[w]) PROVE accepted[w][p].id < trade.id
        BY <1>2, <2>1, <2>4 DEF QueueOwnerInv, Delivered
    <2> QED BY <2>1, <2>2, <2>3, <2>4, QueueOwnerExtends
<1> QED BY <1>5, <1>6 DEF DeliveryInv

(* A worker that dropped a trade is not started again: it is not during the set-up. *)
LEMMA StepLost ==
    ASSUME TypeOK, Conservation, TeardownInv, OwnerInv, [Next]_vars, NEW w \in QueueWorkers
    PROVE  LostInv(w)'
<1>0. /\ LostInv(w) /\ w \in Workers
      /\ settled[w] \in Seq(Trades) /\ hand[w] \in Seq(Trades) /\ queue[w] \in Seq(Trades)
    BY WorkerIsPair DEF OwnerInv, TypeOK
<1>1. ASSUME UNCHANGED <<thread, settled, lost>> PROVE LostInv(w)'
    BY <1>0, <1>1 DEF LostInv
<1>2. CASE Load \/ Create \/ Run \/ RunReturns \/ StopWorker \/ Destroy \/ Exit \/ Throw
           \/ UNCHANGED vars
    BY <1>1, <1>2 DEF Load, Create, Run, RunReturns, StopWorker, Destroy, Exit, Throw, vars,
                      channelVars
<1>3. CASE Callback \/ \E trades \in Messages : Receive(trades)
    BY <1>1, <1>3 DEF Callback, EnqueueRecording, EnqueueStatistics, Enqueue, Receive, channelVars
<1>4. CASE StartWorker
    <2>1. mainAt = "setup" /\ UNCHANGED <<settled, lost>>
        BY <1>4 DEF StartWorker, FirstJob, channelVars
    <2>2. Len(accepted[w]) = 0
        <3>1. Len(received) = 0
            BY <2>1, EmptySeq DEF OwnerInv
        <3>2. accepted[w] \in Seq(Trades) /\ Len(accepted[w]) \in Nat
            BY LenProperties DEF TypeOK
        <3>3. Len(accepted[w]) \notin 1..Len(accepted[w])
            BY <3>1 DEF OwnerInv, QueueOwnerInv, Delivered
        <3> QED BY <3>2, <3>3
    <2>3. Len(settled[w]) = 0
        <3>1. PICK s \in Seq(Trades) : s = settled[w]
            BY <1>0
        <3>2. PICK h \in Seq(Trades) : h = hand[w]
            BY <1>0
        <3>3. PICK q \in Seq(Trades) : q = queue[w]
            BY <1>0
        <3>4. Len(s) \in Nat /\ Len(h) \in Nat /\ Len(q) \in Nat
            BY LenProperties
        <3>5. s \o h \in Seq(Trades) /\ Len(s \o h) = Len(s) + Len(h)
            BY ConcatProperties
        <3>6. Len((s \o h) \o q) = Len(s \o h) + Len(q)
            BY <3>5, ConcatProperties
        <3>7. Len((s \o h) \o q) = 0
            BY <2>2, <3>1, <3>2, <3>3 DEF Conservation
        <3>8. Len(s) = 0
            BY <3>4, <3>5, <3>6, <3>7
        <3> QED BY <3>1, <3>8
    <2>4. lost[w] = {}
        <3>1. 0 \notin lost[w]
            BY DEF TypeOK
        <3> QED BY <1>0, <2>3, <3>1 DEF LostInv
    <2> QED BY <2>1, <2>4 DEF LostInv
<1>5. CASE JoinWorker
    <2> DEFINE v == Head(todo).what
    <2>1. /\ thread' = [thread EXCEPT ![v] = "none"] /\ UNCHANGED <<settled, lost>>
        BY <1>5 DEF JoinWorker, channelVars
    <2>2. thread'[w] = thread[w] \/ thread'[w] = "none"
        BY <1>0, <2>1 DEF TypeOK
    <2> QED BY <1>0, <2>1, <2>2 DEF LostInv
<1>6. ASSUME NEW e \in Exporters, ExporterStep(e) PROVE LostInv(w)'
    <2>1. UNCHANGED channelVars /\ thread'[w] = thread[w]
        BY <1>0, <1>6, WorkerIsPair
           DEF ExporterStep, WakeExport, WriteRow, GiveUpExport, TypeOK
    <2> QED BY <1>0, <2>1 DEF LostInv, channelVars
<1>7. ASSUME NEW v \in QueueWorkers, v # w, QueueWorkerStep(v) PROVE LostInv(w)'
    <2>1. thread'[w] = thread[w] /\ settled'[w] = settled[w] /\ lost'[w] = lost[w]
        BY <1>0, <1>7, WorkerIsPair
           DEF QueueWorkerStep, Take, GiveUp, Decide, WorkDone, TypeOK, channelVars
    <2> QED BY <1>0, <2>1 DEF LostInv
<1>8. CASE Take(w) \/ GiveUp(w) \/ WorkDone(w)
    <2>1. /\ lost'[w] = lost[w] /\ settled'[w] = settled[w]
          /\ thread[w] \in {"wait", "work"}
        BY <1>0, <1>8 DEF Take, GiveUp, WorkDone, TypeOK, channelVars
    <2> QED BY <1>0, <2>1 DEF LostInv
<1>9. CASE Decide(w)
    <2>1. /\ thread[w] = "decide" /\ lost[w] = {}
          /\ settled'[w] = settled[w] \o hand[w]
          /\ thread'[w] = IF flag[w] THEN "exited" ELSE "work"
          /\ lost'[w] = IF flag[w] THEN lost[w] \cup {Len(settled[w]) + 1} ELSE lost[w]
        BY <1>0, <1>9 DEF Decide, TypeOK, LostInv
    <2>2. Len(settled'[w]) = Len(settled[w]) + 1
        <3>1. Len(hand[w]) = 1
            <4>1. hand[w] # <<>> /\ Len(hand[w]) <= 1
                BY <2>1 DEF Conservation
            <4>2. Len(hand[w]) \in Nat \ {0}
                BY <1>0, <4>1, EmptySeq
            <4>3. \A n \in Nat \ {0} : n <= 1 => n = 1
                OBVIOUS
            <4> QED BY <4>1, <4>2, <4>3
        <3>2. Len(settled[w] \o hand[w]) = Len(settled[w]) + Len(hand[w])
            BY <1>0, ConcatProperties
        <3> QED BY <2>1, <3>1, <3>2
    <2> QED BY <2>1, <2>2 DEF LostInv
<1> QED BY <1>2, <1>3, <1>4, <1>5, <1>6, <1>7, <1>8, <1>9
        DEF Next, Setup, Leave, QueueWorkerStep

LEMMA StepOwnerInv == IInv /\ [Next]_vars => OwnerInv'
<1> SUFFICES ASSUME TypeOK, MessageInv, Conservation, TeardownInv, OwnerInv, [Next]_vars
             PROVE  OwnerInv'
    BY DEF IInv
<1>1. DeliveryInv' /\ \A w \in QueueWorkers : QueueOwnerInv(w)'
    <2>1. CASE Load
        BY <2>1, LoadOwners
    <2>2. CASE EnqueueRecording
        <3>1. PICK trade \in Trades :
                  trade = [symbol |-> Head(message), id |-> Len(received) + 1]
            BY <2>2, ReceivedTyped
        <3>2. PICK v \in QueueWorkers : v = TaskWorker("recording", Head(message))
            BY <2>2, ReceivedTyped
        <3>3. /\ Known(Head(message)) /\ ~half /\ half' /\ Enqueue(v, trade)
              /\ received' = Append(received, trade)
            BY <2>2, <3>1, <3>2 DEF EnqueueRecording
        <3>4. /\ trade.symbol = Head(message) /\ trade.id = Len(received) + 1
              /\ TaskWorker("recording", trade.symbol) = v /\ v[1] = "recording"
              /\ Known(trade.symbol)
            BY <3>1, <3>2, <3>3 DEF TaskWorker
        <3>5. settings' = settings
            BY <3>3 DEF Enqueue, mainVars
        <3> QED BY <3>3, <3>4, <3>5, RecordingOwners
    <2>3. CASE EnqueueStatistics
        <3>1. PICK trade \in Trades : trade = received[Len(received)]
            BY <2>3, StatisticsTyped
        <3>2. PICK v \in QueueWorkers : v = TaskWorker("statistics", trade.symbol)
            BY <2>3, <3>1, StatisticsTyped
        <3>3. /\ received # <<>> /\ half /\ ~half' /\ Enqueue(v, trade) /\ received' = received
            BY <2>3, <3>1, <3>2 DEF EnqueueStatistics, MessageInv
        <3>4. v[1] = "statistics" /\ TaskWorker("statistics", trade.symbol) = v
            BY <3>2 DEF TaskWorker
        <3>5. settings' = settings
            BY <3>3 DEF Enqueue, mainVars
        <3> QED BY <3>1, <3>3, <3>4, <3>5, StatisticsOwners
    <2>4. CASE Create \/ StartWorker \/ Run \/ RunReturns \/ StopWorker \/ JoinWorker
               \/ Destroy \/ Exit \/ Throw \/ UNCHANGED vars
        BY <2>4, OwnersStay
           DEF Create, StartWorker, Run, RunReturns, StopWorker, JoinWorker, Destroy, Exit,
               Throw, FirstJob, vars, channelVars, clientVars
    <2>5. ASSUME NEW trades \in Messages, Receive(trades)
          PROVE  DeliveryInv' /\ \A w \in QueueWorkers : QueueOwnerInv(w)'
        BY <2>5, OwnersStay DEF Receive, mainVars, channelVars
    <2>6. ASSUME NEW e \in Exporters, ExporterStep(e)
          PROVE  DeliveryInv' /\ \A w \in QueueWorkers : QueueOwnerInv(w)'
        BY <2>6, OwnersStay
           DEF ExporterStep, WakeExport, WriteRow, GiveUpExport, mainVars, channelVars, clientVars
    <2>7. ASSUME NEW v \in QueueWorkers, QueueWorkerStep(v)
          PROVE  DeliveryInv' /\ \A w \in QueueWorkers : QueueOwnerInv(w)'
        BY <2>7, OwnersStay
           DEF QueueWorkerStep, Take, GiveUp, Decide, WorkDone, mainVars, channelVars, clientVars
    <2> QED BY <2>1, <2>2, <2>3, <2>4, <2>5, <2>6, <2>7 DEF Next, Setup, Leave, Callback
<1>2. \A w \in QueueWorkers : LostInv(w)'
    BY StepLost
<1>3. mainAt' \in {"load", "setup"} => received' = <<>>
    <2>1. CASE mainAt \in {"load", "setup"} /\ received' = received
        BY <2>1 DEF OwnerInv
    <2>2. CASE EnqueueRecording \/ EnqueueStatistics
        BY <2>2 DEF EnqueueRecording, EnqueueStatistics, Enqueue, mainVars
    <2>3. CASE mainAt \notin {"load", "setup"}
        <3>1. mainAt' \notin {"load", "setup"}
            BY <2>3 DEF Next, Setup, Leave, Callback, Load, Create, StartWorker, Run, FirstJob,
                        Receive, Throw, EnqueueRecording, EnqueueStatistics, Enqueue, RunReturns,
                        StopWorker, JoinWorker, Destroy, Exit, QueueWorkerStep, Take, GiveUp,
                        Decide, WorkDone, ExporterStep, WakeExport, WriteRow, GiveUpExport,
                        vars, mainVars
        <3> QED BY <3>1
    <2>4. ~(EnqueueRecording \/ EnqueueStatistics) => received' = received
        BY DEF Next, Setup, Leave, Callback, Load, Create, StartWorker, Run, FirstJob,
               Receive, Throw, RunReturns, StopWorker, JoinWorker, Destroy, Exit,
               QueueWorkerStep, Take, GiveUp, Decide, WorkDone, ExporterStep, WakeExport,
               WriteRow, GiveUpExport, vars, clientVars
    <2> QED BY <2>1, <2>2, <2>3, <2>4
<1> QED BY <1>1, <1>2, <1>3 DEF OwnerInv

LEMMA InitIInv == Init => IInv
<1> SUFFICES ASSUME Init PROVE IInv
    OBVIOUS
<1>1. TypeOK
    BY InitTypeOK
<1>2. Conservation
    <2>1. <<>> \o <<>> \o <<>> = <<>> /\ Len(<<>>) = 0
        BY EmptySeq, ConcatEmptySeq
    <2> QED BY <2>1, WorkerIsPair DEF Init, Conservation
<1>3. MessageInv
    BY EmptySeq, PipelineAssumption DEF Init, MessageInv
<1>4. TeardownInv
    <2>1. DOMAIN todo = {}
        BY DEF Init
    <2> QED BY <2>1 DEF Init, TeardownInv, Joinable
<1>5. OwnerInv
    <2>1. /\ Len(received) = 0
          /\ \A w \in QueueWorkers : Len(accepted[w]) = 0 /\ lost[w] = {}
        BY EmptySeq DEF Init
    <2>2. DeliveryInv
        BY <2>1 DEF DeliveryInv
    <2>3. \A w \in QueueWorkers : QueueOwnerInv(w) /\ LostInv(w)
        BY <2>1 DEF QueueOwnerInv, LostInv
    <2>4. received = <<>>
        BY DEF Init
    <2> QED BY <2>2, <2>3, <2>4 DEF OwnerInv
<1> QED BY <1>1, <1>2, <1>3, <1>4, <1>5, ContainersStay DEF IInv

LEMMA StepIInv == IInv /\ [Next]_vars => IInv'
<1> SUFFICES ASSUME IInv, [Next]_vars PROVE IInv'
    OBVIOUS
<1>1. TypeOK' /\ Conservation' /\ MessageInv' /\ TeardownInv' /\ OwnerInv'
    BY StepTypeOK, StepConservation, StepMessageInv, StepTeardownInv, StepOwnerInv
<1>2. ContainersOutliveThreads'
    <2>1. (TypeOK /\ TeardownInv => ContainersOutliveThreads)'
        BY ContainersStay, PTL
    <2> QED BY <1>1, <2>1
<1> QED BY <1>1, <1>2 DEF IInv

(* The inductive invariant of main() with its workers: no thread outlives the containers  *)
(* its function refers to, whatever the configuration, and every queue conserves its      *)
(* trades (main.cpp:70-148).                                                              *)
THEOREM InvariantHolds == Spec => []IInv
BY InitIInv, StepIInv, PTL DEF Spec

-----------------------------------------------------------------------------
(* One owner for each symbol *)

(* What a worker has settled are the first of the trades it has been given. *)
LEMMA SettledFirst ==
    ASSUME TypeOK, Conservation, NEW w \in QueueWorkers, NEW p \in 1..Len(settled[w])
    PROVE  p \in 1..Len(accepted[w]) /\ accepted[w][p] = settled[w][p]
<1>1. PICK s \in Seq(Trades) : s = settled[w]
    BY DEF TypeOK
<1>2. PICK h \in Seq(Trades) : h = hand[w]
    BY DEF TypeOK
<1>3. PICK q \in Seq(Trades) : q = queue[w]
    BY DEF TypeOK
<1>4. Len(s) \in Nat /\ Len(h) \in Nat /\ Len(q) \in Nat /\ p \in 1..Len(s)
    BY <1>1, LenProperties
<1>5. s \o h \in Seq(Trades) /\ Len(s \o h) = Len(s) + Len(h) /\ (s \o h)[p] = s[p]
    BY <1>4, ConcatProperties
<1>6. p \in 1..Len(s \o h)
    BY <1>4, <1>5
<1>7. Len((s \o h) \o q) = Len(s \o h) + Len(q) /\ ((s \o h) \o q)[p] = (s \o h)[p]
    BY <1>4, <1>5, <1>6, ConcatProperties
<1>8. p \in 1..Len((s \o h) \o q)
    BY <1>4, <1>5, <1>7
<1> QED BY <1>1, <1>2, <1>3, <1>5, <1>7, <1>8 DEF Conservation

LEMMA InvariantOwns ==
    ASSUME IInv, NEW k \in {"recording", "statistics"}, NEW symbol, Known(symbol)
    PROVE  OwnedInOrder(k, symbol)
<1>0. TypeOK /\ Conservation /\ OwnerInv
    BY DEF IInv
<1>1. PICK w \in QueueWorkers : w = TaskWorker(k, symbol)
    BY <1>0, KnownHasWorker
<1>2. w[1] = k /\ w \in {k} \X Indices
    BY <1>1 DEF TaskWorker, QueueWorkers
<1>3. /\ \A p \in 1..Len(accepted[w]) : Delivered(w, accepted[w][p])
      /\ \A p, q \in 1..Len(accepted[w]) : p < q => accepted[w][p].id < accepted[w][q].id
      /\ LostInv(w)
    BY <1>0 DEF OwnerInv, QueueOwnerInv
<1>4. Len(settled[w]) \in Nat /\ Len(received) \in Nat
    BY <1>0, LenProperties DEF TypeOK
<1>5. ASSUME NEW v \in ({k} \X Indices) \ {w}, NEW p \in 1..Len(accepted[v])
      PROVE  accepted[v][p].symbol # symbol
    <2>1. v \in QueueWorkers /\ v[1] = k
        BY <1>5 DEF QueueWorkers
    <2>2. TaskWorker(k, accepted[v][p].symbol) = v
        BY <1>0, <2>1 DEF OwnerInv, QueueOwnerInv, Delivered
    <2> QED BY <1>1, <2>2
<1>6. \A p \in Worked(w, symbol) :
          /\ p \in 1..Len(settled[w]) /\ p \notin lost[w] /\ settled[w][p].symbol = symbol
          /\ p \in 1..Len(accepted[w]) /\ accepted[w][p] = settled[w][p]
    BY <1>0, SettledFirst DEF Worked
<1>7. \A p, q \in Worked(w, symbol) : p < q => settled[w][p].id < settled[w][q].id
    BY <1>3, <1>6
<1>8. ASSUME NEW p \in Worked(w, symbol)
      PROVE  /\ settled[w][p].id \in 1..Len(received)
             /\ settled[w][p] = received[settled[w][p].id]
             /\ \A n \in 1..settled[w][p].id : received[n].symbol = symbol =>
                    \E q \in Worked(w, symbol) : settled[w][q] = received[n]
    <2>1. PICK t : t = settled[w][p]
        OBVIOUS
    <2>2. t.id \in 1..Len(received) /\ received[t.id] = t
        BY <1>3, <1>6, <2>1 DEF Delivered
    <2>3. ASSUME NEW n \in 1..t.id, received[n].symbol = symbol
          PROVE  \E q \in Worked(w, symbol) : settled[w][q] = received[n]
        <3>1. CASE n = t.id
            BY <2>1, <2>2, <3>1
        <3>2. CASE n # t.id
            <4>1. n < t.id /\ n < Len(received) /\ n \in 1..Len(received)
                BY <1>4, <2>2, <3>2
            <4>2. received[n].id = n /\ HasIt(w, received[n])
                BY <1>0, <1>1, <2>3, <4>1 DEF OwnerInv, DeliveryInv, Distributed
            <4>3. PICK q \in 1..Len(accepted[w]) : accepted[w][q] = received[n]
                BY <4>2 DEF HasIt
            <4>4. accepted[w][q].id = n /\ accepted[w][p].id = t.id
                BY <1>6, <2>1, <4>2, <4>3
            <4>5. ~(p < q) /\ q # p
                <5>1. p < q => t.id < n
                    BY <1>3, <1>6, <4>4
                <5> QED BY <2>2, <4>1, <4>4, <5>1
            <4>6. q < p
                BY <1>4, <1>6, <4>5
            <4>7. q \in 1..Len(settled[w]) /\ q # Len(settled[w])
                BY <1>4, <1>6, <4>6
            <4>8. q \notin lost[w]
                BY <1>3, <4>7 DEF LostInv
            <4>9. settled[w][q] = received[n]
                BY <1>0, <4>3, <4>7, SettledFirst
            <4> QED BY <2>3, <4>7, <4>8, <4>9 DEF Worked
        <3> QED BY <3>1, <3>2
    <2> QED BY <2>1, <2>2, <2>3
<1> QED BY <1>2, <1>5, <1>7, <1>8 DEF OwnedInOrder

LEMMA Remainder ==
    ASSUME NEW c \in Nat \ {0}, NEW a \in Nat, NEW r \in 0..(c - 1)
    PROVE  a * c + r \in Nat /\ (a * c + r) % c = r
OBVIOUS

LEMMA QuotientRemainder ==
    ASSUME NEW c \in Nat \ {0}, NEW n \in Nat
    PROVE  /\ n \div c \in Nat /\ n % c \in 0..(c - 1)
           /\ n = (n \div c) * c + (n % c)
OBVIOUS

LEMMA ProductOrder ==
    ASSUME NEW c \in Nat \ {0}, NEW a \in Nat, NEW b \in Nat, a * c < b * c
    PROVE  a < b
OBVIOUS

(* Every count-th symbol, from the i-th on: as many as there are of them in the list, so  *)
(* the last one is still in it.                                                           *)
LEMMA StrideFits ==
    ASSUME NEW c \in Nat \ {0}, NEW len \in Nat, NEW i \in 1..c,
           NEW j \in 1..Cardinality({n \in 1..len : (n - 1) % c = i - 1})
    PROVE  \E n \in 1..len : n = (j - 1) * c + i /\ (n - 1) % c = i - 1
<1> DEFINE S == {n \in 1..len : (n - 1) % c = i - 1}
<1>1. IsFiniteSet(S) /\ Cardinality(S) \in Nat /\ j \in Nat \ {0} /\ j <= Cardinality(S)
    <2>1. IsFiniteSet(1..len)
        BY FS_Interval
    <2>2. IsFiniteSet(S)
        BY <2>1, FS_Subset
    <2>3. Cardinality(S) \in Nat
        BY <2>2, FS_CardinalityType
    <2> QED BY <2>2, <2>3
<1>2. j - 1 \in Nat /\ i - 1 \in 0..(c - 1) /\ (j - 1) * c \in Nat
    BY <1>1
<1>3. ((j - 1) * c + (i - 1)) % c = i - 1
    BY <1>2, Remainder
<1>4. (j - 1) * c + i <= len
    <2> SUFFICES ASSUME len < (j - 1) * c + i PROVE FALSE
        BY <1>2
    <2> DEFINE g == [n \in S |-> (n - 1) \div c + 1]
    <2>1. \A n \in S : /\ (n - 1) \div c \in Nat /\ n - 1 \in Nat
                       /\ n - 1 = ((n - 1) \div c) * c + (i - 1)
        <3> SUFFICES ASSUME NEW n \in S
                     PROVE  /\ (n - 1) \div c \in Nat /\ n - 1 \in Nat
                            /\ n - 1 = ((n - 1) \div c) * c + (i - 1)
            OBVIOUS
        <3>1. n - 1 \in Nat /\ (n - 1) % c = i - 1
            OBVIOUS
        <3> QED BY <3>1, QuotientRemainder
    <2>2. ASSUME NEW n \in S PROVE g[n] \in 1..(j - 1)
        <3>1. PICK a \in Nat : a = (n - 1) \div c
            BY <2>1
        <3>2. n - 1 = a * c + (i - 1) /\ n <= len /\ a * c \in Nat
            BY <2>1, <3>1
        <3>3. a * c < (j - 1) * c
            BY <1>2, <3>2
        <3>4. a < j - 1
            BY <1>2, <3>3, ProductOrder
        <3> QED BY <1>1, <3>1, <3>4
    <2>3. ASSUME NEW m \in S, NEW n \in S, g[m] = g[n] PROVE m = n
        <3>1. (m - 1) \div c = (n - 1) \div c
            BY <2>1, <2>3
        <3>2. m - 1 = n - 1
            BY <2>1, <3>1
        <3> QED BY <3>2
    <2>4. g \in Injection(S, 1..(j - 1))
        BY <2>2, <2>3 DEF Injection, IsInjective
    <2>5. IsFiniteSet(1..(j - 1)) /\ Cardinality(1..(j - 1)) = j - 1
        <3>1. PICK k \in Nat : k = j - 1
            BY <1>2
        <3>2. IsFiniteSet(1..k) /\ Cardinality(1..k) = k
            BY FS_Interval
        <3> QED BY <3>1, <3>2
    <2>6. Cardinality(S) <= j - 1
        <3> HIDE DEF S, g
        <3> QED BY <2>4, <2>5, FS_Injection
    <2> QED BY <1>1, <2>6
<1>5. PICK n \in 1..len : n = (j - 1) * c + i
    BY <1>2, <1>4
<1>6. n - 1 = (j - 1) * c + (i - 1)
    BY <1>2, <1>5
<1>7. (n - 1) % c = i - 1
    BY <1>3, <1>6
<1> QED BY <1>5, <1>7

(* A worker exports symbols of the list, at the places that are its own. *)
LEMMA ExportsOwn ==
    ASSUME TypeOK, TeardownInv, NEW e \in Exporters, NEW symbol, Exports(e, symbol)
    PROVE  \E n \in 1..Len(settings.symbols) :
               /\ settings.symbols[n] = symbol
               /\ (n - 1) % settings.count["exporting"] = e[2] - 1
<1> DEFINE c == settings.count["exporting"]
           len == Len(settings.symbols)
           S == {n \in 1..len : (n - 1) % c = e[2] - 1}
<1>1. e \in Workers /\ e[1] = "exporting" /\ Wanted(e)
    BY WorkerIsPair DEF Exports, Exporters, TeardownInv, Joinable
<1>2. e[2] \in 1..c /\ c \in 0..MaxWorkers
    BY <1>1 DEF Wanted, TypeOK, Counts
<1>3. c \in Nat \ {0} /\ len \in Nat
    BY <1>2, LenProperties, PipelineAssumption DEF TypeOK
<1>4. Assigned(e) = [j \in 1..Cardinality(S) |-> settings.symbols[(j - 1) * c + e[2]]]
    BY DEF Assigned, assign_symbols
<1>5. PICK j \in 1..Cardinality(S) : settings.symbols[(j - 1) * c + e[2]] = symbol
    BY <1>4 DEF Exports
<1>6. \E n \in 1..len : n = (j - 1) * c + e[2] /\ (n - 1) % c = e[2] - 1
    BY <1>2, <1>3, StrideFits
<1> QED BY <1>5, <1>6

LEMMA InvariantOneOwner == IInv => OneOwnerPerSymbol
<1> SUFFICES ASSUME IInv, NEW symbol \in SymbolsOf(settings)
             PROVE  /\ \A k \in {"recording", "statistics"} : OwnedInOrder(k, symbol)
                    /\ \A e, f \in Exporters :
                          e # f /\ Exports(e, symbol) /\ Exports(f, symbol) =>
                              ~IsInjective(settings.symbols)
    BY DEF OneOwnerPerSymbol
<1>1. Known(symbol)
    BY DEF SymbolsOf, Known
<1>2. ASSUME NEW e \in Exporters, NEW f \in Exporters, e # f,
             Exports(e, symbol), Exports(f, symbol)
      PROVE  ~IsInjective(settings.symbols)
    <2>1. PICK m \in 1..Len(settings.symbols) :
              /\ settings.symbols[m] = symbol
              /\ (m - 1) % settings.count["exporting"] = e[2] - 1
        BY <1>2, ExportsOwn DEF IInv
    <2>2. PICK n \in 1..Len(settings.symbols) :
              /\ settings.symbols[n] = symbol
              /\ (n - 1) % settings.count["exporting"] = f[2] - 1
        BY <1>2, ExportsOwn DEF IInv
    <2>3. e[2] - 1 # f[2] - 1
        <3>1. e[2] \in Nat /\ f[2] \in Nat /\ e[2] # f[2]
            BY <1>2, PipelineAssumption DEF Exporters, Indices
        <3> QED BY <3>1
    <2>4. m # n
        BY <2>1, <2>2, <2>3
    <2>5. DOMAIN settings.symbols = 1..Len(settings.symbols)
        BY LenProperties DEF IInv, TypeOK
    <2> QED BY <2>1, <2>2, <2>4, <2>5 DEF IsInjective
<1> QED BY <1>1, <1>2, InvariantOwns

(* A symbol has one owner of each kind, for every configuration: its trades are worked on *)
(* by one recording and one statistics worker, in the order in which they were received,  *)
(* with none missing, and unless the list names it twice one worker exports it            *)
(* (worker_setup.hpp:47-81, main.cpp:94-121).                                             *)
THEOREM SymbolsHaveOneOwner == Spec => []OneOwnerPerSymbol
BY InvariantHolds, InvariantOneOwner, PTL

-----------------------------------------------------------------------------
(* Refinement *)

Phase(w) == IF thread[w] \in {"none", "exited"} THEN "off"
            ELSE IF flag[w] THEN "closing" ELSE "on"

(* What the channel of a worker depends on. *)
LEMMA ChannelStays ==
    ASSUME NEW w \in QueueWorkers, hand'[w] \o queue'[w] = hand[w] \o queue[w],
           settled'[w] = settled[w], lost'[w] = lost[w], Phase(w)' = Phase(w)
    PROVE  UNCHANGED Channel(w)!vars
BY DEF Channel!vars, Phase

LEMMA InitChannels == Init => \A w \in QueueWorkers : Channel(w)!Init
<1> SUFFICES ASSUME Init, NEW w \in QueueWorkers PROVE Channel(w)!Init
    OBVIOUS
<1>1. <<>> \o <<>> = <<>>
    BY EmptySeq, ConcatEmptySeq
<1> QED BY <1>1, WorkerIsPair DEF Init, Channel!Init

LEMMA EnqueueAccepts ==
    ASSUME TypeOK, NEW v \in QueueWorkers, NEW trade \in Trades, Enqueue(v, trade),
           NEW w \in QueueWorkers
    PROVE  Channel(w)!Next \/ UNCHANGED Channel(w)!vars
<1>1. /\ queue' = [queue EXCEPT ![v] = Append(@, trade)]
      /\ UNCHANGED <<flag, thread, hand, settled, lost>>
    BY DEF Enqueue
<1>2. Phase(w)' = Phase(w)
    BY <1>1 DEF Phase
<1>3. CASE w # v
    <2>1. queue'[w] = queue[w]
        BY <1>1, <1>3 DEF TypeOK
    <2> QED BY <1>1, <1>2, <2>1, ChannelStays
<1>4. CASE w = v
    <2>1. queue'[w] = Append(queue[w], trade)
        BY <1>1, <1>4 DEF TypeOK
    <2>2. hand[w] \o Append(queue[w], trade) = Append(hand[w] \o queue[w], trade)
        <3>1. hand[w] \in Seq(Trades) /\ queue[w] \in Seq(Trades) /\ <<>> \in Seq(Trades)
            BY EmptySeq DEF TypeOK
        <3>2. <<>> \o hand[w] = hand[w]
            BY <3>1, ConcatEmptySeq
        <3>3. Append(<<>> \o hand[w] \o queue[w], trade) = <<>> \o hand[w] \o Append(queue[w], trade)
            BY <3>1, AppendBehind
        <3> QED BY <3>2, <3>3
    <2>3. Channel(w)!Accept(trade)
        BY <1>1, <1>2, <2>1, <2>2 DEF Channel!Accept, Phase
    <2> QED BY <2>3 DEF Channel!Next
<1> QED BY <1>3, <1>4

LEMMA StepChannels ==
    IInv /\ [Next]_vars => \A w \in QueueWorkers : Channel(w)!Next \/ UNCHANGED Channel(w)!vars
<1> SUFFICES ASSUME IInv, [Next]_vars, NEW w \in QueueWorkers
             PROVE  Channel(w)!Next \/ UNCHANGED Channel(w)!vars
    OBVIOUS
<1>0. /\ TypeOK /\ MessageInv /\ TeardownInv
      /\ w \in Workers
      /\ hand[w] \in Seq(Trades) /\ queue[w] \in Seq(Trades) /\ settled[w] \in Seq(Trades)
      /\ hand[w] # <<>> <=> thread[w] = "decide"
      /\ Len(hand[w]) <= 1
    BY WorkerIsPair DEF IInv, TypeOK, Conservation
<1>1. ASSUME UNCHANGED <<channelVars, flag, thread>>
      PROVE  UNCHANGED Channel(w)!vars
    BY <1>1, ChannelStays DEF channelVars, Phase
<1>2. CASE Load \/ Create \/ Run \/ RunReturns \/ Destroy \/ Exit \/ Throw \/ UNCHANGED vars
    BY <1>1, <1>2 DEF Load, Create, Run, RunReturns, Destroy, Exit, Throw, vars, channelVars
<1>3. ASSUME NEW trades \in Messages, Receive(trades)
      PROVE  Channel(w)!Next \/ UNCHANGED Channel(w)!vars
    BY <1>1, <1>3 DEF Receive
<1>4. CASE EnqueueRecording
    BY <1>0, <1>4, ReceivedTyped, EnqueueAccepts DEF EnqueueRecording
<1>5. CASE EnqueueStatistics
    BY <1>0, <1>5, StatisticsTyped, EnqueueAccepts DEF EnqueueStatistics
<1>6. CASE StartWorker
    <2> DEFINE v == Head(todo).what
    <2>1. /\ v \in Workers /\ thread[v] = "none"
          /\ thread' = [thread EXCEPT ![v] = "wait"] /\ flag' = [flag EXCEPT ![v] = FALSE]
          /\ UNCHANGED <<hand, queue, settled, lost>>
        BY <1>0, <1>6, StartAndJoin, JobActions DEF StartWorker, channelVars
    <2> HIDE DEF v
    <2>2. CASE v = w
        <3>1. Phase(w) = "off" /\ Phase(w)' = "on"
            BY <1>0, <2>1, <2>2 DEF Phase, TypeOK
        <3>2. Channel(w)!Open
            BY <2>1, <3>1 DEF Channel!Open, Phase
        <3> QED BY <3>2 DEF Channel!Next
    <2>3. CASE v # w
        <3>1. thread'[w] = thread[w] /\ flag'[w] = flag[w]
            BY <1>0, <2>1, <2>3 DEF TypeOK
        <3> QED BY <2>1, <3>1, ChannelStays DEF Phase
    <2> QED BY <2>2, <2>3
<1>7. CASE StopWorker
    <2> DEFINE v == Head(todo).what
    <2>1. /\ v \in Workers /\ flag' = [flag EXCEPT ![v] = TRUE]
          /\ UNCHANGED <<thread, hand, queue, settled, lost>>
        BY <1>0, <1>7, StartAndJoin, JobActions DEF StopWorker, channelVars
    <2> HIDE DEF v
    <2>2. CASE v = w /\ Phase(w) = "on"
        <3>1. Phase(w)' = "closing"
            BY <1>0, <2>1, <2>2 DEF Phase, TypeOK
        <3>2. Channel(w)!Close
            BY <2>1, <2>2, <3>1 DEF Channel!Close, Phase
        <3> QED BY <3>2 DEF Channel!Next
    <2>3. CASE ~(v = w /\ Phase(w) = "on")
        <3>1. Phase(w)' = Phase(w)
            BY <1>0, <2>1, <2>3 DEF Phase, TypeOK
        <3> QED BY <2>1, <3>1, ChannelStays
    <2> QED BY <2>2, <2>3
<1>8. CASE JoinWorker
    <2> DEFINE v == Head(todo).what
    <2>1. /\ v \in Workers /\ thread[v] = "exited" /\ thread' = [thread EXCEPT ![v] = "none"]
          /\ UNCHANGED <<flag, hand, queue, settled, lost>>
        BY <1>0, <1>8, StartAndJoin, JobActions DEF JoinWorker, channelVars
    <2> HIDE DEF v
    <2>2. Phase(w)' = Phase(w)
        BY <1>0, <2>1 DEF Phase, TypeOK
    <2> QED BY <2>1, <2>2, ChannelStays
<1>9. ASSUME NEW e \in Exporters, ExporterStep(e)
      PROVE  Channel(w)!Next \/ UNCHANGED Channel(w)!vars
    <2>1. UNCHANGED <<flag, channelVars>> /\ thread'[w] = thread[w]
        BY <1>0, <1>9, WorkerIsPair
           DEF ExporterStep, WakeExport, WriteRow, GiveUpExport, TypeOK
    <2> QED BY <2>1, ChannelStays DEF channelVars, Phase
<1>10. ASSUME NEW v \in QueueWorkers, v # w, QueueWorkerStep(v)
       PROVE  Channel(w)!Next \/ UNCHANGED Channel(w)!vars
    <2>1. /\ UNCHANGED flag /\ thread'[w] = thread[w] /\ hand'[w] = hand[w]
          /\ queue'[w] = queue[w] /\ settled'[w] = settled[w] /\ lost'[w] = lost[w]
        BY <1>0, <1>10, WorkerIsPair
           DEF QueueWorkerStep, Take, GiveUp, Decide, WorkDone, TypeOK, channelVars
    <2> QED BY <2>1, ChannelStays DEF Phase
<1>11. CASE Take(w)
    <2>1. /\ queue[w] # <<>> /\ hand[w] = <<>> /\ ~flag[w] /\ thread[w] = "wait"
          /\ hand'[w] = <<Head(queue[w])>> /\ queue'[w] = Tail(queue[w])
          /\ thread'[w] = "decide" /\ UNCHANGED <<flag, settled, lost>>
        BY <1>0, <1>11 DEF Take, TypeOK
    <2>2. hand'[w] \o queue'[w] = hand[w] \o queue[w]
        <3>1. <<>> \o queue[w] = queue[w]
            BY <1>0, ConcatEmptySeq
        <3>2. queue[w] = <<Head(queue[w])>> \o Tail(queue[w])
            BY <1>0, <2>1, PopMovesHead
        <3> QED BY <2>1, <3>1, <3>2
    <2> QED BY <2>1, <2>2, ChannelStays DEF Phase
<1>12. CASE WorkDone(w)
    <2>1. /\ UNCHANGED <<flag, hand, queue, settled, lost>>
          /\ thread[w] = "work" /\ thread'[w] = "wait"
        BY <1>0, <1>12 DEF WorkDone, TypeOK, channelVars
    <2> QED BY <2>1, ChannelStays DEF Phase
<1>13. CASE GiveUp(w)
    <2>1. /\ UNCHANGED <<flag, hand, queue, settled, lost>>
          /\ thread[w] = "wait" /\ thread'[w] = "exited" /\ flag[w]
        BY <1>0, <1>13 DEF GiveUp, TypeOK, channelVars
    <2>2. Channel(w)!Finish
        BY <2>1 DEF Channel!Finish
    <2> QED BY <2>2 DEF Channel!Next
<1>14. CASE Decide(w)
    <2>1. /\ hand[w] # <<>> /\ thread[w] = "decide" /\ UNCHANGED <<flag, queue>>
          /\ hand'[w] = <<>> /\ settled'[w] = settled[w] \o hand[w]
          /\ thread'[w] = IF flag[w] THEN "exited" ELSE "work"
          /\ lost'[w] = IF flag[w] THEN lost[w] \cup {Len(settled[w]) + 1} ELSE lost[w]
        BY <1>0, <1>14 DEF Decide, TypeOK
    <2>2. /\ hand[w] \o queue[w] # <<>> /\ Tail(hand[w] \o queue[w]) = queue[w]
          /\ settled[w] \o hand[w] = Append(settled[w], Head(hand[w] \o queue[w]))
        BY <1>0, <2>1, HandIsHead
    <2>3. <<>> \o queue[w] = queue[w]
        BY <1>0, ConcatEmptySeq
    <2>4. Channel(w)!SettleHead
        BY <2>1, <2>2, <2>3 DEF Channel!SettleHead
    <2>5. CASE flag[w]
        BY <2>1, <2>4, <2>5 DEF Channel!Next, Channel!Finish
    <2>6. CASE ~flag[w]
        BY <2>1, <2>4, <2>6 DEF Channel!Next, Channel!Work
    <2> QED BY <2>5, <2>6
<1> QED BY <1>2, <1>3, <1>4, <1>5, <1>6, <1>7, <1>8, <1>9, <1>10, <1>11, <1>12, <1>13, <1>14
        DEF Next, Setup, Leave, Callback, QueueWorkerStep

(* Each queue with its worker implements TaskChannel, from its start to the join in       *)
(* main()'s teardown: whatever the configuration and the interleaving of client, workers  *)
(* and teardown, only the step that ends a worker discards a trade, the one in its hand.  *)
THEOREM ChannelsImplemented == Spec => ImplementsChannels
<1>1. IInv /\ [Next]_vars =>
          [\A w \in QueueWorkers : Channel(w)!Next \/ UNCHANGED Channel(w)!vars]_vars
    BY StepChannels
<1>2. Spec => []IInv
    BY InvariantHolds
<1> QED BY <1>1, <1>2, InitChannels, PTL DEF Spec, ImplementsChannels
=============================================================================
