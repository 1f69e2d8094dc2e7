---- MODULE TradeStatistics ----
(***************************************************************************)
(* The statistics of one symbol (tasks.cpp): a statistics worker runs      *)
(* updateStatistics for one trade after the other, an exporting worker     *)
(* runs exportStatistics at most once a minute, and the minute turns       *)
(* between any two of their steps.  Only the two containers are locked,    *)
(* one call at a time.                                                     *)
(*                                                                         *)
(* Trades arrive with the exchange's timestamps: out of order, late, or    *)
(* up to Ahead minutes early when the clocks differ.                       *)
(***************************************************************************)
EXTENDS Candlesticks, MovingAverage, Sequences

CONSTANTS Samples,                   \* second, price and volume of a trade
          Ahead,                     \* minutes the exchange's clock may be ahead
          FirstMinute, LastMinute,   \* bound: the minutes of a run
          MaxTrades                  \* bound: trades the moving average accepts

ASSUME StatisticsAssumption ==
    /\ Samples \subseteq [second : Nat, price : Nat, volume : Nat]
    /\ Ahead \in Nat /\ FirstMinute \in Nat /\ LastMinute \in Nat /\ MaxTrades \in Nat

VARIABLES minute,        \* the system clock's minute
          updating,      \* updateStatistics is between its two calls
          trade,         \* the trade updateStatistics was called with
          exporter,      \* where exportStatistics is
          wakeMinute,    \* the minute exportStatistics began in
          line,          \* what it wrote last
          candleLog,     \* history: trades accepted by the candlesticks
          averageLog     \* history: trades accepted by the moving average

threads == <<updating, trade, exporter, wakeMinute, line>>
history == <<candleLog, averageLog>>
vars == <<candles, averageVars, minute, threads, history>>

Trades == [minute : Nat, second : Nat, price : Nat, volume : Nat]
NoTrade == [minute |-> 0, second |-> 0, price |-> 0, volume |-> 0]
NoLine == [candle |-> Zeros, sum |-> 0, count |-> 0]

Init ==
    /\ CandlesInit /\ AverageInit
    /\ minute = FirstMinute
    /\ updating = FALSE /\ trade = NoTrade
    /\ exporter = "idle" /\ wakeMinute = FirstMinute
    /\ line = NoLine
    /\ candleLog = <<>> /\ averageLog = <<>>

MinuteTurn ==
    /\ minute < LastMinute
    /\ minute' = minute + 1
    /\ UNCHANGED <<candles, averageVars, threads, history>>

----------------------------------------------------------------------------
(* updateStatistics *)

UpdateCandle(t) ==
    /\ ~updating
    /\ updating' = TRUE
    /\ trade' = t
    /\ IF CandleAccepts(t, minute)
       THEN AddCandle(t, minute) /\ candleLog' = Append(candleLog, t)
       ELSE UNCHANGED <<candles, candleLog>>
    /\ UNCHANGED <<averageVars, minute, exporter, wakeMinute, line, averageLog>>

UpdateAverage ==
    /\ updating
    /\ updating' = FALSE
    /\ trade' = NoTrade
    /\ IF AverageAccepts(trade, minute)
       THEN AddAverage(trade, minute) /\ averageLog' = Append(averageLog, trade)
       ELSE UNCHANGED <<averageVars, averageLog>>
    /\ UNCHANGED <<candles, minute, exporter, wakeMinute, line, candleLog>>

(* A trade with a timestamp the exchange's clock can show. *)
TradeArrives ==
    \E m \in (minute - MinutesStored) .. (minute + Ahead), s \in Samples :
        /\ m \in Nat
        /\ Len(averageLog) < MaxTrades
        /\ UpdateCandle([minute |-> m, second |-> s.second,
                         price |-> s.price, volume |-> s.volume])

----------------------------------------------------------------------------
(* exportStatistics, of a timer that fires at most once a minute *)

Wake ==
    /\ exporter = "idle" /\ wakeMinute < minute
    /\ exporter' = "candle"
    /\ wakeMinute' = minute
    /\ UNCHANGED <<candles, averageVars, minute, updating, trade, line, history>>

(* Faulty variant: the row has the candlestick of the minute it is in. *)
ExportCandleCurrent ==
    /\ exporter = "candle"
    /\ exporter' = "average"
    /\ line' = [NoLine EXCEPT !.candle = GetCandle(wakeMinute)]
    /\ UNCHANGED <<candles, averageVars, minute, updating, trade, wakeMinute, history>>

ExportCandle ==
    /\ exporter = "candle"
    /\ exporter' = "average"
    /\ line' = [NoLine EXCEPT !.candle = GetCandle(wakeMinute - 1)]
    /\ UNCHANGED <<candles, averageVars, minute, updating, trade, wakeMinute, history>>

ExportAverage ==
    /\ exporter = "average"
    /\ exporter' = "idle"
    /\ GetStatic(minute)
    /\ line' = [candle |-> line.candle,
                sum |-> EffectiveSum(minute), count |-> EffectiveCount(minute)]
    /\ UNCHANGED <<candles, minute, updating, trade, wakeMinute, candleLog, averageLog>>

----------------------------------------------------------------------------
Next ==
    \/ MinuteTurn
    \/ TradeArrives \/ UpdateAverage
    \/ Wake \/ ExportCandle \/ ExportAverage

Spec == Init /\ [][Next]_vars

----------------------------------------------------------------------------
(* Reference definitions: what the trades of a minute amount to *)

LoggedMinutes(log) == {log[i].minute : i \in DOMAIN log}
LoggedIn(log, minutes) == {i \in DOMAIN log : log[i].minute \in minutes}

Values(log) == [i \in DOMAIN log |-> log[i].price * log[i].volume]
Volumes(log) == [i \in DOMAIN log |-> log[i].volume]
SumOver(log, minutes) == SumFunctionOnSet(Values(log), LoggedIn(log, minutes))
CountOver(log, minutes) == SumFunctionOnSet(Volumes(log), LoggedIn(log, minutes))

(* The earliest trade opens and the latest closes; of those of the same    *)
(* second, the first received opens and the last received closes.          *)
Opens(log, I) == CHOOSE i \in I : \A j \in I :
    log[i].second < log[j].second \/ (log[i].second = log[j].second /\ i <= j)
Closes(log, I) == CHOOSE i \in I : \A j \in I :
    log[j].second < log[i].second \/ (log[i].second = log[j].second /\ j <= i)

CandleOf(log, m) ==
    LET I == LoggedIn(log, {m})
    IN  [openAt |-> log[Opens(log, I)].second, closeAt |-> log[Closes(log, I)].second,
         open |-> log[Opens(log, I)].price, close |-> log[Closes(log, I)].price,
         min |-> Min({log[i].price : i \in I}), max |-> Max({log[i].price : i \in I}),
         volume |-> CountOver(log, {m})]

WindowMinutes == (minute - Window) .. (minute - 1)

----------------------------------------------------------------------------
(* Properties *)

TypeOK ==
    /\ minute \in Nat /\ minute >= FirstMinute
    /\ updating \in BOOLEAN /\ trade \in Trades
    /\ exporter \in {"idle", "candle", "average"}
    /\ candleLog \in Seq(Trades) /\ averageLog \in Seq(Trades)

(* No minute comes from beyond what the exchange's clock can show. *)
MinutesInv ==
    /\ DOMAIN candles \subseteq 0 .. (minute + Ahead)
    /\ DOMAIN averages \subseteq 0 .. (minute + Ahead)
    /\ trade.minute <= minute + Ahead

(* The candlesticks neither hold a trade twice nor lose one while its      *)
(* minute is stored: each is what the trades of its minute amount to, and  *)
(* those of the last CandleMinutes minutes are all there.                  *)
CandlesFaithful ==
    /\ DOMAIN candles \subseteq LoggedMinutes(candleLog)
    /\ \A m \in DOMAIN candles : candles[m] = CandleOf(candleLog, m)
    /\ \A m \in LoggedMinutes(candleLog) : m >= OldestCandle(minute) => m \in DOMAIN candles

(* Every container of the moving average holds the trades of its minute,   *)
(* the totals are those of the minutes it stores, and no minute of the     *)
(* window is missing, however the pruning went.                            *)
AverageFaithful ==
    /\ \A m \in DOMAIN averages :
           averages[m] = [sum |-> SumOver(averageLog, {m}), count |-> CountOver(averageLog, {m})]
    /\ sum = SumOver(averageLog, DOMAIN averages)
    /\ count = CountOver(averageLog, DOMAIN averages)
    /\ \A m \in LoggedMinutes(averageLog) : m >= OldestAverage(minute) => m \in DOMAIN averages

(* Neither container grows beyond the minutes it may hold, whatever        *)
(* timestamps arrive and however long nothing is called.                   *)
SizeBound ==
    /\ Cardinality(DOMAIN candles) <= CandleMinutes + Ahead
    /\ Cardinality(DOMAIN averages) <= MinutesStored + Ahead

IInv == TypeOK /\ MinutesInv /\ SizeBound

(* Minutes the system clock has not come to, when the exchange's is ahead. *)
EarlyMinutes == {m \in DOMAIN averages : m > minute}

(* An exported average counts every accepted trade of its window once, and *)
(* no trade of the current minute.  Beyond that it counts older trades     *)
(* only when some minute from the beginning of the window to the current   *)
(* one had no container at all, and the trades dated after the current     *)
(* minute: getStatic() leaves those in, although its comment promises the  *)
(* average of completed minutes (finnhub_data.hpp:189).                    *)
ExportCountsWindow ==
    [][ExportAverage =>
        \E old \in SUBSET {m \in DOMAIN averages : m < minute - Window} :
            /\ old # {} => \E m \in (minute - Window) .. minute : m \notin DOMAIN averages'
            /\ line'.sum = SumOver(averageLog, WindowMinutes \cup old \cup EarlyMinutes)
            /\ line'.count = CountOver(averageLog, WindowMinutes \cup old \cup EarlyMinutes)]_vars

(* What the trade between the two calls of updateStatistics adds to a      *)
(* minute.                                                                 *)
InHand(m) == IF updating /\ trade.minute = m THEN trade.volume ELSE 0

(* A row whose two halves are read in one minute: what the candlestick     *)
(* counts of the last minute the average counts too, but for the one trade *)
(* the updater is working on; none is ever left behind by the interleaving *)
(* of the two calls that add it with the two that export it.               *)
RowLacksOneTrade ==
    [][ExportAverage /\ wakeMinute = minute =>
        line.candle.volume <= CountOver(averageLog, {minute - 1}) + InHand(minute - 1)]_vars
====
