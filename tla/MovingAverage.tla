---- MODULE MovingAverage ----
(***************************************************************************)
(* The MovingAverage of RealTime_Embedded_Systems (finnhub_data.cpp): the  *)
(* weighted sum and the volume of the trades of the last minutes of one    *)
(* symbol, kept as totals and per minute.  Every method holds m_mutex from *)
(* beginning to end, so each is one step.                                  *)
(***************************************************************************)
EXTENDS Integers, FiniteSetsExt, Functions

CONSTANT Window             \* time_window_minutes

ASSUME WindowAssumption == Window \in Nat \ {0}

VARIABLES averages,         \* m_per_min_averages: a function of its minutes
          sum,              \* m_sum
          count             \* m_count

averageVars == <<averages, sum, count>>

AverageInit ==
    /\ averages = [m \in {} |-> 0]
    /\ sum = 0
    /\ count = 0

MinutesStored == Window + 1          \* m_minutes_to_store
(* Faulty variant: the window is a minute short. *)
OldestAverageShort(now) == now - (MinutesStored - 2)

OldestAverage(now) == now - (MinutesStored - 1)
NoTrades == [sum |-> 0, count |-> 0]

(* The containers with one for minute m; operator[] adds it if need be. *)
WithMinute(m) ==
    [k \in DOMAIN averages \cup {m} |->
        IF k \in DOMAIN averages THEN averages[k] ELSE NoTrades]

(* Faulty variant: the pruned minutes stay in the totals. *)
StoreKeepsTotals(grown, newSum, newCount, now) ==
    /\ averages' = IF Cardinality(DOMAIN grown) > MinutesStored
                   THEN Restrict(grown, {m \in DOMAIN grown : m >= OldestAverage(now)})
                   ELSE grown
    /\ sum' = newSum
    /\ count' = newCount

(* Faulty variant: nothing is pruned. *)
StoreAll(grown, newSum, newCount, now) ==
    /\ averages' = grown
    /\ sum' = newSum
    /\ count' = newCount

(* prune() when more containers are stored than there should be: all that  *)
(* are too old go, and leave the totals.                                   *)
Store(grown, newSum, newCount, now) ==
    LET stale == IF Cardinality(DOMAIN grown) > MinutesStored
                 THEN {m \in DOMAIN grown : m < OldestAverage(now)}
                 ELSE {}
    IN  /\ averages' = Restrict(grown, DOMAIN grown \ stale)
        /\ sum' = newSum - SumFunctionOnSet([m \in DOMAIN grown |-> grown[m].sum], stale)
        /\ count' = newCount - SumFunctionOnSet([m \in DOMAIN grown |-> grown[m].count], stale)

(* MovingAverage::addTrade for a trade that is not too old; the per-minute *)
(* container counts the same product as the totals do.                     *)
AverageAccepts(trade, now) == trade.minute >= OldestAverage(now)

AddAverage(trade, now) ==
    Store([WithMinute(trade.minute) EXCEPT
               ![trade.minute] = [sum |-> @.sum + trade.price * trade.volume,
                                  count |-> @.count + trade.volume]],
          sum + trade.price * trade.volume, count + trade.volume, now)

(* getStatic(): a container for the current minute is made if there is     *)
(* none, and what it holds is left out of the result.                      *)
GetStatic(now) == Store(WithMinute(now), sum, count, now)
EffectiveSum(now) == sum' - averages'[now].sum
EffectiveCount(now) == count' - averages'[now].count
====
