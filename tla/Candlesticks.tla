---- MODULE Candlesticks ----
(***************************************************************************)
(* A CandlestickManager of RealTime_Embedded_Systems (finnhub_data.cpp):   *)
(* the candlesticks of the last minutes of one symbol.  Every method holds *)
(* m_mutex from beginning to end, so each is one step.  A trade is a       *)
(* record [minute, second, price, volume]: minute_floor_ms and the rest of *)
(* its timestamp; prices are positive.                                     *)
(***************************************************************************)
EXTENDS Integers, FiniteSets, Functions

CONSTANT CandleMinutes      \* m_minutes_to_store

ASSUME CandleMinutesAssumption == CandleMinutes \in Nat \ {0}

VARIABLE candles            \* m_candlesticks: a function of its minutes

CandlesInit == candles = [m \in {} |-> 0]

(* Candlestick::addTrade on a candlestick no trade was added to. *)
FirstOf(trade) ==
    [openAt |-> trade.second, closeAt |-> trade.second,
     open |-> trade.price, close |-> trade.price,
     min |-> trade.price, max |-> trade.price, volume |-> trade.volume]

(* Faulty variant: the latest trade received closes the candlestick. *)
ExtendByArrival(c, trade) ==
    [FirstOf(trade) EXCEPT
        !.openAt = IF trade.second < c.openAt THEN @ ELSE c.openAt,
        !.open = IF trade.second < c.openAt THEN @ ELSE c.open,
        !.min = IF @ < c.min THEN @ ELSE c.min,
        !.max = IF @ > c.max THEN @ ELSE c.max,
        !.volume = c.volume + @]

(* Candlestick::addTrade: trades may come in any order of their seconds. *)
Extend(c, trade) ==
    [openAt |-> IF trade.second < c.openAt THEN trade.second ELSE c.openAt,
     closeAt |-> IF trade.second >= c.closeAt THEN trade.second ELSE c.closeAt,
     open |-> IF trade.second < c.openAt THEN trade.price ELSE c.open,
     close |-> IF trade.second >= c.closeAt THEN trade.price ELSE c.close,
     min |-> IF trade.price < c.min THEN trade.price ELSE c.min,
     max |-> IF trade.price > c.max THEN trade.price ELSE c.max,
     volume |-> c.volume + trade.volume]

OldestCandle(now) == now - (CandleMinutes - 1)

(* Faulty variant: whichever candlestick is found first makes room. *)
EvictAny(grown, now) ==
    IF Cardinality(DOMAIN grown) > CandleMinutes
    THEN \E m \in DOMAIN grown : candles' = Restrict(grown, DOMAIN grown \ {m})
    ELSE candles' = grown

(* Faulty variant: only a candlestick of the very minute that went out of  *)
(* the window is erased.                                                   *)
EvictNext(grown, now) ==
    LET stale == {m \in DOMAIN grown : m = OldestCandle(now) - 1}
    IN  IF Cardinality(DOMAIN grown) > CandleMinutes /\ stale # {}
        THEN \E m \in stale : candles' = Restrict(grown, DOMAIN grown \ {m})
        ELSE candles' = grown

(* When one too many are stored, one that is too old is erased, if there   *)
(* is one: whichever the unordered_map comes to first.                     *)
Evict(grown, now) ==
    LET stale == {m \in DOMAIN grown : m < OldestCandle(now)}
    IN  IF Cardinality(DOMAIN grown) > CandleMinutes /\ stale # {}
        THEN \E m \in stale : candles' = Restrict(grown, DOMAIN grown \ {m})
        ELSE candles' = grown

(* CandlestickManager::addTrade for a trade that is not too old. *)
CandleAccepts(trade, now) == trade.minute >= OldestCandle(now)

AddCandle(trade, now) ==
    Evict([m \in DOMAIN candles \cup {trade.minute} |->
              IF m # trade.minute THEN candles[m]
              ELSE IF m \in DOMAIN candles THEN Extend(candles[m], trade)
              ELSE FirstOf(trade)], now)

(* getCandlestick: zeros when there is none. *)
Zeros == [openAt |-> 0, closeAt |-> 0, open |-> 0, close |-> 0,
          min |-> 0, max |-> 0, volume |-> 0]
GetCandle(m) == IF m \in DOMAIN candles THEN candles[m] ELSE Zeros
====
