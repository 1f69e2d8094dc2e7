---- MODULE MCTradeStatistics ----
(* Three trades over three minutes, some late and some early, of which two *)
(* of the same second differ in price.                                     *)
EXTENDS TradeStatistics

Opening == [second |-> 0, price |-> 2, volume |-> 1]
Closing == [second |-> 1, price |-> 1, volume |-> 2]
MCSamples == {Opening, Closing}
====
