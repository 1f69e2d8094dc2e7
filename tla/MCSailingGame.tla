---- MODULE MCSailingGame ----
(* A lake of four rows whose island, with half a place of land at either   *)
(* end, lies between the start and the finish of the first player.         *)
EXTENDS SailingGame

MCIsland == {<<2, 1>>, <<2, 2>>}
MCFleets == {<<1, 2>>}
====
