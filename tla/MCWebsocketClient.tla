---- MODULE MCWebsocketClient ----
(* A client with two symbols and up to three reconnections; the delay of   *)
(* the third overflows.                                                    *)
EXTENDS WebsocketClient
====
