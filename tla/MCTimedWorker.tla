---- MODULE MCTimedWorker ----
(* TimedWorker with a period of several minutes, so that a worker can be   *)
(* woken in every minute of a period.                                      *)
EXTENDS TimedWorker
====
