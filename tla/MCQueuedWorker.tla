---- MODULE MCQueuedWorker ----
(* A small QueuedWorker for TLC: two producers, two kinds of item. *)
EXTENDS QueuedWorker
====
