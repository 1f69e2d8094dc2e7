---- MODULE TaskChannel ----
(***************************************************************************)
(* What a ThreadSafeQueue drained by one QueuedWorker promises, without    *)
(* mutexes, condition variables or threads: the items it accepted are      *)
(* settled in the order they were accepted, each exactly once.  To settle  *)
(* an item is to hand it to the work function, except that the step that   *)
(* closes the channel may discard one item.  Items still pending when the  *)
(* channel closes stay pending and are settled after it is reopened.       *)
(***************************************************************************)
EXTENDS Naturals, Sequences

CONSTANT Items          \* the values that can be enqueued

VARIABLES pending,      \* accepted and not yet settled
          settled,      \* settled so far, in order
          lost,         \* the positions of `settled' whose item was discarded
          phase         \* "on", "closing" (stop requested) or "off"

vars == <<pending, settled, lost, phase>>

Init ==
    /\ pending = <<>>
    /\ settled = <<>>
    /\ lost = {}
    /\ phase = "off"

Accept(x) ==
    /\ pending' = Append(pending, x)
    /\ UNCHANGED <<settled, lost, phase>>

SettleHead ==
    /\ pending # <<>>
    /\ pending' = Tail(pending)
    /\ settled' = Append(settled, Head(pending))

Work ==
    /\ phase # "off"
    /\ SettleHead
    /\ UNCHANGED <<lost, phase>>

Open ==
    /\ phase = "off"
    /\ phase' = "on"
    /\ UNCHANGED <<pending, settled, lost>>

Close ==
    /\ phase = "on"
    /\ phase' = "closing"
    /\ UNCHANGED <<pending, settled, lost>>

(* The channel is off; the item that was in the worker's hands is gone. *)
Finish ==
    /\ phase = "closing"
    /\ phase' = "off"
    /\ \/ UNCHANGED <<pending, settled, lost>>
       \/ SettleHead /\ lost' = lost \cup {Len(settled) + 1}

Next ==
    \/ \E x \in Items : Accept(x)
    \/ Work
    \/ Open
    \/ Close
    \/ Finish

Spec == Init /\ [][Next]_vars
====
