---- MODULE QueuedWorker ----
(***************************************************************************)
(* A QueuedWorker draining a ThreadSafeQueue (queued_worker.ipp and        *)
(* thread_safe_queue.cpp of RealTime_Embedded_Systems).  Three kinds of    *)
(* thread: Producers call enqueue, the Owner constructs, stops and may     *)
(* restart the worker, and the Worker is the thread start() spawns.  One   *)
(* step is one access to shared state, or one critical section whose       *)
(* accesses are all protected by the mutex; m_stop_flag is atomic but not  *)
(* protected by it, so every read of the flag is a step of its own.        *)
(***************************************************************************)
EXTENDS ThreadSafeQueue, FiniteSets

CONSTANTS Producers, Owner, Worker,
          MaxSends,     \* bound: how many items are enqueued
          MaxSessions   \* bound: how often start() spawns a thread

ThreadsDiffer ==
    /\ Owner \notin Producers /\ Worker \notin Producers
    /\ Nobody \notin Producers
    /\ Owner # Worker /\ Nobody # Owner /\ Nobody # Worker

ASSUME ThreadsAssumption == ThreadsDiffer
ASSUME BoundsAssumption == MaxSends \in Nat /\ MaxSessions \in Nat

VARIABLES stopFlag,     \* m_stop_flag
          workerAt,     \* where the worker thread is; "none": not joinable
          inHand,       \* the item dequeueConditional returned: <<>> is T()
          ownerAt,      \* where stop() is; "ready" outside of it
          sent,         \* history: every item enqueued, in order
          settled,      \* history: the items the worker decided about
          lost,         \* history: the positions of `settled' never worked on
          sessions      \* history: how many threads start() spawned

queueVars == <<mutex, queue, sleepers>>
history == <<sent, settled, lost, sessions>>
vars == <<mutex, queue, sleepers, stopFlag, workerAt, inHand, ownerAt,
          sent, settled, lost, sessions>>

WorkerPlaces == {"none", "lock", "test", "wait", "asleep", "fetch", "decide",
                 "work", "exited"}
OwnerPlaces == {"ready", "wake", "notify", "join"}

(* The object before its constructor called start(). *)
Init ==
    /\ mutex = Nobody /\ queue = <<>> /\ sleepers = {}
    /\ stopFlag = TRUE
    /\ workerAt = "none" /\ inHand = <<>>
    /\ ownerAt = "ready"
    /\ sent = <<>> /\ settled = <<>> /\ lost = {} /\ sessions = 0

----------------------------------------------------------------------------
(* Producers *)

EnqueueLock(p) ==
    /\ Len(sent) < MaxSends
    /\ LockBy(p)
    /\ UNCHANGED <<queue, sleepers, stopFlag, workerAt, inHand, ownerAt, history>>

EnqueuePush(p, x) ==
    /\ PushUnlock(p, x)
    /\ sent' = Append(sent, x)
    /\ UNCHANGED <<stopFlag, workerAt, inHand, ownerAt, settled, lost, sessions>>

----------------------------------------------------------------------------
(* The owner: start() and stop() *)

(* start() outside the joinable guard has no effect. *)
Start ==
    /\ ownerAt = "ready"
    /\ workerAt = "none"
    /\ sessions < MaxSessions
    /\ stopFlag' = FALSE
    /\ workerAt' = "lock"
    /\ inHand' = <<>>
    /\ sessions' = sessions + 1
    /\ UNCHANGED <<queueVars, ownerAt, sent, settled, lost>>

StopSetFlag ==
    /\ ownerAt = "ready"
    /\ stopFlag' = TRUE
    /\ ownerAt' = "wake"
    /\ UNCHANGED <<queueVars, workerAt, inHand, history>>

(* Faulty variant: wakeConsumers notifies without taking the mutex. *)
WakeWithoutLock ==
    /\ ownerAt = "wake"
    /\ NotifyAll
    /\ ownerAt' = "join"
    /\ UNCHANGED <<mutex, queue, stopFlag, workerAt, inHand, history>>

WakeLock ==
    /\ ownerAt = "wake"
    /\ LockBy(Owner)
    /\ ownerAt' = "notify"
    /\ UNCHANGED <<queue, sleepers, stopFlag, workerAt, inHand, history>>

WakeNotify ==
    /\ ownerAt = "notify"
    /\ NotifyUnlock(Owner)
    /\ ownerAt' = "join"
    /\ UNCHANGED <<stopFlag, workerAt, inHand, history>>

(* join() returns once the thread has left loop(); stop() on an object     *)
(* without a thread does not join.                                         *)
Join ==
    /\ ownerAt = "join"
    /\ workerAt \in {"none", "exited"}
    /\ workerAt' = "none"
    /\ ownerAt' = "ready"
    /\ UNCHANGED <<queueVars, stopFlag, inHand, history>>

----------------------------------------------------------------------------
(* The worker: loop() and dequeueConditional(m_stop_flag) *)

(* Faulty variant: the wait has no predicate, a wake-up ends it. *)
DequeueLockNoLoop ==
    /\ workerAt = "lock" \/ (workerAt = "asleep" /\ Worker \notin sleepers)
    /\ LockBy(Worker)
    /\ workerAt' = IF workerAt = "lock" THEN "test" ELSE "fetch"
    /\ UNCHANGED <<queue, sleepers, stopFlag, inHand, ownerAt, history>>

(* dequeueConditional locks; a woken sleeper locks again inside wait. *)
DequeueLock ==
    /\ workerAt = "lock" \/ (workerAt = "asleep" /\ Worker \notin sleepers)
    /\ LockBy(Worker)
    /\ workerAt' = "test"
    /\ UNCHANGED <<queue, sleepers, stopFlag, inHand, ownerAt, history>>

DequeueTest ==
    /\ workerAt = "test"
    /\ workerAt' = IF WakeCondition(stopFlag) THEN "fetch" ELSE "wait"
    /\ UNCHANGED <<queueVars, stopFlag, inHand, ownerAt, history>>

DequeueSleep ==
    /\ workerAt = "wait"
    /\ SleepUnlock(Worker)
    /\ workerAt' = "asleep"
    /\ UNCHANGED <<stopFlag, inHand, ownerAt, history>>

(* A condition variable may wake a thread nobody notified. *)
SpuriousWakeup ==
    /\ Worker \in sleepers
    /\ sleepers' = sleepers \ {Worker}
    /\ UNCHANGED <<mutex, queue, stopFlag, workerAt, inHand, ownerAt, history>>

(* Faulty variant: the front is popped before the flag is read again. *)
DequeueFetchPopsFirst ==
    /\ workerAt = "fetch"
    /\ UnlockBy(Worker)
    /\ queue # <<>>
    /\ inHand' = IF stopFlag THEN <<>> ELSE <<Head(queue)>>
    /\ queue' = Tail(queue)
    /\ workerAt' = "decide"
    /\ UNCHANGED <<sleepers, stopFlag, ownerAt, history>>

(* The flag is read again after the wait: T() when it is set, even if the  *)
(* queue holds items, else the front is popped.                            *)
DequeueFetch ==
    /\ workerAt = "fetch"
    /\ UnlockBy(Worker)
    /\ IF stopFlag
       THEN inHand' = <<>> /\ UNCHANGED queue
       ELSE inHand' = <<Head(queue)>> /\ queue' = Tail(queue)
    /\ workerAt' = "decide"
    /\ UNCHANGED <<sleepers, stopFlag, ownerAt, history>>

(* Faulty variant: a worker that leaves puts its item back in the queue. *)
DecideRequeue ==
    /\ workerAt = "decide"
    /\ workerAt' = IF stopFlag THEN "exited" ELSE "work"
    /\ IF stopFlag
       THEN queue' = queue \o inHand /\ UNCHANGED settled
       ELSE settled' = settled \o inHand /\ UNCHANGED queue
    /\ UNCHANGED <<mutex, sleepers, stopFlag, inHand, ownerAt, sent, lost, sessions>>

(* loop() reads the flag a third time: it leaves, with whatever it holds,  *)
(* or it hands the item to m_work.                                         *)
Decide ==
    /\ workerAt = "decide"
    /\ workerAt' = IF stopFlag THEN "exited" ELSE "work"
    /\ settled' = settled \o inHand
    /\ lost' = IF stopFlag /\ inHand # <<>>
               THEN lost \cup {Len(settled) + 1} ELSE lost
    /\ UNCHANGED <<queueVars, stopFlag, inHand, ownerAt, sent, sessions>>

(* m_work returns and its argument goes out of scope. *)
WorkDone ==
    /\ workerAt = "work"
    /\ workerAt' = "lock"
    /\ inHand' = <<>>
    /\ UNCHANGED <<queueVars, stopFlag, ownerAt, history>>

----------------------------------------------------------------------------
WorkerStep ==
    DequeueLock \/ DequeueTest \/ DequeueSleep \/ DequeueFetch \/ Decide \/ WorkDone

StopStep == WakeLock \/ WakeNotify \/ Join

Next ==
    \/ \E p \in Producers : EnqueueLock(p) \/ \E x \in Items : EnqueuePush(p, x)
    \/ Start
    \/ StopSetFlag
    \/ StopStep
    \/ WorkerStep
    \/ SpuriousWakeup

(* Every running thread is scheduled, m_work returns, and a producer that  *)
(* took the lock goes on.  Nobody has to enqueue, to stop or to start, and *)
(* the mutex need not be fair.                                             *)
Fairness ==
    /\ WF_vars(WorkerStep)
    /\ WF_vars(StopStep)
    /\ WF_vars(\E p \in Producers, x \in Items : EnqueuePush(p, x))

Spec == Init /\ [][Next]_vars /\ Fairness

----------------------------------------------------------------------------
(* Properties *)

TypeOK ==
    /\ mutex \in Producers \cup {Owner, Worker, Nobody}
    /\ queue \in Seq(Items)
    /\ sleepers \subseteq {Worker}
    /\ stopFlag \in BOOLEAN
    /\ workerAt \in WorkerPlaces
    /\ inHand \in Seq(Items) /\ Len(inHand) <= 1
    /\ ownerAt \in OwnerPlaces
    /\ sent \in Seq(Items) /\ settled \in Seq(Items)
    /\ lost \subseteq 1..Len(settled)
    /\ sessions \in Nat

(* The item popped but not yet decided about. *)
Undecided == IF workerAt = "decide" THEN inHand ELSE <<>>

(* Each thread is where the mutex says it is. *)
MutexInv ==
    /\ (mutex = Worker) <=> (workerAt \in {"test", "wait", "fetch"})
    /\ (mutex = Owner) <=> (ownerAt = "notify")
    /\ Worker \in sleepers => workerAt = "asleep"

(* stop() keeps the flag set until the thread is joined. *)
FlagInv ==
    /\ ownerAt # "ready" => stopFlag
    /\ workerAt \in {"none", "exited"} => stopFlag

(* Nothing enqueued is lost, repeated or reordered: what was sent is what  *)
(* was settled, then the item in hand, then the queue -- across every      *)
(* stop() and restart.                                                     *)
Conservation == sent = settled \o Undecided \o queue

(* No wake-up is lost: a worker asleep on the condition variable has       *)
(* nothing to take, and if stop() was called its notification is still     *)
(* to come; so it is when the worker is about to sleep.                    *)
NoLostWakeup ==
    Worker \in sleepers \/ workerAt = "wait" =>
        /\ queue = <<>>
        /\ stopFlag => ownerAt = "wake" \/ (ownerAt = "notify" /\ workerAt # "wait")

(* The pop is defined: a thread whose wait has ended and that does not see *)
(* the stop flag finds an item in the queue, although both were read by    *)
(* earlier steps; and T(), which dequeueConditional returns to a worker    *)
(* that is being stopped, never reaches m_work.                            *)
DequeueSafe ==
    /\ workerAt = "fetch" => WakeCondition(stopFlag)
    /\ workerAt = "decide" /\ inHand = <<>> => stopFlag
    /\ workerAt = "work" => inHand # <<>>

(* The inductive invariant behind the safety properties. *)
IInv ==
    /\ TypeOK
    /\ MutexInv
    /\ FlagInv
    /\ Conservation
    /\ NoLostWakeup
    /\ DequeueSafe

(* stop() returns: the worker is woken, leaves its loop and is joined. *)
StopReturns == (ownerAt = "wake") ~> (ownerAt = "ready")

(* Whatever was enqueued is settled, unless the worker is being stopped. *)
ItemsSettle ==
    \A n \in 1..MaxSends :
        (Len(sent) >= n) ~> (Len(settled) >= n \/ stopFlag)

(* The threads implement the channel. *)
Channel == INSTANCE TaskChannel WITH
    pending <- Undecided \o queue,
    phase <- IF workerAt \in {"none", "exited"} THEN "off"
             ELSE IF stopFlag THEN "closing" ELSE "on"

ImplementsChannel == Channel!Spec
====
