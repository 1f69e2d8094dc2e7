---- MODULE ThreadSafeQueue ----
(***************************************************************************)
(* The state of a ThreadSafeQueue and the pieces its operations are made   *)
(* of (thread_safe_queue.cpp).  A thread holds the mutex between LockBy    *)
(* and UnlockBy; a thread in `sleepers' is blocked in m_cv.wait and does   *)
(* not hold it.  front() and isEmpty() change nothing and, like the        *)
(* unconditional dequeue(), no thread of the program calls them.           *)
(***************************************************************************)
EXTENDS Naturals, Sequences

CONSTANTS Items,        \* the values that can be enqueued
          Nobody        \* the mutex is free

VARIABLES mutex,        \* m_mutex: the thread that holds it, or Nobody
          queue,        \* m_queue
          sleepers      \* the threads waiting on m_cv

LockBy(t) ==
    /\ mutex = Nobody
    /\ mutex' = t

UnlockBy(t) ==
    /\ mutex = t
    /\ mutex' = Nobody

NotifyOne ==
    IF sleepers = {}
    THEN UNCHANGED sleepers
    ELSE \E t \in sleepers : sleepers' = sleepers \ {t}

NotifyAll == sleepers' = {}

(* Faulty variant: enqueue without its notify_one. *)
PushSilently(t, x) ==
    /\ UnlockBy(t)
    /\ queue' = Append(queue, x)
    /\ UNCHANGED sleepers

(* The rest of enqueue once the lock is held: push, notify_one, unlock. *)
PushUnlock(t, x) ==
    /\ UnlockBy(t)
    /\ queue' = Append(queue, x)
    /\ NotifyOne

(* The wait predicate of dequeueConditional. *)
WakeCondition(condition) == queue # <<>> \/ condition

(* m_cv.wait found the predicate false: it releases the mutex and sleeps   *)
(* in one step.                                                            *)
SleepUnlock(t) ==
    /\ UnlockBy(t)
    /\ sleepers' = sleepers \cup {t}
    /\ UNCHANGED queue

(* wakeConsumers once the lock is held. *)
NotifyUnlock(t) ==
    /\ UnlockBy(t)
    /\ NotifyAll
    /\ UNCHANGED queue
====
