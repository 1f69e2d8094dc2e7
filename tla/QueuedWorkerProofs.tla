---- MODULE QueuedWorkerProofs ----
(***************************************************************************)
(* Proofs about QueuedWorker, for every set of items and of producers and  *)
(* every bound: the inductive invariant IInv, and that the threads         *)
(* implement TaskChannel.                                                  *)
(***************************************************************************)
EXTENDS QueuedWorker, SequenceTheorems, TLAPS

(* An item enqueued at the back lands behind everything before it. *)
LEMMA AppendBehind ==
    ASSUME NEW s \in Seq(Items), NEW q \in Seq(Items), NEW x \in Items
    PROVE  Append(s \o q, x) = s \o Append(q, x)
<1>1. <<x>> \in Seq(Items)
    OBVIOUS
<1>2. Append(q, x) = q \o <<x>>
    BY AppendIsConcat
<1>3. s \o q \in Seq(Items) /\ Append(s \o q, x) = (s \o q) \o <<x>>
    BY <1>1, AppendIsConcat, ConcatProperties
<1>4. (s \o q) \o <<x>> = s \o (q \o <<x>>)
    BY <1>1, ConcatAssociative
<1> QED BY <1>2, <1>3, <1>4

(* Popping moves the front of the queue into the worker's hand. *)
LEMMA PopMovesHead ==
    ASSUME NEW s \in Seq(Items), NEW q \in Seq(Items), q # <<>>
    PROVE  /\ Head(q) \in Items /\ Tail(q) \in Seq(Items)
           /\ q = <<Head(q)>> \o Tail(q)
           /\ s \o <<>> \o q = s \o <<Head(q)>> \o Tail(q)
<1>1. Head(q) \in Items /\ Tail(q) \in Seq(Items) /\ <<Head(q)>> \in Seq(Items)
    BY HeadTailProperties
<1>2. q = <<Head(q)>> \o Tail(q)
    <2>1. /\ <<Head(q)>> \o Tail(q) \in Seq(Items)
          /\ Len(<<Head(q)>> \o Tail(q)) = Len(q)
        BY <1>1, ConcatProperties, HeadTailProperties
    <2>2. \A i \in 1..Len(q) : q[i] = (<<Head(q)>> \o Tail(q))[i]
        BY <1>1, ConcatProperties, HeadTailProperties
    <2> QED BY <2>1, <2>2, SeqEqual
<1>3. s \o <<>> = s
    BY ConcatEmptySeq
<1>4. s \o (<<Head(q)>> \o Tail(q)) = (s \o <<Head(q)>>) \o Tail(q)
    BY <1>1, ConcatAssociative
<1> QED BY <1>1, <1>2, <1>3, <1>4

LEMMA InitIInv == Init => IInv
<1> SUFFICES ASSUME Init PROVE IInv
    OBVIOUS
<1>1. <<>> \in Seq(Items) /\ <<>> \o <<>> \o <<>> = <<>>
    BY EmptySeq, ConcatEmptySeq
<1>2. 1..Len(settled) = {} /\ sent = <<>> \o <<>> \o <<>>
    BY <1>1 DEF Init
<1> QED
    BY <1>1, <1>2, ThreadsAssumption
    DEF Init, IInv, TypeOK, MutexInv, FlagInv, Conservation, NoLostWakeup,
        DequeueSafe, Undecided, WorkerPlaces, OwnerPlaces, ThreadsDiffer

LEMMA StepIInv == IInv /\ [Next]_vars => IInv'
<1> SUFFICES ASSUME IInv, [Next]_vars PROVE IInv'
    OBVIOUS
<1> USE ThreadsAssumption DEF ThreadsDiffer, IInv, WorkerPlaces, OwnerPlaces
<1>1. ASSUME NEW p \in Producers, EnqueueLock(p) PROVE IInv'
    BY <1>1 DEF EnqueueLock, LockBy, history, TypeOK, MutexInv, FlagInv,
        Conservation, NoLostWakeup, DequeueSafe, Undecided, WakeCondition
<1>2. ASSUME NEW p \in Producers, NEW x \in Items, EnqueuePush(p, x) PROVE IInv'
    <2> USE <1>2 DEF EnqueuePush, PushUnlock, UnlockBy
    <2>1. TypeOK' /\ sleepers' = {}
        BY DEF TypeOK, NotifyOne
    <2>2. MutexInv' /\ FlagInv'
        BY <2>1 DEF MutexInv, FlagInv, TypeOK
    <2>3. Conservation'
        <3>1. /\ Undecided \in Seq(Items) /\ Undecided' = Undecided
              /\ settled \in Seq(Items) /\ queue \in Seq(Items)
            BY EmptySeq DEF TypeOK, Undecided
        <3>2. Append(settled \o Undecided \o queue, x) = settled \o Undecided \o Append(queue, x)
            <4>1. settled \o Undecided \in Seq(Items)
                BY ONLY <3>1, ConcatProperties
            <4> QED BY ONLY <3>1, <4>1, AppendBehind, x \in Items
        <3>3. sent' = Append(settled \o Undecided \o queue, x)
            BY DEF Conservation
        <3>4. settled' = settled /\ queue' = Append(queue, x)
            OBVIOUS
        <3> QED BY <3>1, <3>2, <3>3, <3>4 DEF Conservation
    <2>4. NoLostWakeup' /\ DequeueSafe'
        <3>1. queue' # <<>>
            BY AppendProperties DEF TypeOK
        <3> QED BY <2>1, <3>1 DEF NoLostWakeup, DequeueSafe, WakeCondition, MutexInv
    <2> QED BY <2>1, <2>2, <2>3, <2>4
<1>3. CASE Start
    <2> USE <1>3 DEF Start, queueVars
    <2>1. inHand' \in Seq(Items) /\ Len(inHand') <= 1
        BY EmptySeq
    <2>2. TypeOK'
        <3>1. sessions' \in Nat
            BY DEF TypeOK
        <3> QED BY <2>1, <3>1, Zenon DEF TypeOK
    <2>3. Undecided' = Undecided
        BY DEF Undecided
    <2>4. Conservation'
        BY <2>3 DEF Conservation
    <2>5. MutexInv' /\ FlagInv' /\ NoLostWakeup' /\ DequeueSafe'
        BY DEF TypeOK, MutexInv, FlagInv, NoLostWakeup, DequeueSafe
    <2> QED BY <2>2, <2>4, <2>5
<1>4. CASE StopSetFlag
    BY <1>4 DEF StopSetFlag, queueVars, history, TypeOK, MutexInv, FlagInv,
        Conservation, NoLostWakeup, DequeueSafe, Undecided, WakeCondition
<1>5. CASE WakeLock
    BY <1>5 DEF WakeLock, LockBy, history, TypeOK, MutexInv, FlagInv,
        Conservation, NoLostWakeup, DequeueSafe, Undecided, WakeCondition
<1>6. CASE WakeNotify
    BY <1>6 DEF WakeNotify, NotifyUnlock, NotifyAll, UnlockBy, history, TypeOK, MutexInv,
        FlagInv, Conservation, NoLostWakeup, DequeueSafe, Undecided, WakeCondition
<1>7. CASE Join
    BY <1>7 DEF Join, queueVars, history, TypeOK, MutexInv, FlagInv,
        Conservation, NoLostWakeup, DequeueSafe, Undecided, WakeCondition
<1>8. CASE DequeueLock
    BY <1>8 DEF DequeueLock, LockBy, history, TypeOK, MutexInv, FlagInv,
        Conservation, NoLostWakeup, DequeueSafe, Undecided, WakeCondition
<1>9. CASE DequeueTest
    BY <1>9 DEF DequeueTest, queueVars, history, TypeOK, MutexInv, FlagInv,
        Conservation, NoLostWakeup, DequeueSafe, Undecided, WakeCondition
<1>10. CASE DequeueSleep
    BY <1>10 DEF DequeueSleep, SleepUnlock, UnlockBy, history, TypeOK, MutexInv,
        FlagInv, Conservation, NoLostWakeup, DequeueSafe, Undecided, WakeCondition
<1>11. CASE SpuriousWakeup
    BY <1>11 DEF SpuriousWakeup, history, TypeOK, MutexInv, FlagInv,
        Conservation, NoLostWakeup, DequeueSafe, Undecided, WakeCondition
<1>12. CASE DequeueFetch
    <2> USE <1>12 DEF DequeueFetch, UnlockBy, history
    <2>1. CASE stopFlag
        BY <2>1, EmptySeq DEF TypeOK, MutexInv, FlagInv, Conservation, NoLostWakeup,
            DequeueSafe, Undecided
    <2>2. CASE ~stopFlag
        <3>1. queue # <<>>
            BY <2>2 DEF DequeueSafe, WakeCondition
        <3>2. settled \in Seq(Items) /\ queue \in Seq(Items)
            BY DEF TypeOK
        <3>3. /\ Head(queue) \in Items /\ Tail(queue) \in Seq(Items)
              /\ settled \o <<>> \o queue = settled \o <<Head(queue)>> \o Tail(queue)
            BY ONLY <3>1, <3>2, PopMovesHead
        <3>4. /\ inHand' = <<Head(queue)>> /\ queue' = Tail(queue)
              /\ Undecided = <<>> /\ Undecided' = inHand'
            BY <2>2 DEF Undecided
        <3>5. inHand' \in Seq(Items) /\ Len(inHand') = 1 /\ inHand' # <<>>
            BY <3>3, <3>4
        <3>6. Conservation'
            BY <3>3, <3>4 DEF Conservation
        <3>7. TypeOK'
            BY <3>3, <3>4, <3>5 DEF TypeOK
        <3>8. MutexInv' /\ FlagInv' /\ NoLostWakeup' /\ DequeueSafe'
            BY <2>2, <3>5 DEF TypeOK, MutexInv, FlagInv, NoLostWakeup, DequeueSafe
        <3> QED BY <3>6, <3>7, <3>8
    <2> QED BY <2>1, <2>2
<1>13. CASE Decide
    <2> USE <1>13 DEF Decide, queueVars
    <2>1. settled \in Seq(Items) /\ inHand \in Seq(Items)
        BY DEF TypeOK
    <2>2. /\ settled' \in Seq(Items) /\ Len(settled') = Len(settled) + Len(inHand)
          /\ Len(settled) \in Nat /\ (inHand # <<>> => Len(inHand) \in Nat \ {0})
        <3>1. /\ settled \o inHand \in Seq(Items)
              /\ Len(settled \o inHand) = Len(settled) + Len(inHand)
            BY ONLY <2>1, ConcatProperties
        <3>2. Len(settled) \in Nat /\ (inHand # <<>> => Len(inHand) \in Nat \ {0})
            BY ONLY <2>1, EmptySeq, LenProperties
        <3>3. settled' = settled \o inHand
            OBVIOUS
        <3> QED BY ONLY <3>1, <3>2, <3>3
    <2>3. lost' \subseteq 1..Len(settled')
        <3>1. lost' \subseteq lost \cup {Len(settled) + 1} /\ (inHand = <<>> => lost' = lost)
            OBVIOUS
        <3>2. lost \subseteq 1..Len(settled) /\ Len(<<>>) = 0 /\ Len(inHand) \in Nat
            BY <2>1, EmptySeq, LenProperties DEF TypeOK
        <3> QED BY ONLY <2>2, <3>1, <3>2
    <2>4. Conservation'
        <3>1. sent = settled' \o queue
            BY DEF Conservation, Undecided
        <3>2. settled' \o <<>> = settled'
            BY ONLY <2>2, ConcatEmptySeq
        <3>3. Undecided' = <<>> /\ sent' = sent /\ queue' = queue
            BY DEF Undecided
        <3> QED BY <3>1, <3>2, <3>3 DEF Conservation
    <2>5. TypeOK'
        BY <2>2, <2>3 DEF TypeOK
    <2>6. MutexInv' /\ FlagInv' /\ NoLostWakeup' /\ DequeueSafe'
        BY DEF TypeOK, MutexInv, FlagInv, NoLostWakeup, DequeueSafe
    <2> QED BY <2>4, <2>5, <2>6
<1>14. CASE WorkDone
    BY <1>14, EmptySeq DEF WorkDone, queueVars, history, TypeOK, MutexInv, FlagInv,
        Conservation, NoLostWakeup, DequeueSafe, Undecided, WakeCondition
<1>15. CASE UNCHANGED vars
    BY <1>15 DEF vars, TypeOK, MutexInv, FlagInv,
        Conservation, NoLostWakeup, DequeueSafe, Undecided, WakeCondition
<1> QED
    BY <1>1, <1>2, <1>3, <1>4, <1>5, <1>6, <1>7, <1>8, <1>9, <1>10, <1>11, <1>12,
       <1>13, <1>14, <1>15 DEF Next, StopStep, WorkerStep

(* Every item enqueued is settled once and in order, the pop is defined    *)
(* and no wake-up is lost, for every number of producers, items, sends and *)
(* restarts.                                                               *)
THEOREM InvariantHolds == Spec => []IInv
    BY InitIInv, StepIInv, PTL DEF Spec

----------------------------------------------------------------------------
(* The refinement *)

(* A single item in hand is the head of what is pending. *)
LEMMA HandIsHead ==
    ASSUME NEW s \in Seq(Items), NEW h \in Seq(Items), NEW q \in Seq(Items), Len(h) = 1
    PROVE  /\ h \o q # <<>>
           /\ Tail(h \o q) = q
           /\ s \o h = Append(s, Head(h \o q))
<1>1. h[1] \in Items /\ h = <<h[1]>>
    <2>1. h[1] \in Items /\ <<h[1]>> \in Seq(Items) /\ Len(<<h[1]>>) = 1
        <3>1. 1 \in 1..Len(h)
            OBVIOUS
        <3>2. h[1] \in Items
            BY <3>1, ElementOfSeq
        <3> QED BY <3>2
    <2>2. \A i \in 1..Len(h) : h[i] = <<h[1]>>[i]
        OBVIOUS
    <2> QED BY <2>1, <2>2, SeqEqual
<1>2. /\ h \o q \in Seq(Items) /\ Len(h \o q) = 1 + Len(q)
      /\ \A i \in 1..1 + Len(q) : (h \o q)[i] = IF i <= 1 THEN h[i] ELSE q[i - 1]
    <2>1. /\ h \o q \in Seq(Items) /\ Len(h \o q) = Len(h) + Len(q)
          /\ \A i \in 1..Len(h) + Len(q) :
                 (h \o q)[i] = IF i <= Len(h) THEN h[i] ELSE q[i - Len(h)]
        BY ConcatProperties, Zenon
    <2> QED BY ONLY <2>1, Len(h) = 1
<1>3. Len(q) \in Nat
    BY LenProperties
<1>4. h \o q # <<>>
    BY <1>2, <1>3, EmptySeq
<1>5. Head(h \o q) = h[1]
    BY <1>2, <1>3, <1>4
<1>6. Tail(h \o q) = q
    <2>1. /\ Tail(h \o q) \in Seq(Items) /\ Len(Tail(h \o q)) = Len(q)
          /\ \A i \in 1..Len(q) : Tail(h \o q)[i] = (h \o q)[i + 1]
        BY <1>2, <1>3, <1>4, HeadTailProperties
    <2>2. \A i \in 1..Len(q) : Tail(h \o q)[i] = q[i]
        BY <1>2, <1>3, <2>1
    <2> QED BY <2>1, <2>2, SeqEqual
<1>7. s \o h = Append(s, h[1])
    BY <1>1, AppendIsConcat
<1> QED BY <1>4, <1>5, <1>6, <1>7

LEMMA InitRefines == Init => Channel!Init
    BY EmptySeq, ConcatEmptySeq DEF Init, Channel!Init, Undecided

LEMMA StepRefines == IInv /\ [Next]_vars => [Channel!Next]_Channel!vars
<1> SUFFICES ASSUME IInv, [Next]_vars PROVE [Channel!Next]_Channel!vars
    OBVIOUS
<1>t. /\ queue \in Seq(Items) /\ inHand \in Seq(Items) /\ Undecided \in Seq(Items)
      /\ settled \in Seq(Items) /\ Len(inHand) <= 1
    BY EmptySeq DEF IInv, TypeOK, Undecided
<1>1. ASSUME NEW p \in Producers, EnqueueLock(p) PROVE [Channel!Next]_Channel!vars
    BY <1>1 DEF EnqueueLock, history, Channel!vars, Undecided
<1>2. ASSUME NEW p \in Producers, NEW x \in Items, EnqueuePush(p, x)
      PROVE  [Channel!Next]_Channel!vars
    <2>1. Append(Undecided \o queue, x) = Undecided \o Append(queue, x)
        BY ONLY <1>t, AppendBehind, x \in Items
    <2>2. /\ queue' = Append(queue, x) /\ Undecided' = Undecided
          /\ UNCHANGED <<settled, lost, workerAt, stopFlag>>
        BY <1>2 DEF EnqueuePush, PushUnlock, Undecided
    <2>3. Channel!Accept(x)
        BY <2>1, <2>2 DEF Channel!Accept
    <2> QED BY <2>3 DEF Channel!Next
<1>3. CASE Start
    <2>1. /\ UNCHANGED <<queue, settled, lost>> /\ Undecided' = Undecided
          /\ workerAt = "none" /\ workerAt' = "lock" /\ stopFlag' = FALSE
        BY <1>3 DEF Start, queueVars, Undecided
    <2>2. Channel!Open
        BY <2>1 DEF Channel!Open
    <2> QED BY <2>2 DEF Channel!Next
<1>4. CASE StopSetFlag
    <2>1. UNCHANGED <<queue, inHand, workerAt, settled, lost>> /\ stopFlag'
        BY <1>4 DEF StopSetFlag, queueVars, history
    <2>2. CASE stopFlag \/ workerAt \in {"none", "exited"}
        BY <2>1, <2>2 DEF Channel!vars, Undecided
    <2>3. CASE ~stopFlag /\ workerAt \notin {"none", "exited"}
        BY <2>1, <2>3 DEF Channel!Next, Channel!Close, Undecided
    <2> QED BY <2>2, <2>3
<1>5. CASE StopStep
    <2>1. CASE WakeLock \/ WakeNotify
        <3>1. UNCHANGED <<queue, inHand, settled, lost, stopFlag, workerAt>>
            BY <2>1 DEF WakeLock, WakeNotify, NotifyUnlock, history
        <3> QED BY <3>1 DEF Channel!vars, Undecided
    <2>2. CASE Join
        <3>1. /\ UNCHANGED <<queue, settled, lost>> /\ Undecided' = Undecided
              /\ workerAt \in {"none", "exited"} /\ workerAt' = "none"
            BY <2>2 DEF Join, queueVars, history, Undecided
        <3> QED BY <3>1 DEF Channel!vars
    <2> QED BY <1>5, <2>1, <2>2 DEF StopStep
<1>6. CASE DequeueLock \/ DequeueTest \/ DequeueSleep \/ SpuriousWakeup \/ WorkDone
    <2>1. UNCHANGED <<queue, settled, lost, stopFlag>> /\ Undecided' = Undecided
        BY <1>6 DEF DequeueLock, DequeueTest, DequeueSleep, SleepUnlock,
            SpuriousWakeup, WorkDone, queueVars, history, Undecided
    <2>2. workerAt \notin {"none", "exited"} /\ workerAt' \notin {"none", "exited"}
        BY <1>6 DEF DequeueLock, DequeueTest, DequeueSleep, SpuriousWakeup, WorkDone,
            IInv, MutexInv
    <2> QED BY <2>1, <2>2 DEF Channel!vars
<1>7. CASE DequeueFetch
    <2>1. /\ UNCHANGED <<settled, lost, stopFlag>> /\ Undecided = <<>>
          /\ workerAt = "fetch" /\ workerAt' = "decide" /\ Undecided' = inHand'
        BY <1>7 DEF DequeueFetch, history, Undecided
    <2>2. inHand' \o queue' = <<>> \o queue
        <3>1. CASE stopFlag
            BY <1>7, <3>1 DEF DequeueFetch
        <3>2. CASE ~stopFlag
            <4>1. queue # <<>> /\ inHand' = <<Head(queue)>> /\ queue' = Tail(queue)
                BY <1>7, <3>2 DEF DequeueFetch, IInv, DequeueSafe, WakeCondition
            <4>2. queue = <<Head(queue)>> \o Tail(queue) /\ <<>> \o queue = queue
                BY ONLY <1>t, <4>1, PopMovesHead, ConcatEmptySeq
            <4> QED BY <4>1, <4>2
        <3> QED BY <3>1, <3>2
    <2> QED BY <2>1, <2>2 DEF Channel!vars
<1>8. CASE Decide
    <2>1. /\ settled' = settled \o inHand /\ UNCHANGED <<queue, stopFlag>>
          /\ Undecided = inHand /\ Undecided' = <<>> /\ workerAt = "decide"
          /\ workerAt' = IF stopFlag THEN "exited" ELSE "work"
          /\ lost' = IF stopFlag /\ inHand # <<>> THEN lost \cup {Len(settled) + 1} ELSE lost
        BY <1>8 DEF Decide, queueVars, Undecided
    <2>2. <<>> \o queue = queue /\ settled \o <<>> = settled
        BY ONLY <1>t, ConcatEmptySeq
    <2>3. CASE inHand = <<>>
        <3>1. stopFlag
            BY <2>1, <2>3 DEF IInv, DequeueSafe
        <3>2. Channel!Finish
            BY <2>1, <2>2, <2>3, <3>1 DEF Channel!Finish
        <3> QED BY <3>2 DEF Channel!Next
    <2>4. CASE inHand # <<>>
        <3>1. Len(inHand) = 1
            BY <1>t, <2>4, EmptySeq
        <3>2. /\ inHand \o queue # <<>> /\ Tail(inHand \o queue) = queue
              /\ settled \o inHand = Append(settled, Head(inHand \o queue))
            BY ONLY <1>t, <3>1, HandIsHead
        <3>3. Channel!SettleHead
            BY <2>1, <2>2, <3>2 DEF Channel!SettleHead
        <3>4. CASE stopFlag
            BY <2>1, <2>4, <3>3, <3>4 DEF Channel!Next, Channel!Finish
        <3>5. CASE ~stopFlag
            BY <2>1, <3>3, <3>5 DEF Channel!Next, Channel!Work
        <3> QED BY <3>4, <3>5
    <2> QED BY <2>3, <2>4
<1>9. CASE UNCHANGED vars
    BY <1>9 DEF vars, Channel!vars, Undecided
<1> QED
    BY <1>1, <1>2, <1>3, <1>4, <1>5, <1>6, <1>7, <1>8, <1>9 DEF Next, WorkerStep

(* The worker, its queue, the mutex and the condition variable implement   *)
(* the channel: whatever the interleaving, each accepted item is settled   *)
(* once and in order, and only the step that ends a stop() discards one.   *)
THEOREM QueueImplementsChannel == Spec => ImplementsChannel
<1>1. Spec => []IInv
    BY InvariantHolds
<1> QED
    BY <1>1, InitRefines, StepRefines, PTL DEF Spec, ImplementsChannel, Channel!Spec
====
