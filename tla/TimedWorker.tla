---- MODULE TimedWorker ----
(***************************************************************************)
(* A TimedWorker (timed_worker.cpp of RealTime_Embedded_Systems): a thread *)
(* that runs m_work every m_timer_minutes minutes, and the Owner that      *)
(* starts and stops it.  timer_target is a whole minute, so all the code   *)
(* can tell about time is how many minutes are left until the target:      *)
(* the clock is the action MinuteTurn, which any step may precede.         *)
(* m_mutex is locked by the worker thread alone, hence never contended,    *)
(* and is not modelled; that stop() does not take it is the point of       *)
(* several properties below.                                               *)
(* TimedInit, TimedNext and their like have names of their own because the *)
(* proofs are in one module with those of WebsocketClient.                 *)
(***************************************************************************)
EXTENDS Naturals

CONSTANT Period         \* m_timer_minutes

ASSUME PeriodAssumption == Period \in Nat \ {0}

VARIABLES stopFlag,     \* m_stop_flag
          workerAt,     \* where timedLoop() is; "none": not joinable
          notified,     \* the sleeping worker was woken, by notify or for no reason
          ownerAt,      \* where stop() is; "ready" outside of it
          left,         \* minutes until timer_target; 0: reached
          sinceRun      \* history: minute turns since m_work was last
                        \* called, counted up to Period

timedVars == <<stopFlag, workerAt, notified, ownerAt, left, sinceRun>>
time == <<left, sinceRun>>

WorkerPlaces == {"none", "arm", "check", "wait", "asleep", "decide", "work", "exited"}

TimedInit ==
    /\ stopFlag = TRUE
    /\ workerAt = "none" /\ notified = FALSE
    /\ ownerAt = "ready"
    /\ left = 0 /\ sinceRun = Period

(* The wall clock enters a new minute; nothing bounds how late a thread    *)
(* notices.                                                                *)
MinuteTurn ==
    /\ left' = IF left > 0 THEN left - 1 ELSE 0
    /\ sinceRun' = IF sinceRun < Period THEN sinceRun + 1 ELSE Period
    /\ UNCHANGED <<stopFlag, workerAt, notified, ownerAt>>

----------------------------------------------------------------------------
(* The owner *)

(* Without effect on an object whose thread is joinable. *)
Start ==
    /\ ownerAt = "ready"
    /\ workerAt = "none"
    /\ stopFlag' = FALSE
    /\ workerAt' = "arm"
    /\ UNCHANGED <<notified, ownerAt, time>>

StopSetFlag ==
    /\ ownerAt = "ready"
    /\ stopFlag' = TRUE
    /\ ownerAt' = "notify"
    /\ UNCHANGED <<workerAt, notified, time>>

(* notify_all reaches a worker that is asleep, and no other. *)
StopNotify ==
    /\ ownerAt = "notify"
    /\ notified' = (notified \/ workerAt = "asleep")
    /\ ownerAt' = "join"
    /\ UNCHANGED <<stopFlag, workerAt, time>>

Join ==
    /\ ownerAt = "join"
    /\ workerAt \in {"none", "exited"}
    /\ workerAt' = "none"
    /\ ownerAt' = "ready"
    /\ UNCHANGED <<stopFlag, notified, time>>

----------------------------------------------------------------------------
(* The worker: timedLoop() *)

(* Faulty variant: the target is the next minute boundary but one short. *)
ArmShort ==
    /\ workerAt = "arm"
    /\ left' = Period - 1
    /\ workerAt' = "check"
    /\ UNCHANGED <<stopFlag, notified, ownerAt, sinceRun>>

(* timer_target = floor(now) + m_timer_minutes *)
Arm ==
    /\ workerAt = "arm"
    /\ left' = Period
    /\ workerAt' = "check"
    /\ UNCHANGED <<stopFlag, notified, ownerAt, sinceRun>>

(* The condition of the inner while: the flag, then the clock.  The flag   *)
(* can only be set between the two reads, and a worker that missed that    *)
(* sees it in Decide, or sleeps on it.                                     *)
Check ==
    /\ workerAt = "check"
    /\ workerAt' = IF ~stopFlag /\ left > 0 THEN "wait" ELSE "decide"
    /\ UNCHANGED <<stopFlag, notified, ownerAt, time>>

(* wait_until releases the lock and sleeps. *)
Sleep ==
    /\ workerAt = "wait"
    /\ workerAt' = "asleep"
    /\ notified' = FALSE
    /\ UNCHANGED <<stopFlag, ownerAt, time>>

(* Faulty variant: an if in place of the inner while. *)
WakeToDecide ==
    /\ workerAt = "asleep"
    /\ notified \/ left = 0
    /\ workerAt' = "decide"
    /\ UNCHANGED <<stopFlag, notified, ownerAt, time>>

(* wait_until returns because it was woken or because its time is up. *)
Wake ==
    /\ workerAt = "asleep"
    /\ notified \/ left = 0
    /\ workerAt' = "check"
    /\ UNCHANGED <<stopFlag, notified, ownerAt, time>>

SpuriousWakeup ==
    /\ workerAt = "asleep"
    /\ notified' = TRUE
    /\ UNCHANGED <<stopFlag, workerAt, ownerAt, time>>

(* Faulty variant: the flag is not looked at again after the wait. *)
DecideToWork ==
    /\ workerAt = "decide"
    /\ workerAt' = "work"
    /\ sinceRun' = 0
    /\ UNCHANGED <<stopFlag, notified, ownerAt, left>>

(* Leave the loop, or call m_work. *)
Decide ==
    /\ workerAt = "decide"
    /\ IF stopFlag
       THEN workerAt' = "exited" /\ UNCHANGED sinceRun
       ELSE workerAt' = "work" /\ sinceRun' = 0
    /\ UNCHANGED <<stopFlag, notified, ownerAt, left>>

WorkDone ==
    /\ workerAt = "work"
    /\ workerAt' = "arm"
    /\ UNCHANGED <<stopFlag, notified, ownerAt, time>>

----------------------------------------------------------------------------
WorkerStep == Arm \/ Check \/ Sleep \/ Wake \/ Decide \/ WorkDone
StopStep == StopNotify \/ Join

TimedNext ==
    \/ MinuteTurn
    \/ Start
    \/ StopSetFlag
    \/ StopStep
    \/ WorkerStep
    \/ SpuriousWakeup

(* Time passes, threads are scheduled and m_work returns. *)
TimedFairness ==
    /\ WF_timedVars(MinuteTurn)
    /\ WF_timedVars(WorkerStep)
    /\ WF_timedVars(StopStep)

TimedSpec == TimedInit /\ [][TimedNext]_timedVars /\ TimedFairness

----------------------------------------------------------------------------
(* Properties *)

TimedTypeOK ==
    /\ stopFlag \in BOOLEAN
    /\ workerAt \in WorkerPlaces
    /\ notified \in BOOLEAN
    /\ ownerAt \in {"ready", "notify", "join"}
    /\ left \in 0..Period
    /\ sinceRun \in 0..Period

(* stop() keeps the flag set until the thread is joined, and once it has   *)
(* returned there is no thread left to call m_work.                        *)
FlagInv ==
    /\ ownerAt # "ready" => stopFlag
    /\ workerAt \in {"none", "exited"} => stopFlag
    /\ ownerAt = "ready" /\ stopFlag => workerAt = "none"

(* The minutes left to the target make up for those already passed: when   *)
(* the target is reached, Period minute turns separate it from the last    *)
(* call of m_work, across stop() and restart.                              *)
TimeInv ==
    /\ workerAt \in {"check", "wait", "asleep"} => sinceRun + left >= Period
    /\ workerAt = "decide" => stopFlag \/ sinceRun = Period

(* The inductive invariant. *)
TimedInv == TimedTypeOK /\ FlagInv /\ TimeInv

(* m_work is called at most once per Period minutes, whatever wakes the    *)
(* worker and however long m_work takes: the exporting worker never writes *)
(* two rows for one minute.                                                *)
OncePerPeriod ==
    [][workerAt # "work" /\ workerAt' = "work" => sinceRun = Period]_timedVars

(* stop() returns, at the latest when the timer's target is reached: its   *)
(* notification may come between Check and Sleep and be lost, whatever     *)
(* timed_worker.hpp says of m_cv.                                          *)
StopReturns == (ownerAt = "notify") ~> (ownerAt = "ready")
====
