---- MODULE WebsocketClient ----
(***************************************************************************)
(* The WebsocketClient of RealTime_Embedded_Systems (finnhub_client.cpp)   *)
(* run by main() (main.cpp), with SIGINT: the main thread publishes the    *)
(* client in clientPtr, calls run() and destroys the client; the signal    *)
(* handler calls stop() between any two of its steps.  libwebsockets is    *)
(* external: a connection is opened by lws_client_connect_via_info and     *)
(* changes when lws_service delivers one of its callbacks.                 *)
(*                                                                         *)
(* The handler runs on the main thread, so stop() is one step.             *)
(***************************************************************************)
EXTENDS Naturals, Integers, FiniteSetsExt

CONSTANTS NumSymbols,       \* m_symbols.size()
          InitialDelay,     \* m_initial_reconnection_delay
          MaxDelay,         \* m_max_reconnection_delay
          MaxAttempts,      \* m_max_connection_attempts
          Width,            \* bits of an int
          MaxSignals,       \* bound: how many SIGINTs arrive
          MaxErrors         \* bound: how often lws_service reports an error

ASSUME ConstantsAssumption ==
    /\ NumSymbols \in Nat \ {0}
    /\ InitialDelay \in Nat /\ MaxDelay \in Nat /\ MaxAttempts \in Nat
    /\ Width \in Nat \ {0}
    /\ MaxSignals \in Nat /\ MaxErrors \in Nat

(* What the provers need to know of the powers of two. *)
ASSUME PowersAssumption ==
    /\ \A n \in 0 .. Width : 2^n \in Nat \ {0}
    /\ 2^Width = 2 * 2^(Width - 1)
    /\ \A n \in 0 .. Width - 2 : 2^n < 2^(Width - 1)

VARIABLES at,           \* where the main thread is
          published,    \* clientPtr points at the client
          shouldStop,   \* m_should_stop
          wsi,          \* m_wsi # nullptr
          opened,       \* what lws_client_connect_via_info returned is not null
          subscribed,   \* m_subscribed
          attempts,     \* m_connection_attempts
          delay,        \* reconnect_timeout_ms
          initial,      \* connect() was called from the first line of run()
          conn,         \* external: the connection opened last, which m_wsi
                        \* points to until it is cleared
          writable,     \* external: a WRITEABLE callback was requested for it
          written,      \* lws_write calls made on it
          abandoned,    \* external: how many earlier connections are open still,
                        \* by state
          failed,       \* history: reconnections failed since the last success,
                        \* counted up to MaxAttempts + 1
          late,         \* history: connect() calls since stop() was called in run()
          signals,      \* history: SIGINTs so far
          errors        \* history: errors lws_service has reported

locals == <<published, opened, delay, initial>>
members == <<shouldStop, wsi, subscribed, attempts>>
external == <<conn, writable, written, abandoned>>
history == <<failed, late, signals, errors>>
vars == <<at, locals, members, external, history>>

Places == {"boot", "ready", "connect", "assign", "timeout", "poll", "service",
           "subscribe", "subscribed", "ran", "retry", "sleep", "returned",
           "teardown", "exited", "crashed"}

(* run() has returned. *)
Ended == {"returned", "teardown", "exited"}

(* States of an earlier connection; "writable" is open with a WRITEABLE to come. *)
States == {"connecting", "open", "writable"}

Init ==
    /\ at = "boot" /\ published = FALSE
    /\ shouldStop = TRUE /\ wsi = FALSE /\ opened = FALSE /\ subscribed = FALSE
    /\ attempts = 0 /\ delay = 0 /\ initial = TRUE
    /\ conn = "none" /\ writable = FALSE /\ written = 0
    /\ abandoned = [s \in States |-> 0]
    /\ failed = 0 /\ late = 0 /\ signals = 0 /\ errors = 0

----------------------------------------------------------------------------
(* main() *)

Publish ==
    /\ at = "boot"
    /\ published' = TRUE
    /\ at' = "ready"
    /\ UNCHANGED <<opened, delay, initial, members, external, history>>

(* The client is destroyed before the workers; lws_context_destroy closes  *)
(* what is still open.  clientPtr keeps its value.                         *)
Destroy ==
    /\ at = "returned"
    /\ at' = "teardown"
    /\ wsi' = FALSE /\ subscribed' = FALSE
    /\ conn' = "none" /\ writable' = FALSE
    /\ abandoned' = [s \in States |-> 0]
    /\ UNCHANGED <<locals, shouldStop, attempts, written, history>>

Exit ==
    /\ at = "teardown"
    /\ at' = "exited"
    /\ UNCHANGED <<locals, members, external, history>>

----------------------------------------------------------------------------
(* run() and connect() *)

EnterRun ==
    /\ at = "ready"
    /\ shouldStop' = FALSE
    /\ at' = "connect"
    /\ UNCHANGED <<locals, wsi, subscribed, attempts, external, history>>

AfterConnect == IF initial THEN "ran" ELSE "retry"
FailedNow == IF initial THEN 0 ELSE IF failed > MaxAttempts THEN failed ELSE failed + 1

(* A connection object is made, or not.  One that is open still stays in   *)
(* the context, where nothing refers to it once m_wsi is assigned.         *)
Connect ==
    /\ at = "connect"
    /\ attempts' = attempts + 1
    /\ opened' \in BOOLEAN
    /\ conn' = IF opened' THEN "connecting" ELSE "none"
    /\ writable' = FALSE
    /\ written' = 0
    /\ abandoned' = IF conn = "none" THEN abandoned
                    ELSE [abandoned EXCEPT ![IF writable THEN "writable" ELSE conn] = @ + 1]
    /\ late' = IF shouldStop THEN late + 1 ELSE late
    /\ at' = "assign"
    /\ UNCHANGED <<published, delay, initial, shouldStop, wsi, subscribed,
                   failed, signals, errors>>

(* m_wsi receives the result; a signal may have come in between. *)
Assign ==
    /\ at = "assign"
    /\ wsi' = opened
    /\ IF opened
       THEN at' = "timeout" /\ UNCHANGED failed
       ELSE at' = AfterConnect /\ failed' = FailedNow
    /\ UNCHANGED <<locals, shouldStop, subscribed, attempts, external,
                   late, signals, errors>>

(* lws_set_timeout(m_wsi, ...): undefined when stop() has cleared m_wsi. *)
SetTimeout ==
    /\ at = "timeout"
    /\ at' = IF wsi THEN "poll" ELSE "crashed"
    /\ UNCHANGED <<locals, members, external, history>>

(* The first condition of the event loop; ServiceFails is the second.      *)
Poll ==
    /\ at = "poll"
    /\ at' = IF wsi THEN "service" ELSE AfterConnect
    /\ UNCHANGED <<locals, members, external, history>>

FirstConnectReturned ==
    /\ at = "ran"
    /\ attempts' = 0
    /\ initial' = FALSE
    /\ at' = "retry"
    /\ UNCHANGED <<published, opened, delay, shouldStop, wsi, subscribed, external, history>>

(* Signed arithmetic in Width bits: what does not fit wraps around, and a  *)
(* shift counts modulo the width, as the processor does it.                *)
Wrap(n) == ((n + 2^(Width - 1)) % 2^Width) - 2^(Width - 1)
Shift(n) == Wrap(2^(n % Width))
BackoffDelay == Min({Wrap(InitialDelay * Shift(attempts)), MaxDelay})

(* Faulty variant: the loop only counts attempts. *)
RetryUnlessExhausted ==
    /\ at = "retry"
    /\ IF attempts < MaxAttempts
       THEN delay' = BackoffDelay /\ at' = "sleep"
       ELSE at' = "returned" /\ UNCHANGED delay
    /\ UNCHANGED <<published, opened, initial, members, external, history>>

(* The condition of the reconnection loop, and the delay of the next try. *)
Retry ==
    /\ at = "retry"
    /\ IF ~shouldStop /\ attempts < MaxAttempts
       THEN delay' = BackoffDelay /\ at' = "sleep"
       ELSE at' = "returned" /\ UNCHANGED delay
    /\ UNCHANGED <<published, opened, initial, members, external, history>>

SleepDone ==
    /\ at = "sleep"
    /\ at' = "connect"
    /\ UNCHANGED <<locals, members, external, history>>

----------------------------------------------------------------------------
(* lws_service and websocketCallback.  A call of lws_service delivers any  *)
(* number of callbacks, of the connection m_wsi points to and of earlier   *)
(* ones, and returns; what ESTABLISHED requests comes in a later call.     *)

(* There is nothing more to do. *)
ServiceReturns ==
    /\ at = "service"
    /\ at' = "poll"
    /\ UNCHANGED <<locals, members, external, history>>

(* lws_service returns a negative number: connect() returns, whatever the  *)
(* state of the connection, with m_wsi and m_subscribed as they are.       *)
ServiceFails ==
    /\ at = "service"
    /\ errors < MaxErrors
    /\ errors' = errors + 1
    /\ failed' = IF conn = "connecting" THEN FailedNow ELSE failed
    /\ at' = AfterConnect
    /\ UNCHANGED <<locals, members, external, late, signals>>

(* Faulty variant: a success does not clear the attempt count. *)
EstablishedKeepsCount ==
    /\ at = "service" /\ conn = "connecting"
    /\ conn' = "open"
    /\ writable' = TRUE
    /\ failed' = 0
    /\ at' = "poll"
    /\ UNCHANGED <<locals, members, written, abandoned, late, signals, errors>>

Established ==
    /\ at = "service" /\ conn = "connecting"
    /\ conn' = "open"
    /\ attempts' = 0
    /\ writable' = TRUE
    /\ failed' = 0
    /\ at' = "poll"
    /\ UNCHANGED <<locals, shouldStop, wsi, subscribed, written, abandoned,
                   late, signals, errors>>

(* Faulty variant: a lost connection stays marked as subscribed. *)
ResetKeepsSubscribed ==
    /\ wsi' = FALSE
    /\ UNCHANGED subscribed

(* What CONNECTION_ERROR and CLOSED do, and the WSI_DESTROY that follows,  *)
(* of whichever connection: m_wsi is cleared and reset() called.           *)
Reset ==
    /\ wsi' = FALSE
    /\ subscribed' = FALSE

(* Faulty variant: giving up on an attempt clears the attempt count. *)
ConnectionErrorClearsCount ==
    /\ at = "service" /\ conn = "connecting"
    /\ Reset
    /\ conn' = "none" /\ writable' = FALSE
    /\ attempts' = 0
    /\ failed' = FailedNow
    /\ UNCHANGED <<at, locals, shouldStop, written, abandoned, late, signals, errors>>

ConnectionError ==
    /\ at = "service" /\ conn = "connecting"
    /\ Reset
    /\ conn' = "none" /\ writable' = FALSE
    /\ failed' = FailedNow
    /\ UNCHANGED <<at, locals, shouldStop, attempts, written, abandoned,
                   late, signals, errors>>

Closed ==
    /\ at = "service" /\ conn = "open"
    /\ Reset
    /\ conn' = "none" /\ writable' = FALSE
    /\ UNCHANGED <<at, locals, shouldStop, attempts, written, abandoned, history>>

Writeable ==
    /\ at = "service" /\ conn = "open" /\ writable
    /\ writable' = FALSE
    /\ at' = IF subscribed THEN "service" ELSE "subscribe"
    /\ UNCHANGED <<locals, members, conn, written, abandoned, history>>

(* The same callbacks of an earlier connection: its user data is the same  *)
(* client, so they act on m_wsi and m_subscribed all the same.             *)
OldEstablished ==
    /\ at = "service" /\ abandoned["connecting"] > 0
    /\ abandoned' = [abandoned EXCEPT !["connecting"] = @ - 1, !["writable"] = @ + 1]
    /\ attempts' = 0
    /\ failed' = 0
    /\ UNCHANGED <<at, locals, shouldStop, wsi, subscribed, conn, writable, written,
                   late, signals, errors>>

OldDropped ==
    /\ at = "service"
    /\ \E s \in States :
          abandoned[s] > 0 /\ abandoned' = [abandoned EXCEPT ![s] = @ - 1]
    /\ Reset
    /\ UNCHANGED <<at, locals, shouldStop, attempts, conn, writable, written, history>>

OldWriteable ==
    /\ at = "service" /\ abandoned["writable"] > 0
    /\ abandoned' = [abandoned EXCEPT !["writable"] = @ - 1, !["open"] = @ + 1]
    /\ at' = IF subscribed THEN "service" ELSE "subscribe"
    /\ UNCHANGED <<locals, members, conn, writable, written, history>>

(* subscribeToSymbols: one lws_write per symbol, to m_wsi, undefined when  *)
(* that has been cleared; a write that fails is skipped.                   *)
WriteSymbol ==
    /\ at = "subscribe"
    /\ IF wsi
       THEN /\ written' = written + 1
            /\ at' = IF written' = NumSymbols THEN "subscribed" ELSE "subscribe"
       ELSE at' = "crashed" /\ UNCHANGED written
    /\ UNCHANGED <<locals, members, conn, writable, abandoned, history>>

MarkSubscribed ==
    /\ at = "subscribed"
    /\ subscribed' = TRUE
    /\ at' = "service"
    /\ UNCHANGED <<locals, shouldStop, wsi, attempts, external, history>>

----------------------------------------------------------------------------
(* The signal handler *)

SigInt ==
    /\ at \notin {"exited", "crashed"}
    /\ signals < MaxSignals
    /\ signals' = signals + 1
    /\ UNCHANGED <<locals, attempts, external, failed, late, errors>>

(* Before clientPtr is set the handler only logs. *)
SignalIgnored ==
    /\ SigInt
    /\ ~published
    /\ UNCHANGED <<at, shouldStop, wsi, subscribed>>

(* stop(): the flag, then reset(), which forgets m_wsi but leaves closing  *)
(* the connection to libwebsockets.                                        *)
SignalStops ==
    /\ SigInt
    /\ published /\ at # "teardown"
    /\ shouldStop' = TRUE
    /\ Reset
    /\ UNCHANGED at

(* stop() on the destroyed client. *)
SignalDangles ==
    /\ SigInt
    /\ at = "teardown"
    /\ at' = "crashed"
    /\ UNCHANGED <<shouldStop, wsi, subscribed>>

----------------------------------------------------------------------------
Service ==
    \/ ServiceReturns \/ ServiceFails
    \/ Established \/ ConnectionError \/ Closed \/ Writeable
    \/ OldEstablished \/ OldDropped \/ OldWriteable

MainStep ==
    \/ Publish \/ EnterRun \/ Connect \/ Assign \/ SetTimeout \/ Poll
    \/ FirstConnectReturned \/ Retry \/ SleepDone \/ Service
    \/ WriteSymbol \/ MarkSubscribed \/ Destroy \/ Exit

Next ==
    \/ MainStep
    \/ SignalIgnored \/ SignalStops \/ SignalDangles

(* The main thread runs, and a connection that is being established either *)
(* is or fails: lws_set_timeout gives it two seconds.                      *)
Fairness ==
    /\ WF_vars(MainStep)
    /\ SF_vars(Established \/ ConnectionError)

Spec == Init /\ [][Next]_vars /\ Fairness

----------------------------------------------------------------------------
(* Properties *)

(* The types; the value of delay is what BackoffExact is about. *)
TypeOK ==
    /\ at \in Places
    /\ published \in BOOLEAN /\ shouldStop \in BOOLEAN /\ wsi \in BOOLEAN
    /\ opened \in BOOLEAN /\ subscribed \in BOOLEAN /\ initial \in BOOLEAN
    /\ attempts \in Nat
    /\ conn \in {"none", "connecting", "open"}
    /\ writable \in BOOLEAN /\ written \in 0..NumSymbols
    /\ abandoned \in [States -> Nat]
    /\ failed \in Nat /\ late \in Nat /\ signals \in Nat /\ errors \in Nat

(* The connections nothing refers to, and all there are. *)
Abandoned == abandoned["connecting"] + abandoned["open"] + abandoned["writable"]
Connections == Abandoned + (IF conn = "none" THEN 0 ELSE 1)

(* connect() finds at most as many connections open as lws_service has     *)
(* reported errors, and none without an error: m_wsi never outlives its    *)
(* connection, and without an error a connection is only left with m_wsi   *)
(* cleared by a client that was told to stop.                              *)
OneConnection ==
    /\ at \in {"boot", "ready", "connect", "sleep"} => Connections <= errors
    /\ wsi /\ at # "assign" => conn # "none"
    /\ conn # "none" /\ ~wsi /\ errors = 0 => shouldStop \/ at = "assign"

(* The client's idea of its subscription: on an open connection in the     *)
(* event loop, either the flag is set, or the callback that subscribes is  *)
(* on its way; and until lws_service reports an error, the flag means that *)
(* every symbol was written on this very connection.                       *)
Subscription ==
    wsi /\ conn = "open" /\ at \in {"poll", "service"} =>
        /\ ~subscribed => writable
        /\ subscribed /\ errors = 0 => written = NumSymbols

(* A null m_wsi is never used, unless a signal or an error of lws_service  *)
(* came before.                                                            *)
NoNullPointer == at = "crashed" => signals > 0 \/ errors > 0

(* The delay after n failures in a row, before it is limited, is computed  *)
(* without overflow.                                                       *)
Fits(n) == n < Width - 1 /\ InitialDelay * 2^n < 2^(Width - 1)

(* Until lws_service reports an error, fewer than MaxAttempts              *)
(* reconnections fail in a row; after n of them the next one waits         *)
(* InitialDelay * 2^n, at most MaxDelay, if the product fits an int; a     *)
(* successful connection starts over.  No delay is longer than MaxDelay.   *)
BackoffExact ==
    at = "sleep" =>
        /\ delay <= MaxDelay
        /\ errors = 0 => /\ failed < MaxAttempts
                         /\ Fits(failed) => delay = Min({InitialDelay * 2^failed, MaxDelay})

(* Once run() is under way, stop() lets the client begin at most one more  *)
(* connection, however many signals arrive.                                *)
AtMostOneLateConnect == late <= 1

(* A connection is left for the next connect() to find. *)
Leaving ==
    /\ conn # "none"
    /\ \/ at \in {"connect", "sleep"}
       \/ ~shouldStop /\ at \in {"ran", "retry"}
       \/ ~shouldStop /\ at \in {"poll", "service"} /\ ~wsi

(* How the loop gets there, whatever lws_service reports: each error lets  *)
(* one connection be left behind, a round of subscriptions begins with     *)
(* nothing written, and a connection begun late is begun by a client whose *)
(* next look at m_should_stop ends the loop.                               *)
LoopInv ==
    /\ Abandoned + (IF Leaving THEN 1 ELSE 0) <= errors
    /\ at \in {"boot", "ready"} => conn = "none" /\ ~wsi /\ ~subscribed
    /\ writable => conn = "open"
    /\ at = "assign" => (opened <=> conn # "none") /\ written = 0
    /\ at = "assign" => conn # "open"
    /\ at = "timeout" => conn = "connecting"
    /\ wsi /\ ~subscribed /\ at \notin {"subscribe", "subscribed"} => written = 0
    /\ at \in {"subscribe", "subscribed"} => ~subscribed
    /\ at = "subscribe" /\ wsi => written < NumSymbols
    /\ at = "subscribed" => written = NumSymbols
    /\ at = "subscribed" /\ ~wsi => shouldStop
    /\ shouldStop /\ at \notin {"boot", "ready"} => signals > 0
    /\ late = 1 => shouldStop /\ at \notin {"boot", "ready", "connect", "sleep"}

(* Until lws_service reports an error: a connection is established from    *)
(* the event loop of its connect() only, a subscription is under way only  *)
(* where the callback runs.                                                *)
ServedInv ==
    errors = 0 =>
        /\ at \in {"assign", "ran", "retry"} => ~wsi
        /\ at \in {"connect", "assign", "timeout", "sleep"} => ~subscribed
        /\ conn = "connecting" \/ writable => written = 0
        /\ conn = "connecting" => ~subscribed
        /\ subscribed => wsi \/ shouldStop
        /\ at \in {"subscribe", "subscribed"} => conn = "open" /\ ~writable

(* What attempts counts until then: the reconnections failed in a row and, *)
(* while one is under way, that one too.  Only a client that was told to   *)
(* stop leaves the loop of connect() with a connection still being         *)
(* established.                                                            *)
CountInv ==
    /\ initial => failed = 0
    /\ at \in {"boot", "ready", "ran"} => initial
    /\ at \in {"retry", "sleep"} => ~initial
    /\ errors = 0 =>
        /\ failed <= MaxAttempts
        /\ ~initial /\ at \in {"connect", "sleep"} => attempts = failed /\ failed < MaxAttempts
        /\ ~initial /\ at \in {"assign", "timeout"} =>
               attempts = failed + 1 /\ failed < MaxAttempts
        /\ ~initial /\ at \in {"poll", "service", "subscribe", "subscribed"} =>
               IF conn = "connecting" THEN attempts = failed + 1 /\ failed < MaxAttempts
               ELSE attempts = failed
        /\ at = "retry" => shouldStop \/ attempts = failed

(* The inductive invariant: the types, and the conjuncts above that hold   *)
(* each other up.                                                          *)
ConnectionInv ==
    /\ TypeOK
    /\ OneConnection
    /\ Subscription
    /\ NoNullPointer
    /\ AtMostOneLateConnect
    /\ LoopInv
    /\ ServedInv

IInv == ConnectionInv /\ CountInv

(* The client gives up: connections are established again and again or one *)
(* stays open, or run() ends, unless a null pointer ends it.               *)
GivesUp ==
    []<>(conn = "open") \/ []<><<OldEstablished>>_vars \/ <>(at \in Ended \cup {"crashed"})

(* A connection of the current lws_service call may still ask to subscribe. *)
MaySubscribe == writable \/ abandoned["connecting"] > 0 \/ abandoned["writable"] > 0

(* stop() in the event loop makes run() return, and nothing crashes on the *)
(* way, unless it comes with a subscription about to be made.              *)
StopEndsLoop ==
    (/\ shouldStop /\ ~wsi
     /\ \/ at = "poll"
        \/ at = "service" /\ ~MaySubscribe)
    ~> (at \in Ended)

(* "Closes the WebSocket connection and stops the client loop"             *)
(* (finnhub_client.hpp on stop()): it does not go on serving a connection. *)
(* That it may crash instead is the matter of NoNullPointer.               *)
StopEndsRun ==
    (shouldStop /\ at \notin {"boot", "ready"}) ~> (at \in Ended \cup {"crashed"})
====
