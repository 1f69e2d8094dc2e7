---- MODULE ClientAndTimerProofs ----
(***************************************************************************)
(* Proofs about the threads that wait for time to pass.  WebsocketClient,  *)
(* for every number of symbols, attempts, signals and errors, every delay  *)
(* and every width of an int: the inductive invariant, what it says of the *)
(* connections, the subscription, a late attempt and null pointers, and    *)
(* the exact backoff.  TimedWorker, for every period: the inductive        *)
(* invariant, and that it works once per period at most.                   *)
(***************************************************************************)
EXTENDS WebsocketClient, TimedWorker, TLAPS

----------------------------------------------------------------------------
(* WebsocketClient *)

(* What the actions do to the connections left behind. *)
LEMMA AbandonedCount ==
    ASSUME TypeOK
    PROVE  /\ Abandoned \in Nat
           /\ Connect => Abandoned' = Abandoned + (IF conn = "none" THEN 0 ELSE 1)
           /\ OldEstablished \/ OldWriteable => Abandoned' = Abandoned
           /\ OldDropped => Abandoned' = Abandoned - 1
           /\ abandoned' = abandoned => Abandoned' = Abandoned
<1>1. /\ abandoned["connecting"] \in Nat /\ abandoned["open"] \in Nat
      /\ abandoned["writable"] \in Nat
      /\ DOMAIN abandoned = States
    BY DEF TypeOK, States
<1>2. Abandoned \in Nat
    BY <1>1 DEF Abandoned
<1>3. Connect => Abandoned' = Abandoned + (IF conn = "none" THEN 0 ELSE 1)
    BY <1>1 DEF Connect, Abandoned, States, TypeOK
<1>4. OldEstablished \/ OldWriteable => Abandoned' = Abandoned
    BY <1>1 DEF OldEstablished, OldWriteable, Abandoned, States
<1>5. OldDropped => Abandoned' = Abandoned - 1
    BY <1>1 DEF OldDropped, Abandoned, States
<1> QED BY <1>2, <1>3, <1>4, <1>5 DEF Abandoned

LEMMA InitConnectionInv == Init => ConnectionInv
<1> SUFFICES ASSUME Init PROVE ConnectionInv
    OBVIOUS
<1>1. TypeOK
    <2>1. at \in Places /\ conn \in {"none", "connecting", "open"}
        BY DEF Init, Places
    <2>2. /\ published \in BOOLEAN /\ shouldStop \in BOOLEAN /\ wsi \in BOOLEAN
          /\ opened \in BOOLEAN /\ subscribed \in BOOLEAN
          /\ initial \in BOOLEAN /\ writable \in BOOLEAN
        BY DEF Init
    <2>3. attempts \in Nat /\ failed \in Nat /\ late \in Nat /\ signals \in Nat /\ errors \in Nat
        BY DEF Init
    <2>4. written \in 0..NumSymbols
        BY ConstantsAssumption DEF Init
    <2>5. abandoned \in [States -> Nat]
        BY DEF Init
    <2> QED BY <2>1, <2>2, <2>3, <2>4, <2>5 DEF TypeOK
<1>2. Abandoned = 0 /\ ~Leaving
    BY DEF Init, Abandoned, States, Leaving
<1>3. OneConnection /\ Subscription /\ NoNullPointer /\ AtMostOneLateConnect
    BY <1>2 DEF Init, OneConnection, Connections, Subscription, NoNullPointer, AtMostOneLateConnect
<1>4. LoopInv /\ ServedInv
    BY <1>2 DEF Init, LoopInv, ServedInv
<1> QED BY <1>1, <1>3, <1>4 DEF ConnectionInv

LEMMA StepTypeOK == TypeOK /\ LoopInv /\ [Next]_vars => TypeOK'
<1> SUFFICES ASSUME TypeOK, LoopInv, [Next]_vars PROVE TypeOK'
    OBVIOUS
<1> USE ConstantsAssumption DEF TypeOK, Places, locals, members, external, history
<1>1. CASE Publish \/ EnterRun \/ Assign \/ SetTimeout \/ Poll \/ FirstConnectReturned
    <2>1. at' \in Places /\ conn' \in {"none", "connecting", "open"}
        BY <1>1 DEF Publish, EnterRun, Assign, SetTimeout, Poll,
            FirstConnectReturned, FailedNow, AfterConnect
    <2>2. /\ published' \in BOOLEAN /\ shouldStop' \in BOOLEAN /\ wsi' \in BOOLEAN
          /\ opened' \in BOOLEAN /\ subscribed' \in BOOLEAN
          /\ initial' \in BOOLEAN /\ writable' \in BOOLEAN
        BY <1>1 DEF Publish, EnterRun, Assign, SetTimeout, Poll,
            FirstConnectReturned, FailedNow, AfterConnect
    <2>3. /\ attempts' \in Nat /\ failed' \in Nat /\ late' \in Nat
          /\ signals' \in Nat /\ errors' \in Nat
        BY <1>1 DEF Publish, EnterRun, Assign, SetTimeout, Poll,
            FirstConnectReturned, FailedNow, AfterConnect
    <2>4. written' \in 0..NumSymbols /\ abandoned' \in [States -> Nat]
        BY <1>1 DEF Publish, EnterRun, Assign, SetTimeout, Poll,
            FirstConnectReturned, FailedNow, AfterConnect
    <2> QED BY <2>1, <2>2, <2>3, <2>4
<1>2. CASE Connect
    <2>1. /\ at' \in Places /\ conn' \in {"none", "connecting", "open"}
          /\ opened' \in BOOLEAN /\ writable' \in BOOLEAN
        BY <1>2 DEF Connect
    <2>2. /\ attempts' \in Nat /\ late' \in Nat /\ written' \in 0..NumSymbols
          /\ UNCHANGED <<published, delay, initial, shouldStop, wsi, subscribed,
                         failed, signals, errors>>
        BY <1>2 DEF Connect
    <2>3. abandoned' \in [States -> Nat]
        BY <1>2 DEF Connect, States
    <2> QED BY <2>1, <2>2, <2>3
<1>3. CASE Retry \/ SleepDone \/ ServiceReturns
    BY <1>3 DEF Retry, SleepDone, ServiceReturns
<1>4. CASE ServiceFails
    <2>1. at' \in Places /\ conn' \in {"none", "connecting", "open"}
        BY <1>4 DEF ServiceFails, AfterConnect, FailedNow
    <2>2. /\ published' \in BOOLEAN /\ shouldStop' \in BOOLEAN /\ wsi' \in BOOLEAN
          /\ opened' \in BOOLEAN /\ subscribed' \in BOOLEAN
          /\ initial' \in BOOLEAN /\ writable' \in BOOLEAN
        BY <1>4 DEF ServiceFails, AfterConnect, FailedNow
    <2>3. /\ attempts' \in Nat /\ failed' \in Nat /\ late' \in Nat
          /\ signals' \in Nat /\ errors' \in Nat
        BY <1>4 DEF ServiceFails, AfterConnect, FailedNow
    <2>4. written' \in 0..NumSymbols /\ abandoned' \in [States -> Nat]
        BY <1>4 DEF ServiceFails, AfterConnect, FailedNow
    <2> QED BY <2>1, <2>2, <2>3, <2>4
<1>5. CASE Established \/ Closed
    <2>1. at' \in Places /\ conn' \in {"none", "connecting", "open"}
        BY <1>5 DEF Established, Closed, Reset
    <2>2. /\ published' \in BOOLEAN /\ shouldStop' \in BOOLEAN /\ wsi' \in BOOLEAN
          /\ opened' \in BOOLEAN /\ subscribed' \in BOOLEAN
          /\ initial' \in BOOLEAN /\ writable' \in BOOLEAN
        BY <1>5 DEF Established, Closed, Reset
    <2>3. /\ attempts' \in Nat /\ failed' \in Nat /\ late' \in Nat
          /\ signals' \in Nat /\ errors' \in Nat
        BY <1>5 DEF Established, Closed, Reset
    <2>4. written' \in 0..NumSymbols /\ abandoned' \in [States -> Nat]
        BY <1>5 DEF Established, Closed, Reset
    <2> QED BY <2>1, <2>2, <2>3, <2>4
<1>6. CASE ConnectionError
    <2>1. at' \in Places /\ conn' \in {"none", "connecting", "open"}
        BY <1>6 DEF ConnectionError, Reset, FailedNow
    <2>2. /\ published' \in BOOLEAN /\ shouldStop' \in BOOLEAN /\ wsi' \in BOOLEAN
          /\ opened' \in BOOLEAN /\ subscribed' \in BOOLEAN
          /\ initial' \in BOOLEAN /\ writable' \in BOOLEAN
        BY <1>6 DEF ConnectionError, Reset, FailedNow
    <2>3. /\ attempts' \in Nat /\ failed' \in Nat /\ late' \in Nat
          /\ signals' \in Nat /\ errors' \in Nat
        BY <1>6 DEF ConnectionError, Reset, FailedNow
    <2>4. written' \in 0..NumSymbols /\ abandoned' \in [States -> Nat]
        BY <1>6 DEF ConnectionError, Reset, FailedNow
    <2> QED BY <2>1, <2>2, <2>3, <2>4
<1>7. CASE Writeable
    <2>1. at' \in Places /\ conn' \in {"none", "connecting", "open"}
        BY <1>7 DEF Writeable
    <2>2. /\ published' \in BOOLEAN /\ shouldStop' \in BOOLEAN /\ wsi' \in BOOLEAN
          /\ opened' \in BOOLEAN /\ subscribed' \in BOOLEAN
          /\ initial' \in BOOLEAN /\ writable' \in BOOLEAN
        BY <1>7 DEF Writeable
    <2>3. /\ attempts' \in Nat /\ failed' \in Nat /\ late' \in Nat
          /\ signals' \in Nat /\ errors' \in Nat
        BY <1>7 DEF Writeable
    <2>4. written' \in 0..NumSymbols /\ abandoned' \in [States -> Nat]
        BY <1>7 DEF Writeable
    <2> QED BY <2>1, <2>2, <2>3, <2>4
<1>8. CASE OldEstablished
    <2>1. abandoned' \in [States -> Nat]
        BY <1>8 DEF OldEstablished, States
    <2> QED BY <1>8, <2>1 DEF OldEstablished
<1>9. CASE OldDropped
    <2>1. abandoned' \in [States -> Nat]
        BY <1>9 DEF OldDropped, States
    <2> QED BY <1>9, <2>1 DEF OldDropped, Reset
<1>10. CASE OldWriteable
    <2>1. abandoned' \in [States -> Nat]
        BY <1>10 DEF OldWriteable, States
    <2>2. at' \in Places
        BY <1>10 DEF OldWriteable
    <2>3. UNCHANGED <<locals, members, conn, writable, written, history>>
        BY <1>10 DEF OldWriteable
    <2> QED BY <2>1, <2>2, <2>3
<1>11. CASE WriteSymbol
    <2>1. at' \in Places /\ UNCHANGED <<locals, members, conn, writable, abandoned, history>>
        BY <1>11 DEF WriteSymbol
    <2>2. written' \in 0..NumSymbols
        BY <1>11 DEF WriteSymbol, LoopInv
    <2> QED BY <2>1, <2>2
<1>12. CASE MarkSubscribed
    BY <1>12 DEF MarkSubscribed
<1>13. CASE Destroy
    BY <1>13 DEF Destroy
<1>14. CASE Exit \/ SignalIgnored \/ SignalStops \/ SignalDangles
    <2>1. at' \in Places /\ conn' \in {"none", "connecting", "open"}
        BY <1>14 DEF Exit, SignalIgnored, SignalStops, SignalDangles, SigInt, Reset
    <2>2. /\ published' \in BOOLEAN /\ shouldStop' \in BOOLEAN /\ wsi' \in BOOLEAN
          /\ opened' \in BOOLEAN /\ subscribed' \in BOOLEAN
          /\ initial' \in BOOLEAN /\ writable' \in BOOLEAN
        BY <1>14 DEF Exit, SignalIgnored, SignalStops, SignalDangles, SigInt, Reset
    <2>3. /\ attempts' \in Nat /\ failed' \in Nat /\ late' \in Nat
          /\ signals' \in Nat /\ errors' \in Nat
        BY <1>14 DEF Exit, SignalIgnored, SignalStops, SignalDangles, SigInt, Reset
    <2>4. written' \in 0..NumSymbols /\ abandoned' \in [States -> Nat]
        BY <1>14 DEF Exit, SignalIgnored, SignalStops, SignalDangles, SigInt, Reset
    <2> QED BY <2>1, <2>2, <2>3, <2>4
<1>15. CASE UNCHANGED vars
    BY <1>15 DEF vars
<1> QED
    BY <1>1, <1>2, <1>3, <1>4, <1>5, <1>6, <1>7, <1>8, <1>9, <1>10, <1>11,
       <1>12, <1>13, <1>14, <1>15
    DEF Next, MainStep, Service

(* Nothing is left behind but what an error of lws_service lets go.        *)
LEMMA StepLoopInv ==
    ConnectionInv /\ [Next]_vars =>
        OneConnection' /\ NoNullPointer' /\ AtMostOneLateConnect' /\ LoopInv'
<1> SUFFICES ASSUME ConnectionInv, [Next]_vars
             PROVE  OneConnection' /\ NoNullPointer' /\ AtMostOneLateConnect' /\ LoopInv'
    OBVIOUS
<1>0. /\ TypeOK /\ TypeOK'
      /\ Abandoned \in Nat /\ Abandoned' \in Nat
      /\ Connect => Abandoned' = Abandoned + (IF conn = "none" THEN 0 ELSE 1)
      /\ OldEstablished \/ OldWriteable => Abandoned' = Abandoned
      /\ OldDropped => Abandoned' = Abandoned - 1
      /\ abandoned' = abandoned => Abandoned' = Abandoned
    <2>1. TypeOK'
        BY StepTypeOK DEF ConnectionInv
    <2>2. \A a \in [States -> Nat] :
              a["connecting"] + a["open"] + a["writable"] \in Nat
        BY DEF States
    <2>3. Abandoned' \in Nat
        BY <2>1, <2>2 DEF TypeOK, Abandoned
    <2> QED BY <2>1, <2>3, AbandonedCount DEF ConnectionInv
<1> USE <1>0, ConstantsAssumption DEF ConnectionInv, TypeOK, OneConnection, Connections, NoNullPointer,
        AtMostOneLateConnect, LoopInv, Leaving, locals, members, external, history
<1>1. CASE Publish
    BY <1>1 DEF Publish
<1>2. CASE EnterRun
    BY <1>2 DEF EnterRun
<1>3. CASE Connect
    <2>1. OneConnection'
        BY <1>3 DEF Connect
    <2>2. NoNullPointer' /\ AtMostOneLateConnect'
        BY <1>3 DEF Connect
    <2>3. Abandoned' + (IF Leaving' THEN 1 ELSE 0) <= errors'
        <3>1. (Leaving <=> conn # "none") /\ ~Leaving' /\ errors' = errors
            BY <1>3 DEF Connect
        <3>2. Abandoned' = Abandoned + (IF conn = "none" THEN 0 ELSE 1)
            BY <1>3
        <3> QED BY <3>1, <3>2
    <2>4. /\ at' \in {"boot", "ready"} => conn' = "none" /\ ~wsi' /\ ~subscribed'
          /\ writable' => conn' = "open"
          /\ at' = "assign" => (opened' <=> conn' # "none") /\ written' = 0
          /\ at' = "assign" => conn' # "open"
          /\ at' = "timeout" => conn' = "connecting"
        BY <1>3 DEF Connect
    <2>5. wsi' /\ ~subscribed' /\ at' \notin {"subscribe", "subscribed"} => written' = 0
        BY <1>3 DEF Connect
    <2>6. /\ at' \in {"subscribe", "subscribed"} => ~subscribed'
          /\ at' = "subscribe" /\ wsi' => written' < NumSymbols
          /\ at' = "subscribed" => written' = NumSymbols
          /\ at' = "subscribed" /\ ~wsi' => shouldStop'
        BY <1>3 DEF Connect
    <2>7. /\ shouldStop' /\ at' \notin {"boot", "ready"} => signals' > 0
          /\ late' = 1 => shouldStop' /\ at' \notin {"boot", "ready", "connect", "sleep"}
        BY <1>3 DEF Connect
    <2> QED BY <2>1, <2>2, <2>3, <2>4, <2>5, <2>6, <2>7 DEF LoopInv
<1>4. CASE Assign
    BY <1>4 DEF Assign, FailedNow, AfterConnect
<1>5. CASE SetTimeout
    <2>1. OneConnection'
        BY <1>5 DEF SetTimeout
    <2>2. NoNullPointer' /\ AtMostOneLateConnect'
        BY <1>5 DEF SetTimeout
    <2>3. Abandoned' + (IF Leaving' THEN 1 ELSE 0) <= errors'
        <3>1. Leaving' => Leaving
            BY <1>5 DEF SetTimeout
        <3>2. Abandoned' = Abandoned /\ errors' = errors
            BY <1>5 DEF SetTimeout
        <3> HIDE DEF Leaving
        <3> QED BY <3>1, <3>2
    <2>4. /\ at' \in {"boot", "ready"} => conn' = "none" /\ ~wsi' /\ ~subscribed'
          /\ writable' => conn' = "open"
          /\ at' = "assign" => (opened' <=> conn' # "none") /\ written' = 0
          /\ at' = "assign" => conn' # "open"
          /\ at' = "timeout" => conn' = "connecting"
        BY <1>5 DEF SetTimeout
    <2>5. wsi' /\ ~subscribed' /\ at' \notin {"subscribe", "subscribed"} => written' = 0
        BY <1>5 DEF SetTimeout
    <2>6. /\ at' \in {"subscribe", "subscribed"} => ~subscribed'
          /\ at' = "subscribe" /\ wsi' => written' < NumSymbols
          /\ at' = "subscribed" => written' = NumSymbols
          /\ at' = "subscribed" /\ ~wsi' => shouldStop'
        BY <1>5 DEF SetTimeout
    <2>7. /\ shouldStop' /\ at' \notin {"boot", "ready"} => signals' > 0
          /\ late' = 1 => shouldStop' /\ at' \notin {"boot", "ready", "connect", "sleep"}
        BY <1>5 DEF SetTimeout
    <2> QED BY <2>1, <2>2, <2>3, <2>4, <2>5, <2>6, <2>7 DEF LoopInv
<1>6. CASE Poll
    BY <1>6 DEF Poll, AfterConnect
<1>7. CASE FirstConnectReturned
    BY <1>7 DEF FirstConnectReturned
<1>8. CASE Retry
    BY <1>8 DEF Retry
<1>9. CASE SleepDone
    BY <1>9 DEF SleepDone
<1>10. CASE ServiceReturns
    BY <1>10 DEF ServiceReturns
<1>11. CASE ServiceFails
    BY <1>11 DEF ServiceFails, AfterConnect
<1>12. CASE Established
    BY <1>12 DEF Established
<1>13. CASE ConnectionError
    BY <1>13 DEF ConnectionError, Reset
<1>14. CASE Closed
    BY <1>14 DEF Closed, Reset
<1>15. CASE Writeable
    BY <1>15 DEF Writeable
<1>16. CASE OldEstablished
    BY <1>16 DEF OldEstablished
<1>17. CASE OldDropped
    <2>0. Abandoned' = Abandoned - 1 /\ Abandoned <= errors /\ errors' = errors /\ errors > 0
        <3>1. Abandoned' = Abandoned - 1
            BY <1>17
        <3>2. errors' = errors /\ errors \in Nat
            BY <1>17 DEF OldDropped
        <3>3. Abandoned + (IF Leaving THEN 1 ELSE 0) <= errors
            OBVIOUS
        <3> HIDE DEF Leaving
        <3> QED BY <3>1, <3>2, <3>3
    <2>1. OneConnection'
        BY <1>17, <2>0 DEF OldDropped, Reset
    <2>2. NoNullPointer' /\ AtMostOneLateConnect'
        BY <1>17 DEF OldDropped, Reset
    <2>3. Abandoned' + (IF Leaving' THEN 1 ELSE 0) <= errors'
        <3> HIDE DEF Leaving
        <3> QED BY <2>0
    <2>4. /\ at' \in {"boot", "ready"} => conn' = "none" /\ ~wsi' /\ ~subscribed'
          /\ writable' => conn' = "open"
          /\ at' = "assign" => (opened' <=> conn' # "none") /\ written' = 0
          /\ at' = "assign" => conn' # "open"
          /\ at' = "timeout" => conn' = "connecting"
        BY <1>17 DEF OldDropped, Reset
    <2>5. wsi' /\ ~subscribed' /\ at' \notin {"subscribe", "subscribed"} => written' = 0
        BY <1>17 DEF OldDropped, Reset
    <2>6. /\ at' \in {"subscribe", "subscribed"} => ~subscribed'
          /\ at' = "subscribe" /\ wsi' => written' < NumSymbols
          /\ at' = "subscribed" => written' = NumSymbols
          /\ at' = "subscribed" /\ ~wsi' => shouldStop'
        BY <1>17 DEF OldDropped, Reset
    <2>7. /\ shouldStop' /\ at' \notin {"boot", "ready"} => signals' > 0
          /\ late' = 1 => shouldStop' /\ at' \notin {"boot", "ready", "connect", "sleep"}
        BY <1>17 DEF OldDropped, Reset
    <2> QED BY <2>1, <2>2, <2>3, <2>4, <2>5, <2>6, <2>7 DEF LoopInv
<1>18. CASE OldWriteable
    <2>1. OneConnection'
        BY <1>18 DEF OldWriteable
    <2>2. NoNullPointer' /\ AtMostOneLateConnect'
        BY <1>18 DEF OldWriteable
    <2>3. Abandoned' + (IF Leaving' THEN 1 ELSE 0) <= errors'
        <3>1. Leaving' => Leaving
            BY <1>18 DEF OldWriteable
        <3>2. Abandoned' = Abandoned /\ errors' = errors
            BY <1>18 DEF OldWriteable
        <3> HIDE DEF Leaving
        <3> QED BY <3>1, <3>2
    <2>4. /\ at' \in {"boot", "ready"} => conn' = "none" /\ ~wsi' /\ ~subscribed'
          /\ writable' => conn' = "open"
          /\ at' = "assign" => (opened' <=> conn' # "none") /\ written' = 0
          /\ at' = "assign" => conn' # "open"
          /\ at' = "timeout" => conn' = "connecting"
        BY <1>18 DEF OldWriteable
    <2>5. wsi' /\ ~subscribed' /\ at' \notin {"subscribe", "subscribed"} => written' = 0
        BY <1>18 DEF OldWriteable
    <2>6. /\ at' \in {"subscribe", "subscribed"} => ~subscribed'
          /\ at' = "subscribe" /\ wsi' => written' < NumSymbols
          /\ at' = "subscribed" => written' = NumSymbols
          /\ at' = "subscribed" /\ ~wsi' => shouldStop'
        BY <1>18 DEF OldWriteable
    <2>7. /\ shouldStop' /\ at' \notin {"boot", "ready"} => signals' > 0
          /\ late' = 1 => shouldStop' /\ at' \notin {"boot", "ready", "connect", "sleep"}
        BY <1>18 DEF OldWriteable
    <2> QED BY <2>1, <2>2, <2>3, <2>4, <2>5, <2>6, <2>7 DEF LoopInv
<1>19. CASE WriteSymbol
    <2>1. OneConnection'
        BY <1>19 DEF WriteSymbol
    <2>2. NoNullPointer' /\ AtMostOneLateConnect'
        BY <1>19 DEF WriteSymbol, ServedInv
    <2>3. Abandoned' + (IF Leaving' THEN 1 ELSE 0) <= errors'
        <3>1. Leaving' => Leaving
            BY <1>19 DEF WriteSymbol
        <3>2. Abandoned' = Abandoned /\ errors' = errors
            BY <1>19 DEF WriteSymbol
        <3> HIDE DEF Leaving
        <3> QED BY <3>1, <3>2
    <2>4. /\ at' \in {"boot", "ready"} => conn' = "none" /\ ~wsi' /\ ~subscribed'
          /\ writable' => conn' = "open"
          /\ at' = "assign" => (opened' <=> conn' # "none") /\ written' = 0
          /\ at' = "assign" => conn' # "open"
          /\ at' = "timeout" => conn' = "connecting"
        BY <1>19 DEF WriteSymbol
    <2>5. wsi' /\ ~subscribed' /\ at' \notin {"subscribe", "subscribed"} => written' = 0
        BY <1>19 DEF WriteSymbol
    <2>6. /\ at' \in {"subscribe", "subscribed"} => ~subscribed'
          /\ at' = "subscribe" /\ wsi' => written' < NumSymbols
          /\ at' = "subscribed" => written' = NumSymbols
          /\ at' = "subscribed" /\ ~wsi' => shouldStop'
        BY <1>19 DEF WriteSymbol
    <2>7. /\ shouldStop' /\ at' \notin {"boot", "ready"} => signals' > 0
          /\ late' = 1 => shouldStop' /\ at' \notin {"boot", "ready", "connect", "sleep"}
        BY <1>19 DEF WriteSymbol
    <2> QED BY <2>1, <2>2, <2>3, <2>4, <2>5, <2>6, <2>7 DEF LoopInv
<1>20. CASE MarkSubscribed
    <2>1. OneConnection'
        BY <1>20 DEF MarkSubscribed
    <2>2. NoNullPointer' /\ AtMostOneLateConnect'
        BY <1>20 DEF MarkSubscribed
    <2>3. Abandoned' + (IF Leaving' THEN 1 ELSE 0) <= errors'
        <3>1. Leaving' => Leaving
            BY <1>20 DEF MarkSubscribed
        <3>2. Abandoned' = Abandoned /\ errors' = errors
            BY <1>20 DEF MarkSubscribed
        <3> HIDE DEF Leaving
        <3> QED BY <3>1, <3>2
    <2>4. /\ at' \in {"boot", "ready"} => conn' = "none" /\ ~wsi' /\ ~subscribed'
          /\ writable' => conn' = "open"
          /\ at' = "assign" => (opened' <=> conn' # "none") /\ written' = 0
          /\ at' = "assign" => conn' # "open"
          /\ at' = "timeout" => conn' = "connecting"
        BY <1>20 DEF MarkSubscribed
    <2>5. wsi' /\ ~subscribed' /\ at' \notin {"subscribe", "subscribed"} => written' = 0
        BY <1>20 DEF MarkSubscribed
    <2>6. /\ at' \in {"subscribe", "subscribed"} => ~subscribed'
          /\ at' = "subscribe" /\ wsi' => written' < NumSymbols
          /\ at' = "subscribed" => written' = NumSymbols
          /\ at' = "subscribed" /\ ~wsi' => shouldStop'
        BY <1>20 DEF MarkSubscribed
    <2>7. /\ shouldStop' /\ at' \notin {"boot", "ready"} => signals' > 0
          /\ late' = 1 => shouldStop' /\ at' \notin {"boot", "ready", "connect", "sleep"}
        BY <1>20 DEF MarkSubscribed
    <2> QED BY <2>1, <2>2, <2>3, <2>4, <2>5, <2>6, <2>7 DEF LoopInv
<1>21. CASE Destroy
    <2>1. Abandoned' = 0
        BY <1>21 DEF Destroy, Abandoned, States
    <2> QED BY <1>21, <2>1 DEF Destroy
<1>22. CASE Exit
    BY <1>22 DEF Exit
<1>23. CASE SignalIgnored
    BY <1>23 DEF SignalIgnored, SigInt
<1>24. CASE SignalStops
    BY <1>24 DEF SignalStops, SigInt, Reset
<1>25. CASE SignalDangles
    BY <1>25 DEF SignalDangles, SigInt
<1>26. CASE UNCHANGED vars
    BY <1>26 DEF vars
<1> QED
    BY <1>1, <1>2, <1>3, <1>4, <1>5, <1>6, <1>7, <1>8, <1>9, <1>10, <1>11,
       <1>12, <1>13, <1>14, <1>15, <1>16, <1>17, <1>18, <1>19, <1>20, <1>21, <1>22,
       <1>23, <1>24, <1>25, <1>26
    DEF Next, MainStep, Service

(* As long as lws_service reports no error there is no earlier connection. *)
LEMMA NothingEarlier ==
    ASSUME ConnectionInv, errors = 0
    PROVE  /\ ~OldEstablished /\ ~OldDropped /\ ~OldWriteable
           /\ at \in {"boot", "ready", "connect", "sleep"} => conn = "none"
<1>1. /\ abandoned["connecting"] \in Nat /\ abandoned["open"] \in Nat
      /\ abandoned["writable"] \in Nat
    BY DEF ConnectionInv, TypeOK, States
<1>2. Abandoned \in Nat /\ Abandoned + (IF Leaving THEN 1 ELSE 0) <= 0
    BY <1>1 DEF ConnectionInv, LoopInv, Abandoned
<1>3. Abandoned = 0
    BY <1>2
<1>4. abandoned["connecting"] = 0 /\ abandoned["open"] = 0 /\ abandoned["writable"] = 0
    BY <1>1, <1>3 DEF Abandoned
<1>5. at \in {"boot", "ready", "connect", "sleep"} => conn = "none"
    BY <1>3 DEF ConnectionInv, OneConnection, Connections
<1> QED BY <1>4, <1>5 DEF OldEstablished, OldDropped, OldWriteable, States

LEMMA StepServedInv == ConnectionInv /\ [Next]_vars => Subscription' /\ ServedInv'
<1> SUFFICES ASSUME ConnectionInv, [Next]_vars PROVE Subscription' /\ ServedInv'
    OBVIOUS
<1>0. errors = 0 =>
          /\ ~OldEstablished /\ ~OldDropped /\ ~OldWriteable
          /\ at \in {"boot", "ready", "connect", "sleep"} => conn = "none"
    BY NothingEarlier
<1> USE <1>0, ConstantsAssumption DEF ConnectionInv, TypeOK, OneConnection, Subscription, LoopInv,
        ServedInv, locals, members, external, history
<1>1. CASE Publish
    BY <1>1 DEF Publish
<1>2. CASE EnterRun
    BY <1>2 DEF EnterRun
<1>3. CASE Connect
    BY <1>3 DEF Connect
<1>4. CASE Assign
    BY <1>4 DEF Assign, FailedNow, AfterConnect
<1>5. CASE SetTimeout
    BY <1>5 DEF SetTimeout
<1>6. CASE Poll
    BY <1>6 DEF Poll, AfterConnect
<1>7. CASE FirstConnectReturned
    BY <1>7 DEF FirstConnectReturned
<1>8. CASE Retry
    BY <1>8 DEF Retry
<1>9. CASE SleepDone
    BY <1>9 DEF SleepDone
<1>10. CASE ServiceReturns
    BY <1>10 DEF ServiceReturns
<1>11. CASE ServiceFails
    BY <1>11 DEF ServiceFails, AfterConnect
<1>12. CASE Established
    BY <1>12 DEF Established
<1>13. CASE ConnectionError
    BY <1>13 DEF ConnectionError, Reset
<1>14. CASE Closed
    BY <1>14 DEF Closed, Reset
<1>15. CASE Writeable
    BY <1>15 DEF Writeable
<1>16. CASE OldEstablished
    BY <1>16 DEF OldEstablished
<1>17. CASE OldDropped
    BY <1>17 DEF OldDropped, Reset
<1>18. CASE OldWriteable
    BY <1>18 DEF OldWriteable
<1>19. CASE WriteSymbol
    BY <1>19 DEF WriteSymbol
<1>20. CASE MarkSubscribed
    BY <1>20 DEF MarkSubscribed
<1>21. CASE Destroy
    BY <1>21 DEF Destroy
<1>22. CASE Exit
    BY <1>22 DEF Exit
<1>23. CASE SignalIgnored
    BY <1>23 DEF SignalIgnored, SigInt
<1>24. CASE SignalStops
    BY <1>24 DEF SignalStops, SigInt, Reset
<1>25. CASE SignalDangles
    BY <1>25 DEF SignalDangles, SigInt
<1>26. CASE UNCHANGED vars
    BY <1>26 DEF vars
<1> QED
    BY <1>1, <1>2, <1>3, <1>4, <1>5, <1>6, <1>7, <1>8, <1>9, <1>10, <1>11,
       <1>12, <1>13, <1>14, <1>15, <1>16, <1>17, <1>18, <1>19, <1>20, <1>21, <1>22,
       <1>23, <1>24, <1>25, <1>26
    DEF Next, MainStep, Service

LEMMA StepConnectionInv == ConnectionInv /\ [Next]_vars => ConnectionInv'
    BY StepTypeOK, StepLoopInv, StepServedInv DEF ConnectionInv

LEMMA InitCountInv == Init => CountInv
    BY ConstantsAssumption DEF Init, CountInv

LEMMA StepCountInv == ConnectionInv /\ CountInv /\ [Next]_vars => CountInv'
<1> SUFFICES ASSUME ConnectionInv, CountInv, [Next]_vars PROVE CountInv'
    OBVIOUS
<1>0. /\ attempts \in Nat /\ failed \in Nat /\ MaxAttempts \in Nat /\ errors \in Nat
      /\ initial \in BOOLEAN /\ shouldStop \in BOOLEAN /\ wsi \in BOOLEAN /\ opened \in BOOLEAN
      /\ at = "assign" => (opened <=> conn # "none")
      /\ at = "assign" => conn # "open"
      /\ at = "timeout" => conn = "connecting"
      /\ conn \in {"none", "connecting", "open"}
      /\ errors = 0 => /\ at \in {"subscribe", "subscribed"} => conn = "open"
                       /\ conn # "none" /\ ~wsi => shouldStop \/ at = "assign"
                       /\ ~OldEstablished /\ ~OldDropped /\ ~OldWriteable
                       /\ at \in {"ready", "connect", "sleep"} => conn = "none"
    BY ConstantsAssumption, NothingEarlier
    DEF ConnectionInv, TypeOK, OneConnection, LoopInv, ServedInv
<1> USE <1>0 DEF CountInv, locals, members, external, history
<1>1. CASE Publish
    BY <1>1 DEF Publish
<1>2. CASE EnterRun
    BY <1>2 DEF EnterRun
<1>3. CASE Connect
    BY <1>3 DEF Connect
<1>4. CASE Assign
    <2>1. CASE opened
        BY <1>4, <2>1 DEF Assign
    <2>2. CASE ~opened
        BY <1>4, <2>2 DEF Assign, FailedNow, AfterConnect
    <2> QED BY <2>1, <2>2
<1>5. CASE SetTimeout
    BY <1>5 DEF SetTimeout
<1>6. CASE Poll
    BY <1>6 DEF Poll, AfterConnect
<1>7. CASE FirstConnectReturned
    BY <1>7 DEF FirstConnectReturned
<1>8. CASE Retry
    BY <1>8 DEF Retry
<1>9. CASE SleepDone
    BY <1>9 DEF SleepDone
<1>10. CASE ServiceReturns
    BY <1>10 DEF ServiceReturns
<1>11. CASE ServiceFails
    BY <1>11 DEF ServiceFails, AfterConnect, FailedNow
<1>12. CASE Established
    BY <1>12 DEF Established
<1>13. CASE ConnectionError
    BY <1>13 DEF ConnectionError, Reset, FailedNow
<1>14. CASE Closed
    BY <1>14 DEF Closed, Reset
<1>15. CASE Writeable
    BY <1>15 DEF Writeable
<1>16. CASE OldEstablished
    BY <1>16 DEF OldEstablished
<1>17. CASE OldDropped
    BY <1>17 DEF OldDropped, Reset
<1>18. CASE OldWriteable
    BY <1>18 DEF OldWriteable
<1>19. CASE WriteSymbol
    BY <1>19 DEF WriteSymbol
<1>20. CASE MarkSubscribed
    BY <1>20 DEF MarkSubscribed
<1>21. CASE Destroy
    BY <1>21 DEF Destroy
<1>22. CASE Exit
    BY <1>22 DEF Exit
<1>23. CASE SignalIgnored
    BY <1>23 DEF SignalIgnored, SigInt
<1>24. CASE SignalStops
    BY <1>24 DEF SignalStops, SigInt, Reset
<1>25. CASE SignalDangles
    BY <1>25 DEF SignalDangles, SigInt
<1>26. CASE UNCHANGED vars
    BY <1>26 DEF vars
<1> QED
    BY <1>1, <1>2, <1>3, <1>4, <1>5, <1>6, <1>7, <1>8, <1>9, <1>10, <1>11,
       <1>12, <1>13, <1>14, <1>15, <1>16, <1>17, <1>18, <1>19, <1>20, <1>21, <1>22,
       <1>23, <1>24, <1>25, <1>26
    DEF Next, MainStep, Service

LEMMA InitIInv == Init => IInv
    BY InitConnectionInv, InitCountInv DEF IInv

LEMMA StepIInv == IInv /\ [Next]_vars => IInv'
    BY StepConnectionInv, StepCountInv DEF IInv

(* The client's bookkeeping, in every interleaving of the loop, the        *)
(* callbacks of this connection and of earlier ones, errors of lws_service *)
(* and signals.                                                            *)
THEOREM InvariantHolds == Spec => []IInv
    BY InitIInv, StepIInv, PTL DEF Spec

(* connect() finds no connection open, but for one for each error that     *)
(* lws_service has reported.                                               *)
THEOREM ConnectionIsUnique == Spec => []OneConnection
<1>1. IInv => OneConnection
    BY DEF IInv, ConnectionInv
<1> QED BY <1>1, InvariantHolds, PTL

(* An open connection in the event loop is subscribed to every symbol, or  *)
(* about to be, and m_subscribed says so until lws_service reports an      *)
(* error; after one it may say so falsely, but the callback never goes     *)
(* missing for a client that is not marked.                                *)
THEOREM SubscriptionIsTracked == Spec => []Subscription
<1>1. IInv => Subscription
    BY DEF IInv, ConnectionInv
<1> QED BY <1>1, InvariantHolds, PTL

(* However many signals arrive, stop() is followed by one connect() at     *)
(* most, whatever lws_service reports.                                     *)
THEOREM LateConnectIsUnique == Spec => []AtMostOneLateConnect
<1>1. IInv => AtMostOneLateConnect
    BY DEF IInv, ConnectionInv
<1> QED BY <1>1, InvariantHolds, PTL

(* Without a signal and an error of lws_service no null m_wsi is used. *)
THEOREM NullPointersAreSignalled == Spec => []NoNullPointer
<1>1. IInv => NoNullPointer
    BY DEF IInv, ConnectionInv
<1> QED BY <1>1, InvariantHolds, PTL

LEMMA Powers ==
    /\ Width \in Nat \ {0}
    /\ 2^Width = 2 * 2^(Width - 1) /\ 2^(Width - 1) \in Nat \ {0}
    /\ \A n \in Nat : n < Width => 2^n \in Nat
    /\ \A n \in Nat : n < Width - 1 => 2^n < 2^(Width - 1)
<1>1. Width \in Nat \ {0} /\ Width - 1 \in 0 .. Width
    BY ConstantsAssumption
<1>2. \A n \in Nat : n < Width => n \in 0 .. Width
    BY <1>1
<1>3. \A n \in Nat : n < Width - 1 => n \in 0 .. Width - 2
    BY <1>1
<1> QED BY <1>1, <1>2, <1>3, PowersAssumption

(* What fits the int is not changed by wrapping around. *)
LEMMA WrapFits ==
    ASSUME NEW n \in Nat, n < 2^(Width - 1)
    PROVE  Wrap(n) = n
<1> DEFINE half == 2^(Width - 1)
<1>1. half \in Nat /\ n + half \in Nat /\ n + half < 2 * half
    BY Powers
<1>2. 2^Width = 2 * half
    BY Powers
<1> HIDE DEF half
<1>3. (n + half) % (2 * half) = n + half
    BY <1>1
<1>4. ((n + half) % (2 * half)) - half = n
    BY <1>1, <1>3
<1> QED BY <1>2, <1>4 DEF Wrap, half

LEMMA WrapIsInt ==
    ASSUME NEW n \in Int
    PROVE  Wrap(n) \in Int
<1> DEFINE half == 2^(Width - 1)
<1>1. half \in Nat \ {0} /\ 2^Width = 2 * half
    BY Powers
<1> HIDE DEF half
<1>2. (n + half) % (2 * half) \in Int
    BY <1>1
<1>3. ((n + half) % (2 * half)) - half \in Int
    BY <1>1, <1>2
<1> QED BY <1>1, <1>3 DEF Wrap, half

LEMMA BackoffFits ==
    ASSUME NEW n \in Nat, Fits(n)
    PROVE  Wrap(InitialDelay * Shift(n)) = InitialDelay * 2^n
<1>1. /\ Width \in Nat \ {0} /\ n < Width - 1 /\ InitialDelay \in Nat
      /\ 2^n \in Nat /\ 2^n < 2^(Width - 1) /\ InitialDelay * 2^n < 2^(Width - 1)
    <2>1. n < Width - 1 /\ n < Width /\ InitialDelay * 2^n < 2^(Width - 1)
        BY Powers DEF Fits
    <2> QED BY <2>1, Powers, ConstantsAssumption
<1>2. n % Width = n
    BY <1>1
<1>3. Shift(n) = 2^n
    <2>1. Wrap(2^n) = 2^n
        BY <1>1, WrapFits
    <2> QED BY <1>2, <2>1 DEF Shift
<1>4. InitialDelay * 2^n \in Nat
    BY <1>1
<1>5. Wrap(InitialDelay * 2^n) = InitialDelay * 2^n
    BY <1>1, <1>4, WrapFits
<1> QED BY <1>3, <1>5

(* Overflow or not, the delay is an integer and limited by MaxDelay. *)
LEMMA BackoffLimited ==
    ASSUME NEW n \in Nat
    PROVE  Min({Wrap(InitialDelay * Shift(n)), MaxDelay}) <= MaxDelay
<1> DEFINE d == Wrap(InitialDelay * Shift(n))
<1>1. n % Width \in Nat /\ n % Width < Width
    BY Powers
<1>2. 2^(n % Width) \in Nat
    BY <1>1, Powers
<1>3. Shift(n) \in Int
    BY <1>2, WrapIsInt DEF Shift
<1>4. InitialDelay * Shift(n) \in Int
    BY <1>3, ConstantsAssumption
<1>5. d \in Int /\ MaxDelay \in Int
    BY <1>4, WrapIsInt, ConstantsAssumption
<1> HIDE DEF d
<1>6. \E m \in {d, MaxDelay} : \A y \in {d, MaxDelay} : m <= y
    BY <1>5
<1>7. Min({d, MaxDelay}) <= MaxDelay
    BY <1>6, Zenon DEF Min
<1> QED BY <1>7 DEF d

LEMMA InitBackoff == Init => BackoffExact
    BY DEF Init, BackoffExact

LEMMA StepBackoff == IInv /\ BackoffExact /\ [Next]_vars => BackoffExact'
<1> SUFFICES ASSUME IInv, BackoffExact, [Next]_vars, at' = "sleep"
             PROVE  /\ delay' <= MaxDelay
                    /\ errors' = 0 =>
                        /\ failed' < MaxAttempts
                        /\ Fits(failed') => delay' = Min({InitialDelay * 2^failed', MaxDelay})
    BY DEF BackoffExact, Fits
<1>0. attempts \in Nat /\ failed \in Nat /\ MaxAttempts \in Nat /\ at \in Places
    BY ConstantsAssumption DEF IInv, ConnectionInv, TypeOK
<1>1. CASE Retry
    <2>1. /\ ~shouldStop /\ attempts < MaxAttempts /\ delay' = BackoffDelay
          /\ failed' = failed /\ errors' = errors
        BY <1>1 DEF Retry, history
    <2>2. errors = 0 => attempts = failed
        BY <1>1, <2>1 DEF IInv, CountInv, Retry
    <2>3. delay' <= MaxDelay
        BY <1>0, <2>1, BackoffLimited DEF BackoffDelay
    <2>4. Fits(failed) => Wrap(InitialDelay * Shift(failed)) = InitialDelay * 2^failed
        BY <1>0, BackoffFits
    <2> QED BY <2>1, <2>2, <2>3, <2>4 DEF BackoffDelay
<1>2. CASE SignalIgnored \/ SignalStops \/ UNCHANGED vars
    <2>1. UNCHANGED <<at, delay, failed, errors>>
        BY <1>2 DEF SignalIgnored, SignalStops, SigInt, locals, history, vars
    <2> QED BY <2>1 DEF BackoffExact
<1>3. CASE SignalDangles \/ (MainStep /\ ~Retry)
    <2>1. at' # "sleep"
        BY <1>3 DEF SignalDangles, MainStep, Publish, EnterRun, Connect, Assign, SetTimeout,
            Poll, FirstConnectReturned, SleepDone, Service, ServiceReturns, ServiceFails,
            Established, ConnectionError, Closed, Writeable, OldEstablished, OldDropped,
            OldWriteable, WriteSymbol, MarkSubscribed, Destroy, Exit, AfterConnect
    <2> QED BY <2>1
<1> QED BY <1>1, <1>2, <1>3 DEF Next

(* For every configuration, and as long as lws_service reports no error:   *)
(* each reconnection whose delay is computed without overflow waits        *)
(* exactly twice as long as the one before, up to the maximum, and a       *)
(* success starts over.                                                    *)
THEOREM BackoffIsExact == Spec => []BackoffExact
    BY StepBackoff, InitBackoff, InvariantHolds, StepIInv, PTL DEF Spec

----------------------------------------------------------------------------
(* TimedWorker *)

LEMMA TimedInitInv == TimedInit => TimedInv
<1>1. 0 \in 0..Period /\ Period \in 0..Period
    BY PeriodAssumption
<1> QED
    BY <1>1, Zenon DEF TimedInit, TimedInv, TimedTypeOK, FlagInv, TimeInv, WorkerPlaces

(* No thread moves the clock, so a minute turn is the only step that       *)
(* touches `left' and `sinceRun' together.                                 *)
LEMMA MinuteTurnInv == TimedInv /\ MinuteTurn => TimedInv'
<1> SUFFICES ASSUME TimedInv, MinuteTurn PROVE TimedInv'
    OBVIOUS
<1>1. left' \in 0..Period /\ sinceRun' \in 0..Period
    BY PeriodAssumption DEF TimedInv, TimedTypeOK, MinuteTurn
<1>2. sinceRun + left >= Period => sinceRun' + left' >= Period
    BY PeriodAssumption DEF TimedInv, TimedTypeOK, MinuteTurn
<1>3. sinceRun = Period => sinceRun' = Period
    BY PeriodAssumption DEF MinuteTurn
<1> QED
    BY <1>1, <1>2, <1>3 DEF TimedInv, TimedTypeOK, FlagInv, TimeInv, MinuteTurn

LEMMA TimedStepInv == TimedInv /\ [TimedNext]_timedVars => TimedInv'
<1> SUFFICES ASSUME TimedInv, [TimedNext]_timedVars PROVE TimedInv'
    OBVIOUS
<1> USE PeriodAssumption DEF TimedInv, TimedTypeOK, FlagInv, TimeInv, WorkerPlaces, time
<1>1. CASE MinuteTurn
    BY <1>1, MinuteTurnInv
<1>2. CASE Start
    BY <1>2 DEF Start
<1>3. CASE StopSetFlag
    BY <1>3 DEF StopSetFlag
<1>4. CASE StopStep
    BY <1>4 DEF StopStep, StopNotify, Join
<1>5. CASE Arm
    BY <1>5 DEF Arm
<1>6. CASE Check
    <2>1. TimedTypeOK' /\ FlagInv'
        BY <1>6 DEF Check
    <2>2. CASE ~stopFlag /\ left > 0
        BY <1>6, <2>1, <2>2 DEF Check
    <2>3. CASE stopFlag
        BY <1>6, <2>1, <2>3 DEF Check
    <2>4. CASE ~stopFlag /\ ~(left > 0)
        <3>1. sinceRun = Period /\ UNCHANGED <<stopFlag, sinceRun>> /\ workerAt' = "decide"
            BY <1>6, <2>4 DEF Check
        <3> QED BY <2>1, <3>1
    <2> QED BY <2>2, <2>3, <2>4
<1>7. CASE Sleep \/ Wake \/ SpuriousWakeup
    <2>1. CASE Sleep
        BY <2>1 DEF Sleep
    <2>2. CASE Wake
        BY <2>2 DEF Wake
    <2>3. CASE SpuriousWakeup
        BY <2>3 DEF SpuriousWakeup
    <2> QED BY <1>7, <2>1, <2>2, <2>3
<1>8. CASE Decide
    BY <1>8 DEF Decide
<1>9. CASE WorkDone
    BY <1>9 DEF WorkDone
<1>10. CASE UNCHANGED timedVars
    BY <1>10 DEF timedVars
<1> QED
    BY <1>1, <1>2, <1>3, <1>4, <1>5, <1>6, <1>7, <1>8, <1>9, <1>10 DEF TimedNext, WorkerStep

(* The stop flag and the timer keep their meaning in every interleaving,   *)
(* for every period.                                                       *)
THEOREM TimedInvariantHolds == TimedSpec => []TimedInv
    BY TimedInitInv, TimedStepInv, PTL DEF TimedSpec

(* Only Decide calls m_work, and it finds the target reached. *)
LEMMA WorkStarts ==
    TimedInv /\ [TimedNext]_timedVars =>
        [workerAt # "work" /\ workerAt' = "work" => sinceRun = Period]_timedVars
<1> SUFFICES ASSUME TimedInv, [TimedNext]_timedVars, workerAt # "work", workerAt' = "work"
             PROVE  sinceRun = Period
    OBVIOUS
<1>1. Decide
    BY DEF TimedNext, timedVars, MinuteTurn, Start, StopSetFlag, StopStep, StopNotify, Join,
       WorkerStep, Arm, Check, Sleep, Wake, WorkDone, SpuriousWakeup
<1>2. workerAt = "decide" /\ ~stopFlag
    BY <1>1 DEF Decide
<1> QED BY <1>2 DEF TimedInv, TimeInv

(* m_work is never called twice within Period minutes. *)
THEOREM WorksOncePerPeriod == TimedSpec => OncePerPeriod
    BY TimedInvariantHolds, WorkStarts, PTL DEF TimedSpec, OncePerPeriod
====
