------------------------- MODULE BlinkConsoleProofs -------------------------
(***************************************************************************)
(* For every size of the buffer and of the queues and any number of        *)
(* presses and keys: the input buffer holds the line that is shown and     *)
(* never overflows, only a line that filled it switches the timer, and     *)
(* every printed press happened.                                           *)
(***************************************************************************)
EXTENDS BlinkConsole, SequenceTheorems, FiniteSetTheorems, TLAPS

\* Appending what fits keeps a queue of codes within its room.
LEMMA EnqueueFits ==
    ASSUME NEW q \in Seq(Codes), NEW codes \in Seq(Codes), Len(q) <= MsgRoom
    PROVE  LET r == q \o SubSeq(codes, 1, Min2(Len(codes), MsgRoom - Len(q)))
           IN  r \in Seq(Codes) /\ Len(r) <= MsgRoom
<1> DEFINE n == Min2(Len(codes), MsgRoom - Len(q))
<1> DEFINE s == SubSeq(codes, 1, n)
<1>1. n \in 0..Len(codes) /\ n <= MsgRoom - Len(q)
    BY BlinkAssumption DEF Min2
<1>2. s \in Seq(Codes) /\ Len(s) = n
    <2>1. \A i \in 1..n : codes[i] \in Codes
        BY <1>1
    <2> QED BY <1>1, <2>1
<1> HIDE DEF s, n
<1>3. q \o s \in Seq(Codes) /\ Len(q \o s) = Len(q) + n
    BY <1>2
<1> QED BY <1>1, <1>2, <1>3, BlinkAssumption DEF s, n

LEMMA InitIInv == Init => IInv
<1> SUFFICES ASSUME Init PROVE IInv
    OBVIOUS
<1>1. <<>> \in Seq(Keys) /\ <<>> \in Seq(Codes) /\ <<>> \in Seq(Printable) /\ Len(<<>>) = 0
    BY EmptySeq
<1>4. BUFF_SIZE \in Nat /\ 0 <= RxRoom /\ 0 <= MsgRoom
    BY BlinkAssumption
<1>5. mainAt \in {"uart", "msg", "idle", "asleep"}
    BY DEF Init
<1>6. /\ rx_queue \in Seq(Keys) /\ Len(rx_queue) <= RxRoom
      /\ msg_queue \in Seq(Codes) /\ Len(msg_queue) <= MsgRoom
      /\ line \in Seq(Printable)
    BY <1>1, <1>4 DEF Init
<1>7. timer \in BOOLEAN /\ overflowed \in BOOLEAN /\ cleared \in BOOLEAN
    BY DEF Init
<1>8. /\ buff \in [1..BUFF_SIZE -> Cells] /\ buff_index \in 0..BUFF_SIZE
      /\ beyond \in Digits \cup {"none"}
    BY <1>4 DEF Init
<1>9. /\ led \in 0..1 /\ shownLed \in 0..1 /\ reached \in 0..BUFF_SIZE
      /\ switchPresses \in Nat /\ typed \in Nat /\ pressed \in Nat
    BY <1>4 DEF Init
<1>2. TypeOK
    BY <1>5, <1>6, <1>7, <1>8, <1>9 DEF TypeOK
<1>3. BufferHoldsLine
    BY <1>1 DEF Init, BufferHoldsLine
<1> QED BY <1>2, <1>3 DEF IInv

\* Each step, by what it touches.
LEMMA StepIInv == IInv /\ [Next]_vars => IInv'
<1> SUFFICES ASSUME IInv, [Next]_vars PROVE IInv'
    OBVIOUS
<1> USE DEF IInv, TypeOK
<1>1. CASE switchPressed_isr
    <2>1. <<1 - led, Pressed>> \in Seq(Codes) /\ 1 - led \in 0..1
        BY DEF Codes, Pressed
    <2>2. msg_queue' \in Seq(Codes) /\ Len(msg_queue') <= MsgRoom
        BY <1>1, <2>1, EnqueueFits DEF switchPressed_isr, EnqueueMessages
    <2>5. overflowed' \in BOOLEAN /\ timer' \in BOOLEAN
        BY <1>1 DEF switchPressed_isr, EnqueueMessages
    <2>6. mainAt' \in {"uart", "msg", "idle", "asleep"}
        BY <1>1 DEF switchPressed_isr, Wake
    <2>7. led' \in 0..1 /\ pressed' \in Nat
        BY <1>1, <2>1 DEF switchPressed_isr
    <2>3. TypeOK'
        BY <1>1, <2>2, <2>5, <2>6, <2>7 DEF switchPressed_isr, inputVars, printVars
    <2>4. BufferHoldsLine'
        BY <1>1 DEF switchPressed_isr, inputVars, BufferHoldsLine
    <2> QED BY <2>3, <2>4
<1>2. CASE timer_callback_isr
    <2>1. <<1 - led>> \in Seq(Codes) /\ 1 - led \in 0..1
        BY DEF Codes
    <2>2. msg_queue' \in Seq(Codes) /\ Len(msg_queue') <= MsgRoom
        BY <1>2, <2>1, EnqueueFits DEF timer_callback_isr, EnqueueMessages
    <2>5. overflowed' \in BOOLEAN
        BY <1>2 DEF timer_callback_isr, EnqueueMessages
    <2>6. mainAt' \in {"uart", "msg", "idle", "asleep"}
        BY <1>2 DEF timer_callback_isr, Wake
    <2>3. TypeOK'
        BY <1>2, <2>1, <2>2, <2>5, <2>6 DEF timer_callback_isr, inputVars, printVars
    <2>4. BufferHoldsLine'
        BY <1>2 DEF timer_callback_isr, inputVars, BufferHoldsLine
    <2> QED BY <2>3, <2>4
<1>3. CASE uart_rx_isr
    <2>1. rx_queue' \in Seq(Keys) /\ Len(rx_queue') <= RxRoom
        <3>1. CASE Len(rx_queue) < RxRoom /\ \E key \in Keys : rx_queue' = Append(rx_queue, key)
            <4>1. PICK key \in Keys : rx_queue' = Append(rx_queue, key)
                BY <3>1
            <4>2. Append(rx_queue, key) \in Seq(Keys)
                      /\ Len(Append(rx_queue, key)) = Len(rx_queue) + 1
                BY AppendProperties
            <4> QED BY <3>1, <4>1, <4>2, BlinkAssumption
        <3>2. CASE rx_queue' = rx_queue
            BY <3>2
        <3> QED BY <1>3, <3>1, <3>2 DEF uart_rx_isr
    <2>4. mainAt' \in {"uart", "msg", "idle", "asleep"} /\ typed' \in Nat
        BY <1>3 DEF uart_rx_isr, Wake
    <2>2. TypeOK'
        BY <1>3, <2>1, <2>4 DEF uart_rx_isr, inputVars, messageVars, pinVars, printVars
    <2>3. BufferHoldsLine'
        BY <1>3 DEF uart_rx_isr, inputVars, BufferHoldsLine
    <2> QED BY <2>2, <2>3
<1>4. ASSUME NEW key, TakeKey(key) PROVE rx_queue' \in Seq(Keys) /\ Len(rx_queue') <= RxRoom
    <2>1. rx_queue # <<>> /\ rx_queue' = Tail(rx_queue)
        BY <1>4 DEF TakeKey
    <2> QED BY <2>1, HeadTailProperties, BlinkAssumption
<1>5. CASE Backspace
    <2>1. rx_queue' \in Seq(Keys) /\ Len(rx_queue') <= RxRoom
        BY <1>5, <1>4 DEF Backspace
    <2>2. line' \in Seq(Printable) /\ BufferHoldsLine' /\ buff_index' \in 0..BUFF_SIZE
        <3>1. CASE buff_index > 0
            <4>1. Len(line) = buff_index /\ Len(line) - 1 \in 0..Len(line)
                BY <3>1 DEF BufferHoldsLine
            <4>2. line' = SubSeq(line, 1, Len(line) - 1)
                BY <1>5, <3>1 DEF Backspace
            <4>3. line' \in Seq(Printable) /\ Len(line') = buff_index - 1
                BY <4>1, <4>2
            <4>4. \A i \in 1..(buff_index - 1) : line'[i] = line[i]
                BY <4>1, <4>2
            <4> QED BY <1>5, <3>1, <4>3, <4>4, BlinkAssumption DEF Backspace, BufferHoldsLine
        <3>2. CASE ~(buff_index > 0)
            BY <1>5, <3>2 DEF Backspace, BufferHoldsLine
        <3> QED BY <3>1, <3>2
    <2>3. TypeOK'
        BY <1>5, <2>1, <2>2 DEF Backspace, TakeKey, messageVars, pinVars, printVars
    <2> QED BY <2>2, <2>3
<1>6. CASE Enter
    <2>1. rx_queue' \in Seq(Keys) /\ Len(rx_queue') <= RxRoom
        BY <1>6, <1>4 DEF Enter
    <2>2. timer' \in BOOLEAN
        BY <1>6 DEF Enter, checkAEM, Odd
    <2>3. TypeOK'
        BY <1>6, <2>1, <2>2, BlinkAssumption
           DEF Enter, TakeKey, messageVars, pinVars, printVars, Cells
    <2>4. BufferHoldsLine'
        BY <1>6 DEF Enter, BufferHoldsLine
    <2> QED BY <2>3, <2>4
<1>7. ASSUME NEW key \in Printable, Refuse(key) PROVE IInv'
    <2>1. rx_queue' \in Seq(Keys) /\ Len(rx_queue') <= RxRoom
        BY <1>7, <1>4 DEF Refuse
    <2>2. TypeOK'
        BY <1>7, <2>1 DEF Refuse, TakeKey, inputVars, messageVars, pinVars, printVars
    <2>3. BufferHoldsLine'
        BY <1>7 DEF Refuse, inputVars, BufferHoldsLine
    <2> QED BY <2>2, <2>3
<1>8. ASSUME NEW key \in Printable, Store(key) PROVE IInv'
    <2>1. rx_queue' \in Seq(Keys) /\ Len(rx_queue') <= RxRoom
        BY <1>8, <1>4 DEF Store
    <2>2. buff' \in [1..BUFF_SIZE -> Cells] /\ buff_index' \in 0..BUFF_SIZE
              /\ line' \in Seq(Printable) /\ reached' \in 0..BUFF_SIZE
        BY <1>8, BlinkAssumption DEF Store, Cells
    <2>3. TypeOK'
        BY <1>8, <2>1, <2>2 DEF Store, TakeKey, messageVars, pinVars, printVars
    <2>4. BufferHoldsLine'
        <3>1. buff_index \in 0..(BUFF_SIZE - 1) /\ buff' = [buff EXCEPT ![buff_index + 1] = key]
                  /\ line' = Append(line, key) /\ buff_index' = buff_index + 1
            BY <1>8, BlinkAssumption DEF Store
        <3>2. \A i \in 1..buff_index' : buff'[i] = line'[i]
            BY <3>1, BlinkAssumption DEF BufferHoldsLine
        <3>3. cleared' => \A i \in (reached' + 1)..BUFF_SIZE : buff'[i] = NUL
            BY <1>8, <3>1, BlinkAssumption DEF BufferHoldsLine, Store
        <3> QED BY <1>8, <3>1, <3>2, <3>3 DEF BufferHoldsLine, Store
    <2> QED BY <2>3, <2>4
<1>9. ASSUME mainAt' \in {"uart", "msg", "idle", "asleep"}, UNCHANGED NoInputVars
      PROVE  IInv'
    <2>1. TypeOK'
        BY <1>9 DEF NoInputVars, inputVars, messageVars, pinVars, printVars
    <2>2. BufferHoldsLine'
        BY <1>9 DEF NoInputVars, inputVars, BufferHoldsLine
    <2> QED BY <2>1, <2>2
<1>10. CASE PrintMessage
    <2>1. msg_queue' \in Seq(Codes) /\ Len(msg_queue') <= MsgRoom /\ Head(msg_queue) \in Codes
        <3>1. msg_queue # <<>> /\ msg_queue' = Tail(msg_queue)
            BY <1>10 DEF PrintMessage
        <3> QED BY <3>1, HeadTailProperties, BlinkAssumption
    <2>2. switchPresses' \in Nat /\ shownLed' \in 0..1
        BY <1>10, <2>1 DEF PrintMessage, Codes, Pressed
    <2>5. mainAt' = "uart"
        BY <1>10 DEF PrintMessage
    <2>3. TypeOK'
        BY <1>10, <2>1, <2>2, <2>5 DEF PrintMessage, inputVars, pinVars
    <2>4. BufferHoldsLine'
        BY <1>10 DEF PrintMessage, inputVars, BufferHoldsLine
    <2> QED BY <2>3, <2>4
<1>11. CASE UNCHANGED vars
    BY <1>11 DEF vars, BufferHoldsLine
<1> QED
    <2>1. CASE NoInput \/ NoMessage \/ WFI
        BY <1>9, <2>1 DEF NoInput, NoMessage, WFI
    <2> QED BY <2>1, <1>1, <1>2, <1>3, <1>5, <1>6, <1>7, <1>8, <1>10, <1>11 DEF Next, main, checkUart

\* The buffer never overflows and starts with the line that is shown; nothing is left
\* in it of the line before.
THEOREM InvariantHolds == Spec => []IInv
BY InitIInv, StepIInv, PTL DEF Spec

\* Only a handler changes `pressed'.
LEMMA StepSwitchesTimer ==
    ASSUME IInv, [Next]_vars, timer' # timer, pressed' = pressed
    PROVE  Enter /\ isValidAEM
<1>1. pressed \in Nat
    BY DEF IInv, TypeOK
<1>2. ~switchPressed_isr
    BY <1>1 DEF switchPressed_isr
<1>3. ~timer_callback_isr /\ ~uart_rx_isr /\ ~(UNCHANGED vars)
    BY DEF timer_callback_isr, uart_rx_isr, vars
<1>4. ~(Backspace \/ NoInput \/ NoMessage \/ WFI \/ PrintMessage)
    BY DEF Backspace, NoInput, NoMessage, WFI, NoInputVars, PrintMessage
<1>5. ~(\E key \in Printable : Refuse(key) \/ Store(key))
    BY DEF Refuse, Store
<1>6. Enter
    BY <1>2, <1>3, <1>4, <1>5 DEF Next, main, checkUart
<1> QED BY <1>6 DEF Enter, checkAEM

LEMMA StepNeedsFullLine ==
    ASSUME IInv, Enter, isValidAEM
    PROVE  /\ cleared => reached = BUFF_SIZE
           /\ \A i \in 1..Len(line) : line[i] \in Digits
<1>1. ASSUME cleared, reached # BUFF_SIZE PROVE FALSE
    <2>1. BUFF_SIZE \in (reached + 1)..BUFF_SIZE /\ BUFF_SIZE \in 1..BUFF_SIZE
        BY <1>1, BlinkAssumption DEF IInv, TypeOK
    <2>2. buff[BUFF_SIZE] = NUL
        BY <1>1, <2>1 DEF IInv, BufferHoldsLine
    <2>3. buff[BUFF_SIZE] \in Digits
        BY <2>1 DEF isValidAEM
    <2> QED BY <2>2, <2>3 DEF Digits, NUL
<1>2. \A i \in 1..Len(line) : line[i] \in Digits
    BY BlinkAssumption DEF IInv, TypeOK, BufferHoldsLine, isValidAEM
<1> QED BY <1>1, <1>2

\* Apart from the button, only a line that filled the buffer switches the timer.
THEOREM OnlyFullLinesSwitch == Spec => LineSwitchesTimer
<1>1. IInv /\ [Next]_vars =>
          [timer' # timer /\ pressed' = pressed
           => /\ cleared => reached = BUFF_SIZE
              /\ \A i \in 1..Len(line) : line[i] \in Digits]_vars
    BY StepSwitchesTimer, StepNeedsFullLine
<1> QED BY <1>1, InvariantHolds, PTL DEF Spec, LineSwitchesTimer
-----------------------------------------------------------------------------
(* The reports.  At(q, codes) is Waiting(codes) of the queue q. *)

At(q, codes) == {i \in 1..Len(q) : q[i] \in codes}

LEMMA AtFinite ==
    ASSUME NEW q \in Seq(Codes), NEW C
    PROVE  IsFiniteSet(At(q, C)) /\ Cardinality(At(q, C)) \in Nat
<1>1. IsFiniteSet(1..Len(q)) /\ At(q, C) \in SUBSET (1..Len(q))
    BY FS_Interval DEF At
<1> QED BY <1>1, FS_Subset, FS_CardinalityType

LEMMA AppendCount ==
    ASSUME NEW q \in Seq(Codes), NEW x \in Codes, NEW C
    PROVE  Cardinality(At(Append(q, x), C)) = Cardinality(At(q, C)) + (IF x \in C THEN 1 ELSE 0)
<1>1. /\ Len(Append(q, x)) = Len(q) + 1
      /\ \A i \in 1..Len(q) : Append(q, x)[i] = q[i]
      /\ Append(q, x)[Len(q) + 1] = x
    BY AppendProperties
<1>2. At(Append(q, x), C) = IF x \in C THEN At(q, C) \cup {Len(q) + 1} ELSE At(q, C)
    BY <1>1 DEF At
<1>3. Len(q) + 1 \notin At(q, C)
    BY DEF At
<1>4. IsFiniteSet(At(q, C)) /\ Cardinality(At(q, C)) \in Nat
    BY AtFinite
<1>5. CASE x \in C
    BY <1>2, <1>3, <1>4, <1>5, FS_AddElement
<1>6. CASE x \notin C
    BY <1>2, <1>4, <1>6
<1> QED BY <1>5, <1>6

LEMMA TailCount ==
    ASSUME NEW q \in Seq(Codes), q # <<>>, NEW C
    PROVE  Cardinality(At(q, C)) = Cardinality(At(Tail(q), C)) + (IF Head(q) \in C THEN 1 ELSE 0)
<1> DEFINE T == At(Tail(q), C)
<1> DEFINE S == At(q, C) \ {1}
<1> DEFINE shift == [i \in T |-> i + 1]
<1>1. /\ Tail(q) \in Seq(Codes) /\ Len(Tail(q)) = Len(q) - 1 /\ Len(q) \in Nat \ {0}
      /\ \A i \in 1..Len(Tail(q)) : Tail(q)[i] = q[i + 1]
      /\ Head(q) = q[1]
    BY HeadTailProperties, EmptySeq
<1>2. T \subseteq 1..(Len(q) - 1) /\ \A i \in 1..(Len(q) - 1) : i \in T <=> i + 1 \in S
    BY <1>1 DEF At
<1>3. S \subseteq 2..Len(q)
    BY <1>1 DEF At
<1>4. IsFiniteSet(T) /\ Cardinality(T) \in Nat
    BY <1>1, AtFinite
<1> HIDE DEF T, S
<1>5. shift \in Bijection(T, S)
    <2>1. shift \in [T -> S]
        BY <1>2
    <2>2. \A a, b \in T : shift[a] = shift[b] => a = b
        BY <1>2
    <2>3. \A t \in S : \E a \in T : shift[a] = t
        <3> TAKE t \in S
        <3>1. t - 1 \in 1..(Len(q) - 1) /\ (t - 1) + 1 = t
            BY <1>1, <1>3
        <3>2. t - 1 \in T
            BY <3>1, <1>2
        <3> QED BY <3>1, <3>2
    <2> QED BY <2>1, <2>2, <2>3 DEF Bijection, Injection, Surjection, IsInjective
<1>6. IsFiniteSet(S) /\ Cardinality(S) = Cardinality(T)
    BY <1>4, <1>5, FS_Bijection DEF ExistsBijection
<1>7. CASE Head(q) \in C
    <2>1. At(q, C) = S \cup {1} /\ 1 \notin S
        BY <1>1, <1>7 DEF At, S
    <2> QED BY <1>4, <1>6, <1>7, <2>1, FS_AddElement DEF T
<1>8. CASE Head(q) \notin C
    <2>1. At(q, C) = S
        BY <1>1, <1>8 DEF At, S
    <2> QED BY <1>4, <1>6, <1>8, <2>1 DEF T
<1> QED BY <1>7, <1>8

\* What the terminal will show of the LED after printing q, having shown `shown'.
WillShow(q, shown, v) ==
    \/ shown = v /\ \A i \in 1..Len(q) : q[i] \notin {0, 1}
    \/ \E i \in 1..Len(q) :
          /\ q[i] = v /\ v \in {0, 1}
          /\ \A j \in (i + 1)..Len(q) : q[j] \notin {0, 1}

LEMMA AppendShows ==
    ASSUME NEW q \in Seq(Codes), NEW x \in Codes, NEW shown, NEW v, WillShow(q, shown, v)
    PROVE  WillShow(Append(q, x), shown, IF x \in {0, 1} THEN x ELSE v)
<1>1. /\ Len(Append(q, x)) = Len(q) + 1 /\ Len(q) \in Nat
      /\ \A i \in 1..Len(q) : Append(q, x)[i] = q[i]
      /\ Append(q, x)[Len(q) + 1] = x
    BY AppendProperties
<1>2. CASE x \in {0, 1}
    BY <1>1, <1>2 DEF WillShow
<1>3. CASE x \notin {0, 1}
    <2>1. CASE shown = v /\ \A i \in 1..Len(q) : q[i] \notin {0, 1}
        BY <1>1, <1>3, <2>1 DEF WillShow
    <2>2. CASE \E i \in 1..Len(q) :
                  /\ q[i] = v /\ v \in {0, 1}
                  /\ \A j \in (i + 1)..Len(q) : q[j] \notin {0, 1}
        BY <1>1, <1>3, <2>2 DEF WillShow
    <2> QED BY <2>1, <2>2 DEF WillShow
<1> QED BY <1>2, <1>3

LEMMA TailShows ==
    ASSUME NEW q \in Seq(Codes), q # <<>>, NEW shown, NEW v, WillShow(q, shown, v)
    PROVE  WillShow(Tail(q), IF Head(q) = Pressed THEN shown ELSE Head(q), v)
<1>1. /\ Tail(q) \in Seq(Codes) /\ Len(Tail(q)) = Len(q) - 1 /\ Len(q) \in Nat \ {0}
      /\ \A i \in 1..Len(Tail(q)) : Tail(q)[i] = q[i + 1]
      /\ Head(q) = q[1] /\ Head(q) \in Codes
    BY HeadTailProperties, EmptySeq
<1>2. Head(q) = Pressed \/ Head(q) \in {0, 1}
    BY <1>1 DEF Codes
<1>3. CASE shown = v /\ \A i \in 1..Len(q) : q[i] \notin {0, 1}
    <2>1. Head(q) = Pressed
        BY <1>1, <1>2, <1>3
    <2>2. \A i \in 1..Len(Tail(q)) : Tail(q)[i] \notin {0, 1}
        BY <1>1, <1>3
    <2> QED BY <1>3, <2>1, <2>2 DEF WillShow
<1>4. ASSUME NEW i \in 1..Len(q), q[i] = v, v \in {0, 1},
             \A j \in (i + 1)..Len(q) : q[j] \notin {0, 1}
      PROVE  WillShow(Tail(q), IF Head(q) = Pressed THEN shown ELSE Head(q), v)
    <2>1. CASE i = 1
        <3>1. \A k \in 1..Len(Tail(q)) : Tail(q)[k] \notin {0, 1}
            BY <1>1, <1>4, <2>1
        <3>2. Head(q) = v /\ Head(q) # Pressed
            BY <1>1, <1>4, <2>1 DEF Pressed
        <3> QED BY <3>1, <3>2 DEF WillShow
    <2>2. CASE i # 1
        <3>1. i - 1 \in 1..Len(Tail(q)) /\ Tail(q)[i - 1] = v
            BY <1>1, <1>4, <2>2
        <3>2. \A j \in ((i - 1) + 1)..Len(Tail(q)) : Tail(q)[j] \notin {0, 1}
            BY <1>1, <1>4, <2>2
        <3> QED BY <1>4, <3>1, <3>2 DEF WillShow
    <2> QED BY <2>1, <2>2
<1> QED BY <1>3, <1>4 DEF WillShow

\* WillShow is what LedToShow computes.
LEMMA LedToShowIs ==
    ASSUME msg_queue \in Seq(Codes), NEW v, WillShow(msg_queue, shownLed, v)
    PROVE  LedToShow = v
<1> DEFINE S == Waiting({0, 1})
<1>1. Len(msg_queue) \in Nat
    OBVIOUS
<1>2. CASE shownLed = v /\ \A i \in 1..Len(msg_queue) : msg_queue[i] \notin {0, 1}
    BY <1>2 DEF LedToShow, Waiting
<1>3. ASSUME NEW i \in 1..Len(msg_queue), msg_queue[i] = v, v \in {0, 1},
             \A j \in (i + 1)..Len(msg_queue) : msg_queue[j] \notin {0, 1}
      PROVE  LedToShow = v
    <2>1. i \in S /\ \A j \in S : j <= i
        BY <1>1, <1>3 DEF Waiting
    <2>2. \A k \in S : (\A j \in S : j <= k) => k = i
        BY <1>1, <2>1 DEF Waiting
    <2>3. (CHOOSE k \in S : \A j \in S : j <= k) = i
        BY <2>1, <2>2
    <2> QED BY <1>3, <2>1, <2>3 DEF LedToShow
<1> QED BY <1>2, <1>3 DEF WillShow

\* One press is counted once, on its way or on the terminal; the rest as in
\* ReportsTruthful.
ReportInv ==
    /\ switchPresses + Cardinality(At(msg_queue, {Pressed})) <= pressed
    /\ ~overflowed => /\ WillShow(msg_queue, shownLed, led)
                      /\ switchPresses + Cardinality(At(msg_queue, {Pressed})) = pressed

LEMMA InitReport == Init => ReportInv
<1> SUFFICES ASSUME Init PROVE ReportInv
    OBVIOUS
<1>1. msg_queue = <<>> /\ Len(<<>>) = 0
    BY DEF Init
<1>2. At(msg_queue, {Pressed}) = {}
    BY <1>1 DEF At
<1>3. Cardinality(At(msg_queue, {Pressed})) = 0
    BY <1>2, FS_EmptySet
<1> QED BY <1>1, <1>3 DEF Init, ReportInv, WillShow

\* What EnqueueMessages adds, by the number of codes that fit.
LEMMA Prefixes ==
    ASSUME NEW s \in Seq(Codes)
    PROVE  /\ SubSeq(s, 1, 0) = <<>>
           /\ SubSeq(s, 1, Len(s)) = s
           /\ Len(s) > 0 => SubSeq(s, 1, 1) = <<s[1]>>
<1>1. SubSeq(s, 1, 0) = <<>>
    BY SubSeqEmpty
<1>2. SubSeq(s, 1, Len(s)) = s
    BY SubSeqFull
<1>3. ASSUME Len(s) > 0 PROVE SubSeq(s, 1, 1) = <<s[1]>>
    <2> DEFINE t == SubSeq(s, 1, 1)
    <2>1. \A i \in 1..1 : s[i] \in Codes
        BY <1>3
    <2>2. t \in Seq(Codes) /\ Len(t) = 1 /\ t[1] = s[1]
        BY <1>3, <2>1
    <2> HIDE DEF t
    <2>3. t = <<s[1]>>
        BY <2>2
    <2> QED BY <2>3 DEF t
<1> QED BY <1>1, <1>2, <1>3

LEMMA EnqueueOne ==
    ASSUME NEW q \in Seq(Codes), NEW a \in Codes
    PROVE  /\ q \o SubSeq(<<a>>, 1, 0) = q
           /\ q \o SubSeq(<<a>>, 1, 1) = Append(q, a)
<1> DEFINE s == <<a>>
<1>1. s \in Seq(Codes) /\ Len(s) = 1
    OBVIOUS
<1>2. q \o <<>> = q /\ q \o s = Append(q, a)
    OBVIOUS
<1> HIDE DEF s
<1>3. SubSeq(s, 1, 0) = <<>> /\ SubSeq(s, 1, 1) = s
    BY <1>1, Prefixes
<1>4. q \o SubSeq(s, 1, 0) = q /\ q \o SubSeq(s, 1, 1) = Append(q, a)
    BY <1>2, <1>3, Zenon
<1> QED BY <1>4 DEF s

LEMMA EnqueueTwo ==
    ASSUME NEW q \in Seq(Codes), NEW a \in Codes, NEW b \in Codes
    PROVE  /\ q \o SubSeq(<<a, b>>, 1, 0) = q
           /\ q \o SubSeq(<<a, b>>, 1, 1) = Append(q, a)
           /\ q \o SubSeq(<<a, b>>, 1, 2) = Append(Append(q, a), b)
<1> DEFINE s == <<a, b>>
<1>1. s \in Seq(Codes) /\ Len(s) = 2 /\ s[1] = a
    OBVIOUS
<1>2. q \o <<>> = q /\ q \o <<a>> = Append(q, a) /\ q \o s = Append(Append(q, a), b)
    OBVIOUS
<1> HIDE DEF s
<1>3. SubSeq(s, 1, 0) = <<>> /\ SubSeq(s, 1, 1) = <<a>> /\ SubSeq(s, 1, 2) = s
    BY <1>1, Prefixes
<1>4. /\ q \o SubSeq(s, 1, 0) = q
      /\ q \o SubSeq(s, 1, 1) = Append(q, a)
      /\ q \o SubSeq(s, 1, 2) = Append(Append(q, a), b)
    BY <1>2, <1>3, Zenon
<1> QED BY <1>4 DEF s

\* A press, whether both of its codes fit, one of them or none.
LEMMA PressReports == IInv /\ ReportInv /\ switchPressed_isr => ReportInv'
<1> SUFFICES ASSUME IInv, ReportInv, switchPressed_isr PROVE ReportInv'
    OBVIOUS
<1> DEFINE q == msg_queue
<1> DEFINE a == 1 - led
<1> DEFINE room == MsgRoom - Len(q)
<1>1. q \in Seq(Codes) /\ a \in {0, 1} /\ a \in Codes /\ Pressed \in Codes /\ Pressed \notin {0, 1}
    BY DEF IInv, TypeOK, Codes, Pressed
<1>2. room \in Nat /\ Len(<<a, Pressed>>) = 2
    BY BlinkAssumption DEF IInv, TypeOK
<1>3. /\ led' = a /\ pressed' = pressed + 1
      /\ switchPresses' = switchPresses /\ shownLed' = shownLed
    BY DEF switchPressed_isr, printVars
<1>11. /\ msg_queue' = q \o SubSeq(<<a, Pressed>>, 1, Min2(2, room))
       /\ overflowed' = (overflowed \/ Len(q) + 2 > MsgRoom)
    BY <1>2 DEF switchPressed_isr, EnqueueMessages
<1>12. /\ q \o SubSeq(<<a, Pressed>>, 1, 0) = q
       /\ q \o SubSeq(<<a, Pressed>>, 1, 1) = Append(q, a)
       /\ q \o SubSeq(<<a, Pressed>>, 1, 2) = Append(Append(q, a), Pressed)
    BY <1>1, EnqueueTwo
<1>4. /\ switchPresses \in Nat /\ pressed \in Nat /\ Cardinality(At(q, {Pressed})) \in Nat
      /\ overflowed \in BOOLEAN
    BY <1>1, AtFinite DEF IInv, TypeOK
<1>5. Append(q, a) \in Seq(Codes)
    BY <1>1
<1>6. Cardinality(At(Append(q, a), {Pressed})) = Cardinality(At(q, {Pressed}))
    BY <1>1, <1>4, AppendCount
<1>10. switchPresses + Cardinality(At(q, {Pressed})) <= pressed
    BY DEF ReportInv
<1>7. CASE room = 0
    <2>4. Len(q) + 2 > MsgRoom /\ Min2(2, room) = 0
        BY <1>1, <1>7, BlinkAssumption DEF Min2
    <2>1. overflowed'
        BY <1>11, <2>4, Zenon
    <2>2. msg_queue' = q
        BY <1>11, <1>12, <2>4, Zenon
    <2>3. (switchPresses + Cardinality(At(msg_queue, {Pressed})) <= pressed)'
        BY <1>3, <1>4, <1>10, <2>2
    <2> QED BY <2>1, <2>3 DEF ReportInv
<1>8. CASE room = 1
    <2>4. Len(q) + 2 > MsgRoom /\ Min2(2, room) = 1
        BY <1>1, <1>8, BlinkAssumption DEF Min2
    <2>1. overflowed'
        BY <1>11, <2>4, Zenon
    <2>2. msg_queue' = Append(q, a)
        BY <1>11, <1>12, <2>4, Zenon
    <2>3. (switchPresses + Cardinality(At(msg_queue, {Pressed})) <= pressed)'
        BY <1>3, <1>4, <1>6, <1>10, <2>2
    <2> QED BY <2>1, <2>3 DEF ReportInv
<1>9. CASE room >= 2
    <2>4. ~(Len(q) + 2 > MsgRoom) /\ Min2(2, room) = 2
        BY <1>1, <1>2, <1>9, BlinkAssumption DEF Min2
    <2>6. overflowed => overflowed'
        BY <1>11, Zenon
    <2>1. msg_queue' = Append(Append(q, a), Pressed)
        BY <1>11, <1>12, <2>4, Zenon
    <2>2. Cardinality(At(msg_queue', {Pressed})) = Cardinality(At(q, {Pressed})) + 1
        <3>1. Cardinality(At(Append(Append(q, a), Pressed), {Pressed}))
                  = Cardinality(At(Append(q, a), {Pressed})) + 1
            BY <1>1, <1>5, AppendCount
        <3> QED BY <1>6, <2>1, <3>1
    <2>3. ASSUME ~overflowed PROVE WillShow(msg_queue', shownLed', led')
        <3>1. WillShow(q, shownLed, led)
            BY <2>3 DEF ReportInv
        <3>2. WillShow(Append(q, a), shownLed, a)
            BY <1>1, <3>1, AppendShows
        <3>3. WillShow(Append(Append(q, a), Pressed), shownLed, a)
            BY <1>1, <1>5, <3>2, AppendShows
        <3> QED BY <1>3, <2>1, <3>3
    <2>7. (switchPresses + Cardinality(At(msg_queue, {Pressed})) <= pressed)'
        BY <1>3, <1>4, <1>10, <2>2
    <2>8. ASSUME ~overflowed
          PROVE  (switchPresses + Cardinality(At(msg_queue, {Pressed})) = pressed)'
        <3>1. switchPresses + Cardinality(At(q, {Pressed})) = pressed
            BY <2>8 DEF ReportInv
        <3> QED BY <1>3, <1>4, <2>2, <3>1
    <2> QED BY <2>6, <2>3, <2>7, <2>8 DEF ReportInv
<1> QED BY <1>2, <1>7, <1>8, <1>9

LEMMA TickReports == IInv /\ ReportInv /\ timer_callback_isr => ReportInv'
<1> SUFFICES ASSUME IInv, ReportInv, timer_callback_isr PROVE ReportInv'
    OBVIOUS
<1> DEFINE q == msg_queue
<1> DEFINE a == 1 - led
<1> DEFINE room == MsgRoom - Len(q)
<1>1. q \in Seq(Codes) /\ a \in {0, 1} /\ a \in Codes /\ a # Pressed
    BY DEF IInv, TypeOK, Codes, Pressed
<1>2. room \in Nat /\ Len(<<a>>) = 1
    BY BlinkAssumption DEF IInv, TypeOK
<1>3. /\ msg_queue' = q \o SubSeq(<<a>>, 1, Min2(1, room))
      /\ overflowed' = (overflowed \/ Len(q) + 1 > MsgRoom)
      /\ led' = a /\ pressed' = pressed
      /\ switchPresses' = switchPresses /\ shownLed' = shownLed
    BY <1>2 DEF timer_callback_isr, EnqueueMessages, printVars
<1>4. /\ switchPresses \in Nat /\ pressed \in Nat /\ Cardinality(At(q, {Pressed})) \in Nat
      /\ overflowed \in BOOLEAN
    BY <1>1, AtFinite DEF IInv, TypeOK
<1>7. switchPresses + Cardinality(At(q, {Pressed})) <= pressed
    BY DEF ReportInv
<1>5. CASE room = 0
    <2>4. Len(q) + 1 > MsgRoom /\ Min2(1, room) = 0
        BY <1>1, <1>5, BlinkAssumption DEF Min2
    <2>1. overflowed'
        BY <1>3, <2>4, Zenon
    <2>2. msg_queue' = q
        BY <1>1, <1>3, <2>4, EnqueueOne, Zenon
    <2>3. (switchPresses + Cardinality(At(msg_queue, {Pressed})) <= pressed)'
        BY <1>3, <1>4, <1>7, <2>2
    <2> QED BY <2>1, <2>3 DEF ReportInv
<1>6. CASE room >= 1
    <2>4. Min2(1, room) = 1
        BY <1>1, <1>2, <1>6, BlinkAssumption DEF Min2
    <2>6. overflowed => overflowed'
        BY <1>3, Zenon
    <2>1. msg_queue' = Append(q, a)
        BY <1>1, <1>3, <2>4, EnqueueOne, Zenon
    <2>2. Cardinality(At(msg_queue', {Pressed})) = Cardinality(At(q, {Pressed}))
        BY <1>1, <1>4, <2>1, AppendCount
    <2>3. ASSUME ~overflowed PROVE WillShow(msg_queue', shownLed', led')
        <3>1. WillShow(q, shownLed, led)
            BY <2>3 DEF ReportInv
        <3> QED BY <1>1, <1>3, <2>1, <3>1, AppendShows
    <2>7. (switchPresses + Cardinality(At(msg_queue, {Pressed})) <= pressed)'
        BY <1>3, <1>4, <1>7, <2>2
    <2>8. ASSUME ~overflowed
          PROVE  (switchPresses + Cardinality(At(msg_queue, {Pressed})) = pressed)'
        <3>1. switchPresses + Cardinality(At(q, {Pressed})) = pressed
            BY <2>8 DEF ReportInv
        <3> QED BY <1>3, <1>4, <2>2, <3>1
    <2> QED BY <2>6, <2>3, <2>7, <2>8 DEF ReportInv
<1> QED BY <1>2, <1>5, <1>6

LEMMA PrintReports == IInv /\ ReportInv /\ PrintMessage => ReportInv'
<1> SUFFICES ASSUME IInv, ReportInv, PrintMessage PROVE ReportInv'
    OBVIOUS
<1> DEFINE q == msg_queue
<1>1. q \in Seq(Codes) /\ q # <<>> /\ msg_queue' = Tail(q) /\ Tail(q) \in Seq(Codes)
    BY HeadTailProperties DEF IInv, TypeOK, PrintMessage
<1>2. /\ switchPresses' = switchPresses + (IF Head(q) \in {Pressed} THEN 1 ELSE 0)
      /\ shownLed' = IF Head(q) = Pressed THEN shownLed ELSE Head(q)
      /\ overflowed' = overflowed /\ led' = led /\ pressed' = pressed
    BY DEF PrintMessage, pinVars, IInv, TypeOK
<1>3. /\ switchPresses \in Nat /\ pressed \in Nat /\ Cardinality(At(q, {Pressed})) \in Nat
      /\ Cardinality(At(Tail(q), {Pressed})) \in Nat
    BY <1>1, AtFinite DEF IInv, TypeOK
<1>4. Cardinality(At(q, {Pressed}))
          = Cardinality(At(Tail(q), {Pressed})) + (IF Head(q) \in {Pressed} THEN 1 ELSE 0)
    BY <1>1, TailCount
<1>5. switchPresses' + Cardinality(At(msg_queue', {Pressed}))
          = switchPresses + Cardinality(At(q, {Pressed}))
    BY <1>1, <1>2, <1>3, <1>4
<1>6. ASSUME ~overflowed PROVE WillShow(msg_queue', shownLed', led')
    <2>1. WillShow(q, shownLed, led)
        BY <1>6 DEF ReportInv
    <2>2. WillShow(Tail(q), IF Head(q) = Pressed THEN shownLed ELSE Head(q), led)
        BY <1>1, <2>1, TailShows
    <2> QED BY <1>1, <1>2, <2>2
<1>7. ASSUME ~overflowed
      PROVE  switchPresses + Cardinality(At(q, {Pressed})) = pressed
    BY <1>7 DEF ReportInv
<1>8. switchPresses + Cardinality(At(q, {Pressed})) <= pressed
    BY DEF ReportInv
<1> HIDE DEF q
<1>9. (switchPresses + Cardinality(At(msg_queue, {Pressed})) <= pressed)'
    BY <1>2, <1>5, <1>8
<1>10. (~overflowed => switchPresses + Cardinality(At(msg_queue, {Pressed})) = pressed)'
    BY <1>2, <1>5, <1>7
<1> QED BY <1>2, <1>6, <1>9, <1>10 DEF ReportInv

\* Reading keys and going to sleep touch nothing that is reported.
LEMMA StepReport == IInv /\ ReportInv /\ [Next]_vars => ReportInv'
<1> SUFFICES ASSUME IInv, ReportInv, [Next]_vars PROVE ReportInv'
    OBVIOUS
<1>1. CASE UNCHANGED <<messageVars, printVars, pinVars>>
    BY <1>1 DEF messageVars, printVars, pinVars, ReportInv
<1>2. CASE uart_rx_isr \/ checkUart
    BY <1>1, <1>2 DEF uart_rx_isr, checkUart, Backspace, Enter, Refuse, Store, TakeKey, NoInput,
                      NoInputVars
<1>3. CASE NoMessage \/ WFI \/ UNCHANGED vars
    BY <1>1, <1>3 DEF NoMessage, WFI, NoInputVars, vars, messageVars, printVars, pinVars
<1> QED BY <1>2, <1>3, PressReports, TickReports, PrintReports DEF Next, main

LEMMA ReportInvSuffices == IInv /\ ReportInv => ReportsTruthful
<1> SUFFICES ASSUME IInv, ReportInv PROVE ReportsTruthful
    OBVIOUS
<1>1. msg_queue \in Seq(Codes)
    BY DEF IInv, TypeOK
<1>2. At(msg_queue, {Pressed}) = Waiting({Pressed})
    BY DEF At, Waiting
<1>3. ASSUME ~overflowed PROVE LedToShow = led
    <2>1. WillShow(msg_queue, shownLed, led)
        BY <1>3 DEF ReportInv
    <2> QED BY <1>1, <2>1, LedToShowIs
<1> QED BY <1>2, <1>3 DEF ReportInv, ReportsTruthful

\* The terminal shows every press once, none that did not happen, and the LED as it is,
\* unless a message found the queue full.
THEOREM ReportsAreTruthful == Spec => []ReportsTruthful
BY InitIInv, StepIInv, InitReport, StepReport, ReportInvSuffices, PTL DEF Spec
=============================================================================
