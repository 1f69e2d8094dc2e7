---------------------------- MODULE BlinkConsole ----------------------------
(***************************************************************************)
(* The GPIO, interrupts and timers lab: a main loop that reads keys and    *)
(* prints messages, against the interrupts of the button, of the LED's     *)
(* timer and of the UART, which fill its two queues.                       *)
(*                                                                         *)
(* Interrupt handlers do not nest (the drivers give them one priority) and *)
(* main() shares with them the queues and the timer only, so a handler and *)
(* an iteration's half are each one step; the test of the queues and the   *)
(* WFI that follows it are not.  The drivers are outside the repository.   *)
(***************************************************************************)
EXTENDS Integers, Sequences, FiniteSets

CONSTANTS BUFF_SIZE,   \* cells of the input buffer; isValidAEM() wants a digit in each
          MsgRoom,     \* messages that fit msg_queue
          RxRoom,      \* keys that fit rx_queue
          MaxPresses,  \* bound: presses of the button
          MaxKeys      \* bound: keys typed

ASSUME BlinkAssumption ==
    /\ BUFF_SIZE \in Nat \ {0}
    /\ MsgRoom \in Nat \ {0} /\ RxRoom \in Nat \ {0}
    /\ MaxPresses \in Nat /\ MaxKeys \in Nat

VARIABLES mainAt,         \* "uart", "msg": the test to come; "idle": both failed; "asleep"
          buff, buff_index,
          beyond,         \* what the byte after buff is to atoi: a digit, or none
          rx_queue, msg_queue,
          led, timer,     \* LEDPIN; whether the timer is enabled
          switchPresses,
          typed,          \* keys received so far
          pressed,        \* history: presses of the button
          shownLed,       \* history: the LED's state as the terminal last showed it
          overflowed,     \* history: whether a message found msg_queue full
          line,           \* history: the characters of the line as the terminal shows it
          reached,        \* history: the most characters the line has had
          cleared         \* history: whether buff has been cleared once

vars == <<mainAt, buff, buff_index, beyond, rx_queue, msg_queue, led, timer, switchPresses,
          typed, pressed, shownLed, overflowed, line, reached, cleared>>
inputVars == <<buff, buff_index, line, reached, cleared>>
messageVars == <<msg_queue, overflowed>>
printVars == <<switchPresses, shownLed>>
pinVars == <<led, pressed>>

\* Characters, by what the code tells apart.
Digits == {"odd", "even"}
Printable == Digits \cup {"other"}
NUL == "nul"
Cells == Printable \cup {NUL}
Keys == Printable \cup {"backspace", "enter"}
Pressed == 2                   \* the message code that is no state of the LED
Codes == {0, 1, Pressed}

Init ==
    /\ mainAt = "uart"
    /\ buff \in [1..BUFF_SIZE -> Cells]      \* never initialized
    /\ buff_index = 0
    /\ beyond \in Digits \cup {"none"}
    /\ rx_queue = <<>> /\ msg_queue = <<>>
    /\ led = 0 /\ timer = FALSE
    /\ switchPresses = 0
    /\ typed = 0 /\ pressed = 0 /\ shownLed = 0 /\ overflowed = FALSE
    /\ line = <<>> /\ reached = 0 /\ cleared = FALSE

-----------------------------------------------------------------------------
(* Interrupt handlers *)

Min2(a, b) == IF a < b THEN a ELSE b

\* queue_enqueue() of each code: what does not fit is dropped, and nobody looks.
EnqueueMessages(codes) ==
    /\ msg_queue' = msg_queue \o SubSeq(codes, 1, Min2(Len(codes), MsgRoom - Len(msg_queue)))
    /\ overflowed' = (overflowed \/ Len(msg_queue) + Len(codes) > MsgRoom)

\* An interrupt ends a sleep, and no test that was made before it.
Wake == mainAt' = IF mainAt = "asleep" THEN "uart" ELSE mainAt

\* Faulty variant: the handler reports the pin before it toggles it.
switchPressed_isrEarly ==
    /\ pressed < MaxPresses
    /\ timer' = FALSE
    /\ led' = 1 - led
    /\ pressed' = pressed + 1
    /\ EnqueueMessages(<<led, Pressed>>)
    /\ Wake
    /\ UNCHANGED <<inputVars, beyond, rx_queue, printVars, typed>>

switchPressed_isr ==
    /\ pressed < MaxPresses
    /\ timer' = FALSE
    /\ led' = 1 - led
    /\ pressed' = pressed + 1
    /\ EnqueueMessages(<<1 - led, Pressed>>)
    /\ Wake
    /\ UNCHANGED <<inputVars, beyond, rx_queue, printVars, typed>>

timer_callback_isr ==
    /\ timer
    /\ led' = 1 - led
    /\ EnqueueMessages(<<1 - led>>)
    /\ Wake
    /\ UNCHANGED <<inputVars, beyond, rx_queue, timer, printVars, typed, pressed>>

\* A byte above 0x7F is ignored, and so is one that finds the queue full; either
\* way the interrupt happened.
uart_rx_isr ==
    /\ typed < MaxKeys
    /\ typed' = typed + 1
    /\ \/ /\ Len(rx_queue) < RxRoom
          /\ \E key \in Keys : rx_queue' = Append(rx_queue, key)
       \/ UNCHANGED rx_queue
    /\ Wake
    /\ UNCHANGED <<inputVars, beyond, messageVars, pinVars, timer, printVars>>

-----------------------------------------------------------------------------
(* checkUart(): one key of rx_queue *)

TakeKey(key) ==
    /\ mainAt = "uart"
    /\ rx_queue # <<>> /\ Head(rx_queue) = key
    /\ rx_queue' = Tail(rx_queue)
    /\ UNCHANGED <<mainAt, beyond, messageVars, pinVars, printVars, typed>>

\* The cell keeps its character; only the index moves.
Backspace ==
    /\ TakeKey("backspace")
    /\ IF buff_index > 0
       THEN buff_index' = buff_index - 1 /\ line' = SubSeq(line, 1, Len(line) - 1)
       ELSE UNCHANGED <<buff_index, line>>
    /\ UNCHANGED <<buff, reached, cleared, timer>>

\* Faulty variant: the test goes up to the index.
isValidAEMTyped == \A i \in 1..buff_index : buff[i] \in Digits

isValidAEM == \A i \in 1..BUFF_SIZE : buff[i] \in Digits

\* atoi() stops at no terminator of the buffer's own: it takes the byte after it too,
\* and the last digit it takes decides.
Odd == IF beyond = "none" THEN buff[BUFF_SIZE] = "odd" ELSE beyond = "odd"

checkAEM == timer' = IF isValidAEM THEN Odd ELSE timer

\* Faulty variant: the buffer is not cleared.
EnterKeepsBuffer ==
    /\ TakeKey("enter")
    /\ checkAEM
    /\ buff_index' = 0
    /\ line' = <<>> /\ reached' = 0 /\ cleared' = TRUE
    /\ UNCHANGED buff

Enter ==
    /\ TakeKey("enter")
    /\ checkAEM
    /\ buff_index' = 0
    /\ buff' = [i \in 1..BUFF_SIZE |-> NUL]
    /\ line' = <<>> /\ reached' = 0 /\ cleared' = TRUE

Refuse(key) ==
    /\ TakeKey(key)
    /\ buff_index >= BUFF_SIZE
    /\ UNCHANGED <<inputVars, timer>>

Store(key) ==
    /\ TakeKey(key)
    /\ buff_index < BUFF_SIZE
    /\ buff' = [buff EXCEPT ![buff_index + 1] = key]
    /\ buff_index' = buff_index + 1
    /\ line' = Append(line, key)
    /\ reached' = IF buff_index + 1 > reached THEN buff_index + 1 ELSE reached
    /\ UNCHANGED <<cleared, timer>>

NoInputVars == <<inputVars, beyond, rx_queue, messageVars, pinVars, timer, printVars, typed>>

NoInput ==
    /\ mainAt = "uart" /\ rx_queue = <<>>
    /\ mainAt' = "msg"
    /\ UNCHANGED NoInputVars

checkUart ==
    Backspace \/ Enter \/ (\E key \in Printable : Refuse(key) \/ Store(key)) \/ NoInput

-----------------------------------------------------------------------------
(* checkMessg(), when checkUart() returned false *)

PrintMessage ==
    /\ mainAt = "msg" /\ msg_queue # <<>>
    /\ msg_queue' = Tail(msg_queue)
    /\ IF Head(msg_queue) = Pressed
       THEN switchPresses' = switchPresses + 1 /\ UNCHANGED shownLed
       ELSE shownLed' = Head(msg_queue) /\ UNCHANGED switchPresses
    /\ mainAt' = "uart"
    /\ UNCHANGED <<inputVars, beyond, rx_queue, overflowed, pinVars, timer, typed>>

\* Faulty variant: main() waits for a message once it has begun to look for one.
NoMessageWaits ==
    /\ mainAt = "msg" /\ msg_queue = <<>>
    /\ UNCHANGED vars

NoMessage ==
    /\ mainAt = "msg" /\ msg_queue = <<>>
    /\ mainAt' = "idle"
    /\ UNCHANGED NoInputVars

\* It ends with the next interrupt, also when one came between the tests and here.
WFI ==
    /\ mainAt = "idle"
    /\ mainAt' = "asleep"
    /\ UNCHANGED NoInputVars

main == checkUart \/ PrintMessage \/ NoMessage \/ WFI

-----------------------------------------------------------------------------
Next == switchPressed_isr \/ timer_callback_isr \/ uart_rx_isr \/ main

\* The processor runs when it does not sleep, and an enabled timer fires; nobody has to
\* press or type, and MaxKeys says that nobody types for ever.
Spec == Init /\ [][Next]_vars /\ WF_vars(main) /\ WF_vars(timer_callback_isr)

-----------------------------------------------------------------------------
(* Properties *)

TypeOK ==
    /\ mainAt \in {"uart", "msg", "idle", "asleep"}
    /\ buff \in [1..BUFF_SIZE -> Cells] /\ buff_index \in 0..BUFF_SIZE
    /\ beyond \in Digits \cup {"none"}
    /\ rx_queue \in Seq(Keys) /\ Len(rx_queue) <= RxRoom
    /\ msg_queue \in Seq(Codes) /\ Len(msg_queue) <= MsgRoom
    /\ led \in 0..1 /\ shownLed \in 0..1
    /\ timer \in BOOLEAN /\ overflowed \in BOOLEAN /\ cleared \in BOOLEAN
    /\ switchPresses \in Nat /\ typed \in Nat /\ pressed \in Nat
    /\ line \in Seq(Printable) /\ reached \in 0..BUFF_SIZE

\* The buffer starts with what the terminal shows of the line, and once it has been
\* cleared nothing lies beyond the longest the line has been.
BufferHoldsLine ==
    /\ Len(line) = buff_index /\ buff_index <= reached
    /\ \A i \in 1..buff_index : buff[i] = line[i]
    /\ cleared => \A i \in (reached + 1)..BUFF_SIZE : buff[i] = NUL

IInv == TypeOK /\ BufferHoldsLine

\* Apart from the button's handler, the timer is switched by a line that filled the
\* buffer at one time, or by the first line of all, which is read together with what
\* was on the stack (main.c:113-121, :145-149, :167).  A character erased with
\* backspace still counts.  This is what the code does, and not what the labs' README
\* asks for ("If the number is odd, set a timer to blink the LED"): an AEM of five digits,
\* which main.c:22 makes room for, is a digit shorter than the buffer and switches nothing.
LineSwitchesTimer ==
    [][timer' # timer /\ pressed' = pressed
       => /\ cleared => reached = BUFF_SIZE
          /\ \A i \in 1..Len(line) : line[i] \in Digits]_vars

Waiting(codes) == {i \in 1..Len(msg_queue) : msg_queue[i] \in codes}

\* The state the terminal will show once it has printed what is queued.
LedToShow ==
    IF Waiting({0, 1}) = {} THEN shownLed
    ELSE msg_queue[CHOOSE i \in Waiting({0, 1}) : \A j \in Waiting({0, 1}) : j <= i]

\* As long as no message found the queue full, the terminal will show the LED as it
\* is and every press once, whatever the order of presses, ticks and prints; it
\* never counts a press that did not happen (main.c:35-54, :74-95).
ReportsTruthful ==
    /\ switchPresses + Cardinality(Waiting({Pressed})) <= pressed
    /\ ~overflowed => /\ LedToShow = led
                      /\ switchPresses + Cardinality(Waiting({Pressed})) = pressed

\* A key waits for ever only in front of a processor that sleeps.  (Messages may wait
\* behind keys for as long as those keep coming: checkUart() goes first.)
KeysHandled == <>[](rx_queue # <<>>) => <>[](mainAt = "asleep")

\* "Both the keypress and the led change are added to message queue so that they are
\* eventually printed by uart" (main.c:33-34).
PressesPrinted == \A n \in 1..MaxPresses : pressed >= n ~> switchPresses >= n
=============================================================================
