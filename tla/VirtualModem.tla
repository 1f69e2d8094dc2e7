---------------------------- MODULE VirtualModem ----------------------------
(***************************************************************************)
(* The virtual modem of Computer_Networks_1: echo, image, GPS and ARQ      *)
(* requests over one connection, each reading its answer symbol by symbol  *)
(* until a suffix it recognizes or a read that times out.                  *)
(*                                                                         *)
(* The modem and its server are outside of the source: a stream of answers *)
(* in order, none lost while the connection is up, any of them later than  *)
(* the timeout.  read() gives -1 for a timeout and for a dead connection   *)
(* alike and throws nothing; write() does not say whether it succeeded.    *)
(* A symbol stands for bytes that the program treats alike.                *)
(***************************************************************************)
EXTENDS Integers, SequencesExt

CONSTANTS Traces,    \* the times of the fixes of a GPS answer, in seconds
          MaxCalls,  \* bound: calls main() makes
          MaxLate,   \* bound: reads that time out although their answer is under way
          MaxErrors  \* bound: packets the server garbles

ASSUME ModemAssumption ==
    /\ Traces \subseteq Seq(Nat)
    /\ MaxCalls \in Nat /\ MaxLate \in Nat /\ MaxErrors \in Nat

VARIABLES up,      \* whether the connection is alive
          line,    \* the symbols on their way, each with the request it answers
          sent,    \* requests written so far
          call,    \* the method that runs, or ran last: its locals and its end
          calls, late, errors

vars == <<up, line, sent, call, calls, late, errors>>

Ops == {"echo", "image", "gps", "arq"}
Places == {"greeting", "idle", "suffix", "packet", "fcs", "fix"}

\* at, i: the loop the method is in, and how much of the suffix it has read;
\* received, sum, inverted: AQRpackets, the last two being what checkFCS holds;
\* time, garbled, coords: the fix being read and the fixes selected; file: the image's.
\* Histories: mine, the requests of the call; used, the request whose packet or suffix
\* ended it, 0 without one; seen, the fixes read.
NewCall(o, requests) ==
    [op |-> o, at |-> "suffix", i |-> 0,
     received |-> FALSE, sum |-> "empty", inverted |-> FALSE,
     time |-> 0, garbled |-> FALSE, coords |-> <<>>, file |-> <<>>,
     mine |-> requests, used |-> 0, seen |-> <<>>]

\* The suffixes, in the two parts between which a read may time out.
Suffix(o) ==
    CASE o \in {"echo", "arq"} -> <<"PS", "TOP">>
      [] o = "image"           -> <<"FF", "D9">>
      [] o = "gps"             -> <<"GP", "GGA">>

Names == {"text", "PS", "TOP", "FF", "D9", "GP", "GGA", "time", "commas",
          "<", ">", "data", "noise", "fcs"}
Symbols(names) == [j \in DOMAIN names |-> <<names[j], 0>>]
Sentence(t) == <<<<"GP", 0>>, <<"GGA", 0>>, <<"time", t>>, <<"commas", 0>>>>
Sentences(t) ==
    [j \in 1..(4 * Len(t)) |-> Sentence(t[(j + 3) \div 4])[((j + 3) % 4) + 1]]
Packet(data) == Symbols(<<"text", "<", data, ">", "fcs", "PS", "TOP">>)

\* What the server answers.  An image may have one more FF in front of its end marker.
Images == {Symbols(<<"text", "FF", "D9">>), Symbols(<<"text", "FF", "FF", "D9">>)}
Answers(o) ==
    CASE o = "echo"  -> {Symbols(<<"text", "PS", "TOP">>)}
      [] o = "image" -> Images
      [] o = "gps"   -> {Sentences(t) : t \in Traces}
      [] o = "arq"   -> {Packet("data")} \cup (IF errors < MaxErrors THEN {Packet("noise")} ELSE {})

Tagged(answer, n) == [j \in DOMAIN answer |-> [sym |-> answer[j][1], val |-> answer[j][2], of |-> n]]

Init ==
    /\ up = TRUE /\ sent = 0
    /\ line = Tagged(Symbols(<<"text">>), 0)
    /\ call = [NewCall("echo", {}) EXCEPT !.at = "greeting"]
    /\ calls = 0 /\ late = 0 /\ errors = 0

-----------------------------------------------------------------------------
(* Writing.  On a dead connection nothing happens, and the caller goes on. *)

Asked == IF up THEN {sent + 1} ELSE {}

\* A request is written when `rest' is what is left on the line.
Write(o, rest) ==
    IF up
    THEN \E answer \in Answers(o) :
            /\ sent' = sent + 1
            /\ line' = rest \o Tagged(answer, sent + 1)
            /\ errors' = errors + (IF answer = Packet("noise") THEN 1 ELSE 0)
    ELSE UNCHANGED <<sent, line, errors>>

Begin(o) ==
    /\ call.at = "idle" /\ calls < MaxCalls
    /\ calls' = calls + 1
    /\ Write(o, line)
    /\ call' = NewCall(o, Asked)
    /\ UNCHANGED <<up, late>>

\* What AQRpackets does without a packet: it asks for it again.
Nack(rest) ==
    /\ Write("arq", rest)
    /\ call' = [call EXCEPT !.i = 0, !.at = "suffix", !.mine = @ \cup Asked]

\* The end of getGps: an image of the selected fixes, read by getImage.
RequestImage(rest) ==
    /\ Write("image", rest)
    /\ call' = [NewCall("image", Asked) EXCEPT !.coords = call.coords, !.seen = call.seen]

-----------------------------------------------------------------------------
(* Reading a symbol *)

Now == Head(line)
Reads(place) == up /\ line # <<>> /\ call.at = place
Take == line' = Tail(line) /\ UNCHANGED <<sent, errors>>
Others == UNCHANGED <<up, calls, late>>

\* The search for the suffix: what does not continue it is not tried as its beginning.
Match == IF Now.sym = Suffix(call.op)[call.i + 1] THEN call.i + 1 ELSE 0

Stored == IF call.op = "image" THEN Append(call.file, Now.sym) ELSE call.file

ReadOn ==
    /\ Reads("suffix") /\ Match < 2
    /\ Take
    /\ call' = IF call.op = "arq" /\ Now.sym = "<"
               THEN [call EXCEPT !.i = 0, !.at = "packet", !.sum = "empty", !.inverted = FALSE]
               ELSE [call EXCEPT !.i = Match, !.file = Stored]
    /\ Others

Ends(o) == Reads("suffix") /\ Match = 2 /\ call.op = o

ReadEnd ==
    /\ \E o \in {"echo", "image"} : Ends(o)
    /\ Take
    /\ call' = [call EXCEPT !.at = "idle", !.used = Now.of, !.file = Stored]
    /\ Others

ArqReturns ==
    /\ Ends("arq") /\ call.received
    /\ Take
    /\ call' = [call EXCEPT !.at = "idle"]
    /\ Others

ArqRetries ==
    /\ Ends("arq") /\ ~call.received
    /\ Nack(Tail(line))
    /\ Others

\* Between < and > each character goes into checkFCS, and the FCS follows.
ReadPacket ==
    /\ Reads("packet")
    /\ Take
    /\ call' = IF Now.sym = ">" THEN [call EXCEPT !.at = "fcs"]
               ELSE [call EXCEPT !.sum = IF @ = "empty" /\ Now.sym = "data" THEN "good" ELSE "bad"]
    /\ Others

Correct == Now.sym = "fcs" /\ call.sum = "good" /\ ~call.inverted

\* Faulty variant: AQRpackets asks again as soon as an FCS is wrong.
ReadFcsRetries ==
    /\ Reads("fcs")
    /\ IF Correct
       THEN /\ Take
            /\ call' = [call EXCEPT !.at = "suffix", !.received = TRUE, !.used = Now.of]
       ELSE Nack(Tail(line))
    /\ Others

\* Faulty variant: AQRpackets returns as soon as a packet is correct.
ReadFcsReturns ==
    /\ Reads("fcs")
    /\ Take
    /\ call' = IF Correct
               THEN [call EXCEPT !.at = "idle", !.received = TRUE, !.used = Now.of]
               ELSE [call EXCEPT !.at = "suffix"]
    /\ Others

ReadFcs ==
    /\ Reads("fcs")
    /\ Take
    /\ call' = IF Correct
               THEN [call EXCEPT !.at = "suffix", !.received = TRUE, !.used = Now.of]
               ELSE [call EXCEPT !.at = "suffix"]
    /\ Others

SentenceBegins ==
    /\ Ends("gps")
    /\ Take
    /\ call' = [call EXCEPT !.at = "fix", !.garbled = FALSE]
    /\ Others

ReadTime ==
    /\ Reads("fix") /\ Now.sym # "commas"
    /\ Take
    /\ call' = [call EXCEPT !.time = Now.val]
    /\ Others

\* More than 4 seconds after the last one selected.
Apart(t) == call.coords = <<>> \/ t - Last(call.coords) > 4

\* Faulty variant: the time compared is that of the fix before.
SelectedAfterAny(t) ==
    IF call.seen = <<>> \/ t - Last(call.seen) > 4 THEN Append(call.coords, t) ELSE call.coords

Selected(t) == IF Apart(t) THEN Append(call.coords, t) ELSE call.coords

\* A timeout among the fields puts a character into one of them that may make the
\* sentence unreadable.
ReadFix ==
    /\ Reads("fix") /\ Now.sym = "commas"
    /\ \/ /\ Take
          /\ call' = [call EXCEPT !.at = "suffix", !.i = 0, !.coords = Selected(call.time),
                                  !.seen = Append(@, call.time)]
       \/ call.garbled /\ RequestImage(Tail(line))
    /\ Others

ReadGreeting ==
    /\ Reads("greeting")
    /\ Take
    /\ UNCHANGED call
    /\ Others

ReadSymbol ==
    \/ ReadGreeting \/ ReadOn \/ ReadEnd \/ ArqReturns \/ ArqRetries
    \/ ReadPacket \/ ReadFcs \/ SentenceBegins \/ ReadTime \/ ReadFix

-----------------------------------------------------------------------------
(* Reading -1 *)

Silent(place) ==
    /\ call.at = place
    /\ late' = late + (IF line = <<>> THEN 0 ELSE 1)
    /\ late' <= MaxLate
    /\ UNCHANGED <<up, calls>>

\* Faulty variant: getImage() does not look for -1.
TimeoutEndsNoImage ==
    /\ \/ Silent("greeting")
       \/ Silent("suffix") /\ \/ call.op = "echo"
                              \/ call.op = "arq" /\ call.received
    /\ call' = [call EXCEPT !.at = "idle"]
    /\ UNCHANGED <<line, sent, errors>>

TimeoutEnds ==
    /\ \/ Silent("greeting")
       \/ Silent("suffix") /\ \/ call.op \in {"echo", "image"}
                              \/ call.op = "arq" /\ call.received
    /\ call' = [call EXCEPT !.at = "idle"]
    /\ UNCHANGED <<line, sent, errors>>

TimeoutRetries ==
    /\ Silent("suffix") /\ call.op = "arq" /\ ~call.received
    /\ Nack(line)

TimeoutEndsTrace ==
    /\ Silent("suffix") /\ call.op = "gps"
    /\ RequestImage(line)

\* Nobody looks for -1 inside of a packet or a sentence: it is a character like others.
TimeoutIgnored ==
    /\ call' = CASE call.at = "packet" -> [call EXCEPT !.inverted = ~@]
                 [] call.at = "fcs"    -> [call EXCEPT !.at = "suffix"]
                 [] OTHER              -> [call EXCEPT !.garbled = TRUE]
    /\ Silent("packet") \/ Silent("fcs") \/ Silent("fix")
    /\ UNCHANGED <<line, sent, errors>>

Timeout == TimeoutEnds \/ TimeoutRetries \/ TimeoutEndsTrace \/ TimeoutIgnored

\* The connection dies with what is on it.
Disconnect ==
    /\ up
    /\ up' = FALSE /\ line' = <<>>
    /\ UNCHANGED <<sent, call, calls, late, errors>>

Next == (\E o \in Ops : Begin(o)) \/ ReadSymbol \/ Timeout \/ Disconnect

\* What is on the line arrives, and a read returns; the server garbles no more than
\* MaxErrors packets and answers after the timeout no more than MaxLate times.
Spec == Init /\ [][Next]_vars /\ WF_vars(ReadSymbol) /\ WF_vars(line = <<>> /\ Timeout)

-----------------------------------------------------------------------------
(* Properties *)

TypeOK ==
    /\ up \in BOOLEAN /\ sent \in Nat /\ calls \in Nat /\ late \in Nat /\ errors \in Nat
    /\ line \in Seq([sym : Names, val : Nat, of : 0..sent])
    /\ call \in [op : Ops, at : Places, i : 0..1,
                  received : BOOLEAN, sum : {"empty", "good", "bad"}, inverted : BOOLEAN,
                  time : Nat, garbled : BOOLEAN, coords : Seq(Nat), file : Seq(Names),
                  mine : SUBSET (1..sent), used : 0..sent, seen : Seq(Nat)]

Outstanding == {line[j].of : j \in DOMAIN line}

\* Requests are sent one by one, each when its predecessor has been answered: more
\* answers are on the line only after as many timeouts of reads that were too early,
\* of which a garbled sentence has met one.
Backlog ==
    Cardinality(Outstanding) <=
        late + (IF call.at = "idle" \/ (call.at = "fix" /\ call.garbled) THEN 0 ELSE 1)

\* What reads echo, an image and a packet to its end reads all of that answer.
LineInv ==
    /\ ~up => line = <<>>
    /\ \A j, k \in DOMAIN line :
          j < k /\ line[j].sym \in {"TOP", "D9"} => line[k].of # line[j].of

PlaceInv ==
    /\ call.at = "greeting" => call.op = "echo" /\ call.used = 0
    /\ call.at \in {"packet", "fcs"} => call.op = "arq"
    /\ call.at = "fix" => call.op = "gps"

\* Unless a read was too early: the line belongs to the call that runs, which reads an
\* image from its first symbol on, and the fields of a fix in their order.
OwnInv ==
    late = 0 =>
    /\ call.at # "greeting" => Outstanding \subseteq call.mine
    /\ call.used # 0 => call.used \in call.mine
    /\ call.op = "image" /\ up =>
          \E image \in Images :
             call.file \o [j \in DOMAIN line |-> line[j].sym] = [j \in DOMAIN image |-> image[j][1]]

FollowedBy(first, second) ==
    \A j \in DOMAIN line :
       line[j].sym = first => j + 1 \in DOMAIN line /\ line[j + 1].sym = second

FieldInv ==
    late = 0 /\ call.op = "gps" =>
    /\ FollowedBy("GGA", "time") /\ FollowedBy("time", "commas")
    /\ call.at = "fix" /\ line # <<>> => Now.sym \in {"time", "commas"}

\* The traces of a day.
Ascending == \A t \in Traces : \A j, k \in DOMAIN t : j < k => t[j] <= t[k]

OnLine(t) == \A j \in DOMAIN line : line[j].sym = "time" => t <= line[j].val
AfterSelected(t) == call.coords # <<>> => Last(call.coords) <= t

\* The fixes to come are no earlier than the one being read and those selected.
TimeInv ==
    Ascending /\ late = 0 /\ call.op = "gps" =>
    /\ \A j, k \in DOMAIN line :
          j < k /\ line[j].sym = "time" /\ line[k].sym = "time" => line[j].val <= line[k].val
    /\ \A j \in DOMAIN line : line[j].sym = "time" => AfterSelected(line[j].val)
    /\ call.at = "fix" /\ line # <<>> /\ Now.sym = "commas" =>
          AfterSelected(call.time) /\ OnLine(call.time)

IInv == TypeOK /\ Backlog /\ LineInv /\ PlaceInv /\ OwnInv /\ FieldInv /\ TimeInv

\* Unless a read was too early, a call ends with the answer to a request of its own, so
\* that a response time is that of a packet asked for (virtualModem.java:41-74,
\* :206-271), and the image saved is the whole answer, also where the search misses the
\* end marker.
AnswersOwn ==
    late = 0 =>
    /\ call.used # 0 => call.used \in call.mine
    /\ call.op = "image" /\ call.at = "idle" /\ up =>
          \E image \in Images : call.file = [j \in DOMAIN image |-> image[j][1]]

\* "selects coordinates that are at least 4 seconds appart" (virtualModem.java:126) of a
\* trace within a day: those selected are, and unless a read was too early each one
\* left out is no more than 4 seconds after one selected.
TraceCovered ==
    /\ \A j \in 2..Len(call.coords) : call.coords[j] - call.coords[j - 1] >= 4
    /\ late = 0 => \A j \in DOMAIN call.seen : \E k \in DOMAIN call.coords :
          call.seen[j] - call.coords[k] \in 0..4

\* On a connection that stays up every call returns, whatever is late or garbled; on a
\* dead one echo() and getImage() return too.
CallsEnd ==
    call.at # "idle" ~> call.at = "idle" \/ (~up /\ call.op \in {"arq", "gps"})
=============================================================================
