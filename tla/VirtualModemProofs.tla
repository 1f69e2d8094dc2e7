-------------------------- MODULE VirtualModemProofs --------------------------
(***************************************************************************)
(* Proofs about VirtualModem, for every set of traces, any number of calls,*)
(* late answers and garbled packets.                                       *)
(***************************************************************************)
EXTENDS VirtualModem, FiniteSetTheorems, SequenceTheorems, TLAPS

-----------------------------------------------------------------------------
(* The line *)

Symbol(n) == [sym : Names, val : Nat, of : 0..n]
Tags(l) == {l[j].of : j \in DOMAIN l}

\* An answer's end marker is its last symbol.
EndsLast(l) ==
    \A j, k \in DOMAIN l : j < k /\ l[j].sym \in {"TOP", "D9"} => l[k].of # l[j].of

LEMMA TailFacts ==
    ASSUME NEW S, NEW s \in Seq(S), s # <<>>
    PROVE  /\ Tail(s) \in Seq(S) /\ Head(s) \in S /\ Head(s) = s[1]
           /\ Len(s) \in Nat \ {0} /\ Len(Tail(s)) = Len(s) - 1
           /\ DOMAIN s = 1..Len(s) /\ DOMAIN Tail(s) = 1..(Len(s) - 1)
           /\ \A j \in DOMAIN Tail(s) : j + 1 \in DOMAIN s /\ Tail(s)[j] = s[j + 1]
BY HeadTailProperties, LenProperties

LEMMA ConcatFacts ==
    ASSUME NEW S, NEW s \in Seq(S), NEW t \in Seq(S)
    PROVE  /\ s \o t \in Seq(S) /\ Len(s \o t) = Len(s) + Len(t)
           /\ Len(s) \in Nat /\ Len(t) \in Nat
           /\ DOMAIN s = 1..Len(s) /\ DOMAIN t = 1..Len(t)
           /\ DOMAIN (s \o t) = 1..(Len(s) + Len(t))
           /\ \A j \in DOMAIN s : (s \o t)[j] = s[j]
           /\ \A j \in DOMAIN (s \o t) : j > Len(s) =>
                 j - Len(s) \in DOMAIN t /\ (s \o t)[j] = t[j - Len(s)]
BY ConcatProperties, LenProperties

\* What the server answers is of known symbols, and ends where the program looks for it.
LEMMA SymbolsFacts ==
    ASSUME NEW names \in Seq(Names),
           \A j \in 1..Len(names) : names[j] \in {"TOP", "D9"} => j = Len(names)
    PROVE  LET s == Symbols(names)
           IN  /\ s \in Seq(Names \X Nat) /\ Len(s) = Len(names)
               /\ \A j \in 1..Len(names) : s[j] = <<names[j], 0>>
               /\ \A j \in 1..Len(s) : s[j][1] \in {"TOP", "D9"} => j = Len(s)
<1>1. Len(names) \in Nat /\ DOMAIN names = 1..Len(names)
      /\ \A j \in 1..Len(names) : names[j] \in Names
    OBVIOUS
<1>2. Symbols(names) = [j \in 1..Len(names) |-> <<names[j], 0>>]
    BY <1>1 DEF Symbols
<1> DEFINE s == Symbols(names)
<1>3. ASSUME NEW j \in 1..Len(names)
      PROVE  s[j] = <<names[j], 0>> /\ s[j][1] = names[j] /\ s[j] \in Names \X Nat
    <2>1. s[j] = <<names[j], 0>>
        BY <1>2
    <2>2. \A x \in Names : <<x, 0>>[1] = x /\ <<x, 0>> \in Names \X Nat
        OBVIOUS
    <2>3. names[j] \in Names
        BY <1>1
    <2> HIDE DEF s
    <2> QED BY <2>1, <2>2, <2>3
<1>4. s \in [1..Len(names) -> Names \X Nat]
    <2> DEFINE dom == 1..Len(names)
               range == Names \X Nat
    <2>1. s = [j \in dom |-> s[j]]
        BY <1>2
    <2>2. \A j \in dom : s[j] \in range
        BY <1>3
    <2> HIDE DEF s, dom, range
    <2>3. s \in [dom -> range]
        BY <2>1, <2>2
    <2> QED BY <2>3 DEF dom, range
<1> HIDE DEF s
<1>5. s \in Seq(Names \X Nat) /\ Len(s) = Len(names)
    <2>1. Len(names) \in Nat
        BY <1>1
    <2> QED BY <2>1, <1>4
<1> QED BY <1>3, <1>5 DEF s

LEMMA SentencesFacts ==
    ASSUME NEW t \in Seq(Nat)
    PROVE  LET s == Sentences(t)
               Fields == <<"GP", "GGA", "time", "commas">>
           IN  /\ s \in Seq(Names \X Nat) /\ Len(s) = 4 * Len(t)
               /\ \A j \in 1..Len(s) :
                     /\ (j + 3) \div 4 \in 1..Len(t)
                     /\ s[j][1] = Fields[((j + 3) % 4) + 1]
                     /\ s[j][1] = "time" => s[j][2] = t[(j + 3) \div 4]
<1> DEFINE s == Sentences(t)
           Fields == <<"GP", "GGA", "time", "commas">>
<1>1. Len(t) \in Nat /\ DOMAIN t = 1..Len(t) /\ \A k \in 1..Len(t) : t[k] \in Nat
    OBVIOUS
<1>2. ASSUME NEW j \in 1..(4 * Len(t))
      PROVE  /\ (j + 3) \div 4 \in 1..Len(t)
             /\ s[j] \in Names \X Nat
             /\ s[j][1] = Fields[((j + 3) % 4) + 1]
             /\ s[j][1] = "time" => s[j][2] = t[(j + 3) \div 4]
    <2> DEFINE k == (j + 3) \div 4
    <2>1. k \in 1..Len(t) /\ t[k] \in Nat
        BY <1>1
    <2>2. (j + 3) % 4 \in 0..3
        OBVIOUS
    <2>3. s[j] = Sentence(t[k])[((j + 3) % 4) + 1]
        BY DEF Sentences
    <2> HIDE DEF s, k
    <2>4. CASE (j + 3) % 4 = 0
        BY <2>1, <2>3, <2>4 DEF Sentence, Names, k
    <2>5. CASE (j + 3) % 4 = 1
        BY <2>1, <2>3, <2>5 DEF Sentence, Names, k
    <2>6. CASE (j + 3) % 4 = 2
        BY <2>1, <2>3, <2>6 DEF Sentence, Names, k
    <2>7. CASE (j + 3) % 4 = 3
        BY <2>1, <2>3, <2>7 DEF Sentence, Names, k
    <2> QED BY <2>2, <2>4, <2>5, <2>6, <2>7
<1>3. s \in Seq(Names \X Nat) /\ Len(s) = 4 * Len(t)
    <2>1. 4 * Len(t) \in Nat
        BY <1>1
    <2>2. s \in [1..(4 * Len(t)) -> Names \X Nat]
        <3>1. s = [j \in 1..(4 * Len(t)) |-> s[j]]
            BY DEF Sentences
        <3> HIDE DEF s
        <3> QED BY <1>2, <3>1
    <2> HIDE DEF s
    <2> QED BY <2>1, <2>2
<1> HIDE DEF s
<1> QED BY <1>2, <1>3 DEF s

LEMMA AnswerFacts ==
    ASSUME NEW o \in Ops, NEW answer \in Answers(o)
    PROVE  /\ answer \in Seq(Names \X Nat)
           /\ \A j \in 1..Len(answer) : answer[j][1] \in {"TOP", "D9"} => j = Len(answer)
<1> DEFINE Good == /\ answer \in Seq(Names \X Nat)
                   /\ \A j \in 1..Len(answer) : answer[j][1] \in {"TOP", "D9"} => j = Len(answer)
<1>1. CASE o = "echo"
    <2> DEFINE names == <<"text", "PS", "TOP">>
    <2>1. answer = Symbols(names)
        BY <1>1 DEF Answers
    <2>2. names \in Seq(Names) /\ Len(names) = 3
          /\ \A j \in 1..Len(names) : names[j] \in {"TOP", "D9"} => j = Len(names)
        BY DEF Names
    <2> HIDE DEF names
    <2> QED BY <2>1, <2>2, SymbolsFacts
<1>2. CASE o = "image"
    <2> DEFINE short == <<"text", "FF", "D9">>
               long == <<"text", "FF", "FF", "D9">>
    <2>1. short \in Seq(Names) /\ Len(short) = 3
          /\ \A j \in 1..Len(short) : short[j] \in {"TOP", "D9"} => j = Len(short)
        BY DEF Names
    <2>2. long \in Seq(Names) /\ Len(long) = 4
          /\ \A j \in 1..Len(long) : long[j] \in {"TOP", "D9"} => j = Len(long)
        BY DEF Names
    <2>3. answer = Symbols(short) \/ answer = Symbols(long)
        BY <1>2 DEF Answers, Images
    <2> HIDE DEF short, long
    <2> QED BY <2>1, <2>2, <2>3, SymbolsFacts
<1>3. CASE o = "gps"
    <2>1. PICK t \in Traces : answer = Sentences(t)
        BY <1>3 DEF Answers
    <2>2. t \in Seq(Nat)
        BY ModemAssumption
    <2>3. /\ answer \in Seq(Names \X Nat)
          /\ \A j \in 1..Len(answer) :
                answer[j][1] = <<"GP", "GGA", "time", "commas">>[((j + 3) % 4) + 1]
        BY <2>1, <2>2, SentencesFacts
    <2>4. \A r \in 1..4 : <<"GP", "GGA", "time", "commas">>[r] \notin {"TOP", "D9"}
        OBVIOUS
    <2>5. \A j \in 1..Len(answer) : ((j + 3) % 4) + 1 \in 1..4
        BY <2>3
    <2> QED BY <2>3, <2>4, <2>5
<1>4. CASE o = "arq"
    <2>1. ASSUME NEW data \in {"data", "noise"}, answer = Packet(data) PROVE Good
        <3> DEFINE names == <<"text", "<", data, ">", "fcs", "PS", "TOP">>
        <3>1. names \in Seq(Names) /\ Len(names) = 7
              /\ \A j \in 1..Len(names) : names[j] \in {"TOP", "D9"} => j = Len(names)
            BY DEF Names
        <3>2. answer = Symbols(names)
            BY <2>1 DEF Packet
        <3> HIDE DEF names
        <3> QED BY <3>1, <3>2, SymbolsFacts
    <2> QED BY <1>4, <2>1 DEF Answers
<1> QED BY <1>1, <1>2, <1>3, <1>4 DEF Ops

LEMMA TaggedFacts ==
    ASSUME NEW answer \in Seq(Names \X Nat), NEW n \in Nat
    PROVE  /\ Tagged(answer, n) \in Seq(Symbol(n)) /\ Len(Tagged(answer, n)) = Len(answer)
           /\ \A j \in 1..Len(answer) : /\ Tagged(answer, n)[j].sym = answer[j][1]
                                        /\ Tagged(answer, n)[j].val = answer[j][2]
                                        /\ Tagged(answer, n)[j].of = n
<1>1. Len(answer) \in Nat /\ DOMAIN answer = 1..Len(answer)
      /\ \A j \in 1..Len(answer) : answer[j] \in Names \X Nat
    OBVIOUS
<1>2. \A j \in 1..Len(answer) :
        /\ Tagged(answer, n)[j].sym = answer[j][1]
        /\ Tagged(answer, n)[j].val = answer[j][2]
        /\ Tagged(answer, n)[j].of = n
        /\ Tagged(answer, n)[j] \in Symbol(n)
    BY <1>1 DEF Tagged, Symbol
<1>3. Tagged(answer, n) \in [1..Len(answer) -> Symbol(n)]
    <2>1. Tagged(answer, n) = [j \in 1..Len(answer) |-> Tagged(answer, n)[j]]
        BY <1>1 DEF Tagged
    <2> QED BY <1>2, <2>1
<1> QED BY <1>1, <1>2, <1>3

\* A symbol read takes its request with it if it is the answer's end marker.
LEMMA TailLine ==
    ASSUME NEW n \in Nat, NEW l \in Seq(Symbol(n)), l # <<>>, EndsLast(l)
    PROVE  /\ Tail(l) \in Seq(Symbol(n)) /\ EndsLast(Tail(l)) /\ Head(l) \in Symbol(n)
           /\ Head(l).of \in Tags(l) /\ Tags(Tail(l)) \subseteq Tags(l)
           /\ Head(l).sym \in {"TOP", "D9"} => Head(l).of \notin Tags(Tail(l))
<1>1. /\ Tail(l) \in Seq(Symbol(n)) /\ Head(l) \in Symbol(n) /\ Head(l) = l[1]
      /\ Len(l) \in Nat \ {0} /\ DOMAIN l = 1..Len(l) /\ DOMAIN Tail(l) = 1..(Len(l) - 1)
      /\ \A j \in DOMAIN Tail(l) : j + 1 \in DOMAIN l /\ Tail(l)[j] = l[j + 1]
    BY TailFacts
<1>2. EndsLast(Tail(l))
    <2> SUFFICES ASSUME NEW j \in DOMAIN Tail(l), NEW k \in DOMAIN Tail(l),
                        j < k, Tail(l)[j].sym \in {"TOP", "D9"}
                 PROVE  Tail(l)[k].of # Tail(l)[j].of
        BY DEF EndsLast
    <2>1. j + 1 \in DOMAIN l /\ k + 1 \in DOMAIN l /\ j + 1 < k + 1
        BY <1>1
    <2> QED BY <1>1, <2>1 DEF EndsLast
<1>3. 1 \in DOMAIN l
    BY <1>1
<1>4. Head(l).of \in Tags(l) /\ Tags(Tail(l)) \subseteq Tags(l)
    BY <1>1, <1>3 DEF Tags
<1>5. ASSUME Head(l).sym \in {"TOP", "D9"}, NEW j \in DOMAIN Tail(l)
      PROVE  Tail(l)[j].of # Head(l).of
    <2>1. j + 1 \in DOMAIN l /\ 1 < j + 1 /\ Tail(l)[j] = l[j + 1]
        BY <1>1
    <2> QED BY <1>1, <1>3, <1>5, <2>1 DEF EndsLast
<1> QED BY <1>1, <1>2, <1>4, <1>5 DEF Tags

LEMMA AnsweredLine ==
    ASSUME NEW n \in Nat, NEW rest \in Seq(Symbol(n)), EndsLast(rest),
           NEW o \in Ops, NEW answer \in Answers(o)
    PROVE  LET l == rest \o Tagged(answer, n + 1)
           IN  /\ l \in Seq(Symbol(n + 1)) /\ EndsLast(l)
               /\ Tags(l) \subseteq Tags(rest) \cup {n + 1}
<1> DEFINE t == Tagged(answer, n + 1)
           l == rest \o t
<1>1. /\ answer \in Seq(Names \X Nat) /\ Len(answer) \in Nat
      /\ \A j \in 1..Len(answer) : answer[j][1] \in {"TOP", "D9"} => j = Len(answer)
    BY AnswerFacts, LenProperties
<1>2. /\ t \in Seq(Symbol(n + 1)) /\ Len(t) = Len(answer)
      /\ \A j \in 1..Len(answer) : t[j].sym = answer[j][1] /\ t[j].of = n + 1
    <2>1. n + 1 \in Nat
        OBVIOUS
    <2>2. ASSUME NEW m \in Nat
          PROVE  /\ Tagged(answer, m) \in Seq(Symbol(m)) /\ Len(Tagged(answer, m)) = Len(answer)
                 /\ \A j \in 1..Len(answer) : /\ Tagged(answer, m)[j].sym = answer[j][1]
                                              /\ Tagged(answer, m)[j].of = m
        BY <1>1, TaggedFacts
    <2> QED BY <2>1, <2>2
<1>3. rest \in Seq(Symbol(n + 1)) /\ \A j \in DOMAIN rest : rest[j].of \in 0..n
    <2>1. Symbol(n) \subseteq Symbol(n + 1)
        BY DEF Symbol
    <2>2. /\ Len(rest) \in Nat /\ DOMAIN rest = 1..Len(rest)
          /\ \A j \in DOMAIN rest : rest[j] \in Symbol(n)
        BY ElementOfSeq, LenProperties
    <2>3. rest \in [1..Len(rest) -> Symbol(n + 1)]
        BY <2>1, <2>2
    <2>4. rest \in Seq(Symbol(n + 1))
        BY <2>2, <2>3
    <2>5. \A j \in DOMAIN rest : rest[j].of \in 0..n
        BY <2>2 DEF Symbol
    <2> QED BY <2>4, <2>5
<1> HIDE DEF t
<1>4. /\ l \in Seq(Symbol(n + 1)) /\ Len(rest) \in Nat /\ Len(t) \in Nat
      /\ DOMAIN rest = 1..Len(rest) /\ DOMAIN l = 1..(Len(rest) + Len(t))
      /\ \A j \in DOMAIN rest : l[j] = rest[j]
      /\ \A j \in DOMAIN l : j > Len(rest) =>
            j - Len(rest) \in DOMAIN t /\ l[j] = t[j - Len(rest)]
      /\ DOMAIN t = 1..Len(t)
    <2> DEFINE S == Symbol(n + 1)
    <2>1. rest \in Seq(S) /\ t \in Seq(S)
        BY <1>2, <1>3
    <2> HIDE DEF S
    <2>2. l \in Seq(S)
        BY <2>1, ConcatFacts
    <2> QED BY <2>1, <2>2, ConcatFacts DEF S
<1> HIDE DEF l
<1>5. ASSUME NEW j \in DOMAIN l
      PROVE  \/ j \in DOMAIN rest /\ l[j] = rest[j] /\ l[j].of \in 0..n
             \/ /\ j > Len(rest) /\ l[j].of = n + 1
                /\ l[j].sym \in {"TOP", "D9"} => j = Len(rest) + Len(t)
    <2>1. CASE j <= Len(rest)
        <3>1. j \in DOMAIN rest
            BY <1>4, <2>1
        <3> QED BY <1>3, <1>4, <3>1
    <2>2. CASE j > Len(rest)
        <3>1. j \in 1..(Len(rest) + Len(t)) /\ j - Len(rest) \in 1..Len(answer)
              /\ l[j] = t[j - Len(rest)]
            BY <1>2, <1>4, <2>2
        <3>2. l[j].sym = answer[j - Len(rest)][1] /\ l[j].of = n + 1
            BY <1>2, <3>1
        <3>3. l[j].sym \in {"TOP", "D9"} => j - Len(rest) = Len(answer)
            BY <1>1, <3>1, <3>2
        <3>4. Len(rest) \in Nat /\ Len(t) = Len(answer) /\ j \in Nat
            BY <1>2, <1>4, <3>1
        <3>5. l[j].sym \in {"TOP", "D9"} => j = Len(rest) + Len(t)
            <4>1. Len(answer) \in Nat
                BY <1>1
            <4> QED BY <3>3, <3>4, <4>1
        <3> QED BY <2>2, <3>2, <3>5
    <2> QED BY <1>4, <2>1, <2>2
<1>6. EndsLast(l)
    <2> SUFFICES ASSUME NEW j \in DOMAIN l, NEW k \in DOMAIN l, j < k, l[j].sym \in {"TOP", "D9"}
                 PROVE  l[k].of # l[j].of
        BY DEF EndsLast
    <2>1. j \in Nat /\ k \in Nat /\ k <= Len(rest) + Len(t)
        BY <1>4
    <2>2. CASE j \in DOMAIN rest /\ k \in DOMAIN rest
        BY <1>4, <2>2 DEF EndsLast
    <2>3. CASE j \in DOMAIN rest /\ k \notin DOMAIN rest
        BY <1>4, <1>5, <2>1, <2>3
    <2>4. CASE j \notin DOMAIN rest
        BY <1>4, <1>5, <2>1, <2>4
    <2> QED BY <2>2, <2>3, <2>4
<1>7. Tags(l) \subseteq Tags(rest) \cup {n + 1}
    BY <1>5 DEF Tags
<1> QED BY <1>4, <1>6, <1>7 DEF l, t

\* What Write does when `rest' is on the line: nothing on a dead connection.
LEMMA WriteFacts ==
    ASSUME up \in BOOLEAN, sent \in Nat, errors \in Nat,
           NEW rest \in Seq(Symbol(sent)), EndsLast(rest), ~up => rest = line /\ line = <<>>,
           NEW o \in Ops, Write(o, rest)
    PROVE  /\ sent' \in Nat /\ sent <= sent' /\ errors' \in Nat
           /\ Asked \subseteq 1..sent'
           /\ line' \in Seq(Symbol(sent')) /\ EndsLast(line')
           /\ Tags(line') \subseteq Tags(rest) \cup Asked
           /\ ~up => line' = <<>>
           /\ up => \E answer \in Answers(o) : line' = rest \o Tagged(answer, sent + 1)
<1>1. CASE up
    <2>1. PICK answer \in Answers(o) :
             /\ sent' = sent + 1 /\ line' = rest \o Tagged(answer, sent + 1)
             /\ errors' = errors + (IF answer = Packet("noise") THEN 1 ELSE 0)
        BY <1>1 DEF Write
    <2>2. errors' \in Nat
        BY <2>1
    <2>3. /\ line' \in Seq(Symbol(sent + 1)) /\ EndsLast(line')
          /\ Tags(line') \subseteq Tags(rest) \cup {sent + 1}
        BY <2>1, AnsweredLine
    <2>4. Asked = {sent + 1}
        BY <1>1 DEF Asked
    <2> QED BY <1>1, <2>1, <2>2, <2>3, <2>4
<1>2. CASE ~up
    <2>1. sent' = sent /\ line' = line /\ errors' = errors /\ Asked = {} /\ line' = rest
        BY <1>2 DEF Write, Asked
    <2> QED BY <1>2, <2>1
<1> QED BY <1>1, <1>2

-----------------------------------------------------------------------------
(* The four things a step does to the line *)

Taking == up /\ line # <<>> /\ Take /\ Others
Writing(o, rest) ==
    /\ rest = line \/ (rest = Tail(line) /\ up /\ line # <<>>)
    /\ Write(o, rest)
    /\ up' = up /\ calls' \in Nat /\ late' \in Nat /\ late <= late'
Waiting ==
    /\ UNCHANGED <<up, line, sent, errors, calls>>
    /\ late' \in Nat /\ late <= late'

LEMMA SilentFacts ==
    ASSUME late \in Nat, NEW place, Silent(place)
    PROVE  /\ call.at = place /\ UNCHANGED <<up, calls>>
           /\ late' \in Nat /\ late <= late'
           /\ line = <<>> => late' = late
           /\ line # <<>> => late' = late + 1
BY DEF Silent

LEMMA StepShapes ==
    ASSUME TypeOK, Next
    PROVE  \/ Taking
           \/ \E o \in Ops, rest \in {line, Tail(line)} : Writing(o, rest)
           \/ Waiting
           \/ Disconnect
<1> USE DEF TypeOK
<1>1. ASSUME NEW o \in Ops, Begin(o) PROVE Writing(o, line)
    BY <1>1 DEF Begin, Writing
<1>2. CASE ReadOn \/ ReadEnd \/ ArqReturns \/ ReadPacket \/ ReadFcs
    BY <1>2 DEF ReadOn, ReadEnd, ArqReturns, ReadPacket, ReadFcs, Ends, Reads, Taking
<1>3. CASE SentenceBegins \/ ReadTime \/ ReadGreeting
    BY <1>3 DEF SentenceBegins, ReadTime, ReadGreeting, Ends, Reads, Taking
<1>4. CASE ArqRetries
    <2>1. Writing("arq", Tail(line))
        BY <1>4 DEF ArqRetries, Nack, Ends, Reads, Others, Writing
    <2> QED BY <2>1 DEF Ops
<1>5. CASE ReadFix
    <2>1. CASE Take
        BY <1>5, <2>1 DEF ReadFix, Reads, Taking
    <2>2. CASE RequestImage(Tail(line))
        <3>1. Writing("image", Tail(line))
            BY <1>5, <2>2 DEF ReadFix, RequestImage, Reads, Others, Writing
        <3> QED BY <3>1 DEF Ops
    <2> QED BY <1>5, <2>1, <2>2 DEF ReadFix
<1>6. CASE TimeoutEnds
    <2>1. UNCHANGED <<line, sent, errors>>
        BY <1>6 DEF TimeoutEnds
    <2>2. Silent("greeting") \/ Silent("suffix")
        BY <1>6 DEF TimeoutEnds
    <2> QED BY <2>1, <2>2, SilentFacts DEF Waiting
<1>7. CASE TimeoutRetries
    <2>1. Writing("arq", line)
        BY <1>7, SilentFacts DEF TimeoutRetries, Nack, Writing
    <2> QED BY <2>1 DEF Ops
<1>8. CASE TimeoutEndsTrace
    <2>1. Writing("image", line)
        BY <1>8, SilentFacts DEF TimeoutEndsTrace, RequestImage, Writing
    <2> QED BY <2>1 DEF Ops
<1>9. CASE TimeoutIgnored
    <2>1. UNCHANGED <<line, sent, errors>>
        BY <1>9 DEF TimeoutIgnored
    <2>2. Silent("packet") \/ Silent("fcs") \/ Silent("fix")
        BY <1>9 DEF TimeoutIgnored
    <2> QED BY <2>1, <2>2, SilentFacts DEF Waiting
<1> QED BY <1>1, <1>2, <1>3, <1>4, <1>5, <1>6, <1>7, <1>8, <1>9 DEF Next, ReadSymbol, Timeout

\* The line, as the invariant describes it.
LineOK ==
    /\ up \in BOOLEAN /\ sent \in Nat /\ calls \in Nat /\ late \in Nat /\ errors \in Nat
    /\ line \in Seq(Symbol(sent))
    /\ EndsLast(line)
    /\ ~up => line = <<>>

LEMMA LineStep == TypeOK /\ LineOK /\ [Next]_vars => LineOK' /\ sent <= sent'
<1> SUFFICES ASSUME TypeOK, LineOK, [Next]_vars PROVE LineOK' /\ sent <= sent'
    OBVIOUS
<1>1. CASE Taking
    <2>1. /\ up /\ line # <<>> /\ line' = Tail(line)
          /\ UNCHANGED <<up, sent, errors, calls, late>>
        BY <1>1 DEF Taking, Take, Others
    <2>2. Tail(line) \in Seq(Symbol(sent)) /\ EndsLast(Tail(line))
        BY <2>1, TailLine DEF LineOK
    <2> QED BY <2>1, <2>2 DEF LineOK, EndsLast
<1>2. ASSUME NEW o \in Ops, NEW rest \in {line, Tail(line)}, Writing(o, rest)
      PROVE  LineOK' /\ sent <= sent'
    <2>1. rest \in Seq(Symbol(sent)) /\ EndsLast(rest)
        <3>1. CASE rest = line
            BY <3>1 DEF LineOK
        <3>2. CASE rest = Tail(line) /\ line # <<>>
            BY <3>2, TailLine DEF LineOK
        <3> QED BY <1>2, <3>1, <3>2 DEF Writing
    <2>2. ~up => rest = line /\ line = <<>>
        BY <1>2 DEF Writing, LineOK
    <2>3. /\ Write(o, rest) /\ up' = up /\ calls' \in Nat /\ late' \in Nat
        BY <1>2 DEF Writing
    <2>4. /\ sent' \in Nat /\ sent <= sent' /\ errors' \in Nat
          /\ line' \in Seq(Symbol(sent')) /\ EndsLast(line') /\ (~up => line' = <<>>)
        BY <2>1, <2>2, <2>3, WriteFacts DEF LineOK
    <2> QED BY <2>3, <2>4 DEF LineOK, EndsLast
<1>3. CASE Waiting \/ UNCHANGED vars
    BY <1>3 DEF Waiting, vars, LineOK, EndsLast
<1>4. CASE Disconnect
    <2>1. up' = FALSE /\ line' = <<>> /\ UNCHANGED <<sent, call, calls, late, errors>>
        BY <1>4 DEF Disconnect
    <2>2. <<>> \in Seq(Symbol(sent)) /\ DOMAIN <<>> = {}
        BY EmptySeq
    <2>3. line' \in Seq(Symbol(sent')) /\ EndsLast(line')
        BY <2>1, <2>2 DEF EndsLast
    <2>4. /\ sent' \in Nat /\ calls' \in Nat /\ late' \in Nat /\ errors' \in Nat
          /\ sent <= sent'
        BY <2>1 DEF LineOK
    <2>6. up' \in BOOLEAN
        BY <2>1
    <2>5. EndsLast(line)'
        BY <2>3 DEF EndsLast
    <2> QED BY <2>1, <2>3, <2>4, <2>5, <2>6 DEF LineOK
<1> QED BY <1>1, <1>2, <1>3, <1>4, StepShapes

-----------------------------------------------------------------------------
(* The call *)

CallsUpTo(n) ==
    [op : Ops, at : Places, i : 0..1,
     received : BOOLEAN, sum : {"empty", "good", "bad"}, inverted : BOOLEAN,
     time : Nat, garbled : BOOLEAN, coords : Seq(Nat), file : Seq(Names),
     mine : SUBSET (1..n), used : 0..n, seen : Seq(Nat)]

LEMMA NewCallFields ==
    ASSUME NEW o, NEW requests
    PROVE  /\ NewCall(o, requests).op = o /\ NewCall(o, requests).at = "suffix"
           /\ NewCall(o, requests).mine = requests /\ NewCall(o, requests).used = 0
           /\ NewCall(o, requests).file = <<>> /\ NewCall(o, requests).coords = <<>>
           /\ NewCall(o, requests).seen = <<>> /\ NewCall(o, requests).garbled = FALSE
BY DEF NewCall

LEMMA NewCallType ==
    ASSUME NEW n \in Nat, NEW o \in Ops, NEW requests \in SUBSET (1..n)
    PROVE  NewCall(o, requests) \in CallsUpTo(n)
<1>1. <<>> \in Seq(Nat) /\ <<>> \in Seq(Names)
    BY EmptySeq
<1>2. "suffix" \in Places
    BY DEF Places
<1> QED BY <1>1, <1>2 DEF NewCall, CallsUpTo

LEMMA CallsGrow ==
    ASSUME NEW m \in Nat, NEW n \in Nat, m <= n
    PROVE  CallsUpTo(m) \subseteq CallsUpTo(n)
<1>1. SUBSET (1..m) \subseteq SUBSET (1..n) /\ 0..m \subseteq 0..n
    OBVIOUS
<1> QED BY <1>1 DEF CallsUpTo

\* The fields that the methods assign together.
LEMMA CallUpdates ==
    ASSUME NEW n \in Nat, NEW c \in CallsUpTo(n)
    PROVE  /\ \A i \in 0..1, at \in Places, sum \in {"empty", "good", "bad"}, b \in BOOLEAN :
                 [c EXCEPT !.i = i, !.at = at, !.sum = sum, !.inverted = b] \in CallsUpTo(n)
           /\ \A i \in 0..1, file \in Seq(Names) :
                 [c EXCEPT !.i = i, !.file = file] \in CallsUpTo(n)
           /\ \A at \in Places, used \in 0..n, file \in Seq(Names) :
                 [c EXCEPT !.at = at, !.used = used, !.file = file] \in CallsUpTo(n)
           /\ \A at \in Places :
                 [c EXCEPT !.at = at] \in CallsUpTo(n)
           /\ \A sum \in {"empty", "good", "bad"} :
                 [c EXCEPT !.sum = sum] \in CallsUpTo(n)
           /\ \A i \in 0..1, at \in Places, mine \in SUBSET (1..n) :
                 [c EXCEPT !.i = i, !.at = at, !.mine = mine] \in CallsUpTo(n)
           /\ \A at \in Places, b \in BOOLEAN, used \in 0..n :
                 [c EXCEPT !.at = at, !.received = b, !.used = used] \in CallsUpTo(n)
           /\ \A at \in Places, b \in BOOLEAN :
                 [c EXCEPT !.at = at, !.garbled = b] \in CallsUpTo(n)
           /\ \A t \in Nat :
                 [c EXCEPT !.time = t] \in CallsUpTo(n)
           /\ \A at \in Places, i \in 0..1, coords \in Seq(Nat), seen \in Seq(Nat) :
                 [c EXCEPT !.at = at, !.i = i, !.coords = coords, !.seen = seen] \in CallsUpTo(n)
           /\ \A coords \in Seq(Nat), seen \in Seq(Nat) :
                 [c EXCEPT !.coords = coords, !.seen = seen] \in CallsUpTo(n)
           /\ \A b \in BOOLEAN :
                 [c EXCEPT !.inverted = b] \in CallsUpTo(n)
           /\ \A b \in BOOLEAN :
                 [c EXCEPT !.garbled = b] \in CallsUpTo(n)
BY DEF CallsUpTo

CallOK == call \in CallsUpTo(sent)

LEMMA TypeOKParts == TypeOK /\ LineInv <=> LineOK /\ CallOK
BY DEF TypeOK, LineInv, LineOK, CallOK, CallsUpTo, Symbol, EndsLast

LEMMA NowFacts ==
    ASSUME LineOK, line # <<>>
    PROVE  Now.sym \in Names /\ Now.val \in Nat /\ Now.of \in 0..sent
<1>1. Now \in Symbol(sent)
    BY TailLine DEF LineOK, Now
<1> QED BY <1>1 DEF Symbol

LEMMA MatchFacts ==
    ASSUME CallOK
    PROVE  /\ Match \in 0..2
           /\ Match = 2 => /\ call.op \in {"echo", "arq"} => Now.sym = "TOP"
                           /\ call.op = "image" => Now.sym = "D9"
                           /\ call.op = "gps" => Now.sym = "GGA"
<1>1. call.i \in 0..1 /\ call.op \in Ops
    BY DEF CallOK, CallsUpTo
<1>2. CASE call.op \in {"echo", "arq"}
    BY <1>1, <1>2 DEF Match, Suffix
<1>3. CASE call.op = "image"
    BY <1>1, <1>3 DEF Match, Suffix
<1>4. CASE call.op = "gps"
    BY <1>1, <1>4 DEF Match, Suffix
<1> QED BY <1>1, <1>2, <1>3, <1>4 DEF Ops

LEMMA ReadOnEffect ==
    ASSUME LineOK, CallOK, ReadOn
    PROVE  /\ Taking /\ CallOK' /\ call.at = "suffix"
           /\ call'.op = call.op /\ call'.mine = call.mine /\ call'.file = Stored
           /\ call'.coords = call.coords /\ call'.seen = call.seen /\ call'.used = call.used
           /\ call'.at \in {"suffix", "packet"} /\ (call'.at = "packet" => call.op = "arq")
<1>1. Taking /\ call.at = "suffix" /\ line # <<>> /\ sent' = sent /\ sent \in Nat /\ Match < 2
    BY DEF ReadOn, Reads, Taking, Take, LineOK
<1>2. Match \in 0..1
    BY <1>1, MatchFacts
<1>3. call \in CallsUpTo(sent) /\ call.file \in Seq(Names) /\ call.at = "suffix"
    BY <1>1 DEF CallOK, CallsUpTo
<1>4. Stored \in Seq(Names)
    <2>1. Append(call.file, Now.sym) \in Seq(Names)
        BY <1>1, <1>3, NowFacts, AppendProperties
    <2> QED BY <1>3, <2>1 DEF Stored
<1>5. CASE call.op = "arq" /\ Now.sym = "<"
    <2>1. call' = [call EXCEPT !.i = 0, !.at = "packet", !.sum = "empty", !.inverted = FALSE]
        BY <1>5 DEF ReadOn
    <2>2. 0 \in 0..1 /\ "packet" \in Places
        BY DEF Places
    <2>3. call' \in CallsUpTo(sent)
        BY <1>1, <1>3, <2>1, <2>2, CallUpdates
    <2>4. /\ call'.op = call.op /\ call'.mine = call.mine /\ call'.file = call.file
          /\ call'.coords = call.coords /\ call'.seen = call.seen /\ call'.used = call.used
          /\ call'.at = "packet"
        BY <1>3, <2>1 DEF CallsUpTo
    <2> QED BY <1>1, <1>5, <2>3, <2>4 DEF CallOK, Stored
<1>6. CASE ~(call.op = "arq" /\ Now.sym = "<")
    <2>1. call' = [call EXCEPT !.i = Match, !.file = Stored]
        BY <1>6 DEF ReadOn
    <2>3. call' \in CallsUpTo(sent)
        BY <1>1, <1>2, <1>3, <1>4, <2>1, CallUpdates
    <2> HIDE DEF Match, Stored
    <2>4. /\ call'.op = call.op /\ call'.mine = call.mine /\ call'.file = Stored
          /\ call'.coords = call.coords /\ call'.seen = call.seen /\ call'.used = call.used
          /\ call'.at = call.at
        BY <1>3, <2>1 DEF CallsUpTo
    <2> QED BY <1>1, <2>3, <2>4 DEF CallOK
<1> QED BY <1>5, <1>6

LEMMA ReadEndEffect ==
    ASSUME LineOK, CallOK, ReadEnd
    PROVE  /\ Taking /\ CallOK' /\ call.at = "suffix" /\ call'.at = "idle"
           /\ Now.sym \in {"TOP", "D9"} /\ call.op \in {"echo", "image"}
           /\ call'.op = call.op /\ call'.mine = call.mine /\ call'.file = Stored
           /\ call'.coords = call.coords /\ call'.seen = call.seen /\ call'.used = Now.of
<1>1. /\ Taking /\ call.at = "suffix" /\ line # <<>> /\ sent' = sent /\ sent \in Nat
      /\ call.op \in {"echo", "image"} /\ Match = 2
    BY DEF ReadEnd, Ends, Reads, Taking, Take, LineOK
<1>2. call' = [call EXCEPT !.at = "idle", !.used = Now.of, !.file = Stored]
    BY DEF ReadEnd
<1>3. call \in CallsUpTo(sent) /\ call.file \in Seq(Names) /\ Now.of \in 0..sent
    BY <1>1, NowFacts DEF CallOK, CallsUpTo
<1>4. Stored \in Seq(Names) /\ "idle" \in Places
    <2>1. Append(call.file, Now.sym) \in Seq(Names)
        BY <1>1, <1>3, NowFacts, AppendProperties
    <2> QED BY <1>3, <2>1 DEF Stored, Places
<1>5. call' \in CallsUpTo(sent)
    BY <1>1, <1>2, <1>3, <1>4, CallUpdates
<1> HIDE DEF Match, Stored, Now
<1>6. /\ call'.op = call.op /\ call'.mine = call.mine /\ call'.file = Stored
      /\ call'.coords = call.coords /\ call'.seen = call.seen /\ call'.used = Now.of
      /\ call'.at = "idle"
    BY <1>2, <1>3 DEF CallsUpTo
<1> QED BY <1>1, <1>5, <1>6, MatchFacts DEF CallOK

LEMMA ArqReturnsEffect ==
    ASSUME LineOK, CallOK, ArqReturns
    PROVE  /\ Taking /\ CallOK' /\ call.at = "suffix" /\ call'.at = "idle"
           /\ Now.sym = "TOP" /\ call.op = "arq"
           /\ call'.op = call.op /\ call'.mine = call.mine /\ call'.file = call.file
           /\ call'.coords = call.coords /\ call'.seen = call.seen /\ call'.used = call.used
<1>1. /\ Taking /\ call.at = "suffix" /\ sent' = sent /\ sent \in Nat
      /\ call.op = "arq" /\ Match = 2 /\ call' = [call EXCEPT !.at = "idle"]
    BY DEF ArqReturns, Ends, Reads, Taking, Take, LineOK
<1>2. call \in CallsUpTo(sent) /\ "idle" \in Places
    BY DEF CallOK, Places
<1>3. call' \in CallsUpTo(sent)
    BY <1>1, <1>2, CallUpdates
<1>4. /\ call'.op = call.op /\ call'.mine = call.mine /\ call'.file = call.file
      /\ call'.coords = call.coords /\ call'.seen = call.seen /\ call'.used = call.used
      /\ call'.at = "idle"
    BY <1>1, <1>2 DEF CallsUpTo
<1> QED BY <1>1, <1>3, <1>4, MatchFacts DEF CallOK

\* Asking again, with the line read up to `rest'.
LEMMA NackEffect ==
    ASSUME CallOK, NEW rest, Nack(rest), sent \in Nat, sent' \in Nat, sent <= sent',
           Asked \subseteq 1..sent'
    PROVE  /\ Write("arq", rest) /\ CallOK' /\ call'.at = "suffix"
           /\ call'.op = call.op /\ call'.mine = call.mine \cup Asked /\ call'.file = call.file
           /\ call'.coords = call.coords /\ call'.seen = call.seen /\ call'.used = call.used
<1>1. Write("arq", rest) /\ call' = [call EXCEPT !.i = 0, !.at = "suffix", !.mine = @ \cup Asked]
    BY DEF Nack
<1>2. call \in CallsUpTo(sent') /\ "suffix" \in Places /\ 0 \in 0..1
    BY CallsGrow DEF CallOK, Places
<1>3. call.mine \cup Asked \in SUBSET (1..sent')
    BY <1>2 DEF CallsUpTo
<1>4. call' = [call EXCEPT !.i = 0, !.at = "suffix", !.mine = call.mine \cup Asked]
    BY <1>1
<1>5. call' \in CallsUpTo(sent')
    <2> DEFINE requests == call.mine \cup Asked
    <2>1. requests \in SUBSET (1..sent') /\ call' = [call EXCEPT !.i = 0, !.at = "suffix", !.mine = requests]
        BY <1>3, <1>4
    <2> HIDE DEF requests
    <2> QED BY <1>2, <2>1, CallUpdates
<1>6. /\ call'.op = call.op /\ call'.mine = call.mine \cup Asked /\ call'.file = call.file
      /\ call'.coords = call.coords /\ call'.seen = call.seen /\ call'.used = call.used
      /\ call'.at = "suffix"
    BY <1>2, <1>4 DEF CallsUpTo
<1> QED BY <1>1, <1>5, <1>6 DEF CallOK

\* The image of the selected fixes is asked for.
LEMMA RequestImageEffect ==
    ASSUME CallOK, NEW rest, RequestImage(rest), sent \in Nat, sent' \in Nat, sent <= sent',
           Asked \subseteq 1..sent'
    PROVE  /\ Write("image", rest) /\ CallOK' /\ call'.at = "suffix"
           /\ call'.op = "image" /\ call'.mine = Asked /\ call'.file = <<>>
           /\ call'.coords = call.coords /\ call'.seen = call.seen /\ call'.used = 0
<1> DEFINE new == NewCall("image", Asked)
<1>1. /\ Write("image", rest)
      /\ call' = [new EXCEPT !.coords = call.coords, !.seen = call.seen]
    BY DEF RequestImage
<1>2. "image" \in Ops /\ Asked \in SUBSET (1..sent')
    BY DEF Ops
<1>3. /\ new \in CallsUpTo(sent') /\ new.op = "image" /\ new.at = "suffix" /\ new.mine = Asked
      /\ new.used = 0 /\ new.file = <<>>
    <2>1. new \in CallsUpTo(sent')
        BY <1>2, NewCallType
    <2>2. /\ new.op = "image" /\ new.at = "suffix" /\ new.mine = Asked
          /\ new.used = 0 /\ new.file = <<>>
        BY DEF NewCall
    <2> QED BY <2>1, <2>2
<1> HIDE DEF new
<1>4. call.coords \in Seq(Nat) /\ call.seen \in Seq(Nat)
    BY DEF CallOK, CallsUpTo
<1>5. call' \in CallsUpTo(sent')
    BY <1>1, <1>3, <1>4, CallUpdates
<1>6. /\ call'.op = new.op /\ call'.mine = new.mine /\ call'.file = new.file
      /\ call'.coords = call.coords /\ call'.seen = call.seen /\ call'.used = new.used
      /\ call'.at = new.at
    BY <1>1, <1>3, <1>4 DEF CallsUpTo
<1> QED BY <1>1, <1>3, <1>5, <1>6 DEF CallOK

LEMMA ReadPacketEffect ==
    ASSUME LineOK, CallOK, ReadPacket
    PROVE  /\ Taking /\ CallOK' /\ call.at = "packet" /\ call'.at \in {"packet", "fcs"}
           /\ call'.op = call.op /\ call'.mine = call.mine /\ call'.file = call.file
           /\ call'.coords = call.coords /\ call'.seen = call.seen /\ call'.used = call.used
<1>1. Taking /\ call.at = "packet" /\ sent' = sent /\ sent \in Nat
    BY DEF ReadPacket, Reads, Taking, Take, LineOK
<1>2. call \in CallsUpTo(sent) /\ "fcs" \in Places
    BY DEF CallOK, Places
<1>3. CASE Now.sym = ">"
    <2>1. call' = [call EXCEPT !.at = "fcs"]
        BY <1>3 DEF ReadPacket
    <2>2. call' \in CallsUpTo(sent)
        BY <1>1, <1>2, <2>1, CallUpdates
    <2>3. /\ call'.op = call.op /\ call'.mine = call.mine /\ call'.file = call.file
          /\ call'.coords = call.coords /\ call'.seen = call.seen /\ call'.used = call.used
          /\ call'.at = "fcs"
        BY <1>2, <2>1 DEF CallsUpTo
    <2> QED BY <1>1, <2>2, <2>3 DEF CallOK
<1>4. CASE Now.sym # ">"
    <2> DEFINE sum == IF call.sum = "empty" /\ Now.sym = "data" THEN "good" ELSE "bad"
    <2>1. call' = [call EXCEPT !.sum = sum] /\ sum \in {"empty", "good", "bad"}
        BY <1>4 DEF ReadPacket
    <2> HIDE DEF sum
    <2>2. call' \in CallsUpTo(sent)
        BY <1>1, <1>2, <2>1, CallUpdates
    <2>3. /\ call'.op = call.op /\ call'.mine = call.mine /\ call'.file = call.file
          /\ call'.coords = call.coords /\ call'.seen = call.seen /\ call'.used = call.used
          /\ call'.at = call.at
        BY <1>2, <2>1 DEF CallsUpTo
    <2> QED BY <1>1, <2>2, <2>3 DEF CallOK
<1> QED BY <1>3, <1>4

LEMMA ReadFcsEffect ==
    ASSUME LineOK, CallOK, ReadFcs
    PROVE  /\ Taking /\ CallOK' /\ call.at = "fcs" /\ call'.at = "suffix"
           /\ call'.op = call.op /\ call'.mine = call.mine /\ call'.file = call.file
           /\ call'.coords = call.coords /\ call'.seen = call.seen
           /\ call'.used \in {call.used, Now.of}
<1>1. Taking /\ call.at = "fcs" /\ sent' = sent /\ sent \in Nat /\ line # <<>>
    BY DEF ReadFcs, Reads, Taking, Take, LineOK
<1>2. call \in CallsUpTo(sent) /\ "suffix" \in Places /\ Now.of \in 0..sent
    BY <1>1, NowFacts DEF CallOK, Places
<1>3. CASE Correct
    <2>1. call' = [call EXCEPT !.at = "suffix", !.received = TRUE, !.used = Now.of]
        BY <1>3 DEF ReadFcs
    <2> HIDE DEF Now
    <2>2. call' \in CallsUpTo(sent)
        BY <1>1, <1>2, <2>1, CallUpdates
    <2>3. /\ call'.op = call.op /\ call'.mine = call.mine /\ call'.file = call.file
          /\ call'.coords = call.coords /\ call'.seen = call.seen /\ call'.used = Now.of
          /\ call'.at = "suffix"
        BY <1>2, <2>1 DEF CallsUpTo
    <2> QED BY <1>1, <2>2, <2>3 DEF CallOK
<1>4. CASE ~Correct
    <2>1. call' = [call EXCEPT !.at = "suffix"]
        BY <1>4 DEF ReadFcs
    <2>2. call' \in CallsUpTo(sent)
        BY <1>1, <1>2, <2>1, CallUpdates
    <2>3. /\ call'.op = call.op /\ call'.mine = call.mine /\ call'.file = call.file
          /\ call'.coords = call.coords /\ call'.seen = call.seen /\ call'.used = call.used
          /\ call'.at = "suffix"
        BY <1>2, <2>1 DEF CallsUpTo
    <2> QED BY <1>1, <2>2, <2>3 DEF CallOK
<1> QED BY <1>3, <1>4

LEMMA SentenceBeginsEffect ==
    ASSUME LineOK, CallOK, SentenceBegins
    PROVE  /\ Taking /\ CallOK' /\ call.at = "suffix" /\ call'.at = "fix"
           /\ Now.sym = "GGA" /\ call.op = "gps" /\ call'.garbled = FALSE
           /\ call'.op = call.op /\ call'.mine = call.mine /\ call'.file = call.file
           /\ call'.coords = call.coords /\ call'.seen = call.seen /\ call'.used = call.used
<1>1. /\ Taking /\ call.at = "suffix" /\ sent' = sent /\ sent \in Nat
      /\ call.op = "gps" /\ Match = 2 /\ call' = [call EXCEPT !.at = "fix", !.garbled = FALSE]
    BY DEF SentenceBegins, Ends, Reads, Taking, Take, LineOK
<1>2. call \in CallsUpTo(sent) /\ "fix" \in Places
    BY DEF CallOK, Places
<1>3. call' \in CallsUpTo(sent)
    BY <1>1, <1>2, CallUpdates
<1>4. /\ call'.op = call.op /\ call'.mine = call.mine /\ call'.file = call.file
      /\ call'.coords = call.coords /\ call'.seen = call.seen /\ call'.used = call.used
      /\ call'.at = "fix" /\ call'.garbled = FALSE
    BY <1>1, <1>2 DEF CallsUpTo
<1> QED BY <1>1, <1>3, <1>4, MatchFacts DEF CallOK

LEMMA ReadTimeEffect ==
    ASSUME LineOK, CallOK, ReadTime
    PROVE  /\ Taking /\ CallOK' /\ call.at = "fix" /\ call'.at = "fix"
           /\ Now.sym # "commas" /\ call'.time = Now.val /\ call'.garbled = call.garbled
           /\ call'.op = call.op /\ call'.mine = call.mine /\ call'.file = call.file
           /\ call'.coords = call.coords /\ call'.seen = call.seen /\ call'.used = call.used
<1>1. /\ Taking /\ call.at = "fix" /\ sent' = sent /\ sent \in Nat /\ line # <<>>
      /\ Now.sym # "commas" /\ call' = [call EXCEPT !.time = Now.val]
    BY DEF ReadTime, Reads, Taking, Take, LineOK
<1>2. call \in CallsUpTo(sent) /\ Now.val \in Nat
    BY <1>1, NowFacts DEF CallOK
<1>3. call' \in CallsUpTo(sent)
    BY <1>1, <1>2, CallUpdates
<1> HIDE DEF Now
<1>4. /\ call'.op = call.op /\ call'.mine = call.mine /\ call'.file = call.file
      /\ call'.coords = call.coords /\ call'.seen = call.seen /\ call'.used = call.used
      /\ call'.at = call.at /\ call'.garbled = call.garbled /\ call'.time = Now.val
    BY <1>1, <1>2 DEF CallsUpTo
<1> QED BY <1>1, <1>3, <1>4 DEF CallOK

LEMMA LastFacts ==
    ASSUME NEW s \in Seq(Nat), s # <<>>
    PROVE  Last(s) \in Nat /\ Last(s) = s[Len(s)] /\ Len(s) \in DOMAIN s /\ Len(s) \in Nat \ {0}
<1>1. Len(s) \in 1..Len(s) /\ DOMAIN s = 1..Len(s)
    OBVIOUS
<1> QED BY <1>1 DEF Last

\* The end of a sentence: the fix is selected or not, or the image is asked for.
LEMMA ReadFixEffect ==
    ASSUME LineOK, CallOK, ReadFix,
           sent' \in Nat, sent <= sent'
    PROVE  /\ call.at = "fix" /\ line # <<>> /\ up /\ Now.sym = "commas" /\ Others
           /\ \/ /\ Taking /\ CallOK' /\ call'.at = "suffix"
                 /\ call'.op = call.op /\ call'.mine = call.mine /\ call'.file = call.file
                 /\ call'.coords = Selected(call.time) /\ call'.seen = Append(call.seen, call.time)
                 /\ call'.used = call.used
              \/ call.garbled /\ RequestImage(Tail(line))
<1>1. /\ call.at = "fix" /\ line # <<>> /\ up /\ Now.sym = "commas" /\ Others
    BY DEF ReadFix, Reads
<1>2. CASE /\ Take
           /\ call' = [call EXCEPT !.at = "suffix", !.i = 0, !.coords = Selected(call.time),
                                   !.seen = Append(@, call.time)]
    <2>1. call' = [call EXCEPT !.at = "suffix", !.i = 0, !.coords = Selected(call.time),
                               !.seen = Append(call.seen, call.time)]
        BY <1>2
    <2>2. call \in CallsUpTo(sent) /\ sent' = sent /\ sent \in Nat /\ "suffix" \in Places /\ 0 \in 0..1
        BY <1>2 DEF CallOK, LineOK, Take, Places
    <2>3. call.time \in Nat /\ call.coords \in Seq(Nat) /\ call.seen \in Seq(Nat)
        BY <2>2 DEF CallsUpTo
    <2>4. Append(call.seen, call.time) \in Seq(Nat) /\ Selected(call.time) \in Seq(Nat)
        BY <2>3, AppendProperties DEF Selected
    <2> HIDE DEF Selected
    <2>5. call' \in CallsUpTo(sent)
        BY <2>1, <2>2, <2>4, CallUpdates
    <2>6. /\ call'.op = call.op /\ call'.mine = call.mine /\ call'.file = call.file
          /\ call'.coords = Selected(call.time) /\ call'.seen = Append(call.seen, call.time)
          /\ call'.used = call.used /\ call'.at = "suffix"
        BY <2>1, <2>2 DEF CallsUpTo
    <2> QED BY <1>1, <1>2, <2>2, <2>5, <2>6 DEF CallOK, Taking
<1>3. CASE call.garbled /\ RequestImage(Tail(line))
    BY <1>1, <1>3
<1> QED BY <1>2, <1>3 DEF ReadFix

LEMMA TimeoutEndsEffect ==
    ASSUME LineOK, CallOK, TimeoutEnds
    PROVE  /\ Silent(call.at) /\ UNCHANGED <<line, sent>> /\ CallOK'
           /\ call.at \in {"greeting", "suffix"} /\ call'.at = "idle"
           /\ call'.op = call.op /\ call'.mine = call.mine /\ call'.file = call.file
           /\ call'.coords = call.coords /\ call'.seen = call.seen /\ call'.used = call.used
<1>1. /\ Silent("greeting") \/ Silent("suffix")
      /\ call' = [call EXCEPT !.at = "idle"] /\ sent' = sent /\ line' = line
    BY DEF TimeoutEnds
<1>2. Silent(call.at) /\ call.at \in {"greeting", "suffix"}
    BY <1>1 DEF Silent
<1>3. call \in CallsUpTo(sent) /\ "idle" \in Places /\ sent \in Nat
    BY DEF CallOK, Places, LineOK
<1>4. call' \in CallsUpTo(sent)
    BY <1>1, <1>3, CallUpdates
<1>5. /\ call'.op = call.op /\ call'.mine = call.mine /\ call'.file = call.file
      /\ call'.coords = call.coords /\ call'.seen = call.seen /\ call'.used = call.used
      /\ call'.at = "idle"
    BY <1>1, <1>3 DEF CallsUpTo
<1> QED BY <1>1, <1>2, <1>4, <1>5 DEF CallOK

LEMMA TimeoutIgnoredEffect ==
    ASSUME LineOK, CallOK, TimeoutIgnored
    PROVE  /\ Silent(call.at) /\ UNCHANGED <<line, sent>> /\ CallOK'
           /\ call.at \in {"packet", "fcs", "fix"}
           /\ call'.at = (IF call.at = "fcs" THEN "suffix" ELSE call.at)
           /\ call.at = "fix" => call'.garbled = TRUE
           /\ call'.op = call.op /\ call'.mine = call.mine /\ call'.file = call.file
           /\ call'.coords = call.coords /\ call'.seen = call.seen /\ call'.used = call.used
           /\ call'.time = call.time
<1>1. /\ Silent("packet") \/ Silent("fcs") \/ Silent("fix")
      /\ sent' = sent /\ line' = line
    BY DEF TimeoutIgnored
<1>2. Silent(call.at) /\ call.at \in {"packet", "fcs", "fix"}
    BY <1>1 DEF Silent
<1>3. call \in CallsUpTo(sent) /\ "suffix" \in Places /\ sent \in Nat
    BY DEF CallOK, Places, LineOK
<1>4. CASE call.at = "packet"
    <2> DEFINE b == ~call.inverted
    <2>1. call' = [call EXCEPT !.inverted = b]
        BY <1>4 DEF TimeoutIgnored
    <2>2. b \in BOOLEAN
        OBVIOUS
    <2> HIDE DEF b
    <2>3. call' \in CallsUpTo(sent)
        BY <1>3, <2>1, <2>2, CallUpdates
    <2>4. /\ call'.op = call.op /\ call'.mine = call.mine /\ call'.file = call.file
          /\ call'.coords = call.coords /\ call'.seen = call.seen /\ call'.used = call.used
          /\ call'.at = call.at /\ call'.time = call.time
        BY <1>3, <2>1 DEF CallsUpTo
    <2> QED BY <1>1, <1>2, <1>4, <2>3, <2>4 DEF CallOK
<1>5. CASE call.at = "fcs"
    <2>1. call' = [call EXCEPT !.at = "suffix"]
        BY <1>5 DEF TimeoutIgnored
    <2>3. call' \in CallsUpTo(sent)
        BY <1>3, <2>1, CallUpdates
    <2>4. /\ call'.op = call.op /\ call'.mine = call.mine /\ call'.file = call.file
          /\ call'.coords = call.coords /\ call'.seen = call.seen /\ call'.used = call.used
          /\ call'.at = "suffix" /\ call'.time = call.time
        BY <1>3, <2>1 DEF CallsUpTo
    <2> QED BY <1>1, <1>2, <1>5, <2>3, <2>4 DEF CallOK
<1>6. CASE call.at = "fix"
    <2>1. call' = [call EXCEPT !.garbled = TRUE]
        BY <1>6 DEF TimeoutIgnored
    <2>3. call' \in CallsUpTo(sent)
        BY <1>3, <2>1, CallUpdates
    <2>4. /\ call'.op = call.op /\ call'.mine = call.mine /\ call'.file = call.file
          /\ call'.coords = call.coords /\ call'.seen = call.seen /\ call'.used = call.used
          /\ call'.at = call.at /\ call'.time = call.time /\ call'.garbled = TRUE
        BY <1>3, <2>1 DEF CallsUpTo
    <2> QED BY <1>1, <1>2, <1>6, <2>3, <2>4 DEF CallOK
<1> QED BY <1>2, <1>4, <1>5, <1>6

LEMMA WritingFacts ==
    ASSUME LineOK, NEW o \in Ops, NEW rest, Writing(o, rest)
    PROVE  /\ sent \in Nat /\ sent' \in Nat /\ sent <= sent' /\ Asked \subseteq 1..sent'
           /\ rest \in Seq(Symbol(sent)) /\ EndsLast(rest) /\ Tags(rest) \subseteq Tags(line)
           /\ Tags(line') \subseteq Tags(rest) \cup Asked
           /\ up' = up /\ (~up => line' = <<>>)
           /\ up => \E answer \in Answers(o) : line' = rest \o Tagged(answer, sent + 1)
           /\ (up => Asked = {sent + 1}) /\ (~up => Asked = {})
<1>1. rest \in Seq(Symbol(sent)) /\ EndsLast(rest) /\ Tags(rest) \subseteq Tags(line)
    <2>1. CASE rest = line
        BY <2>1 DEF LineOK
    <2>2. CASE rest = Tail(line) /\ line # <<>>
        BY <2>2, TailLine DEF LineOK
    <2> QED BY <2>1, <2>2 DEF Writing
<1>2. ~up => rest = line /\ line = <<>>
    BY DEF Writing, LineOK
<1>3. Write(o, rest) /\ up' = up
    BY DEF Writing
<1>4. up \in BOOLEAN /\ sent \in Nat /\ errors \in Nat
    BY DEF LineOK
<1>5. /\ sent' \in Nat /\ sent <= sent' /\ Asked \subseteq 1..sent'
      /\ Tags(line') \subseteq Tags(rest) \cup Asked /\ (~up => line' = <<>>)
      /\ up => \E answer \in Answers(o) : line' = rest \o Tagged(answer, sent + 1)
    BY <1>1, <1>2, <1>3, <1>4, WriteFacts
<1>6. (up => Asked = {sent + 1}) /\ (~up => Asked = {})
    BY DEF Asked
<1> QED BY <1>1, <1>3, <1>4, <1>5, <1>6

LEMMA BeginEffect ==
    ASSUME LineOK, NEW o \in Ops, Begin(o)
    PROVE  /\ Writing(o, line) /\ CallOK' /\ call.at = "idle" /\ late' = late
           /\ call'.op = o /\ call'.at = "suffix" /\ call'.mine = Asked /\ call'.used = 0
           /\ call'.file = <<>> /\ call'.coords = <<>> /\ call'.seen = <<>>
<1>1. call.at = "idle" /\ Writing(o, line) /\ late' = late /\ call' = NewCall(o, Asked)
    BY DEF Begin, Writing, LineOK
<1>2. sent' \in Nat /\ Asked \in SUBSET (1..sent')
    BY <1>1, WritingFacts
<1>3. call' \in CallsUpTo(sent')
    BY <1>1, <1>2, NewCallType
<1>4. /\ call'.op = o /\ call'.at = "suffix" /\ call'.mine = Asked /\ call'.used = 0
      /\ call'.file = <<>> /\ call'.coords = <<>> /\ call'.seen = <<>>
    BY <1>1 DEF NewCall
<1> QED BY <1>1, <1>3, <1>4 DEF CallOK

\* Asking for a packet again, after a wrong one or none.
LEMMA RetryEffect ==
    ASSUME LineOK, CallOK, ArqRetries \/ TimeoutRetries
    PROVE  \E rest \in {line, Tail(line)} :
           /\ Writing("arq", rest) /\ CallOK' /\ call.at = "suffix" /\ call.op = "arq"
           /\ \/ rest = Tail(line) /\ line # <<>> /\ Now.sym = "TOP" /\ late' = late
              \/ rest = line /\ Silent("suffix")
           /\ call'.op = "arq" /\ call'.at = "suffix" /\ call'.mine = call.mine \cup Asked
           /\ call'.used = call.used /\ call'.file = call.file
           /\ call'.coords = call.coords /\ call'.seen = call.seen
<1>1. ASSUME NEW rest, Writing("arq", rest), Nack(rest)
      PROVE  /\ CallOK' /\ call'.at = "suffix"
             /\ call'.op = call.op /\ call'.mine = call.mine \cup Asked /\ call'.file = call.file
             /\ call'.coords = call.coords /\ call'.seen = call.seen /\ call'.used = call.used
    <2>1. "arq" \in Ops
        BY DEF Ops
    <2>2. sent \in Nat /\ sent' \in Nat /\ sent <= sent' /\ Asked \subseteq 1..sent'
        BY <1>1, <2>1, WritingFacts
    <2> QED BY <1>1, <2>2, NackEffect
<1>2. CASE ArqRetries
    <2>1. /\ Nack(Tail(line)) /\ up /\ line # <<>> /\ call.at = "suffix" /\ call.op = "arq"
          /\ Match = 2 /\ Others
        BY <1>2 DEF ArqRetries, Ends, Reads
    <2>2. Writing("arq", Tail(line)) /\ late' = late
        BY <2>1 DEF Nack, Others, Writing, LineOK
    <2>3. Now.sym = "TOP"
        BY <2>1, MatchFacts
    <2> QED BY <1>1, <2>1, <2>2, <2>3
<1>3. CASE TimeoutRetries
    <2>1. Nack(line) /\ Silent("suffix") /\ call.at = "suffix" /\ call.op = "arq"
        BY <1>3 DEF TimeoutRetries, Silent
    <2>2. Writing("arq", line)
        BY <2>1, SilentFacts DEF Nack, Writing, LineOK
    <2> QED BY <1>1, <2>1, <2>2
<1> QED BY <1>2, <1>3

\* The end of a trace: a read that times out, or a sentence that cannot be read.
LEMMA TraceEndsEffect ==
    ASSUME LineOK, CallOK,
           \/ TimeoutEndsTrace
           \/ /\ call.at = "fix" /\ call.garbled /\ line # <<>> /\ up
              /\ RequestImage(Tail(line)) /\ Others
    PROVE  \E rest \in {line, Tail(line)} :
           /\ Writing("image", rest) /\ CallOK'
           /\ \/ /\ rest = Tail(line) /\ line # <<>> /\ late' = late
                 /\ call.at = "fix" /\ call.garbled
              \/ rest = line /\ Silent("suffix") /\ call.at = "suffix" /\ call.op = "gps"
           /\ call'.op = "image" /\ call'.at = "suffix" /\ call'.mine = Asked
           /\ call'.used = 0 /\ call'.file = <<>>
           /\ call'.coords = call.coords /\ call'.seen = call.seen
<1>1. ASSUME NEW rest, Writing("image", rest), RequestImage(rest)
      PROVE  /\ CallOK' /\ call'.at = "suffix"
             /\ call'.op = "image" /\ call'.mine = Asked /\ call'.file = <<>>
             /\ call'.coords = call.coords /\ call'.seen = call.seen /\ call'.used = 0
    <2>1. "image" \in Ops
        BY DEF Ops
    <2>2. sent \in Nat /\ sent' \in Nat /\ sent <= sent' /\ Asked \subseteq 1..sent'
        BY <1>1, <2>1, WritingFacts
    <2> QED BY <1>1, <2>2, RequestImageEffect
<1>2. CASE TimeoutEndsTrace
    <2>1. RequestImage(line) /\ Silent("suffix") /\ call.at = "suffix" /\ call.op = "gps"
        BY <1>2 DEF TimeoutEndsTrace, Silent
    <2>2. Writing("image", line)
        BY <2>1, SilentFacts DEF RequestImage, Writing, LineOK
    <2> QED BY <1>1, <2>1, <2>2
<1>3. CASE /\ call.at = "fix" /\ call.garbled /\ line # <<>> /\ up
           /\ RequestImage(Tail(line)) /\ Others
    <2>1. Writing("image", Tail(line)) /\ late' = late
        BY <1>3 DEF RequestImage, Others, Writing, LineOK
    <2> QED BY <1>1, <1>3, <2>1
<1> QED BY <1>2, <1>3

-----------------------------------------------------------------------------
(* The parts of the invariant, step by step *)

LEMMA CallStep == TypeOK /\ LineOK /\ CallOK /\ [Next]_vars => CallOK'
<1> SUFFICES ASSUME TypeOK, LineOK, CallOK, [Next]_vars PROVE CallOK'
    OBVIOUS
<1>0. sent \in Nat /\ sent' \in Nat /\ sent <= sent'
    BY LineStep DEF LineOK
<1>1. ASSUME NEW o \in Ops, Begin(o) PROVE CallOK'
    BY <1>1, BeginEffect
<1>2. CASE ReadOn \/ ReadEnd \/ ArqReturns \/ ReadPacket \/ ReadFcs \/ SentenceBegins \/ ReadTime
    BY <1>2, ReadOnEffect, ReadEndEffect, ArqReturnsEffect, ReadPacketEffect, ReadFcsEffect,
       SentenceBeginsEffect, ReadTimeEffect
<1>3. CASE ArqRetries \/ TimeoutRetries
    BY <1>3, RetryEffect
<1>4. CASE ReadFix
    BY <1>0, <1>4, ReadFixEffect, TraceEndsEffect
<1>5. CASE ReadGreeting \/ Disconnect \/ UNCHANGED vars
    BY <1>5 DEF ReadGreeting, Take, Disconnect, vars, CallOK
<1>6. CASE TimeoutEnds
    BY <1>6, TimeoutEndsEffect
<1>7. CASE TimeoutEndsTrace
    BY <1>7, TraceEndsEffect
<1>8. CASE TimeoutIgnored
    BY <1>8, TimeoutIgnoredEffect
<1> QED BY <1>1, <1>2, <1>3, <1>4, <1>5, <1>6, <1>7, <1>8 DEF Next, ReadSymbol, Timeout

LEMMA PlaceStep == TypeOK /\ LineOK /\ CallOK /\ PlaceInv /\ [Next]_vars => PlaceInv'
<1> SUFFICES ASSUME TypeOK, LineOK, CallOK, PlaceInv, [Next]_vars PROVE PlaceInv'
    OBVIOUS
<1> USE DEF PlaceInv
<1>0. sent \in Nat /\ sent' \in Nat /\ sent <= sent'
    BY LineStep DEF LineOK
<1>1. ASSUME NEW o \in Ops, Begin(o) PROVE PlaceInv'
    BY <1>1, BeginEffect
<1>2. CASE ReadOn \/ ReadEnd \/ ArqReturns
    BY <1>2, ReadOnEffect, ReadEndEffect, ArqReturnsEffect
<1>9. CASE ReadPacket \/ ReadFcs \/ SentenceBegins \/ ReadTime
    BY <1>9, ReadPacketEffect, ReadFcsEffect, SentenceBeginsEffect, ReadTimeEffect
<1>3. CASE ArqRetries \/ TimeoutRetries
    BY <1>3, RetryEffect
<1>4. CASE ReadFix
    BY <1>0, <1>4, ReadFixEffect, TraceEndsEffect
<1>5. CASE ReadGreeting \/ Disconnect \/ UNCHANGED vars
    BY <1>5 DEF ReadGreeting, Disconnect, vars
<1>6. CASE TimeoutEnds
    BY <1>6, TimeoutEndsEffect
<1>7. CASE TimeoutEndsTrace
    BY <1>7, TraceEndsEffect
<1>8. CASE TimeoutIgnored
    BY <1>8, TimeoutIgnoredEffect
<1> QED BY <1>1, <1>2, <1>3, <1>4, <1>5, <1>6, <1>7, <1>8, <1>9 DEF Next, ReadSymbol, Timeout

LEMMA TagsCount ==
    ASSUME NEW n \in Nat, NEW l \in Seq(Symbol(n))
    PROVE  /\ IsFiniteSet(Tags(l)) /\ Cardinality(Tags(l)) \in Nat
           /\ Cardinality(Tags(l)) = 0 => l = <<>>
           /\ l = <<>> => Cardinality(Tags(l)) = 0
<1>1. DOMAIN l = 1..Len(l) /\ Len(l) \in Nat /\ \A j \in DOMAIN l : l[j] \in Symbol(n)
    BY ElementOfSeq, LenProperties
<1>2. Tags(l) \subseteq 0..n
    BY <1>1 DEF Tags, Symbol
<1>3. IsFiniteSet(0..n)
    BY FS_Interval
<1>4. IsFiniteSet(Tags(l)) /\ Cardinality(Tags(l)) \in Nat
    BY <1>2, <1>3, FS_Subset, FS_CardinalityType
<1>5. Tags(l) = {} => l = <<>>
    <2>1. ASSUME l # <<>> PROVE l[1].of \in Tags(l)
        <3>1. 1 \in DOMAIN l
            BY <1>1, <2>1, EmptySeq
        <3> QED BY <3>1 DEF Tags
    <2> QED BY <2>1
<1>6. l = <<>> => Tags(l) = {}
    BY <1>1, EmptySeq DEF Tags
<1> QED BY <1>4, <1>5, <1>6, FS_EmptySet

LEMMA TakingCount ==
    ASSUME LineOK, Taking
    PROVE  /\ Cardinality(Tags(line)) \in Nat /\ Cardinality(Tags(line')) \in Nat
           /\ Cardinality(Tags(line')) <= Cardinality(Tags(line))
           /\ Now.sym \in {"TOP", "D9"} => Cardinality(Tags(line')) <= Cardinality(Tags(line)) - 1
<1>1. line # <<>> /\ line' = Tail(line) /\ sent \in Nat /\ line \in Seq(Symbol(sent)) /\ EndsLast(line)
    BY DEF Taking, Take, LineOK
<1>2. /\ line' \in Seq(Symbol(sent)) /\ Now.of \in Tags(line) /\ Tags(line') \subseteq Tags(line)
      /\ Now.sym \in {"TOP", "D9"} => Now.of \notin Tags(line')
    BY <1>1, TailLine DEF Now
<1>3. /\ IsFiniteSet(Tags(line)) /\ Cardinality(Tags(line)) \in Nat
      /\ Cardinality(Tags(line')) \in Nat
    BY <1>1, <1>2, TagsCount
<1>4. Cardinality(Tags(line')) <= Cardinality(Tags(line))
    BY <1>2, <1>3, FS_Subset
<1>5. ASSUME Now.sym \in {"TOP", "D9"}
      PROVE  Cardinality(Tags(line')) <= Cardinality(Tags(line)) - 1
    <2>1. Tags(line') \subseteq Tags(line) \ {Now.of}
        BY <1>2, <1>5
    <2>2. /\ IsFiniteSet(Tags(line) \ {Now.of})
          /\ Cardinality(Tags(line) \ {Now.of}) = Cardinality(Tags(line)) - 1
        BY <1>2, <1>3, FS_RemoveElement
    <2> QED BY <2>1, <2>2, FS_Subset
<1> QED BY <1>3, <1>4, <1>5

LEMMA WritingCount ==
    ASSUME LineOK, NEW o \in Ops, NEW rest, Writing(o, rest)
    PROVE  /\ Cardinality(Tags(line)) \in Nat /\ Cardinality(Tags(line')) \in Nat
           /\ Cardinality(Tags(line')) <= Cardinality(Tags(line)) + 1
           /\ rest = Tail(line) /\ line # <<>> /\ Now.sym \in {"TOP", "D9"} =>
                 Cardinality(Tags(line')) <= Cardinality(Tags(line))
<1>1. /\ sent \in Nat /\ sent' \in Nat /\ sent <= sent'
      /\ rest \in Seq(Symbol(sent)) /\ Tags(rest) \subseteq Tags(line)
      /\ Tags(line') \subseteq Tags(rest) \cup Asked
      /\ line \in Seq(Symbol(sent)) /\ EndsLast(line)
    BY WritingFacts DEF LineOK
<1>2. Tags(line') \subseteq Tags(rest) \cup {sent + 1}
    BY <1>1 DEF Asked
<1>3. /\ IsFiniteSet(Tags(line)) /\ Cardinality(Tags(line)) \in Nat
      /\ IsFiniteSet(Tags(rest)) /\ Cardinality(Tags(rest)) \in Nat
      /\ Cardinality(Tags(rest)) <= Cardinality(Tags(line))
    BY <1>1, TagsCount, FS_Subset
<1>4. Cardinality(Tags(line')) \in Nat /\ Cardinality(Tags(line')) <= Cardinality(Tags(rest)) + 1
    <2>1. /\ IsFiniteSet(Tags(rest) \cup {sent + 1})
          /\ Cardinality(Tags(rest) \cup {sent + 1}) <= Cardinality(Tags(rest)) + 1
        <3>1. /\ IsFiniteSet(Tags(rest) \cup {sent + 1})
              /\ sent + 1 \in Tags(rest) => Cardinality(Tags(rest) \cup {sent + 1}) = Cardinality(Tags(rest))
              /\ sent + 1 \notin Tags(rest) =>
                    Cardinality(Tags(rest) \cup {sent + 1}) = Cardinality(Tags(rest)) + 1
            <4> DEFINE tags == Tags(rest)
                       x == sent + 1
            <4>1. IsFiniteSet(tags)
                BY <1>3
            <4> HIDE DEF tags, x
            <4>2. /\ IsFiniteSet(tags \cup {x})
                  /\ x \in tags => Cardinality(tags \cup {x}) = Cardinality(tags)
                  /\ x \notin tags => Cardinality(tags \cup {x}) = Cardinality(tags) + 1
                BY <4>1, FS_AddElement
            <4> QED BY <4>2 DEF tags, x
        <3> QED BY <1>3, <3>1
    <2>2. IsFiniteSet(Tags(line')) /\ Cardinality(Tags(line')) <= Cardinality(Tags(rest) \cup {sent + 1})
        BY <1>2, <2>1, FS_Subset
    <2>3. Cardinality(Tags(line')) \in Nat /\ Cardinality(Tags(rest) \cup {sent + 1}) \in Nat
        BY <2>1, <2>2, FS_CardinalityType
    <2> QED BY <1>3, <2>1, <2>2, <2>3
<1>5. ASSUME rest = Tail(line), line # <<>>, Now.sym \in {"TOP", "D9"}
      PROVE  Cardinality(Tags(line')) <= Cardinality(Tags(line))
    <2>1. Now.of \in Tags(line) /\ Now.of \notin Tags(rest)
        BY <1>1, <1>5, TailLine DEF Now
    <2>2. Tags(rest) \subseteq Tags(line) \ {Now.of}
        BY <1>1, <2>1
    <2>3. /\ IsFiniteSet(Tags(line) \ {Now.of})
          /\ Cardinality(Tags(line) \ {Now.of}) = Cardinality(Tags(line)) - 1
        BY <1>3, <2>1, FS_RemoveElement
    <2>4. Cardinality(Tags(rest)) <= Cardinality(Tags(line)) - 1
        BY <2>2, <2>3, FS_Subset
    <2> QED BY <1>3, <1>4, <2>4
<1> QED BY <1>3, <1>4, <1>5

\* As many answers are on the line as reads were too early, and one more while a call
\* has not met its own.
LEMMA BacklogStep == TypeOK /\ LineOK /\ CallOK /\ Backlog /\ [Next]_vars => Backlog'
<1> SUFFICES ASSUME TypeOK, LineOK, CallOK, Backlog, [Next]_vars PROVE Backlog'
    OBVIOUS
<1> DEFINE n == Cardinality(Tags(line))
           nNew == Cardinality(Tags(line'))
           done == call.at = "idle" \/ (call.at = "fix" /\ call.garbled)
           doneNew == call'.at = "idle" \/ (call'.at = "fix" /\ call'.garbled)
<1>0. /\ late \in Nat /\ sent \in Nat /\ sent' \in Nat /\ sent <= sent'
      /\ n \in Nat /\ nNew \in Nat /\ line \in Seq(Symbol(sent))
    BY LineStep, TagsCount DEF LineOK
<1>a. n <= late + 1 /\ (done => n <= late)
    BY <1>0 DEF Backlog, Outstanding, Tags
<1>b. line = <<>> => n = 0
    BY <1>0, TagsCount
<1>c. ASSUME nNew <= late' \/ (nNew <= late' + 1 /\ ~doneNew) PROVE Backlog'
    <2>1. \A a, b \in Nat : a <= b => a <= b + 1
        OBVIOUS
    <2>2. late' \in Nat
        BY LineStep DEF LineOK
    <2>3. CASE nNew <= late'
        <3>1. nNew <= late' + 1
            BY <1>0, <2>1, <2>2, <2>3
        <3> QED BY <2>2, <2>3, <3>1 DEF Backlog, Outstanding, Tags
    <2>4. CASE nNew <= late' + 1 /\ ~doneNew
        BY <2>4 DEF Backlog, Outstanding, Tags
    <2> QED BY <1>c, <2>3, <2>4
<1>d. Taking => late' = late /\ nNew <= n /\ (Now.sym \in {"TOP", "D9"} => nNew <= n - 1)
    BY TakingCount DEF Taking, Others
<1> HIDE DEF n, nNew
<1>1. ASSUME NEW o \in Ops, Begin(o) PROVE Backlog'
    <2>1. nNew <= n + 1 /\ late' = late /\ done /\ ~doneNew
        BY <1>1, BeginEffect, WritingCount DEF n, nNew
    <2> QED BY <1>0, <1>a, <1>c, <2>1
<1>2. CASE ReadOn \/ ReadPacket \/ ReadFcs \/ SentenceBegins
    <2>1. Taking /\ ~doneNew
        BY <1>2, ReadOnEffect, ReadPacketEffect, ReadFcsEffect, SentenceBeginsEffect
    <2> QED BY <1>0, <1>a, <1>c, <1>d, <2>1
<1>3. CASE ReadEnd \/ ArqReturns
    <2>1. Taking /\ Now.sym \in {"TOP", "D9"}
        BY <1>3, ReadEndEffect, ArqReturnsEffect
    <2> QED BY <1>0, <1>a, <1>c, <1>d, <2>1
<1>4. CASE ArqRetries \/ TimeoutRetries
    <2>1. PICK rest \in {line, Tail(line)} :
             /\ Writing("arq", rest) /\ call'.at = "suffix"
             /\ \/ rest = Tail(line) /\ line # <<>> /\ Now.sym = "TOP" /\ late' = late
                \/ rest = line /\ Silent("suffix")
        BY <1>4, RetryEffect
    <2>2. nNew <= n + 1 /\ (rest = Tail(line) /\ line # <<>> /\ Now.sym = "TOP" => nNew <= n)
        BY <2>1, WritingCount DEF n, nNew, Ops
    <2>3. CASE rest = Tail(line) /\ line # <<>> /\ Now.sym = "TOP" /\ late' = late
        BY <1>0, <1>a, <1>c, <2>1, <2>2, <2>3
    <2>4. CASE rest = line /\ Silent("suffix")
        BY <1>0, <1>a, <1>b, <1>c, <2>1, <2>2, <2>4, SilentFacts
    <2> QED BY <2>1, <2>3, <2>4
<1>5. CASE ReadTime
    <2>1. Taking /\ (doneNew <=> done)
        BY <1>5, ReadTimeEffect
    <2> QED BY <1>0, <1>a, <1>c, <1>d, <2>1
<1>6. ASSUME /\ TimeoutEndsTrace \/
                /\ call.at = "fix" /\ call.garbled /\ line # <<>> /\ up
                /\ RequestImage(Tail(line)) /\ Others
      PROVE  Backlog'
    <2>1. PICK rest \in {line, Tail(line)} :
             /\ Writing("image", rest) /\ call'.at = "suffix"
             /\ \/ late' = late /\ done
                \/ Silent("suffix")
        BY <1>6, TraceEndsEffect
    <2>2. nNew <= n + 1
        BY <2>1, WritingCount DEF n, nNew, Ops
    <2>3. CASE late' = late /\ done
        BY <1>0, <1>a, <1>c, <2>1, <2>2, <2>3
    <2>4. CASE Silent("suffix")
        BY <1>0, <1>a, <1>b, <1>c, <2>1, <2>2, <2>4, SilentFacts
    <2> QED BY <2>1, <2>3, <2>4
<1>7. CASE ReadFix
    <2>1. CASE Taking /\ call'.at = "suffix"
        BY <1>0, <1>a, <1>c, <1>d, <2>1
    <2> QED BY <1>0, <1>6, <1>7, <2>1, ReadFixEffect
<1>8. CASE ReadGreeting
    <2>1. Taking /\ call' = call
        BY <1>8 DEF ReadGreeting, Reads, Taking
    <2> QED BY <1>0, <1>a, <1>c, <1>d, <2>1
<1>9. CASE TimeoutEnds
    <2>1. Silent(call.at) /\ line' = line
        BY <1>9, TimeoutEndsEffect
    <2>2. nNew = n
        BY <2>1 DEF n, nNew
    <2> QED BY <1>0, <1>a, <1>b, <1>c, <2>1, <2>2, SilentFacts
<1>10. CASE TimeoutIgnored
    <2>1. Silent(call.at) /\ line' = line
        BY <1>10, TimeoutIgnoredEffect
    <2>2. nNew = n
        BY <2>1 DEF n, nNew
    <2> QED BY <1>0, <1>a, <1>b, <1>c, <2>1, <2>2, SilentFacts
<1>11. CASE Disconnect
    <2>1. line' = <<>> /\ late' = late
        BY <1>11 DEF Disconnect
    <2>2. nNew = 0
        BY <2>1, FS_EmptySet DEF nNew, Tags
    <2> QED BY <1>0, <1>c, <2>1, <2>2
<1>12. CASE UNCHANGED vars
    BY <1>12 DEF vars, Backlog, Outstanding
<1> QED BY <1>1, <1>2, <1>3, <1>4, <1>5, <1>6, <1>7, <1>8, <1>9, <1>10, <1>11, <1>12
        DEF Next, ReadSymbol, Timeout

-----------------------------------------------------------------------------
(* Unless a read is too early *)

LEMMA EmptyWhenDone ==
    ASSUME LineOK, Backlog, late = 0,
           call.at = "idle" \/ (call.at = "fix" /\ call.garbled)
    PROVE  line = <<>>
<1>1. sent \in Nat /\ line \in Seq(Symbol(sent)) /\ Outstanding = Tags(line)
    BY DEF LineOK, Outstanding, Tags
<1>2. Cardinality(Tags(line)) \in Nat /\ Cardinality(Tags(line)) <= 0
    BY <1>1, TagsCount DEF Backlog
<1> QED BY <1>1, <1>2, TagsCount

\* What a step does when no read has been too early: it writes a request when the line
\* is empty, asks again for a packet, takes a symbol, or meets an empty line.
Fresh == \E o \in Ops :
    /\ Writing(o, <<>>) /\ call'.op = o /\ call'.at = "suffix"
    /\ call'.mine = Asked /\ call'.used = 0 /\ call'.file = <<>>
Again == \E rest :
    /\ Writing("arq", rest) /\ call.at = "suffix" /\ call'.op = "arq"
    /\ call'.mine = call.mine \cup Asked /\ call'.used = call.used
Reading ==
    /\ Taking /\ call'.op = call.op /\ call'.mine = call.mine
    /\ call.at = "greeting" <=> call'.at = "greeting"
    /\ call'.used = call.used \/ (call'.used = Now.of /\ call.at # "greeting")
    /\ call.op = "image" => call'.file = Append(call.file, Now.sym)
Quiet ==
    /\ line' = <<>> /\ call'.op = call.op /\ call'.mine = call.mine
    /\ call'.used = call.used
    /\ ~up' \/ (line = <<>> /\ up' = up /\ call'.file = call.file)

LEMMA TimelySteps ==
    ASSUME LineOK, CallOK, Backlog, PlaceInv, [Next]_vars, late' = 0
    PROVE  late = 0 /\ (Fresh \/ Again \/ Reading \/ Quiet \/ UNCHANGED <<up, line, call>>)
<1> USE DEF Fresh, Again, Reading, Quiet
<1>0. late \in Nat /\ sent' \in Nat /\ sent <= sent'
    BY TypeOKParts, LineStep DEF LineOK
<1>a. Taking => late = 0
    BY DEF Taking, Others
<1>b. ASSUME NEW place, Silent(place) PROVE late = 0 /\ line = <<>> /\ up' = up
    BY <1>0, <1>b, SilentFacts
<1>1. ASSUME NEW o \in Ops, Begin(o) PROVE late = 0 /\ Fresh
    <2>1. /\ Writing(o, line) /\ call.at = "idle" /\ late' = late
          /\ call'.op = o /\ call'.at = "suffix" /\ call'.mine = Asked /\ call'.used = 0
          /\ call'.file = <<>>
        BY <1>1, BeginEffect
    <2>2. line = <<>>
        BY <2>1, EmptyWhenDone
    <2> QED BY <2>1, <2>2
<1>2. CASE ReadOn \/ ReadEnd
    <2>1. /\ Taking /\ call'.op = call.op /\ call'.mine = call.mine /\ call'.file = Stored
          /\ call.at = "suffix" /\ call'.at \in {"suffix", "packet", "idle"}
          /\ call'.used \in {call.used, Now.of}
        BY <1>2, ReadOnEffect, ReadEndEffect
    <2> QED BY <1>a, <2>1 DEF Stored
<1>3. CASE ArqReturns \/ ReadPacket \/ ReadFcs \/ SentenceBegins \/ ReadTime
    <2>1. /\ Taking /\ call'.op = call.op /\ call'.mine = call.mine
          /\ call.at \in {"suffix", "packet", "fcs", "fix"} /\ call'.at # "greeting"
          /\ call'.used \in {call.used, Now.of} /\ call.op # "image"
        BY <1>3, ArqReturnsEffect, ReadPacketEffect, ReadFcsEffect, SentenceBeginsEffect,
           ReadTimeEffect DEF PlaceInv
    <2> QED BY <1>a, <2>1
<1>4. CASE ArqRetries \/ TimeoutRetries
    <2>1. PICK rest :
             /\ Writing("arq", rest) /\ call.at = "suffix" /\ call'.op = "arq"
             /\ call'.mine = call.mine \cup Asked /\ call'.used = call.used
             /\ late' = late \/ Silent("suffix")
        BY <1>4, RetryEffect
    <2> QED BY <1>b, <2>1
<1>5. ASSUME TimeoutEndsTrace \/
                (/\ call.at = "fix" /\ call.garbled /\ line # <<>> /\ up
                 /\ RequestImage(Tail(line)) /\ Others)
      PROVE  late = 0 /\ Fresh
    <2>1. PICK rest \in {line, Tail(line)} :
             /\ Writing("image", rest)
             /\ \/ /\ rest = Tail(line) /\ line # <<>> /\ late' = late
                   /\ call.at = "fix" /\ call.garbled
                \/ rest = line /\ Silent("suffix")
             /\ call'.op = "image" /\ call'.at = "suffix" /\ call'.mine = Asked
             /\ call'.used = 0 /\ call'.file = <<>>
        BY <1>5, TraceEndsEffect
    <2>2. ~(line # <<>> /\ late' = late /\ call.at = "fix" /\ call.garbled)
        BY EmptyWhenDone
    <2>3. rest = <<>> /\ late = 0
        BY <1>b, <2>1, <2>2
    <2>4. Writing("image", <<>>)
        BY <2>1, <2>3
    <2> QED BY <2>1, <2>3, <2>4 DEF Ops
<1>6. CASE ReadFix
    <2>1. CASE /\ Taking /\ call'.at = "suffix"
               /\ call'.op = call.op /\ call'.mine = call.mine /\ call'.used = call.used
        BY <1>0, <1>6, <1>a, <2>1, ReadFixEffect DEF PlaceInv
    <2> QED BY <1>0, <1>5, <1>6, <2>1, ReadFixEffect
<1>7. CASE ReadGreeting
    BY <1>7 DEF ReadGreeting, Reads, Taking, Others, PlaceInv
<1>8. CASE TimeoutEnds
    <2>1. late = 0 /\ line = <<>> /\ up' = up /\ line' = line
        BY <1>8, <1>b, TimeoutEndsEffect
    <2> QED BY <1>8, <2>1, TimeoutEndsEffect
<1>9. CASE TimeoutIgnored
    <2>1. late = 0 /\ line = <<>> /\ up' = up /\ line' = line
        BY <1>9, <1>b, TimeoutIgnoredEffect
    <2> QED BY <1>9, <2>1, TimeoutIgnoredEffect
<1>10. CASE Disconnect
    BY <1>10 DEF Disconnect
<1>11. CASE UNCHANGED vars
    BY <1>11 DEF vars
<1> HIDE DEF Fresh, Again, Reading, Quiet
<1> QED BY <1>1, <1>2, <1>3, <1>4, <1>5, <1>6, <1>7, <1>8, <1>9, <1>10, <1>11
        DEF Next, ReadSymbol, Timeout

\* The names of the symbols of an answer, and of those on a line.
Names1(answer) == [j \in DOMAIN answer |-> answer[j][1]]
Syms(l) == [j \in DOMAIN l |-> l[j].sym]

LEMMA SymsFacts ==
    ASSUME NEW n \in Nat, NEW l \in Seq(Symbol(n))
    PROVE  /\ Syms(l) \in Seq(Names) /\ Len(Syms(l)) = Len(l)
           /\ \A j \in 1..Len(l) : Syms(l)[j] = l[j].sym
<1>1. DOMAIN l = 1..Len(l) /\ Len(l) \in Nat
    BY LenProperties
<1>2. \A j \in DOMAIN l : l[j].sym \in Names
    <2>1. \A j \in DOMAIN l : l[j] \in Symbol(n)
        BY <1>1, ElementOfSeq
    <2> QED BY <2>1 DEF Symbol
<1>3. Syms(l) \in [1..Len(l) -> Names]
    BY <1>1, <1>2 DEF Syms
<1>4. \A j \in 1..Len(l) : Syms(l)[j] = l[j].sym
    BY <1>1 DEF Syms
<1> HIDE DEF Syms
<1> QED BY <1>1, <1>3, <1>4

\* A symbol that is taken goes from the line to the end of the file.
LEMMA SymsTail ==
    ASSUME NEW n \in Nat, NEW l \in Seq(Symbol(n)), l # <<>>, NEW file \in Seq(Names)
    PROVE  Append(file, Head(l).sym) \o Syms(Tail(l)) = file \o Syms(l)
<1>1. /\ Tail(l) \in Seq(Symbol(n)) /\ Head(l) = l[1] /\ Head(l).sym \in Names
      /\ Len(l) \in Nat \ {0} /\ Len(Tail(l)) = Len(l) - 1
      /\ \A j \in 1..(Len(l) - 1) : Tail(l)[j] = l[j + 1]
    <2>1. /\ Tail(l) \in Seq(Symbol(n)) /\ Head(l) \in Symbol(n) /\ Head(l) = l[1]
          /\ Len(l) \in Nat \ {0} /\ Len(Tail(l)) = Len(l) - 1
          /\ DOMAIN Tail(l) = 1..(Len(l) - 1)
          /\ \A j \in DOMAIN Tail(l) : Tail(l)[j] = l[j + 1]
        BY TailFacts
    <2>2. Head(l).sym \in Names
        BY <2>1 DEF Symbol
    <2> QED BY <2>1, <2>2
<1> DEFINE x == Head(l).sym
           t == Syms(Tail(l))
<1>2. /\ t \in Seq(Names) /\ Len(t) = Len(l) - 1
      /\ \A j \in 1..(Len(l) - 1) : t[j] = l[j + 1].sym
    <2>1. /\ t \in Seq(Names) /\ Len(t) = Len(Tail(l))
          /\ \A j \in 1..Len(Tail(l)) : t[j] = Tail(l)[j].sym
        BY <1>1, SymsFacts
    <2> HIDE DEF t
    <2> QED BY <1>1, <2>1
<1>3. /\ Syms(l) \in Seq(Names) /\ Len(Syms(l)) = Len(l)
      /\ \A j \in 1..Len(l) : Syms(l)[j] = l[j].sym
    BY SymsFacts
<1>4. x \in Names /\ x = l[1].sym
    BY <1>1
<1> HIDE DEF x, t
<1>5. <<x>> \o t = Syms(l)
    <2>1. <<x>> \in Seq(Names) /\ Len(<<x>>) = 1 /\ <<x>>[1] = x
        BY <1>4
    <2>2. <<x>> \o t \in Seq(Names) /\ Len(<<x>> \o t) = Len(l)
        <3>1. <<x>> \o t \in Seq(Names) /\ Len(<<x>> \o t) = Len(<<x>>) + Len(t)
            BY <1>2, <2>1, ConcatProperties
        <3>2. Len(<<x>>) + Len(t) = Len(l)
            BY <1>1, <1>2, <2>1
        <3> QED BY <3>1, <3>2
    <2>3. ASSUME NEW j \in 1..Len(l) PROVE (<<x>> \o t)[j] = Syms(l)[j]
        <3>1. CASE j = 1
            BY <1>1, <1>2, <1>3, <1>4, <2>1, <3>1, ConcatProperties
        <3>2. CASE j # 1
            <4>1. j - 1 \in 1..(Len(l) - 1) /\ (j - 1) + 1 = j
                BY <1>1, <3>2
            <4>2. t[j - 1] = l[j].sym
                BY <1>2, <4>1
            <4>3. (<<x>> \o t)[j] = t[j - 1]
                BY <1>1, <1>2, <2>1, <2>2, <4>1, ConcatProperties
            <4> QED BY <1>3, <4>2, <4>3
        <3> QED BY <3>1, <3>2
    <2> QED BY <1>3, <2>2, <2>3, SeqEqual
<1>6. Append(file, x) \o t = file \o (<<x>> \o t)
    <2>1. <<x>> \in Seq(Names) /\ Append(file, x) = file \o <<x>>
        BY <1>4, AppendIsConcat
    <2> QED BY <1>2, <2>1, ConcatAssociative
<1> QED BY <1>5, <1>6 DEF x, t

LEMMA SymsTagged ==
    ASSUME NEW answer \in Images, NEW n \in Nat
    PROVE  <<>> \o Syms(<<>> \o Tagged(answer, n)) = Names1(answer)
<1>1. answer \in Answers("image") /\ "image" \in Ops
    BY DEF Answers, Ops
<1>2. answer \in Seq(Names \X Nat) /\ DOMAIN answer = 1..Len(answer) /\ Len(answer) \in Nat
    BY <1>1, AnswerFacts, LenProperties
<1> DEFINE l == Tagged(answer, n)
<1>3. l \in Seq(Symbol(n)) /\ Len(l) = Len(answer) /\ DOMAIN l = 1..Len(answer)
      /\ \A j \in 1..Len(answer) : l[j].sym = answer[j][1]
    BY <1>2, TaggedFacts, LenProperties
<1> HIDE DEF l
<1>4. <<>> \o l = l
    BY <1>3, ConcatEmptySeq
<1>5. <<>> \o Syms(l) = Syms(l)
    BY <1>3, SymsFacts, ConcatEmptySeq
<1>6. Syms(l) = Names1(answer)
    BY <1>2, <1>3 DEF Syms, Names1
<1> QED BY <1>4, <1>5, <1>6 DEF l

\* Before a read that is too early, the line belongs to the call and the file is what of
\* the image is not on it any more.
OwnOK ==
    /\ call.at # "greeting" => Tags(line) \subseteq call.mine
    /\ call.used # 0 => call.used \in call.mine
    /\ call.op = "image" /\ up => \E image \in Images : call.file \o Syms(line) = Names1(image)

LEMMA OwnParts == OwnInv <=> (late = 0 => OwnOK)
BY DEF OwnInv, OwnOK, Outstanding, Tags, Syms, Names1

LEMMA OwnStep ==
    ASSUME LineOK, CallOK, Backlog, PlaceInv, OwnInv, [Next]_vars
    PROVE  OwnInv'
<1> SUFFICES ASSUME late' = 0 PROVE OwnOK'
    <2>1. OwnInv' <=> (late' = 0 => OwnOK')
        BY DEF OwnInv, OwnOK, Outstanding, Tags, Syms, Names1
    <2> QED BY <2>1
<1>1. late = 0 /\ OwnOK
    BY TimelySteps, OwnParts
<1>2. sent \in Nat /\ line \in Seq(Symbol(sent)) /\ EndsLast(line) /\ call.file \in Seq(Names)
    BY DEF LineOK, CallOK, CallsUpTo
<1>3. CASE Fresh
    <2>1. PICK o \in Ops :
             /\ Writing(o, <<>>) /\ call'.op = o /\ call'.at = "suffix"
             /\ call'.mine = Asked /\ call'.used = 0 /\ call'.file = <<>>
        BY <1>3 DEF Fresh
    <2>2. /\ Tags(line') \subseteq Tags(<<>>) \cup Asked /\ up' = up
          /\ up => \E answer \in Answers(o) : line' = <<>> \o Tagged(answer, sent + 1)
        BY <2>1, WritingFacts
    <2>3. Tags(<<>>) = {}
        BY DEF Tags
    <2>4. ASSUME call'.op = "image", up'
          PROVE  \E image \in Images : call'.file \o Syms(line') = Names1(image)
        <3>1. PICK image \in Images : line' = <<>> \o Tagged(image, sent + 1)
            BY <2>1, <2>2, <2>4 DEF Answers
        <3>2. \A m \in Nat : <<>> \o Syms(<<>> \o Tagged(image, m)) = Names1(image)
            BY SymsTagged
        <3>3. sent + 1 \in Nat
            BY <1>2
        <3> QED BY <2>1, <3>1, <3>2, <3>3
    <2> QED BY <2>1, <2>2, <2>3, <2>4 DEF OwnOK
<1>4. CASE Again
    <2>1. PICK rest :
             /\ Writing("arq", rest) /\ call.at = "suffix" /\ call'.op = "arq"
             /\ call'.mine = call.mine \cup Asked /\ call'.used = call.used
        BY <1>4 DEF Again
    <2>2. Tags(rest) \subseteq Tags(line) /\ Tags(line') \subseteq Tags(rest) \cup Asked
        BY <2>1, WritingFacts DEF Ops
    <2> QED BY <1>1, <2>1, <2>2 DEF OwnOK
<1>5. CASE Reading
    <2>1. line # <<>> /\ line' = Tail(line) /\ Now = Head(line) /\ up' = up /\ up
        BY <1>5 DEF Reading, Taking, Take, Others, Now
    <2>2. Tags(line') \subseteq Tags(line) /\ Now.of \in Tags(line)
        BY <1>2, <2>1, TailLine
    <2>3. Append(call.file, Now.sym) \o Syms(line') = call.file \o Syms(line)
        BY <1>2, <2>1, SymsTail
    <2> QED BY <1>1, <1>5, <2>1, <2>2, <2>3 DEF OwnOK, Reading
<1>6. CASE Quiet
    <2>1. Tags(line') = {}
        BY <1>6 DEF Quiet, Tags
    <2>2. line = <<>> => Syms(line') = Syms(line)
        BY <1>6 DEF Quiet
    <2>3. /\ call'.mine = call.mine /\ call'.used = call.used /\ call'.op = call.op
          /\ up' => line = <<>> /\ up /\ call'.file = call.file
        BY <1>6 DEF Quiet
    <2>4. call'.used # 0 => call'.used \in call'.mine
        BY <1>1, <2>3 DEF OwnOK
    <2>5. ASSUME call'.op = "image", up'
          PROVE  \E image \in Images : call'.file \o Syms(line') = Names1(image)
        <3>1. call'.file = call.file /\ Syms(line') = Syms(line) /\ call.op = "image" /\ up
            BY <2>2, <2>3, <2>5
        <3> QED BY <1>1, <3>1 DEF OwnOK
    <2> QED BY <2>1, <2>4, <2>5 DEF OwnOK
<1>7. CASE UNCHANGED <<up, line, call>>
    BY <1>1, <1>7 DEF OwnOK
<1> QED BY <1>3, <1>4, <1>5, <1>6, <1>7, TimelySteps

-----------------------------------------------------------------------------
(* The fixes on the line *)

Follows(l, first, second) ==
    \A j \in DOMAIN l : l[j].sym = first => j + 1 \in DOMAIN l /\ l[j + 1].sym = second
Rising(l) == \A j, k \in DOMAIN l :
    j < k /\ l[j].sym = "time" /\ l[k].sym = "time" => l[j].val <= l[k].val

LEMMA TailTrace ==
    ASSUME NEW n \in Nat, NEW l \in Seq(Symbol(n)), l # <<>>
    PROVE  /\ \A a, b \in Names : Follows(l, a, b) => Follows(Tail(l), a, b)
           /\ Rising(l) => Rising(Tail(l))
<1> DEFINE t == Tail(l)
<1>1. /\ Len(l) \in Nat \ {0} /\ DOMAIN l = 1..Len(l) /\ DOMAIN t = 1..(Len(l) - 1)
      /\ \A j \in DOMAIN t : j + 1 \in DOMAIN l /\ t[j] = l[j + 1]
    BY TailFacts
<1> HIDE DEF t
<1>2. ASSUME NEW a \in Names, NEW b \in Names, Follows(l, a, b) PROVE Follows(t, a, b)
    <2> SUFFICES ASSUME NEW j \in DOMAIN t, t[j].sym = a
                 PROVE  j + 1 \in DOMAIN t /\ t[j + 1].sym = b
        BY DEF Follows
    <2>1. j + 1 \in DOMAIN l /\ l[j + 1].sym = a
        BY <1>1
    <2>2. (j + 1) + 1 \in DOMAIN l /\ l[(j + 1) + 1].sym = b
        BY <1>2, <2>1 DEF Follows
    <2>3. j + 1 \in DOMAIN t
        BY <1>1, <2>2
    <2> QED BY <1>1, <2>2, <2>3
<1>3. ASSUME Rising(l) PROVE Rising(t)
    <2> SUFFICES ASSUME NEW j \in DOMAIN t, NEW k \in DOMAIN t,
                        j < k, t[j].sym = "time", t[k].sym = "time"
                 PROVE  t[j].val <= t[k].val
        BY DEF Rising
    <2>1. j + 1 \in DOMAIN l /\ k + 1 \in DOMAIN l /\ j + 1 < k + 1
          /\ t[j] = l[j + 1] /\ t[k] = l[k + 1]
        BY <1>1
    <2> QED BY <1>3, <2>1 DEF Rising
<1> QED BY <1>2, <1>3 DEF t

LEMMA TaggedTrace ==
    ASSUME NEW t \in Traces, NEW n \in Nat
    PROVE  LET l == <<>> \o Tagged(Sentences(t), n)
           IN  /\ l \in Seq(Symbol(n))
               /\ Follows(l, "GGA", "time") /\ Follows(l, "time", "commas")
               /\ Ascending => Rising(l)
<1> DEFINE s == Sentences(t)
           l == Tagged(s, n)
           Fields == <<"GP", "GGA", "time", "commas">>
           Field(j) == ((j + 3) % 4) + 1
           fix(j) == (j + 3) \div 4
<1>1. t \in Seq(Nat) /\ Len(t) \in Nat /\ DOMAIN t = 1..Len(t) /\ \A j \in 1..Len(t) : t[j] \in Nat
    BY ModemAssumption, LenProperties, ElementOfSeq
<1>2. /\ s \in Seq(Names \X Nat) /\ Len(s) = 4 * Len(t)
      /\ \A j \in 1..Len(s) : fix(j) \in 1..Len(t) /\ s[j][1] = Fields[Field(j)]
                              /\ (s[j][1] = "time" => s[j][2] = t[fix(j)])
    BY <1>1, SentencesFacts
<1> HIDE DEF s
<1>3. /\ l \in Seq(Symbol(n)) /\ Len(l) = 4 * Len(t) /\ DOMAIN l = 1..(4 * Len(t))
      /\ \A j \in 1..Len(s) : l[j].sym = s[j][1] /\ l[j].val = s[j][2]
    <2>1. /\ l \in Seq(Symbol(n)) /\ Len(l) = Len(s)
          /\ \A j \in 1..Len(s) : l[j].sym = s[j][1] /\ l[j].val = s[j][2]
        BY <1>2, TaggedFacts
    <2> HIDE DEF l
    <2> QED BY <1>2, <2>1, LenProperties
<1>4. <<>> \o l = l
    BY <1>3, ConcatEmptySeq
<1> HIDE DEF l
<1>5. ASSUME NEW j \in DOMAIN l
      PROVE  /\ j \in 1..(4 * Len(t)) /\ l[j].sym = Fields[Field(j)]
             /\ fix(j) \in 1..Len(t)
             /\ l[j].sym = "time" => l[j].val = t[fix(j)]
    BY <1>2, <1>3
<1>6. ASSUME NEW j \in DOMAIN l, NEW i \in {2, 3}, Field(j) = i
      PROVE  j + 1 \in DOMAIN l /\ Field(j + 1) = i + 1
    <2>1. \A m \in Nat : \A q \in 1..(4 * m) :
             ((q + 3) % 4) + 1 \in {2, 3} => q + 1 \in 1..(4 * m)
        OBVIOUS
    <2>2. \A q \in Nat : ((q + 3) % 4) + 1 \in {2, 3} => ((q + 1 + 3) % 4) + 1 = ((q + 3) % 4) + 2
        OBVIOUS
    <2>3. j \in 1..(4 * Len(t)) /\ j \in Nat /\ Field(j) \in {2, 3}
        BY <1>1, <1>3, <1>6
    <2>4. j + 1 \in 1..(4 * Len(t)) /\ Field(j + 1) = Field(j) + 1
        <3>1. j + 1 \in 1..(4 * Len(t))
            BY <1>1, <2>1, <2>3
        <3>2. Field(j + 1) = Field(j) + 1
            <4>1. ((j + 1 + 3) % 4) + 1 = ((j + 3) % 4) + 2
                BY <2>2, <2>3
            <4>2. (j + 3) % 4 \in Nat
                BY <2>3
            <4> QED BY <4>1, <4>2
        <3> QED BY <3>1, <3>2
    <2> QED BY <1>3, <1>6, <2>4
<1>7. ASSUME NEW j \in DOMAIN l
      PROVE  Field(j) \in 1..4 /\ (l[j].sym = "GGA" <=> Field(j) = 2)
             /\ (l[j].sym = "time" <=> Field(j) = 3) /\ (Field(j) = 4 => l[j].sym = "commas")
    <2>1. Field(j) \in 1..4
        BY <1>1, <1>3
    <2> HIDE DEF Field
    <2> QED BY <1>5, <2>1
<1> HIDE DEF Field, Fields
<1>8. Follows(l, "GGA", "time")
    BY <1>6, <1>7 DEF Follows
<1>9. Follows(l, "time", "commas")
    BY <1>6, <1>7 DEF Follows
<1>10. ASSUME Ascending PROVE Rising(l)
    <2> SUFFICES ASSUME NEW j \in DOMAIN l, NEW k \in DOMAIN l,
                        j < k, l[j].sym = "time", l[k].sym = "time"
                 PROVE  l[j].val <= l[k].val
        BY DEF Rising
    <2>1. /\ fix(j) \in 1..Len(t) /\ fix(k) \in 1..Len(t)
          /\ l[j].val = t[fix(j)] /\ l[k].val = t[fix(k)]
          /\ t[fix(j)] \in Nat
        BY <1>1, <1>5
    <2>2. j \in Nat /\ k \in Nat
        BY <1>1, <1>3
    <2>3. fix(j) <= fix(k)
        BY <2>2
    <2> HIDE DEF fix
    <2>4. CASE fix(j) < fix(k)
        BY <1>1, <1>10, <2>1, <2>4 DEF Ascending
    <2>5. CASE fix(j) = fix(k)
        BY <2>1, <2>5
    <2> QED BY <1>1, <2>1, <2>3, <2>4, <2>5
<1> QED BY <1>3, <1>4, <1>8, <1>9, <1>10 DEF l, s

\* What a step of a trace does when no read has been too early.
TraceBegins ==
    /\ call'.at = "suffix" /\ call'.coords = <<>>
    /\ line' = <<>> \/ \E t \in Traces : line' = <<>> \o Tagged(Sentences(t), sent + 1)
TraceReads ==
    /\ Taking /\ call.op = "gps" /\ call'.coords = call.coords
    /\ \/ call'.at = "suffix"
       \/ call'.at = "fix" /\ Now.sym = "GGA"
       \/ call.at = "fix" /\ call'.at = "fix" /\ Now.sym # "commas" /\ call'.time = Now.val
TraceSelects ==
    /\ Taking /\ call.op = "gps" /\ call.at = "fix" /\ Now.sym = "commas"
    /\ call'.at = "suffix" /\ call'.coords = Selected(call.time)

LEMMA TraceSteps ==
    ASSUME LineOK, CallOK, Backlog, PlaceInv, [Next]_vars, late' = 0, call'.op = "gps"
    PROVE  \/ TraceBegins \/ TraceReads \/ TraceSelects \/ line' = <<>>
           \/ UNCHANGED <<line, call>>
<1> USE DEF TraceBegins, TraceReads, TraceSelects
<1>0. late = 0 /\ late \in Nat /\ sent' \in Nat /\ sent <= sent'
    BY TypeOKParts, TimelySteps, LineStep DEF LineOK
<1>1. ASSUME NEW o \in Ops, Begin(o) PROVE TraceBegins
    <2>1. /\ Writing(o, line) /\ call.at = "idle" /\ call'.op = o /\ call'.at = "suffix"
          /\ call'.coords = <<>>
        BY <1>1, BeginEffect
    <2>2. line = <<>>
        BY <1>0, <2>1, EmptyWhenDone
    <2>3. Writing("gps", <<>>) /\ "gps" \in Ops
        BY <2>1, <2>2
    <2>4. /\ ~up => line' = <<>>
          /\ up => \E answer \in Answers("gps") : line' = <<>> \o Tagged(answer, sent + 1)
        BY <2>3, WritingFacts
    <2>5. Answers("gps") = {Sentences(t) : t \in Traces}
        BY DEF Answers
    <2> QED BY <2>1, <2>4, <2>5
<1>2. CASE ReadOn
    <2>1. Taking /\ call'.op = call.op /\ call'.coords = call.coords
          /\ call'.at \in {"suffix", "packet"} /\ (call'.at = "packet" => call.op = "arq")
        BY <1>2, ReadOnEffect
    <2> QED BY <2>1
<1>3. CASE SentenceBegins
    BY <1>3, SentenceBeginsEffect
<1>4. CASE ReadTime
    BY <1>4, ReadTimeEffect
<1>5. CASE ReadFix
    <2>1. ~RequestImage(Tail(line)) \/ call'.op = "image"
        BY DEF RequestImage, NewCall
    <2> QED BY <1>0, <1>5, <2>1, ReadFixEffect
<1>6. CASE ReadEnd
    BY <1>6, ReadEndEffect
<1>7. CASE ArqReturns
    BY <1>7, ArqReturnsEffect
<1>8. CASE ReadPacket
    BY <1>8, ReadPacketEffect DEF PlaceInv
<1>9. CASE ReadFcs
    BY <1>9, ReadFcsEffect DEF PlaceInv
<1>10. CASE ArqRetries \/ TimeoutRetries
    BY <1>10, RetryEffect
<1>11. CASE ReadGreeting
    BY <1>11 DEF ReadGreeting, PlaceInv, Reads
<1>12. CASE TimeoutEnds
    BY <1>0, <1>12, TimeoutEndsEffect, SilentFacts
<1>13. CASE TimeoutIgnored
    BY <1>0, <1>13, TimeoutIgnoredEffect, SilentFacts
<1>14. CASE TimeoutEndsTrace
    BY <1>14, TraceEndsEffect
<1>15. CASE Disconnect
    BY <1>15 DEF Disconnect
<1>16. CASE UNCHANGED vars
    BY <1>16 DEF vars
<1> HIDE DEF TraceBegins, TraceReads, TraceSelects
<1> QED BY <1>1, <1>2, <1>3, <1>4, <1>5, <1>6, <1>7, <1>8, <1>9, <1>10, <1>11, <1>12, <1>13,
           <1>14, <1>15, <1>16 DEF Next, ReadSymbol, Timeout

FieldOK(l) ==
    /\ Follows(l, "GGA", "time") /\ Follows(l, "time", "commas")

LEMMA FieldStep ==
    ASSUME LineOK, CallOK, Backlog, PlaceInv, FieldInv, [Next]_vars
    PROVE  FieldInv'
<1> SUFFICES ASSUME late' = 0, call'.op = "gps"
             PROVE  /\ FieldOK(line')
                    /\ call'.at = "fix" /\ line' # <<>> => Head(line').sym \in {"time", "commas"}
    BY DEF FieldInv, FieldOK, Follows, FollowedBy, Now
<1>1. sent \in Nat /\ line \in Seq(Symbol(sent)) /\ late = 0
    BY TimelySteps DEF LineOK
<1>2. FieldInv = (late = 0 /\ call.op = "gps" =>
                    /\ FieldOK(line)
                    /\ call.at = "fix" /\ line # <<>> => Now.sym \in {"time", "commas"})
    BY DEF FieldInv, FieldOK, Follows, FollowedBy
<1>3. FieldOK(<<>>)
    BY DEF FieldOK, Follows
<1>4. CASE TraceBegins
    <2>1. \A t \in Traces, m \in Nat : FieldOK(<<>> \o Tagged(Sentences(t), m))
        BY TaggedTrace DEF FieldOK
    <2>2. sent + 1 \in Nat
        BY <1>1
    <2> QED BY <1>3, <1>4, <2>1, <2>2 DEF TraceBegins
<1>5. CASE TraceReads \/ TraceSelects
    <2>1. /\ line # <<>> /\ line' = Tail(line) /\ Now = Head(line) /\ call.op = "gps"
          /\ FieldOK(line)
        BY <1>1, <1>2, <1>5 DEF TraceReads, TraceSelects, Taking, Take, Now
    <2>2. FieldOK(line')
        BY <1>1, <2>1, TailTrace DEF FieldOK, Names
    <2>3. ASSUME line' # <<>>
          PROVE  Now = line[1] /\ Head(line') = line[2] /\ 1 \in DOMAIN line
        <3>1. line' \in Seq(Symbol(sent)) /\ Head(line') = line'[1] /\ 1 \in DOMAIN line'
            BY <1>1, <2>1, <2>3, TailFacts
        <3> QED BY <1>1, <2>1, <3>1, TailFacts
    <2>4. ASSUME call'.at = "fix", line' # <<>> PROVE Head(line').sym \in {"time", "commas"}
        <3>1. CASE Now.sym = "GGA"
            BY <2>1, <2>3, <2>4, <3>1 DEF FieldOK, Follows
        <3>2. CASE call.at = "fix" /\ Now.sym # "commas"
            <4>1. Now.sym = "time"
                BY <1>1, <1>2, <2>1, <3>2
            <4> QED BY <2>1, <2>3, <2>4, <4>1 DEF FieldOK, Follows
        <3> QED BY <1>5, <2>4, <3>1, <3>2 DEF TraceReads, TraceSelects
    <2> QED BY <2>2, <2>4
<1>6. CASE line' = <<>>
    BY <1>3, <1>6
<1>7. CASE UNCHANGED <<line, call>>
    BY <1>1, <1>2, <1>7 DEF Now
<1> QED BY <1>4, <1>5, <1>6, <1>7, TraceSteps

\* No fix on line l is earlier than the last one of the sequence chosen.
Later(chosen, t) == chosen # <<>> => Last(chosen) <= t
LaterLine(chosen, l) == \A j \in DOMAIN l : l[j].sym = "time" => Later(chosen, l[j].val)
Earliest(t, l) == \A j \in DOMAIN l : l[j].sym = "time" => t <= l[j].val

TimeOK ==
    /\ Rising(line) /\ LaterLine(call.coords, line)
    /\ call.at = "fix" /\ line # <<>> /\ Now.sym = "commas" =>
          Later(call.coords, call.time) /\ Earliest(call.time, line)

LEMMA TimeParts == TimeInv <=> (Ascending /\ late = 0 /\ call.op = "gps" => TimeOK)
BY DEF TimeInv, TimeOK, Rising, LaterLine, Later, Earliest, AfterSelected, OnLine

LEMMA SelectedFacts ==
    ASSUME call.coords \in Seq(Nat), NEW t \in Nat, Later(call.coords, t)
    PROVE  /\ Selected(t) \in Seq(Nat) /\ Selected(t) # <<>> /\ Last(Selected(t)) <= t
           /\ t - Last(Selected(t)) <= 4
           /\ Selected(t) = call.coords \/
                 (/\ Selected(t) = Append(call.coords, t)
                  /\ call.coords = <<>> \/ t - Last(call.coords) > 4)
<1>1. CASE Apart(t)
    <2>1. Selected(t) = Append(call.coords, t)
        BY <1>1 DEF Selected
    <2>2. /\ Append(call.coords, t) \in Seq(Nat) /\ Append(call.coords, t) # <<>>
          /\ Last(Append(call.coords, t)) = t
        <3> DEFINE s == Append(call.coords, t)
        <3>1. /\ s \in Seq(Nat) /\ s # <<>> /\ Len(s) = Len(call.coords) + 1
              /\ s[Len(call.coords) + 1] = t
            BY AppendProperties
        <3> HIDE DEF s
        <3>2. Last(s) = s[Len(s)]
            BY <3>1, LastFacts
        <3> QED BY <3>1, <3>2 DEF s
    <2> QED BY <1>1, <2>1, <2>2 DEF Apart
<1>2. CASE ~Apart(t)
    <2>1. Selected(t) = call.coords /\ call.coords # <<>> /\ ~(t - Last(call.coords) > 4)
        BY <1>2 DEF Selected, Apart
    <2>2. Last(call.coords) \in Nat
        BY <2>1, LastFacts
    <2> QED BY <2>1, <2>2 DEF Later
<1> QED BY <1>1, <1>2

LEMMA TimeStep ==
    ASSUME LineOK, CallOK, Backlog, PlaceInv, FieldInv, TimeInv, [Next]_vars
    PROVE  TimeInv'
<1> SUFFICES ASSUME Ascending, late' = 0, call'.op = "gps" PROVE TimeOK'
    BY DEF TimeInv, TimeOK, Rising, LaterLine, Later, Earliest, AfterSelected, OnLine
<1>1. /\ sent \in Nat /\ line \in Seq(Symbol(sent)) /\ late = 0
      /\ call.coords \in Seq(Nat) /\ call.time \in Nat
    BY TimelySteps DEF LineOK, CallOK, CallsUpTo
<1>2. call.op = "gps" => TimeOK
    BY <1>1, TimeParts
<1>3. line' = <<>> => TimeOK'
    BY DEF TimeOK, Rising, LaterLine
<1>4. CASE TraceBegins
    <2>1. \A t \in Traces, m \in Nat : Rising(<<>> \o Tagged(Sentences(t), m))
        BY TaggedTrace
    <2>2. sent + 1 \in Nat
        BY <1>1
    <2>3. line' = <<>> \/ Rising(line')
        BY <1>4, <2>1, <2>2 DEF TraceBegins
    <2>4. call'.coords = <<>> /\ call'.at = "suffix"
        BY <1>4 DEF TraceBegins
    <2> QED BY <1>3, <2>3, <2>4 DEF TimeOK, LaterLine, Later
<1>5. ASSUME TraceReads \/ TraceSelects
      PROVE  /\ line # <<>> /\ line' = Tail(line) /\ Now = line[1] /\ 1 \in DOMAIN line
             /\ call.op = "gps" /\ Rising(line') /\ TimeOK
             /\ \A j \in DOMAIN line' : j + 1 \in DOMAIN line /\ line'[j] = line[j + 1] /\ 1 < j + 1
             /\ line' # <<>> => Head(line') = line[2] /\ 2 \in DOMAIN line
             /\ Now \in Symbol(sent)
    <2>1. line # <<>> /\ line' = Tail(line) /\ Now = Head(line) /\ call.op = "gps" /\ TimeOK
        BY <1>2, <1>5 DEF TraceReads, TraceSelects, Taking, Take, Now
    <2>2. /\ line' \in Seq(Symbol(sent)) /\ Now = line[1] /\ Now \in Symbol(sent)
          /\ 1 \in DOMAIN line /\ DOMAIN line' = 1..(Len(line) - 1) /\ Len(line) \in Nat
          /\ \A j \in DOMAIN line' : j + 1 \in DOMAIN line /\ line'[j] = line[j + 1]
        BY <1>1, <2>1, TailFacts
    <2>3. line' # <<>> => Head(line') = line'[1] /\ 1 \in DOMAIN line'
        BY <2>2, TailFacts
    <2>4. Rising(line')
        BY <1>1, <2>1, TailTrace DEF TimeOK
    <2> QED BY <2>1, <2>2, <2>3, <2>4
<1>6. CASE TraceReads
    <2>1. call'.coords = call.coords
        BY <1>6 DEF TraceReads
    <2>2. LaterLine(call'.coords, line')
        BY <1>5, <1>6, <2>1 DEF TimeOK, LaterLine
    <2>3. ASSUME call'.at = "fix", line' # <<>>, Head(line').sym = "commas"
          PROVE  Later(call'.coords, call'.time) /\ Earliest(call'.time, line')
        <3>1. FieldOK(line) /\ (call.at = "fix" => Now.sym \in {"time", "commas"})
            BY <1>1, <1>5, <1>6 DEF FieldInv, FieldOK, Follows, FollowedBy
        <3>2. Now.sym # "GGA"
            BY <1>5, <1>6, <2>3, <3>1 DEF FieldOK, Follows
        <3>3. Now.sym = "time" /\ call'.time = Now.val
            BY <1>6, <2>3, <3>1, <3>2 DEF TraceReads
        <3>4. Later(call.coords, Now.val)
            BY <1>5, <1>6, <3>3 DEF TimeOK, LaterLine
        <3>5. Earliest(Now.val, line')
            BY <1>5, <1>6, <3>3 DEF TimeOK, Rising, Earliest
        <3> QED BY <2>1, <3>3, <3>4, <3>5
    <2> QED BY <1>5, <1>6, <2>2, <2>3 DEF TimeOK, Now
<1>7. CASE TraceSelects
    <2>1. /\ call.at = "fix" /\ Now.sym = "commas" /\ call'.at = "suffix"
          /\ call'.coords = Selected(call.time)
        BY <1>7 DEF TraceSelects
    <2>2. Later(call.coords, call.time) /\ Earliest(call.time, line)
        BY <1>5, <1>7, <2>1 DEF TimeOK
    <2>3. Last(call'.coords) <= call.time /\ call'.coords # <<>> /\ Last(call'.coords) \in Nat
        BY <1>1, <2>1, <2>2, SelectedFacts, LastFacts
    <2>4. ASSUME NEW j \in DOMAIN line', line'[j].sym = "time"
          PROVE  Later(call'.coords, line'[j].val)
        <3>1. call.time <= line'[j].val
            BY <1>5, <1>7, <2>2, <2>4 DEF Earliest
        <3>2. line'[j].val \in Nat
            <4>1. line[j + 1] \in Symbol(sent) /\ line'[j] = line[j + 1]
                BY <1>1, <1>5, <1>7, ElementOfSeq, LenProperties
            <4> QED BY <4>1 DEF Symbol
        <3>3. Last(call'.coords) <= line'[j].val
            BY <1>1, <2>3, <3>1, <3>2
        <3> QED BY <3>3 DEF Later
    <2> QED BY <1>5, <1>7, <2>1, <2>4 DEF TimeOK, LaterLine
<1>8. CASE UNCHANGED <<line, call>>
    BY <1>2, <1>8 DEF TimeOK, Now
<1> QED BY <1>3, <1>4, <1>6, <1>7, <1>8, TraceSteps

-----------------------------------------------------------------------------
(* The invariant and the properties *)

LEMMA InitIInv == Init => IInv
<1> SUFFICES ASSUME Init PROVE IInv
    OBVIOUS
<1> DEFINE names == <<"text">>
           answer == Symbols(names)
<1>1. names \in Seq(Names) /\ Len(names) = 1 /\ names[1] = "text"
    BY DEF Names
<1> HIDE DEF names
<1>2. /\ answer \in Seq(Names \X Nat) /\ Len(answer) = 1
      /\ answer[1] = <<"text", 0>>
    BY <1>1, SymbolsFacts
<1> HIDE DEF answer
<1>3. /\ line \in Seq(Symbol(0)) /\ Len(line) = 1 /\ line[1].sym = "text" /\ line[1].of = 0
    BY <1>2, TaggedFacts DEF Init, answer, names
<1>4. DOMAIN line = {1} /\ sent = 0 /\ up = TRUE /\ late = 0
      /\ calls = 0 /\ errors = 0
    BY <1>3, LenProperties DEF Init
<1>5. /\ call.op = "echo" /\ call.at = "greeting" /\ call.used = 0 /\ call.mine = {}
      /\ call.i = 0 /\ call.coords = <<>> /\ call.file = <<>> /\ call.seen = <<>>
    BY DEF Init, NewCall
<1>6. CallOK
    <2>1. {} \in SUBSET (1..0) /\ "echo" \in Ops /\ "greeting" \in Places
        BY DEF Ops, Places
    <2>2. NewCall("echo", {}) \in CallsUpTo(0)
        BY <2>1, NewCallType
    <2> DEFINE c == NewCall("echo", {})
    <2>3. call = [c EXCEPT !.at = "greeting"]
        BY DEF Init
    <2> HIDE DEF c
    <2> QED BY <1>4, <2>1, <2>2, <2>3, CallUpdates DEF CallOK, c
<1>7. LineOK
    BY <1>3, <1>4 DEF LineOK, EndsLast
<1>8. Backlog
    <2>1. Outstanding = {0}
        BY <1>3, <1>4 DEF Outstanding
    <2>2. Cardinality({0}) = 1
        BY FS_Singleton
    <2> QED BY <1>4, <1>5, <2>1, <2>2 DEF Backlog
<1>9. PlaceInv /\ OwnInv /\ FieldInv /\ TimeInv
    BY <1>5 DEF PlaceInv, OwnInv, FieldInv, TimeInv
<1> QED BY <1>6, <1>7, <1>8, <1>9, TypeOKParts DEF IInv

LEMMA StepIInv == IInv /\ [Next]_vars => IInv'
<1> SUFFICES ASSUME IInv, [Next]_vars PROVE IInv'
    OBVIOUS
<1>1. TypeOK /\ LineOK /\ CallOK /\ Backlog /\ PlaceInv /\ OwnInv /\ FieldInv /\ TimeInv
    BY TypeOKParts DEF IInv
<1>2. TypeOK' /\ LineInv'
    <2>1. LineOK' /\ CallOK'
        BY <1>1, LineStep, CallStep
    <2> QED BY <2>1 DEF TypeOK, LineInv, LineOK, CallOK, CallsUpTo, Symbol, EndsLast
<1>3. Backlog' /\ PlaceInv' /\ OwnInv' /\ FieldInv' /\ TimeInv'
    BY <1>1, BacklogStep, PlaceStep, OwnStep, FieldStep, TimeStep
<1> QED BY <1>2, <1>3 DEF IInv

\* The inductive invariant: what is on the line belongs to requests that were sent, no
\* more of them unanswered than reads were too early, and while none was, to the call
\* that runs, in the order its method expects.
THEOREM InvariantHolds == Spec => []IInv
<1>1. Init => IInv
    BY InitIInv
<1>2. IInv /\ [Next]_vars => IInv'
    BY StepIInv
<1> QED BY <1>1, <1>2, PTL DEF Spec

LEMMA AnswersFromIInv == IInv => AnswersOwn
<1> SUFFICES ASSUME IInv, late = 0 PROVE AnswersOwn
    BY DEF AnswersOwn
<1>1. LineOK /\ CallOK /\ Backlog /\ OwnOK
    BY TypeOKParts, OwnParts DEF IInv
<1>2. ASSUME call.op = "image", call.at = "idle", up
      PROVE  \E image \in Images : call.file = Names1(image)
    <2>1. line = <<>>
        BY <1>1, <1>2, EmptyWhenDone
    <2>2. PICK image \in Images : call.file \o Syms(line) = Names1(image)
        BY <1>1, <1>2 DEF OwnOK
    <2>3. call.file \in Seq(Names)
        BY <1>1 DEF CallOK, CallsUpTo
    <2>4. Syms(<<>>) = <<>>
        BY DEF Syms
    <2>5. call.file \o <<>> = call.file
        BY <2>3, ConcatEmptySeq
    <2> QED BY <2>1, <2>2, <2>4, <2>5
<1> QED BY <1>1, <1>2 DEF AnswersOwn, OwnOK, Names1

\* A call ends with the answer to a request of its own, and the image saved is the whole
\* answer, unless a read gave up before its answer came.
THEOREM AnswersAreOwn == Spec => []AnswersOwn
BY InvariantHolds, AnswersFromIInv, PTL

LEMMA SelectionSteps ==
    ASSUME LineOK, CallOK, [Next]_vars
    PROVE  \/ call'.coords = <<>> /\ call'.seen = <<>>
           \/ call'.coords = call.coords /\ call'.seen = call.seen
           \/ /\ call'.coords = Selected(call.time) /\ call'.seen = Append(call.seen, call.time)
              /\ call.at = "fix" /\ line # <<>> /\ Now.sym = "commas" /\ late' = late
<1>0. sent \in Nat /\ sent' \in Nat /\ sent <= sent'
    BY TypeOKParts, LineStep DEF LineOK
<1>1. ASSUME NEW o \in Ops, Begin(o) PROVE call'.coords = <<>> /\ call'.seen = <<>>
    BY <1>1, BeginEffect
<1>2. CASE ReadOn \/ ReadEnd \/ ArqReturns \/ ReadPacket \/ ReadFcs
    BY <1>2, ReadOnEffect, ReadEndEffect, ArqReturnsEffect, ReadPacketEffect, ReadFcsEffect
<1>3. CASE SentenceBegins \/ ReadTime
    BY <1>3, SentenceBeginsEffect, ReadTimeEffect
<1>4. CASE ArqRetries \/ TimeoutRetries
    BY <1>4, RetryEffect
<1>5. CASE ReadFix
    <2>1. CASE /\ call'.coords = Selected(call.time)
               /\ call'.seen = Append(call.seen, call.time)
        BY <1>0, <1>5, <2>1, ReadFixEffect DEF Others
    <2>2. CASE RequestImage(Tail(line))
        BY <2>2, NewCallFields DEF RequestImage, NewCall
    <2> QED BY <1>0, <1>5, <2>1, <2>2, ReadFixEffect
<1>6. CASE TimeoutEndsTrace
    BY <1>6, TraceEndsEffect
<1>7. CASE TimeoutEnds \/ TimeoutIgnored
    BY <1>7, TimeoutEndsEffect, TimeoutIgnoredEffect
<1>8. CASE ReadGreeting \/ Disconnect \/ UNCHANGED vars
    BY <1>8 DEF ReadGreeting, Disconnect, vars
<1> QED BY <1>1, <1>2, <1>3, <1>4, <1>5, <1>6, <1>7, <1>8 DEF Next, ReadSymbol, Timeout

Spread(chosen) == \A j \in 2..Len(chosen) : chosen[j] - chosen[j - 1] >= 4
Covers(chosen, fixes) ==
    \A j \in DOMAIN fixes : \E k \in DOMAIN chosen : fixes[j] - chosen[k] \in 0..4

LEMMA SelectionSpread ==
    ASSUME call.coords \in Seq(Nat), NEW t \in Nat, Spread(call.coords)
    PROVE  Spread(Selected(t))
<1>1. CASE Apart(t)
    <2> DEFINE chosen == call.coords
               n == Len(chosen)
               s == Append(chosen, t)
    <2>1. n \in Nat /\ s \in Seq(Nat) /\ Len(s) = n + 1 /\ s[n + 1] = t
          /\ \A j \in 1..n : s[j] = chosen[j]
        BY AppendProperties, LenProperties
    <2>2. chosen # <<>> => Last(chosen) = chosen[n] /\ chosen[n] \in Nat /\ n # 0
        BY LastFacts
    <2>3. chosen = <<>> => n = 0
        OBVIOUS
    <2>4. chosen = <<>> \/ t - Last(chosen) > 4
        BY <1>1 DEF Apart
    <2>5. \A j \in 2..n : chosen[j] - chosen[j - 1] >= 4
        BY DEF Spread
    <2> HIDE DEF s, n, chosen
    <2>6. ASSUME NEW j \in 2..(n + 1) PROVE s[j] - s[j - 1] >= 4
        <3>1. CASE j = n + 1
            <4>1. n # 0 /\ s[j] = t /\ j - 1 = n /\ s[j - 1] = chosen[n]
                BY <2>1, <2>6, <3>1
            <4> QED BY <2>2, <2>3, <2>4, <4>1
        <3>2. CASE j # n + 1
            <4>1. j \in 2..n /\ j \in 1..n /\ j - 1 \in 1..n
                BY <2>1, <2>6, <3>2
            <4> QED BY <2>1, <2>5, <4>1
        <3> QED BY <3>1, <3>2
    <2>7. Spread(s)
        BY <2>1, <2>6 DEF Spread
    <2> QED BY <1>1, <2>7 DEF Selected, s, chosen
<1>2. CASE ~Apart(t)
    BY <1>2 DEF Selected
<1> QED BY <1>1, <1>2

LEMMA SelectionCovers ==
    ASSUME call.coords \in Seq(Nat), call.seen \in Seq(Nat), NEW t \in Nat,
           Later(call.coords, t), Covers(call.coords, call.seen)
    PROVE  Covers(Selected(t), Append(call.seen, t))
<1> DEFINE s == Selected(t)
           fixes == Append(call.seen, t)
<1>1. /\ s \in Seq(Nat) /\ s # <<>> /\ Last(s) <= t /\ t - Last(s) <= 4
      /\ s = call.coords \/ s = Append(call.coords, t)
    BY SelectedFacts
<1>2. Last(s) \in Nat /\ Last(s) = s[Len(s)] /\ Len(s) \in DOMAIN s
    BY <1>1, LastFacts
<1>3. DOMAIN call.coords \subseteq DOMAIN s /\ \A k \in DOMAIN call.coords : s[k] = call.coords[k]
    <2>1. CASE s = Append(call.coords, t)
        BY <2>1, AppendProperties, LenProperties
    <2> QED BY <1>1, <2>1
<1>4. /\ DOMAIN fixes = 1..(Len(call.seen) + 1) /\ Len(call.seen) \in Nat
      /\ DOMAIN call.seen = 1..Len(call.seen)
      /\ fixes[Len(call.seen) + 1] = t /\ \A j \in DOMAIN call.seen : fixes[j] = call.seen[j]
    BY AppendProperties, LenProperties
<1> HIDE DEF s, fixes
<1>5. ASSUME NEW j \in DOMAIN fixes PROVE \E k \in DOMAIN s : fixes[j] - s[k] \in 0..4
    <2>1. CASE j = Len(call.seen) + 1
        <3>1. t - s[Len(s)] \in 0..4
            BY <1>1, <1>2
        <3> QED BY <1>2, <1>4, <2>1, <3>1
    <2>2. CASE j # Len(call.seen) + 1
        <3>1. j \in DOMAIN call.seen
            BY <1>4, <2>2
        <3>2. PICK k \in DOMAIN call.coords : call.seen[j] - call.coords[k] \in 0..4
            BY <3>1 DEF Covers
        <3> QED BY <1>3, <1>4, <3>1, <3>2
    <2> QED BY <2>1, <2>2
<1> QED BY <1>5 DEF Covers, s, fixes

LEMMA CoveredStep ==
    ASSUME Ascending, IInv, TraceCovered, [Next]_vars
    PROVE  TraceCovered'
<1>1. LineOK /\ CallOK /\ Backlog /\ PlaceInv /\ TimeInv
    BY TypeOKParts DEF IInv
<1>2. call.coords \in Seq(Nat) /\ call.seen \in Seq(Nat) /\ call.time \in Nat
    BY <1>1 DEF CallOK, CallsUpTo
<1>3. Spread(call.coords) /\ (late = 0 => Covers(call.coords, call.seen))
    BY DEF TraceCovered, Spread, Covers
<1>4. late' = 0 => late = 0
    BY <1>1, TimelySteps
<1>5. SUFFICES Spread(call'.coords) /\ (late' = 0 => Covers(call'.coords, call'.seen))
    BY DEF TraceCovered, Spread, Covers
<1>6. CASE call'.coords = <<>> /\ call'.seen = <<>>
    BY <1>6 DEF Spread, Covers
<1>7. CASE call'.coords = call.coords /\ call'.seen = call.seen
    BY <1>3, <1>4, <1>7
<1>8. CASE /\ call'.coords = Selected(call.time) /\ call'.seen = Append(call.seen, call.time)
           /\ call.at = "fix" /\ line # <<>> /\ Now.sym = "commas" /\ late' = late
    <2>1. Spread(call'.coords)
        BY <1>2, <1>3, <1>8, SelectionSpread
    <2>2. ASSUME late' = 0 PROVE Covers(call'.coords, call'.seen)
        <3>1. TimeOK
            BY <1>1, <1>4, <1>8, <2>2, TimeParts DEF PlaceInv
        <3>2. Later(call.coords, call.time)
            BY <1>8, <3>1 DEF TimeOK
        <3> QED BY <1>2, <1>3, <1>4, <1>8, <2>2, <3>2, SelectionCovers
    <2> QED BY <2>1, <2>2
<1> QED BY <1>1, <1>6, <1>7, <1>8, SelectionSteps

\* Of traces whose times do not go down, the fixes selected are at least 4 seconds apart,
\* and unless a read gave up before its answer came none is left out that is more than 4
\* seconds after the last one selected.
THEOREM FixesAreCovered == Ascending => (Spec => []TraceCovered)
<1> SUFFICES ASSUME Ascending PROVE Spec => []TraceCovered
    OBVIOUS
<1>1. Init => TraceCovered
    <2>1. ASSUME Init PROVE call.coords = <<>> /\ call.seen = <<>>
        BY <2>1 DEF Init, NewCall
    <2> QED BY <2>1 DEF TraceCovered
<1>2. IInv /\ TraceCovered /\ [Next]_vars => TraceCovered'
    BY CoveredStep
<1> QED BY <1>1, <1>2, InvariantHolds, PTL DEF Spec
=============================================================================
