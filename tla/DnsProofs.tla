------------------------------ MODULE DnsProofs ------------------------------
(***************************************************************************)
(* The lookup, for any number of proxies, of servers and of lookups,       *)
(* whoever ends and however recv() cuts what was sent.                     *)
(***************************************************************************)
EXTENDS Dns, DnsMessagesProofs, SequenceTheorems

-----------------------------------------------------------------------------

(***************************************************************************)
(* The inductive invariant.  First, who is connected: a proxy that waits   *)
(* to be accepted does so once, and the one that is served has its         *)
(* connection open.                                                        *)
(***************************************************************************)
LinkInv ==
  /\ \A p \in Proxy : phase[p] = "start" => link[p] = "none"
  /\ \A p \in Proxy : phase[p] \notin { "send", "recv" } => at[p] = 1
  /\ ns # "dead" =>
       /\ \A i \in 1 .. Len(backlog) : link[backlog[i]] = "waiting"
       /\ \A i, j \in 1 .. Len(backlog) : backlog[i] = backlog[j] => i = j
       /\ ns # "accept" => serving \in Proxy
       /\ ns \in { "recv", "send" } => link[serving] = "open"

(***************************************************************************)
(* Then, what is on its way to the nameserver: the part of one query that  *)
(* it is about to read, unless it is out of step.                          *)
(***************************************************************************)
SentOf(p) ==
  IF phase[p] = "send" THEN at[p] - 1 ELSE IF phase[p] = "recv" THEN 4 ELSE 0

OnItsWay(p, next) ==
  /\ Len(up[p]) + next - 1 =< 4
  /\ phase[p] # "dead" => Len(up[p]) + next - 1 = SentOf(p)
  /\ \A i \in 1 .. Len(up[p]) : up[p][i] = Query[i + next - 1]

OutOfStep(stream) == stream # << >> /\ Head(stream) = Rest

Unanswered(p) == link[p] \in { "none", "waiting" } \/ (serving = p /\ ns = "recv")

Fresh(p) ==
  /\ down[p] = << >>
  /\ www_ip[p] = NoHost
  /\ phase[p] = "recv" => at[p] = 1

BeingRead ==
  /\ nsAt \in 1 .. 4
  /\ nsAt \in { 1, 2 } => OnItsWay(serving, nsAt)
  /\ nsAt = 3 => OnItsWay(serving, 3) \/ OutOfStep(up[serving])
  /\ nsAt = 4 /\ size \in 1 .. MAX_MESSAGE_SIZE => OnItsWay(serving, 4)

QueryInv ==
  ns # "dead" =>
    /\ \A p \in Proxy : link[p] \in { "none", "waiting" } => OnItsWay(p, 1)
    /\ \A p \in Proxy : Unanswered(p) => Fresh(p)
    /\ ns = "recv" => BeingRead

(***************************************************************************)
(* What is sent back is an answer or a refusal, and what a proxy has not   *)
(* received of it is the rest of it, unless it is out of step.  A record   *)
(* that is on its way names the address that is given.                     *)
(***************************************************************************)
Replies == { Refusal } \cup { Answer(host) : host \in HostSet }

ReplyInv ==
  /\ ns \in { "send", "log" } => reply \in Replies
  /\ ns = "log" => reply # Refusal

Position(p) == IF phase[p] = "recv" THEN at[p] ELSE 1

Given(p) == { host \in HostSet : Gave(p, host) }

Slot(given, i) ==
  IF i \in { 1, 3 } THEN [ what : { "size" }, value : 0 .. MAX_MESSAGE_SIZE ]
  ELSE IF i = 2 THEN [ what : { "header" }, bytes : 1 .. MAX_MESSAGE_SIZE ]
  ELSE IF i = 4 THEN { Recorded(AnswerRecord(host, TextLength[host])) : host \in given }
  ELSE {}

InStep(p) == \A i \in 1 .. Len(down[p]) : down[p][i] \in Slot(Given(p), i + Position(p) - 1)

SentTo(p) ==
  \/ OutOfStep(down[p])
  \/ www_ip[p] = NoHost /\ Len(down[p]) + Position(p) = nsAt
  \/ www_ip[p] # NoHost /\ nsAt > Len(reply)

AnswerOf(p) ==
  phase[p] # "dead" =>
    /\ OutOfStep(down[p]) \/ InStep(p)
    /\ OutOfStep(down[p]) => Position(p) \in { 1, 3 }
    /\ www_ip[p] # NoHost => Position(p) = 1 /\ (down[p] = << >> \/ OutOfStep(down[p]))
    /\ serving = p /\ ns = "send" => SentTo(p)

AnswerInv == \A p \in Proxy : AnswerOf(p)

(***************************************************************************)
(* Last, the log: the index is that of the server after the one that was   *)
(* given last, whose line may not have been written yet.                   *)
(***************************************************************************)
Unlogged == IF ns \in { "send", "log" } /\ reply # Refusal THEN 1 ELSE 0

LogInv ==
  /\ LogCycles
  /\ mode = "RR" /\ ns # "dead" =>
       /\ index = (Len(log) + Unlogged) % Len(Hosts)
       /\ Unlogged = 1 => reply = Answer(Hosts[(Len(log) % Len(Hosts)) + 1])

IInv ==
  TypeOK /\ LinkInv /\ QueryInv /\ ReplyInv /\ AnswerInv /\ LogInv /\ UsesLoggedAddress

-----------------------------------------------------------------------------

(* The messages of the lookup, and that they fit. *)
LEMMA MessagesOfLookup ==
  /\ QueryHeader \in Header
  /\ QueryQuestion \in Question
  /\ AnswerHeader(QueryHeader, TRUE) \in Header
  /\ AnswerHeader(QueryHeader, FALSE) \in Header
  /\ \A host \in HostSet : AnswerRecord(host, TextLength[host]) \in Record(HostSet)
<1>a. MaxInt \in Int /\ 1 =< MaxInt
  BY SMT DEF MaxInt
<1>0. 0 \in Ushort /\ 1 \in Ushort /\ 0 \in Char /\ 3 \in Char /\ 1 \in Signed
  BY <1>a, SMT DEF Ushort, Char, Signed
<1>1. QueryHeader \in Header
  BY <1>0 DEF QueryHeader, Header
<1>2. AnswerHeader(QueryHeader, TRUE) \in Header /\ AnswerHeader(QueryHeader, FALSE) \in Header
  <2>1. ASSUME NEW rcode \in Char PROVE [QueryHeader EXCEPT !.AA = 1, !.RCODE = rcode] \in Header
    <3> DEFINE answer == [QueryHeader EXCEPT !.AA = 1]
    <3>1. answer \in Header
      BY <1>1 DEF Header
    <3>2. [QueryHeader EXCEPT !.AA = 1, !.RCODE = rcode] = [answer EXCEPT !.RCODE = rcode]
      BY <1>1 DEF Header
    <3> HIDE DEF answer
    <3>3. [answer EXCEPT !.RCODE = rcode] \in Header
      BY <3>1 DEF Header
    <3> QED BY <3>2, <3>3
  <2>2. QueryHeader.RCODE \in Char
    BY <1>1 DEF Header
  <2> QED BY <2>1, <2>2, <1>0 DEF AnswerHeader
<1>3. QueryQuestion \in Question
  BY SMT DEF QueryQuestion, Question, Ushort
<1>4. ASSUME NEW host \in HostSet PROVE AnswerRecord(host, TextLength[host]) \in Record(HostSet)
  <2>1. TextLength[host] \in 0 .. 15
    BY DnsAssumption
  <2>2. TextLength[host] \in 0 .. NameSize - 1
    BY <2>1 DEF NameSize
  <2>3. 1 \in Ushort /\ 0 \in Ushort
    BY SMT DEF Ushort
  <2> QED BY <2>2, <2>3 DEF AnswerRecord, Record
<1> QED BY <1>1, <1>2, <1>3, <1>4

SizeObject     == [ what : { "size" }, value : 0 .. MAX_MESSAGE_SIZE ]
HeaderObject   == [ what : { "header" }, bytes : 1 .. MAX_MESSAGE_SIZE ]
QuestionObject == [ what : { "question" }, question : Question ]
RecordObject   == [ what : { "record" }, record : Record(HostSet) ]

(* Every object has one of the five forms, and takes at least a byte. *)
LEMMA ObjectIs ==
  /\ Objects = SizeObject \cup HeaderObject \cup QuestionObject \cup RecordObject \cup { Rest }
  /\ \A o \in SizeObject : o.value \in 0 .. MAX_MESSAGE_SIZE /\ o # Rest
  /\ \A o \in HeaderObject : o.bytes \in 1 .. MAX_MESSAGE_SIZE /\ o # Rest
  /\ \A o \in QuestionObject : o.question \in Question /\ o # Rest
  /\ \A o \in RecordObject : o.record \in Record(HostSet) /\ o # Rest
<1>1. Objects = SizeObject \cup HeaderObject \cup QuestionObject \cup RecordObject \cup { Rest }
  BY DEF Objects, SizeObject, HeaderObject, QuestionObject, RecordObject
<1>2. Rest.what = "rest"
  BY DEF Rest
<1>3. \A o \in SizeObject : o.value \in 0 .. MAX_MESSAGE_SIZE /\ o.what = "size"
  BY DEF SizeObject
<1>4. \A o \in HeaderObject : o.bytes \in 1 .. MAX_MESSAGE_SIZE /\ o.what = "header"
  BY DEF HeaderObject
<1>5. \A o \in QuestionObject : o.question \in Question /\ o.what = "question"
  BY DEF QuestionObject
<1>6. \A o \in RecordObject : o.record \in Record(HostSet) /\ o.what = "record"
  BY DEF RecordObject
<1> QED BY <1>1, <1>2, <1>3, <1>4, <1>5, <1>6

LEMMA BytesOf ==
  /\ \A o \in SizeObject : Bytes(o) = SizeBytes /\ Cuts(o) = { SizeBytes - 1 }
  /\ \A o \in HeaderObject : Bytes(o) = o.bytes /\ Cuts(o) = { o.bytes - 1 }
  /\ \A o \in QuestionObject : Bytes(o) = QuestionSize(o.question)
  /\ \A o \in RecordObject : Bytes(o) = RecordSize(o.record)
<1>1. \A o \in SizeObject : o.what = "size"
  BY DEF SizeObject
<1>2. \A o \in HeaderObject : o.what = "header"
  BY DEF HeaderObject
<1>3. \A o \in QuestionObject : o.what = "question"
  BY DEF QuestionObject
<1>4. \A o \in RecordObject : o.what = "record"
  BY DEF RecordObject
<1> QED BY <1>1, <1>2, <1>3, <1>4 DEF Bytes, Cuts

(* The query, the refusal and an answer, object by object. *)
LEMMA QueryIs ==
  /\ Query \in Seq(Objects) /\ Len(Query) = 4
  /\ \A i \in 1 .. 4 : Query[i] \in Objects
  /\ Query[1] \in SizeObject /\ Query[2] \in HeaderObject
  /\ Query[3] \in SizeObject /\ Query[4] \in QuestionObject
<1> DEFINE a == SizeOf(HeaderSize(QueryHeader))
           b == Headed(QueryHeader)
           c == SizeOf(QuestionSize(QueryQuestion))
           d == Asked(QueryQuestion)
<1>1. HeaderSize(QueryHeader) \in 1 .. MAX_MESSAGE_SIZE
      /\ QuestionSize(QueryQuestion) \in 1 .. MAX_MESSAGE_SIZE
  BY MessagesOfLookup, HeaderFits, QuestionFits DEF MAX_MESSAGE_SIZE
<1>2. a \in SizeObject /\ c \in SizeObject
  BY <1>1 DEF SizeObject, SizeOf, MAX_MESSAGE_SIZE
<1>3. b \in HeaderObject
  BY <1>1 DEF HeaderObject, Headed
<1>4. d \in QuestionObject
  BY MessagesOfLookup DEF QuestionObject, Asked
<1>5. Query = << a, b, c, d >>
  BY DEF Query
<1>6. a \in Objects /\ b \in Objects /\ c \in Objects /\ d \in Objects
  BY <1>2, <1>3, <1>4, ObjectIs
<1> HIDE DEF a, b, c, d
<1> QED BY <1>2, <1>3, <1>4, <1>5, <1>6

AnswerObject(host) == Recorded(AnswerRecord(host, TextLength[host]))

LEMMA RecordIs ==
  ASSUME NEW host \in HostSet
  PROVE  /\ AnswerObject(host) \in RecordObject
         /\ AnswerObject(host) \in Objects
         /\ AnswerObject(host).record.RDATA = host
<1>1. AnswerRecord(host, TextLength[host]) \in Record(HostSet)
  BY MessagesOfLookup
<1>2. AnswerRecord(host, TextLength[host]).RDATA = host
  BY DEF AnswerRecord
<1>3. AnswerObject(host) \in RecordObject
  BY <1>1 DEF AnswerObject, Recorded, RecordObject
<1>4. AnswerObject(host).record = AnswerRecord(host, TextLength[host])
  BY DEF AnswerObject, Recorded
<1> QED BY <1>2, <1>3, <1>4, ObjectIs

LEMMA RefusalIs ==
  /\ Refusal \in Seq(Objects) /\ Len(Refusal) = 2
  /\ Refusal[1] \in SizeObject /\ Refusal[2] \in HeaderObject
<1> DEFINE h == AnswerHeader(QueryHeader, FALSE)
           a == SizeOf(HeaderSize(h))
           b == Headed(h)
<1>1. Refusal = << a, b >>
  BY DEF Refusal
<1>2. h \in Header
  BY MessagesOfLookup
<1> HIDE DEF h
<1>3. HeaderSize(h) \in 1 .. MAX_MESSAGE_SIZE
  BY <1>2, HeaderFits DEF MAX_MESSAGE_SIZE
<1>4. a \in SizeObject
  BY <1>3 DEF SizeObject, SizeOf, MAX_MESSAGE_SIZE
<1>5. b \in HeaderObject
  BY <1>3 DEF HeaderObject, Headed
<1>6. a \in Objects /\ b \in Objects
  BY <1>4, <1>5, ObjectIs
<1> HIDE DEF a, b
<1> QED BY <1>1, <1>4, <1>5, <1>6

LEMMA AnswerIs ==
  ASSUME NEW host \in HostSet
  PROVE  /\ Answer(host) \in Seq(Objects) /\ Len(Answer(host)) = 4
         /\ Answer(host) # Refusal
         /\ Answer(host)[1] \in SizeObject /\ Answer(host)[2] \in HeaderObject
         /\ Answer(host)[3] \in SizeObject /\ Answer(host)[4] = AnswerObject(host)
         /\ Answer(host)[4].record.RDATA = host
<1> DEFINE h == AnswerHeader(QueryHeader, TRUE)
           r == AnswerRecord(host, TextLength[host])
           a == SizeOf(HeaderSize(h))
           b == Headed(h)
           c == SizeOf(RecordSize(r))
           d == AnswerObject(host)
<1>1. Answer(host) = << a, b, c, d >>
  BY DEF Answer, AnswerObject
<1>2. h \in Header /\ r \in Record(HostSet)
  BY MessagesOfLookup
<1> HIDE DEF h, r
<1>3. HeaderSize(h) \in 1 .. MAX_MESSAGE_SIZE /\ RecordSize(r) \in 1 .. MAX_MESSAGE_SIZE
  BY <1>2, HeaderFits, RecordFits DEF MAX_MESSAGE_SIZE
<1>4. a \in SizeObject /\ c \in SizeObject
  BY <1>3 DEF SizeObject, SizeOf, MAX_MESSAGE_SIZE
<1>5. b \in HeaderObject
  BY <1>3 DEF HeaderObject, Headed
<1>6. a \in Objects /\ b \in Objects /\ c \in Objects /\ d \in Objects
  BY <1>4, <1>5, ObjectIs, RecordIs
<1>7. d.record.RDATA = host
  BY RecordIs
<1>8. d = AnswerObject(host)
  OBVIOUS
<1> HIDE DEF a, b, c, d
<1>9. Answer(host) \in Seq(Objects) /\ Len(Answer(host)) = 4
  BY <1>1, <1>6
<1>10. Answer(host)[1] = a /\ Answer(host)[2] = b /\ Answer(host)[3] = c /\ Answer(host)[4] = d
  BY <1>1
<1>11. Answer(host) # Refusal
  <2>1. 4 # 2
    OBVIOUS
  <2> QED BY <1>9, <2>1, RefusalIs, Zenon
<1> QED BY <1>4, <1>5, <1>7, <1>8, <1>9, <1>10, <1>11

(* What a recv() leaves of a stream. *)
LEMMA LeftIs ==
  ASSUME NEW s \in Seq(Objects), s # << >>, NEW k
  PROVE  /\ Left(s, k) \in Seq(Objects)
         /\ ~ (k < Bytes(Head(s))) => Left(s, k) = Tail(s)
         /\ k < Bytes(Head(s)) => OutOfStep(Left(s, k))
<1>1. Tail(s) \in Seq(Objects)
  BY HeadTailProperties
<1>2. CASE k < Bytes(Head(s))
  <2>1. Rest \in Objects
    BY ObjectIs
  <2>2. << Rest >> \in Seq(Objects) /\ Len(<< Rest >>) = 1 /\ << Rest >>[1] = Rest
    BY <2>1
  <2>3. Left(s, k) = << Rest >> \o Tail(s)
    BY <1>2 DEF Left
  <2>4. Len(Tail(s)) \in Nat
    BY <1>1, LenProperties
  <2>5. /\ Left(s, k) \in Seq(Objects) /\ Len(Left(s, k)) = 1 + Len(Tail(s))
        /\ Left(s, k)[1] = Rest
    BY <1>1, <2>2, <2>3, <2>4, ConcatProperties
  <2>6. Left(s, k) # << >> /\ Head(Left(s, k)) = Rest
    BY <2>4, <2>5, EmptySeq
  <2> QED BY <1>2, <2>5, <2>6 DEF OutOfStep
<1>3. CASE ~ (k < Bytes(Head(s)))
  BY <1>1, <1>3, ConcatEmptySeq DEF Left
<1> QED BY <1>2, <1>3

(* Which address is selected, and that the index stays in the list. *)
LEMMA HostsAre ==
  /\ Len(Hosts) \in Nat \ {0}
  /\ \A i \in 0 .. Len(Hosts) - 1 : Hosts[i + 1] \in HostSet
  /\ \A n \in Nat : n % Len(Hosts) \in 0 .. Len(Hosts) - 1
  /\ \A n \in Nat : ((n % Len(Hosts)) + 1) % Len(Hosts) = (n + 1) % Len(Hosts)
<1>1. Len(Hosts) \in Nat \ {0}
  BY DnsAssumption, EmptySeq
<1>2. \A i \in 0 .. Len(Hosts) - 1 : Hosts[i + 1] \in HostSet
  BY <1>1 DEF HostSet
<1>3. \A m \in Nat \ {0} : \A n \in Nat : n % m \in 0 .. m - 1
  BY SMT
<1>4. ASSUME NEW m \in Nat \ {0}, NEW n \in Nat PROVE ((n % m) + 1) % m = (n + 1) % m
  <2> DEFINE q == n \div m
             r == n % m
             t == (n + 1) \div m
             u == (n + 1) % m
  <2>1. q \in Int /\ r \in 0 .. m - 1 /\ n = m * q + r
    BY SMT
  <2>2. t \in Int /\ u \in 0 .. m - 1 /\ n + 1 = m * t + u
    BY SMT
  <2>3. (r + 1) % m = IF r + 1 = m THEN 0 ELSE r + 1
    BY <2>1, SMT
  <2> HIDE DEF q, r, t, u
  <2>4. m * (t - q) = r + 1 - u
    BY <2>1, <2>2, SMT
  <2>5. t - q =< -1 => m * (t - q) =< - m
    BY <2>1, <2>2, SMT
  <2>6. t - q >= 2 => m * (t - q) >= 2 * m
    BY <2>1, <2>2, SMT
  <2>7. t - q \in { 0, 1 }
    BY <2>1, <2>2, <2>4, <2>5, <2>6, SMT
  <2>8. m * 0 = 0 /\ m * 1 = m
    BY SMT
  <2>9. u = IF r + 1 = m THEN 0 ELSE r + 1
    BY <2>1, <2>2, <2>4, <2>7, <2>8, SMT
  <2> QED BY <2>3, <2>9 DEF r, u
<1> QED BY <1>1, <1>2, <1>3, <1>4

-----------------------------------------------------------------------------

LEMMA InitInv == Init => IInv
<1> SUFFICES ASSUME Init PROVE IInv
  OBVIOUS
<1>1. \A S : << >> \in Seq(S) /\ Len(<< >>) = 0
  BY EmptySeq
<1>2. TypeOK
  <2>1. 0 \in 0 .. Len(Hosts) - 1 /\ 0 \in 0 .. MAX_MESSAGE_SIZE
    BY HostsAre DEF MAX_MESSAGE_SIZE
  <2> QED BY <1>1, <2>1 DEF Init, TypeOK
<1>3. LinkInv
  BY <1>1 DEF Init, LinkInv
<1>4. QueryInv
  BY <1>1 DEF Init, QueryInv, OnItsWay, Unanswered, SentOf, Fresh
<1>5. ReplyInv
  BY DEF Init, ReplyInv
<1>6. AnswerInv
  BY <1>1 DEF Init, AnswerInv, AnswerOf, OutOfStep, InStep
<1>7. LogInv
  <2>1. (0 + 0) % Len(Hosts) = 0
    BY HostsAre, SMT
  <2>2. Unlogged = 0 /\ Len(log) = 0 /\ index = 0
    BY <1>1 DEF Init, Unlogged
  <2>3. LogCycles
    BY <2>2 DEF LogCycles
  <2> QED BY <2>1, <2>2, <2>3 DEF LogInv
<1>8. UsesLoggedAddress
  BY DEF Init, UsesLoggedAddress
<1> QED BY <1>2, <1>3, <1>4, <1>5, <1>6, <1>7, <1>8 DEF IInv

(* The line that is about to be written names the proxy that was served    *)
(* and the address it was sent.                                            *)
LEMMA LineIs ==
  ASSUME IInv, ns = "log"
  PROVE  /\ serving \in Proxy
         /\ \E host \in HostSet : reply = Answer(host) /\ Line = << serving, host >>
         /\ Line \in Proxy \X HostSet
<1>1. serving \in Proxy
  BY DEF IInv, LinkInv
<1>2. PICK host \in HostSet : reply = Answer(host)
  BY DEF IInv, ReplyInv, Replies
<1>3. Line = << serving, host >>
  BY <1>2, AnswerIs DEF Line
<1> QED BY <1>1, <1>2, <1>3

(* What was given to a proxy stays given. *)
LEMMA GaveKept ==
  ASSUME IInv, [Next]_vars
  PROVE  \A p \in Proxy, host \in HostSet : Gave(p, host) => Gave(p, host)'
<1> SUFFICES ASSUME NEW p \in Proxy, NEW host \in HostSet, Gave(p, host) PROVE Gave(p, host)'
  OBVIOUS
<1>1. CASE UNCHANGED << ns, serving, reply, log >>
  BY <1>1 DEF Gave
<1>2. CASE NsDies
  BY <1>2 DEF NsDies, Gave
<1>3. CASE NsAccept
  BY <1>3 DEF NsAccept, Gave
<1>4. CASE ns = "recv" /\ log' = log
  BY <1>4 DEF Gave
<1>5. CASE NsSend
  BY <1>2, <1>5 DEF NsSend, Gave
<1>6. CASE NsClose
  <2>1. reply = Refusal => reply # Answer(host)
    BY AnswerIs
  <2> QED BY <1>6, <2>1 DEF NsClose, Gave
<1>7. CASE NsLog
  <2>1. log \in Seq(Proxy \X HostSet) /\ Len(log) \in Nat
    BY LenProperties DEF IInv, TypeOK
  <2>2. PICK given \in HostSet : reply = Answer(given) /\ Line = << serving, given >>
    BY <1>7, LineIs DEF NsLog
  <2>3. Line \in Proxy \X HostSet /\ log' = Append(log, Line)
    BY <1>7, LineIs DEF NsLog
  <2>4. /\ Len(log') = Len(log) + 1
        /\ \A i \in 1 .. Len(log) : log'[i] = log[i]
        /\ log'[Len(log) + 1] = Line
    BY <2>1, <2>3, AppendProperties
  <2>5. CASE \E i \in 1 .. Len(log) : log[i] = << p, host >>
    BY <2>1, <2>4, <2>5 DEF Gave
  <2>6. CASE serving = p /\ reply = Answer(host)
    <3>1. given = host
      BY <2>2, <2>6, AnswerIs
    <3> QED BY <2>1, <2>2, <2>4, <2>6, <3>1 DEF Gave
  <2> QED BY <2>5, <2>6 DEF Gave
<1>8. NsRecv => ns = "recv" /\ (log' = log \/ NsDies)
  BY DEF NsRecv, NsRecvHeaderSize, NsRecvHeader, NsRecvQuestionSize, NsRecvQuestion,
         NsGoesOn, NsAnswers
<1>9. ASSUME NEW q \in Proxy,
             StartFails(q) \/ Connect(q) \/ Lookup(q) \/ Asks(q)
               \/ CannotConnect(q) \/ Exit(q)
      PROVE  UNCHANGED << ns, serving, reply, log >>
  BY <1>9 DEF StartFails, Connect, Lookup, Asks, CannotConnect, Exit, SendQuery,
              RecvSize, RecvHeader, RecvRecord, ProxyDies, nsVars
<1>10. CASE UNCHANGED vars
  BY <1>1, <1>10 DEF vars, nsVars
<1> QED BY <1>1, <1>2, <1>3, <1>4, <1>5, <1>6, <1>7, <1>8, <1>9, <1>10 DEF Next, NameServer

LEMMA SlotForms ==
  ASSUME NEW given
  PROVE  /\ Slot(given, 1) = SizeObject /\ Slot(given, 3) = SizeObject
         /\ Slot(given, 2) = HeaderObject
         /\ Slot(given, 4) = { AnswerObject(host) : host \in given }
         /\ \A i : i \notin 1 .. 4 => Slot(given, i) = {}
<1>1. /\ 1 \in { 1, 3 } /\ 3 \in { 1, 3 } /\ 2 \notin { 1, 3 } /\ 4 \notin { 1, 3 } /\ 4 # 2
      /\ \A i : i \notin 1 .. 4 => i \notin { 1, 3 } /\ i # 2 /\ i # 4
  OBVIOUS
<1> QED BY <1>1, Zenon DEF Slot, SizeObject, HeaderObject, AnswerObject

LEMMA SlotIs ==
  ASSUME NEW given \in SUBSET HostSet
  PROVE  \A i : Slot(given, i) \subseteq Objects \ { Rest }
BY ObjectIs, RecordIs DEF Slot, SizeObject, HeaderObject, AnswerObject

LEMMA SlotGrows ==
  ASSUME NEW given \in SUBSET HostSet, NEW more \in SUBSET HostSet, given \subseteq more
  PROVE  \A i : Slot(given, i) \subseteq Slot(more, i)
BY DEF Slot

LEMMA GivenKept ==
  ASSUME NEW p \in Proxy, \A host \in HostSet : Gave(p, host) => Gave(p, host)'
  PROVE  /\ Given(p) \in SUBSET HostSet /\ Given(p)' \in SUBSET HostSet
         /\ Given(p) \subseteq Given(p)'
BY DEF Given

(* What concerns one proxy and was not touched. *)
LEMMA AnswerKept ==
  ASSUME IInv, NEW p \in Proxy,
         \A host \in HostSet : Gave(p, host) => Gave(p, host)',
         phase'[p] = phase[p], at'[p] = at[p], down'[p] = down[p], www_ip'[p] = www_ip[p],
         serving' = p /\ ns' = "send" =>
           serving = p /\ ns = "send" /\ nsAt' = nsAt /\ reply' = reply
  PROVE  AnswerOf(p)'
<1>1. AnswerOf(p)
  BY DEF IInv, AnswerInv
<1>2. Position(p)' = Position(p)
  BY DEF Position
<1>3. InStep(p) => InStep(p)'
  BY <1>2, GivenKept, SlotGrows DEF InStep
<1>4. OutOfStep(down[p])' <=> OutOfStep(down[p])
  BY DEF OutOfStep
<1>5. serving' = p /\ ns' = "send" => (SentTo(p) => SentTo(p)')
  BY <1>2, <1>4 DEF SentTo
<1> QED BY <1>1, <1>2, <1>3, <1>4, <1>5 DEF AnswerOf

LEMMA OnItsWayKept ==
  ASSUME NEW p \in Proxy, NEW n,
         phase'[p] = phase[p], at'[p] = at[p], up'[p] = up[p]
  PROVE  OnItsWay(p, n)' <=> OnItsWay(p, n)
BY DEF OnItsWay, SentOf

LEMMA FreshKept ==
  ASSUME NEW p \in Proxy,
         phase'[p] = phase[p], at'[p] = at[p], down'[p] = down[p], www_ip'[p] = www_ip[p]
  PROVE  Fresh(p)' <=> Fresh(p)
BY DEF Fresh

LEMMA UsesKept ==
  ASSUME IInv, UNCHANGED www_ip,
         \A p \in Proxy, host \in HostSet : Gave(p, host) => Gave(p, host)'
  PROVE  UsesLoggedAddress'
BY DEF IInv, UsesLoggedAddress

(* What the nameserver keeps and what it gave, when a proxy acts. *)
LEMMA NsSame ==
  ASSUME IInv, UNCHANGED nsVars
  PROVE  /\ ReplyInv' /\ LogInv'
         /\ \A p \in Proxy, host \in HostSet : Gave(p, host) => Gave(p, host)'
<1>1. ReplyInv'
  BY DEF IInv, ReplyInv, nsVars
<1>2. LogInv'
  BY DEF IInv, LogInv, LogCycles, Unlogged, nsVars
<1>3. \A p \in Proxy, host \in HostSet : Gave(p, host) => Gave(p, host)'
  BY DEF Gave, nsVars
<1> QED BY <1>1, <1>2, <1>3

LEMMA DiesInv ==
  ASSUME IInv, NEW p \in Proxy, ProxyDies(p)
  PROVE  IInv'
<1>1. /\ UNCHANGED << lookups, www_ip, up, link, backlog, nsVars >>
      /\ phase' = [phase EXCEPT ![p] = "dead"]
      /\ at' = [at EXCEPT ![p] = 1]
      /\ down' = [down EXCEPT ![p] = << >>]
  BY DEF ProxyDies
<1>2. /\ ReplyInv' /\ LogInv' /\ UsesLoggedAddress'
      /\ \A q \in Proxy, host \in HostSet : Gave(q, host) => Gave(q, host)'
  BY <1>1, NsSame, UsesKept
<1>3. TypeOK'
  <2>1. << >> \in Seq(Objects)
    BY EmptySeq
  <2> QED BY <1>1, <2>1 DEF IInv, TypeOK, nsVars
<1>4. /\ phase'[p] = "dead" /\ at'[p] = 1 /\ down'[p] = << >>
      /\ \A q \in Proxy \ { p } : /\ phase'[q] = phase[q] /\ at'[q] = at[q]
                                  /\ down'[q] = down[q]
      /\ \A q \in Proxy : up'[q] = up[q] /\ www_ip'[q] = www_ip[q]
      /\ UNCHANGED << link, backlog, ns, nsAt, serving, size, reply >>
  BY <1>1 DEF IInv, TypeOK, nsVars
<1>5. LinkInv'
  BY <1>4 DEF IInv, LinkInv
<1>6. QueryInv'
  <2>1. \A q \in Proxy, n \in 1 .. 4 : OnItsWay(q, n) => OnItsWay(q, n)'
    BY <1>4, OnItsWayKept DEF OnItsWay
  <2>2. \A q \in Proxy : Unanswered(q)' <=> Unanswered(q)
    BY <1>4 DEF Unanswered
  <2>3. \A q \in Proxy : Fresh(q) => Fresh(q)'
    BY <1>4, FreshKept DEF Fresh
  <2>4. ns = "recv" /\ BeingRead => BeingRead'
    <3>1. ns = "recv" => serving \in Proxy
      BY DEF IInv, LinkInv
    <3>2. ns = "recv" => (OutOfStep(up[serving]) <=> OutOfStep(up[serving])')
      BY <1>4, <3>1 DEF OutOfStep
    <3> QED BY <1>4, <2>1, <3>1, <3>2 DEF BeingRead
  <2> QED BY <1>4, <2>1, <2>2, <2>3, <2>4 DEF IInv, QueryInv
<1>7. AnswerInv'
  <2>1. \A q \in Proxy \ { p } : AnswerOf(q)'
    BY <1>2, <1>4, AnswerKept
  <2>2. AnswerOf(p)'
    BY <1>4 DEF AnswerOf
  <2> QED BY <2>1, <2>2 DEF AnswerInv
<1> QED BY <1>2, <1>3, <1>5, <1>6, <1>7 DEF IInv

(* What changes nothing that is on its way to the nameserver and leaves    *)
(* the proxy where it was in its query.                                    *)
LEMMA QueryKept ==
  ASSUME IInv,
         UNCHANGED << up, ns, nsAt, serving, size >>,
         \A q \in Proxy : SentOf(q)' = SentOf(q) /\ (phase'[q] = "dead" <=> phase[q] = "dead"),
         \A q \in Proxy : Unanswered(q)' => Unanswered(q) /\ Fresh(q)',
         \A q \in Proxy : link'[q] \in { "none", "waiting" } => link[q] \in { "none", "waiting" }
  PROVE  QueryInv'
<1>1. \A q \in Proxy, n \in 1 .. 4 : OnItsWay(q, n) => OnItsWay(q, n)'
  BY DEF OnItsWay
<1>2. ns = "recv" /\ BeingRead => BeingRead'
  <2>1. ns = "recv" => serving \in Proxy
    BY DEF IInv, LinkInv
  <2> QED BY <1>1, <2>1 DEF BeingRead, OutOfStep
<1> QED BY <1>1, <1>2 DEF IInv, QueryInv

LEMMA ConnectInv == ASSUME IInv, NEW p \in Proxy, Connect(p) PROVE IInv'
<1> SUFFICES ASSUME /\ phase[p] = "start" /\ ns # "dead"
                    /\ phase' = [phase EXCEPT ![p] = "idle"]
                    /\ link' = [link EXCEPT ![p] = "waiting"]
                    /\ backlog' = Append(backlog, p)
                    /\ UNCHANGED << at, lookups, www_ip, up, down, nsVars >>
             PROVE  IInv'
  BY DiesInv DEF Connect
<1>1. /\ ReplyInv' /\ LogInv' /\ UsesLoggedAddress'
      /\ \A q \in Proxy, host \in HostSet : Gave(q, host) => Gave(q, host)'
  BY NsSame, UsesKept
<1>2. /\ backlog' \in Seq(Proxy) /\ Len(backlog) \in Nat /\ Len(backlog') = Len(backlog) + 1
      /\ \A i \in 1 .. Len(backlog) : backlog'[i] = backlog[i] /\ backlog[i] \in Proxy
      /\ backlog'[Len(backlog) + 1] = p
  BY AppendProperties, LenProperties, ElementOfSeq DEF IInv, TypeOK
<1>3. TypeOK'
  BY <1>2 DEF IInv, TypeOK, nsVars
<1>4. /\ phase'[p] = "idle" /\ link'[p] = "waiting"
      /\ \A q \in Proxy \ { p } : phase'[q] = phase[q] /\ link'[q] = link[q]
      /\ UNCHANGED << at, www_ip, up, down, ns, nsAt, serving, size, reply >>
  BY DEF IInv, TypeOK, nsVars
<1>5. link[p] = "none" /\ at[p] = 1
  BY DEF IInv, LinkInv
<1>6. LinkInv'
  <2>1. \A i \in 1 .. Len(backlog) : backlog[i] # p
    BY <1>5 DEF IInv, LinkInv
  <2>2. \A i \in 1 .. Len(backlog') : link'[backlog'[i]] = "waiting"
    BY <1>2, <1>4, <2>1 DEF IInv, LinkInv
  <2>3. \A i, j \in 1 .. Len(backlog') : backlog'[i] = backlog'[j] => i = j
    BY <1>2, <2>1 DEF IInv, LinkInv
  <2> QED BY <1>4, <1>5, <2>2, <2>3 DEF IInv, LinkInv
<1>7. QueryInv'
  <2>1. \A q \in Proxy : SentOf(q)' = SentOf(q) /\ (phase'[q] = "dead" <=> phase[q] = "dead")
    BY <1>4 DEF SentOf
  <2>2. \A q \in Proxy : Unanswered(q)' => Unanswered(q)
    BY <1>4, <1>5 DEF Unanswered
  <2>3. \A q \in Proxy : Unanswered(q) => Fresh(q)'
    BY <1>4 DEF IInv, QueryInv, Fresh
  <2>4. \A q \in Proxy : link'[q] \in { "none", "waiting" } => link[q] \in { "none", "waiting" }
    BY <1>4, <1>5
  <2> QED BY <1>4, <2>1, <2>2, <2>3, <2>4, QueryKept
<1>8. AnswerInv'
  <2>1. \A q \in Proxy \ { p } : AnswerOf(q)'
    BY <1>1, <1>4, AnswerKept
  <2>2. AnswerOf(p)'
    <3>1. Unanswered(p) /\ Fresh(p)
      BY <1>5 DEF Unanswered, IInv, QueryInv
    <3>2. ~ (serving = p /\ ns = "send")
      BY <1>5 DEF IInv, LinkInv
    <3>3. Len(<< >>) = 0
      OBVIOUS
    <3> QED BY <1>4, <3>1, <3>2, <3>3 DEF AnswerOf, Fresh, InStep, OutOfStep
  <2> QED BY <2>1, <2>2 DEF AnswerInv
<1> QED BY <1>1, <1>3, <1>6, <1>7, <1>8 DEF IInv

LEMMA LookupInv == ASSUME IInv, NEW p \in Proxy, Lookup(p) PROVE IInv'
<1>1. /\ phase[p] = "idle"
      /\ phase' = [phase EXCEPT ![p] = "send"]
      /\ at' = [at EXCEPT ![p] = 1]
      /\ lookups' = [lookups EXCEPT ![p] = @ + 1]
      /\ UNCHANGED << www_ip, up, down, link, backlog, nsVars >>
  BY DEF Lookup
<1>2. /\ ReplyInv' /\ LogInv' /\ UsesLoggedAddress'
      /\ \A q \in Proxy, host \in HostSet : Gave(q, host) => Gave(q, host)'
  BY <1>1, NsSame, UsesKept
<1>3. TypeOK'
  BY <1>1 DEF IInv, TypeOK, nsVars
<1>4. /\ phase'[p] = "send" /\ at'[p] = 1 /\ at[p] = 1
      /\ \A q \in Proxy \ { p } : phase'[q] = phase[q] /\ at'[q] = at[q]
      /\ UNCHANGED << www_ip, up, down, link, backlog, ns, nsAt, serving, size, reply >>
  BY <1>1 DEF IInv, TypeOK, nsVars, LinkInv
<1>5. LinkInv'
  BY <1>1, <1>4 DEF IInv, LinkInv
<1>6. QueryInv'
  <2>1. \A q \in Proxy : SentOf(q)' = SentOf(q) /\ (phase'[q] = "dead" <=> phase[q] = "dead")
    BY <1>1, <1>4 DEF SentOf
  <2>2. \A q \in Proxy : Unanswered(q)' => Unanswered(q)
    BY <1>4 DEF Unanswered
  <2>3. ns # "dead" => \A q \in Proxy : Unanswered(q) => Fresh(q)'
    BY <1>4 DEF IInv, QueryInv, Fresh
  <2>4. CASE ns = "dead"
    BY <1>4, <2>4 DEF QueryInv
  <2>5. CASE ns # "dead"
    BY <1>4, <2>1, <2>2, <2>3, <2>5, QueryKept
  <2> QED BY <2>4, <2>5
<1>7. AnswerInv'
  <2>1. \A q \in Proxy \ { p } : AnswerOf(q)'
    BY <1>2, <1>4, AnswerKept
  <2>2. AnswerOf(p)'
    <3>1. Position(p)' = 1 /\ Position(p) = 1
      BY <1>1, <1>4 DEF Position
    <3>2. InStep(p) => InStep(p)'
      BY <1>2, <1>4, <3>1, GivenKept, SlotGrows DEF InStep
    <3>3. (OutOfStep(down[p])' <=> OutOfStep(down[p])) /\ (SentTo(p) => SentTo(p)')
      BY <1>4, <3>1 DEF OutOfStep, SentTo
    <3> QED BY <1>1, <1>4, <3>1, <3>2, <3>3 DEF IInv, AnswerInv, AnswerOf
  <2> QED BY <2>1, <2>2 DEF AnswerInv
<1> QED BY <1>2, <1>3, <1>5, <1>6, <1>7 DEF IInv

LEMMA SendQueryInv == ASSUME IInv, NEW p \in Proxy, SendQuery(p) PROVE IInv'
<1> SUFFICES ASSUME /\ phase[p] = "send"
                    /\ up' = IF Closed(p) THEN up
                             ELSE [up EXCEPT ![p] = Append(@, Query[at[p]])]
                    /\ link' = IF Closed(p) THEN [link EXCEPT ![p] = "reset"] ELSE link
                    /\ IF at[p] < Len(Query)
                       THEN at' = [at EXCEPT ![p] = @ + 1] /\ UNCHANGED phase
                       ELSE /\ at' = [at EXCEPT ![p] = 1]
                            /\ phase' = [phase EXCEPT ![p] = "recv"]
                    /\ UNCHANGED << lookups, www_ip, down, backlog, nsVars >>
             PROVE  IInv'
  BY DiesInv DEF SendQuery
<1>1. /\ ReplyInv' /\ LogInv' /\ UsesLoggedAddress'
      /\ \A q \in Proxy, host \in HostSet : Gave(q, host) => Gave(q, host)'
  BY NsSame, UsesKept
<1>2. /\ at[p] \in 1 .. 4 /\ Len(Query) = 4 /\ Query[at[p]] \in Objects
      /\ up[p] \in Seq(Objects) /\ Len(up[p]) \in Nat
      /\ at \in [Proxy -> 1 .. 4] /\ phase \in [Proxy -> { "start", "idle", "send", "recv", "dead" }]
      /\ up \in [Proxy -> Seq(Objects)]
      /\ link \in [Proxy -> { "none", "waiting", "open", "closed", "reset" }]
  BY QueryIs, LenProperties DEF IInv, TypeOK
<1>3. /\ at'[p] \in 1 .. 4 /\ phase'[p] \in { "send", "recv" }
      /\ SentOf(p)' = SentOf(p) + 1 /\ SentOf(p) = at[p] - 1
      /\ phase'[p] = "recv" => at'[p] = 1
      /\ \A q \in Proxy \ { p } : phase'[q] = phase[q] /\ at'[q] = at[q] /\ up'[q] = up[q]
                                  /\ link'[q] = link[q]
      /\ UNCHANGED << www_ip, down, backlog, ns, nsAt, serving, size, reply >>
  <2>1. CASE at[p] < 4
    BY <1>2, <2>1 DEF SentOf, nsVars
  <2>2. CASE ~ (at[p] < 4)
    BY <1>2, <2>2 DEF SentOf, nsVars
  <2> QED BY <2>1, <2>2
<1>4. Append(up[p], Query[at[p]]) \in Seq(Objects)
  BY <1>2, AppendProperties
<1>5. TypeOK'
  <2>1. up' \in [Proxy -> Seq(Objects)]
    BY <1>2, <1>4
  <2>2. link' \in [Proxy -> { "none", "waiting", "open", "closed", "reset" }]
    BY <1>2
  <2>3. at' \in [Proxy -> 1 .. 4] /\ phase' \in [Proxy -> { "start", "idle", "send", "recv", "dead" }]
    <3>1. \/ at[p] < 4 /\ at' = [at EXCEPT ![p] = @ + 1] /\ phase' = phase
          \/ at' = [at EXCEPT ![p] = 1] /\ phase' = [phase EXCEPT ![p] = "recv"]
      BY <1>2
    <3>2. at[p] < 4 => at[p] + 1 \in 1 .. 4
      BY <1>2
    <3>3. 1 \in 1 .. 4
      OBVIOUS
    <3>4. at' \in [Proxy -> 1 .. 4]
      BY <1>2, <3>1, <3>2, <3>3, Zenon
    <3>5. phase' \in [Proxy -> { "start", "idle", "send", "recv", "dead" }]
      BY <1>2, <3>1
    <3> QED BY <3>4, <3>5
  <2> QED BY <2>1, <2>2, <2>3 DEF IInv, TypeOK, nsVars
<1>6. Closed(p) /\ ns # "dead" => link[p] \in { "closed", "reset" } /\ link'[p] = "reset"
  BY <1>2 DEF Closed
<1>7. ~ Closed(p) => link'[p] = link[p]
  OBVIOUS
<1>8. LinkInv'
  <2>1. \A i \in 1 .. Len(backlog) : backlog[i] \in Proxy
    BY ElementOfSeq DEF IInv, TypeOK
  <2> QED BY <1>3, <1>6, <1>7, <2>1 DEF IInv, LinkInv
<1>9. QueryInv'
  <2> SUFFICES ASSUME ns # "dead" PROVE QueryInv'
    BY <1>3 DEF QueryInv
  <2>1. \A q \in Proxy \ { p }, n \in 1 .. 4 : OnItsWay(q, n) => OnItsWay(q, n)'
    BY <1>3, OnItsWayKept
  <2>2. CASE Closed(p)
    <3>1. ~ Unanswered(p) /\ ~ Unanswered(p)' /\ ~ (ns = "recv" /\ serving = p)
      BY <1>3, <1>6, <2>2 DEF Unanswered, IInv, LinkInv
    <3>2. \A q \in Proxy : Unanswered(q)' => q # p /\ Unanswered(q)
      BY <1>3, <3>1 DEF Unanswered
    <3>3. \A q \in Proxy : Unanswered(q)' => Fresh(q)'
      BY <1>3, <3>2, FreshKept DEF IInv, QueryInv
    <3>4. \A q \in Proxy : link'[q] \in { "none", "waiting" } => OnItsWay(q, 1)'
      BY <1>3, <1>6, <2>1, <2>2 DEF IInv, QueryInv
    <3>5. ns = "recv" => BeingRead'
      <4>1. ns = "recv" => serving \in Proxy \ { p }
        BY <3>1 DEF IInv, LinkInv
      <4> QED BY <1>3, <2>1, <4>1 DEF IInv, QueryInv, BeingRead, OutOfStep
    <3> QED BY <1>3, <3>3, <3>4, <3>5 DEF QueryInv
  <2>3. CASE ~ Closed(p)
    <3>1. up'[p] = Append(up[p], Query[at[p]])
      BY <1>2, <2>3
    <3>2. /\ Len(up'[p]) = Len(up[p]) + 1
          /\ \A i \in 1 .. Len(up[p]) : up'[p][i] = up[p][i]
          /\ up'[p][Len(up[p]) + 1] = Query[at[p]]
      BY <1>2, <3>1, AppendProperties
    <3>3. ASSUME NEW n \in 1 .. 4, OnItsWay(p, n) PROVE OnItsWay(p, n)'
      <4>1. /\ Len(up[p]) + n - 1 = at[p] - 1
            /\ \A i \in 1 .. Len(up[p]) : up[p][i] = Query[i + n - 1]
        BY <1>2, <1>3, <3>3 DEF OnItsWay
      <4>2. Len(up'[p]) + n - 1 = at[p] /\ at[p] \in 1 .. 4
        BY <1>2, <3>2, <4>1
      <4>3. Len(up[p]) + 1 + n - 1 = at[p]
        BY <1>2, <4>1
      <4>4. ASSUME NEW i \in 1 .. Len(up'[p]) PROVE up'[p][i] = Query[i + n - 1]
        <5>1. CASE i = Len(up[p]) + 1
          BY <3>2, <4>3, <5>1
        <5>2. CASE i # Len(up[p]) + 1
          <6>1. i \in 1 .. Len(up[p])
            BY <1>2, <3>2, <5>2
          <6> QED BY <3>2, <4>1, <6>1
        <5> QED BY <5>1, <5>2
      <4> QED BY <1>2, <1>3, <4>2, <4>4 DEF OnItsWay
    <3>4. OutOfStep(up[p]) => OutOfStep(up[p])'
      BY <1>2, <3>1, HeadTailAppend, AppendProperties DEF OutOfStep
    <3>5. \A q \in Proxy : Unanswered(q)' <=> Unanswered(q)
      BY <1>3, <1>7, <2>3 DEF Unanswered
    <3>6. \A q \in Proxy : Unanswered(q) => Fresh(q)'
      BY <1>3 DEF IInv, QueryInv, Fresh
    <3>7. ns = "recv" => BeingRead'
      <4>1. ns = "recv" => serving \in Proxy
        BY DEF IInv, LinkInv
      <4>2. ns = "recv" => (OutOfStep(up[serving]) => OutOfStep(up[serving])')
        BY <1>3, <3>4, <4>1 DEF OutOfStep
      <4>3. ns = "recv" => \A n \in 1 .. 4 : OnItsWay(serving, n) => OnItsWay(serving, n)'
        BY <1>3, <2>1, <3>3, <4>1
      <4> QED BY <1>3, <4>2, <4>3 DEF IInv, QueryInv, BeingRead
    <3>8. \A q \in Proxy : link'[q] \in { "none", "waiting" } => OnItsWay(q, 1)'
      BY <1>3, <1>7, <2>1, <2>3, <3>3 DEF IInv, QueryInv
    <3> QED BY <1>3, <3>5, <3>6, <3>7, <3>8 DEF QueryInv
  <2> QED BY <2>2, <2>3
<1>10. AnswerInv'
  <2>1. \A q \in Proxy \ { p } : AnswerOf(q)'
    BY <1>1, <1>3, AnswerKept
  <2>2. AnswerOf(p)'
    <3>1. Position(p)' = 1 /\ Position(p) = 1
      BY <1>3 DEF Position
    <3>2. InStep(p) => InStep(p)'
      BY <1>1, <1>3, <3>1, GivenKept, SlotGrows DEF InStep
    <3>3. (OutOfStep(down[p])' <=> OutOfStep(down[p])) /\ (SentTo(p) => SentTo(p)')
      BY <1>3, <3>1 DEF OutOfStep, SentTo
    <3> QED BY <1>3, <3>1, <3>2, <3>3 DEF IInv, AnswerInv, AnswerOf
  <2> QED BY <2>1, <2>2 DEF AnswerInv
<1> QED BY <1>1, <1>5, <1>8, <1>9, <1>10 DEF IInv

(* A proxy that receives something, or the end of its stream, has been     *)
(* answered, or refused.                                                   *)
LEMMA HeardOf ==
  ASSUME IInv, ns # "dead", NEW p \in Proxy, down[p] # << >> \/ Closed(p)
  PROVE  ~ Unanswered(p)
BY DEF IInv, QueryInv, LinkInv, Unanswered, Fresh, Closed

Addresses == HostSet \cup { Shortened(h) : h \in HostSet } \cup { NoHost }

(* What it does then: it goes on in its answer, or has the address. *)
Hears(p, u, v, d, w) ==
  /\ down[p] # << >> \/ Closed(p)
  /\ phase[p] = "recv"
  /\ u \in { "recv", "idle" } /\ v \in 1 .. 4 /\ (u = "idle" => v = 1)
  /\ d \in Seq(Objects) /\ w \in Addresses
  /\ phase' = [phase EXCEPT ![p] = u]
  /\ at' = [at EXCEPT ![p] = v]
  /\ down' = [down EXCEPT ![p] = d]
  /\ www_ip' = [www_ip EXCEPT ![p] = w]
  /\ UNCHANGED << lookups, up, link, backlog, nsVars >>

LEMMA HeardInv ==
  ASSUME IInv, NEW p \in Proxy, NEW u, NEW v, NEW d, NEW w, Hears(p, u, v, d, w)
  PROVE  /\ TypeOK' /\ LinkInv' /\ QueryInv' /\ ReplyInv' /\ LogInv'
         /\ \A host \in HostSet : Gave(p, host) => Gave(p, host)'
         /\ AnswerOf(p)' => AnswerInv'
         /\ phase'[p] = u /\ at'[p] = v /\ down'[p] = d /\ www_ip'[p] = w
         /\ \A q \in Proxy \ { p } : www_ip'[q] = www_ip[q]
         /\ UNCHANGED << ns, nsAt, serving, reply >>
<1>1. /\ ReplyInv' /\ LogInv'
      /\ \A q \in Proxy, host \in HostSet : Gave(q, host) => Gave(q, host)'
  BY NsSame DEF Hears
<1>2. TypeOK'
  BY DEF Hears, IInv, TypeOK, nsVars, Addresses
<1>3. /\ phase'[p] = u /\ at'[p] = v /\ down'[p] = d /\ www_ip'[p] = w
      /\ \A q \in Proxy \ { p } : /\ phase'[q] = phase[q] /\ at'[q] = at[q]
                                  /\ down'[q] = down[q] /\ www_ip'[q] = www_ip[q]
      /\ UNCHANGED << up, link, backlog, ns, nsAt, serving, size, reply >>
  BY DEF Hears, IInv, TypeOK, nsVars
<1>4. LinkInv'
  BY <1>3 DEF Hears, IInv, LinkInv
<1>5. QueryInv'
  <2> SUFFICES ASSUME ns # "dead" PROVE QueryInv'
    BY <1>3 DEF QueryInv
  <2>1. ~ Unanswered(p)
    BY HeardOf DEF Hears
  <2>2. \A q \in Proxy \ { p }, n \in 1 .. 4 : OnItsWay(q, n) => OnItsWay(q, n)'
    BY <1>3, OnItsWayKept
  <2>3. \A q \in Proxy : Unanswered(q)' => q # p /\ Unanswered(q)
    BY <1>3, <2>1 DEF Unanswered
  <2>4. \A q \in Proxy : Unanswered(q)' => Fresh(q)'
    BY <1>3, <2>3, FreshKept DEF IInv, QueryInv
  <2>5. \A q \in Proxy : link'[q] \in { "none", "waiting" } => OnItsWay(q, 1)'
    BY <1>3, <2>1, <2>2 DEF IInv, QueryInv, Unanswered
  <2>6. ns = "recv" => BeingRead'
    <3>1. ns = "recv" => serving \in Proxy \ { p }
      BY <2>1 DEF IInv, LinkInv, Unanswered
    <3> QED BY <1>3, <2>2, <3>1 DEF IInv, QueryInv, BeingRead, OutOfStep
  <2> QED BY <1>3, <2>4, <2>5, <2>6 DEF QueryInv
<1>6. \A q \in Proxy \ { p } : AnswerOf(q)'
  BY <1>1, <1>3, AnswerKept
<1> QED BY <1>1, <1>2, <1>3, <1>4, <1>5, <1>6 DEF AnswerInv

(* The nameserver does not send to a proxy that has seen the end of its    *)
(* stream, unless it is out of step.                                       *)
LEMMA OpenWhileSent ==
  ASSUME IInv, ns = "send"
  PROVE  serving \in Proxy /\ ~ Closed(serving)
BY DEF IInv, LinkInv, Closed

(* What was received whole leaves the proxy in step. *)
LEMMA WholeReadInv ==
  ASSUME IInv, NEW p \in Proxy, at[p] \in 1 .. 3,
         down[p] # << >>, ~ OutOfStep(down[p]),
         Hears(p, "recv", at[p] + 1, Tail(down[p]), www_ip[p])
  PROVE  IInv'
<1> DEFINE t == Tail(down[p])
<1>1. /\ AnswerOf(p) /\ InStep(p) /\ Position(p) = at[p] /\ phase[p] = "recv"
      /\ www_ip[p] # NoHost => at[p] = 1 /\ down[p] = << >>
  BY DEF IInv, AnswerInv, AnswerOf, Position, Hears
<1>2. www_ip[p] = NoHost
  BY <1>1
<1>3. /\ down[p] \in Seq(Objects) /\ Len(down[p]) \in Nat \ {0}
      /\ t \in Seq(Objects) /\ Len(t) = Len(down[p]) - 1
      /\ \A i \in 1 .. Len(t) : t[i] = down[p][i + 1]
  BY EmptySeq, HeadTailProperties DEF IInv, TypeOK
<1> HIDE DEF t
<1>4. /\ TypeOK' /\ LinkInv' /\ QueryInv' /\ ReplyInv' /\ LogInv'
      /\ \A host \in HostSet : Gave(p, host) => Gave(p, host)'
      /\ AnswerOf(p)' => AnswerInv'
      /\ phase'[p] = "recv" /\ at'[p] = at[p] + 1 /\ down'[p] = t /\ www_ip'[p] = www_ip[p]
      /\ \A q \in Proxy : www_ip'[q] = www_ip[q]
      /\ UNCHANGED << ns, nsAt, serving, reply >>
  <2>1. Hears(p, "recv", at[p] + 1, t, www_ip[p])
    BY DEF t
  <2> QED BY <2>1, HeardInv
<1>5. AnswerOf(p)'
  <2>1. Position(p)' = at[p] + 1
    BY <1>4 DEF Position
  <2>2. InStep(p)'
    <3> SUFFICES ASSUME NEW i \in 1 .. Len(t)
                 PROVE  t[i] \in Slot(Given(p)', i + (at[p] + 1) - 1)
      BY <1>4, <2>1 DEF InStep
    <3>1. t[i] = down[p][i + 1] /\ i + 1 \in 1 .. Len(down[p])
      BY <1>3
    <3>2. down[p][i + 1] \in Slot(Given(p), i + 1 + at[p] - 1)
      BY <1>1, <3>1 DEF InStep
    <3>3. i + 1 + at[p] - 1 = i + (at[p] + 1) - 1
      BY <1>3
    <3> QED BY <1>4, <3>1, <3>2, <3>3, GivenKept, SlotGrows
  <2>3. ~ OutOfStep(t)
    <3>1. t # << >> => Head(t) = t[1] /\ 1 \in 1 .. Len(t)
      BY <1>3, EmptySeq
    <3>2. t # << >> => t[1] \in Slot(Given(p)', 1 + Position(p)' - 1)
      BY <1>4, <2>2, <3>1 DEF InStep
    <3>3. t # << >> => t[1] # Rest
      BY <1>4, <3>2, GivenKept, SlotIs
    <3> QED BY <3>1, <3>3 DEF OutOfStep
  <2>4. serving = p /\ ns = "send" => SentTo(p)'
    <3>1. serving = p /\ ns = "send" => Len(down[p]) + at[p] = nsAt
      BY <1>1, <1>2 DEF AnswerOf, SentTo
    <3> QED BY <1>2, <1>3, <1>4, <2>1, <3>1 DEF SentTo
  <2> QED BY <1>2, <1>4, <2>2, <2>3, <2>4 DEF AnswerOf, OutOfStep
<1>6. UsesLoggedAddress'
  <2>1. \A q \in Proxy, host \in HostSet : Gave(q, host) => Gave(q, host)'
    BY NsSame DEF Hears
  <2> QED BY <1>4, <2>1 DEF IInv, UsesLoggedAddress
<1> QED BY <1>4, <1>5, <1>6 DEF IInv

LEMMA HeardOwn ==
  ASSUME IInv, NEW p \in Proxy, at[p] \in 1 .. 3, phase[p] = "recv",
         down[p] # << >> \/ Closed(p),
         NEW d \in Seq(Objects), down' = [down EXCEPT ![p] = d],
         at' = [at EXCEPT ![p] = @ + 1],
         UNCHANGED << phase, www_ip, lookups, up, link, backlog, nsVars >>
  PROVE  Hears(p, "recv", at[p] + 1, d, www_ip[p])
<1>1. at[p] + 1 \in 1 .. 4 /\ "recv" # "idle"
  OBVIOUS
<1>2. /\ phase' = [phase EXCEPT ![p] = "recv"]
      /\ at' = [at EXCEPT ![p] = at[p] + 1]
      /\ www_ip' = [www_ip EXCEPT ![p] = www_ip[p]]
      /\ www_ip[p] \in Addresses
  BY DEF IInv, TypeOK, Addresses
<1> QED BY <1>1, <1>2 DEF Hears

LEMMA RecvSizeInv == ASSUME IInv, NEW p \in Proxy, RecvSize(p) PROVE IInv'
<1> SUFFICES ASSUME /\ phase[p] = "recv" /\ at[p] \in { 1, 3 }
                    /\ down[p] # << >> /\ Head(down[p]) # Rest
                    /\ Takes(p, SizeBytes)
                    /\ at' = [at EXCEPT ![p] = @ + 1]
                    /\ UNCHANGED << phase, www_ip, lookups, up, link, backlog, nsVars >>
             PROVE  IInv'
  BY DiesInv DEF RecvSize
<1>1. ~ OutOfStep(down[p]) /\ InStep(p) /\ Position(p) = at[p]
  BY DEF IInv, AnswerInv, AnswerOf, Position, OutOfStep
<1>2. /\ down[p] \in Seq(Objects) /\ Len(down[p]) \in Nat \ {0}
      /\ Head(down[p]) = down[p][1] /\ Tail(down[p]) \in Seq(Objects)
  BY EmptySeq, HeadTailProperties DEF IInv, TypeOK
<1>3. Head(down[p]) \in SizeObject
  <2>1. down[p][1] \in Slot(Given(p), 1 + at[p] - 1)
    BY <1>1, <1>2 DEF InStep
  <2>2. 1 + at[p] - 1 \in { 1, 3 }
    OBVIOUS
  <2> QED BY <1>2, <2>1, <2>2, SlotForms
<1>4. Left(down[p], SizeBytes) = Tail(down[p])
  <2>1. Bytes(Head(down[p])) = SizeBytes /\ ~ (SizeBytes < SizeBytes)
    BY <1>3, BytesOf DEF SizeBytes
  <2> QED BY <1>2, <2>1, LeftIs
<1>5. down' = [down EXCEPT ![p] = Tail(down[p])]
  BY <1>4 DEF Takes
<1>6. Hears(p, "recv", at[p] + 1, Tail(down[p]), www_ip[p])
  <2>1. at[p] \in 1 .. 3
    OBVIOUS
  <2> QED BY <1>2, <1>5, <2>1, HeardOwn
<1> QED BY <1>1, <1>6, WholeReadInv

LEMMA RecvHeaderInv == ASSUME IInv, NEW p \in Proxy, RecvHeader(p) PROVE IInv'
<1> SUFFICES ASSUME /\ phase[p] = "recv" /\ at[p] = 2
                    /\ \/ down[p] # << >> /\ \E k \in Reads(p, Head(down[p])) : Takes(p, k)
                       \/ Over(p) /\ UNCHANGED down
                    /\ at' = [at EXCEPT ![p] = 3]
                    /\ UNCHANGED << phase, www_ip, lookups, up, link, backlog, nsVars >>
             PROVE  IInv'
  BY DiesInv DEF RecvHeader
<1>1. /\ AnswerOf(p) /\ Position(p) = 2 /\ ~ OutOfStep(down[p]) /\ www_ip[p] = NoHost
  BY DEF IInv, AnswerInv, AnswerOf, Position
<1>2. down[p] \in Seq(Objects)
  BY DEF IInv, TypeOK
<1>3. PICK d \in Seq(Objects) :
        /\ down' = [down EXCEPT ![p] = d]
        /\ \/ down[p] # << >> /\ (d = Tail(down[p]) \/ OutOfStep(d))
           \/ Closed(p) /\ d = << >>
  <2>1. CASE down[p] # << >> /\ \E k \in Reads(p, Head(down[p])) : Takes(p, k)
    <3>1. PICK k \in Reads(p, Head(down[p])) : Takes(p, k)
      BY <2>1
    <3>2. down' = [down EXCEPT ![p] = Left(down[p], k)]
      BY <3>1 DEF Takes
    <3> QED BY <1>2, <2>1, <3>2, LeftIs
  <2>2. CASE Over(p) /\ UNCHANGED down
    BY <1>2, <2>2 DEF Over, IInv, TypeOK
  <2> QED BY <2>1, <2>2
<1>4. Hears(p, "recv", at[p] + 1, d, www_ip[p])
  <2>1. at[p] \in 1 .. 3 /\ at[p] + 1 = 3
    OBVIOUS
  <2>2. at' = [at EXCEPT ![p] = at[p] + 1]
    BY <2>1
  <2>3. down[p] # << >> \/ Closed(p)
    BY <1>3
  <2> QED BY <1>3, <2>1, <2>2, <2>3, HeardOwn
<1>5. CASE down[p] # << >> /\ d = Tail(down[p])
  BY <1>1, <1>4, <1>5, WholeReadInv
<1>6. CASE OutOfStep(d) \/ (Closed(p) /\ d = << >>)
  <2>1. /\ TypeOK' /\ LinkInv' /\ QueryInv' /\ ReplyInv' /\ LogInv'
        /\ AnswerOf(p)' => AnswerInv'
        /\ phase'[p] = "recv" /\ at'[p] = at[p] + 1 /\ down'[p] = d /\ www_ip'[p] = www_ip[p]
        /\ UNCHANGED << ns, nsAt, serving, reply >>
    BY <1>4, HeardInv
  <2>2. Closed(p) => ~ (serving = p /\ ns = "send")
    BY OpenWhileSent
  <2>3. AnswerOf(p)'
    <3>1. Position(p)' = 3
      BY <2>1 DEF Position
    <3>2. CASE OutOfStep(d)
      BY <1>1, <2>1, <3>1, <3>2 DEF AnswerOf, SentTo, OutOfStep
    <3>3. CASE Closed(p) /\ d = << >>
      <4>1. Len(d) = 0
        BY <3>3
      <4> QED BY <1>1, <2>1, <2>2, <3>1, <3>3, <4>1 DEF AnswerOf, InStep, OutOfStep
    <3> QED BY <1>6, <3>2, <3>3
  <2>4. UsesLoggedAddress'
    BY NsSame, UsesKept
  <2> QED BY <2>1, <2>3, <2>4 DEF IInv
<1> QED BY <1>3, <1>5, <1>6

LEMMA ReplyIs == ASSUME NEW r \in Replies PROVE r \in Seq(Objects) /\ Len(r) \in { 2, 4 }
BY RefusalIs, AnswerIs DEF Replies

(* The record a proxy is about to receive names an address that it was     *)
(* given, is all that is left, and is decoded to that address when it is   *)
(* received whole.                                                         *)
LEMMA RecordAhead ==
  ASSUME IInv, NEW p \in Proxy, phase[p] = "recv", at[p] = 4, down[p] # << >>
  PROVE  /\ www_ip[p] = NoHost /\ ~ OutOfStep(down[p]) /\ Len(down[p]) = 1
         /\ down[p] \in Seq(Objects)
         /\ serving = p /\ ns = "send" => nsAt > Len(reply)
         /\ \E host \in HostSet : Gave(p, host) /\ Head(down[p]) = AnswerObject(host)
<1>1. /\ Position(p) = 4 /\ ~ OutOfStep(down[p]) /\ InStep(p) /\ www_ip[p] = NoHost
      /\ serving = p /\ ns = "send" => SentTo(p)
  BY DEF IInv, AnswerInv, AnswerOf, Position
<1>2. /\ down[p] \in Seq(Objects) /\ Len(down[p]) \in Nat \ {0}
      /\ Head(down[p]) = down[p][1]
  BY EmptySeq DEF IInv, TypeOK
<1>3. Len(down[p]) = 1
  <2>1. ASSUME Len(down[p]) # 1 PROVE FALSE
    <3>1. 2 \in 1 .. Len(down[p])
      <4> DEFINE n == Len(down[p])
      <4>1. n \in Nat \ {0} /\ n # 1
        BY <1>2, <2>1
      <4> HIDE DEF n
      <4>2. 2 \in 1 .. n
        BY <4>1
      <4> QED BY <4>2 DEF n
    <3>2. down[p][2] \in Slot(Given(p), 2 + 4 - 1)
      BY <1>1, <3>1 DEF InStep
    <3>3. 2 + 4 - 1 \notin 1 .. 4
      BY SMT
    <3> QED BY <3>2, <3>3, SlotForms
  <2> QED BY <2>1
<1>4. \E host \in HostSet : Gave(p, host) /\ Head(down[p]) = AnswerObject(host)
  <2>1. 1 \in 1 .. Len(down[p]) /\ 1 + 4 - 1 = 4
    BY <1>3
  <2>2. down[p][1] \in Slot(Given(p), 4)
    BY <1>1, <2>1 DEF InStep
  <2> QED BY <1>2, <2>2, SlotForms DEF Given
<1>5. serving = p /\ ns = "send" => nsAt > Len(reply)
  <2>1. ns = "send" => Len(reply) \in { 2, 4 }
    BY ReplyIs DEF IInv, ReplyInv
  <2>2. SentTo(p) => nsAt = 5
    BY <1>1, <1>3 DEF SentTo
  <2>3. ASSUME serving = p, ns = "send" PROVE nsAt > Len(reply)
    <3> DEFINE n == Len(reply)
    <3>1. nsAt = 5 /\ n \in { 2, 4 }
      BY <1>1, <2>1, <2>2, <2>3
    <3> HIDE DEF n
    <3>2. nsAt > n
      BY <3>1
    <3> QED BY <3>2 DEF n
  <2> QED BY <2>3
<1> QED BY <1>1, <1>2, <1>3, <1>4, <1>5

LEMMA RecordDecoded ==
  ASSUME NEW p \in Proxy, NEW host \in HostSet, NEW k \in Reads(p, AnswerObject(host))
  PROVE  LET address == DecodeRecord(AnswerObject(host).record, k)
         IN  /\ \/ address = host
                \/ p \in ShortReads /\ address \in { Shortened(host), NoHost }
             /\ address # host => k < Bytes(AnswerObject(host))
<1> DEFINE r == AnswerRecord(host, TextLength[host])
<1>1. AnswerObject(host).record = r /\ r \in Record(HostSet) /\ r.RDATA = host
  BY MessagesOfLookup DEF AnswerObject, Recorded, AnswerRecord
<1>2. Bytes(AnswerObject(host)) = RecordSize(r)
  BY <1>1, RecordIs, BytesOf
<1> HIDE DEF r
<1>3. CASE k = RecordSize(r)
  BY <1>1, <1>3, MessagesFit
<1>4. CASE k # RecordSize(r)
  <2>1. p \in ShortReads
    BY <1>2, <1>4 DEF Reads
  <2>2. DecodeRecord(r, k) \in { host, Shortened(host), NoHost }
    BY <1>1 DEF DecodeRecord
  <2>3. DecodeRecord(r, k) # host => k < RecordSize(r)
    <3>1. /\ RecordSize(r) \in Nat /\ r.RDLENGTH \in 0 .. NameSize - 1
          /\ RecordNeeded(r) = RecordSize(r) - NameSize + r.RDLENGTH
      BY <1>1, RecordIs, MessagesFit DEF RecordNeeded, Record
    <3>2. k \in { RecordSize(r) - NameSize, RecordNeeded(r) - 1, RecordNeeded(r) }
      <4>1. AnswerObject(host).what = "record"
        BY DEF AnswerObject, Recorded
      <4>2. Cuts(AnswerObject(host)) = { RecordSize(r) - NameSize, RecordNeeded(r) - 1,
                                         RecordNeeded(r) }
        BY <1>1, <4>1 DEF Cuts
      <4> QED BY <1>2, <1>4, <4>2 DEF Reads
    <3> QED BY <3>1, <3>2 DEF NameSize
  <2> QED BY <1>1, <1>2, <2>1, <2>2, <2>3
<1> QED BY <1>1, <1>3, <1>4

LEMMA RecvRecordInv == ASSUME IInv, NEW p \in Proxy, RecvRecord(p) PROVE IInv'
<1>1. CASE ProxyDies(p)
  BY <1>1, DiesInv
<1>2. CASE ~ ProxyDies(p)
  <2>1. phase[p] = "recv" /\ at[p] = 4 /\ down[p] # << >>
    BY <1>2 DEF RecvRecord
  <2>2. PICK host \in HostSet : Gave(p, host) /\ Head(down[p]) = AnswerObject(host)
    BY <2>1, RecordAhead
  <2>3. PICK k \in Reads(p, AnswerObject(host)) :
          LET address == DecodeRecord(AnswerObject(host).record, k)
          IN  /\ Takes(p, k)
              /\ at' = [at EXCEPT ![p] = 1]
              /\ phase' = [phase EXCEPT ![p] = "idle"]
              /\ www_ip' = [www_ip EXCEPT ![p] = address]
              /\ UNCHANGED << lookups, up, link, backlog, nsVars >>
    BY <1>2, <2>2 DEF RecvRecord
  <2> DEFINE address == DecodeRecord(AnswerObject(host).record, k)
  <2>4. /\ \/ address = host
           \/ p \in ShortReads /\ address \in { Shortened(host), NoHost }
        /\ address # host => k < Bytes(AnswerObject(host))
    BY <2>3, RecordDecoded
  <2>5. /\ www_ip[p] = NoHost /\ Len(down[p]) = 1 /\ down[p] \in Seq(Objects)
        /\ serving = p /\ ns = "send" => nsAt > Len(reply)
    BY <2>1, RecordAhead
  <2>6. PICK d \in Seq(Objects) :
          /\ down' = [down EXCEPT ![p] = d]
          /\ (d = << >> /\ ~ (k < Bytes(AnswerObject(host)))) \/ OutOfStep(d)
    <3>1. down' = [down EXCEPT ![p] = Left(down[p], k)]
      BY <2>3 DEF Takes
    <3>2. Tail(down[p]) = << >>
      <4>1. Tail(down[p]) \in Seq(Objects) /\ Len(Tail(down[p])) = 0
        BY <2>1, <2>5, HeadTailProperties
      <4> QED BY <4>1, EmptySeq
    <3>3. /\ Left(down[p], k) \in Seq(Objects)
          /\ ~ (k < Bytes(Head(down[p]))) => Left(down[p], k) = Tail(down[p])
          /\ k < Bytes(Head(down[p])) => OutOfStep(Left(down[p], k))
      BY <2>1, <2>5, LeftIs
    <3> QED BY <2>2, <3>1, <3>2, <3>3
  <2>7. /\ address \in Addresses
        /\ ~ (k < Bytes(AnswerObject(host))) => address # NoHost
    BY <2>4, DnsAssumption DEF Addresses
  <2>8. Hears(p, "idle", 1, d, address)
    <3>1. /\ at' = [at EXCEPT ![p] = 1]
          /\ phase' = [phase EXCEPT ![p] = "idle"]
          /\ www_ip' = [www_ip EXCEPT ![p] = address]
          /\ UNCHANGED << lookups, up, link, backlog, nsVars >>
      BY <2>3
    <3> HIDE DEF address
    <3> QED BY <2>1, <2>6, <2>7, <3>1 DEF Hears
  <2> HIDE DEF address
  <2>9. /\ TypeOK' /\ LinkInv' /\ QueryInv' /\ ReplyInv' /\ LogInv'
        /\ AnswerOf(p)' => AnswerInv'
        /\ phase'[p] = "idle" /\ at'[p] = 1 /\ down'[p] = d /\ www_ip'[p] = address
        /\ \A q \in Proxy \ { p } : www_ip'[q] = www_ip[q]
        /\ UNCHANGED << ns, nsAt, serving, reply >>
    BY <2>8, HeardInv
  <2>10. AnswerOf(p)'
    <3>1. Position(p)' = 1
      BY <2>9 DEF Position
    <3>2. CASE OutOfStep(d)
      BY <2>7, <2>9, <3>1, <3>2 DEF AnswerOf, SentTo, OutOfStep
    <3>3. CASE d = << >> /\ ~ (k < Bytes(AnswerObject(host)))
      <4>1. Len(d) = 0
        BY <3>3
      <4> QED BY <2>5, <2>7, <2>9, <3>1, <3>3, <4>1 DEF AnswerOf, InStep, OutOfStep, SentTo
    <3> QED BY <2>6, <3>2, <3>3
  <2>11. UsesLoggedAddress'
    <3>1. \A q \in Proxy, h \in HostSet : Gave(q, h) => Gave(q, h)'
      BY <2>8, NsSame DEF Hears
    <3> QED BY <2>2, <2>4, <2>9, <3>1 DEF IInv, UsesLoggedAddress
  <2> QED BY <2>9, <2>10, <2>11 DEF IInv
<1> QED BY <1>1, <1>2

-----------------------------------------------------------------------------

LEMMA NsDiesInv == ASSUME IInv, NsDies PROVE IInv'
<1>1. /\ ns' = "dead"
      /\ UNCHANGED << nsAt, serving, size, reply, mode, index, log >>
      /\ UNCHANGED << phase, at, lookups, www_ip, up, down, link, backlog >>
  BY DEF NsDies, proxyVars
<1>2. \A p \in Proxy, host \in HostSet : Gave(p, host) => Gave(p, host)'
  BY <1>1 DEF Gave
<1>3. TypeOK'
  BY <1>1 DEF IInv, TypeOK
<1>4. LinkInv' /\ QueryInv' /\ ReplyInv'
  BY <1>1 DEF IInv, LinkInv, QueryInv, ReplyInv
<1>5. AnswerInv'
  BY <1>1, <1>2, AnswerKept DEF AnswerInv
<1>6. LogInv'
  BY <1>1 DEF IInv, LogInv, LogCycles
<1>7. UsesLoggedAddress'
  BY <1>1, <1>2, UsesKept
<1> QED BY <1>3, <1>4, <1>5, <1>6, <1>7 DEF IInv

LEMMA NsAcceptInv == ASSUME IInv, NsAccept PROVE IInv'
<1>0. PICK p : p = Head(backlog)
  OBVIOUS
<1>1. /\ ns = "accept" /\ ns' = "recv" /\ nsAt' = 1 /\ size' = 0 /\ serving' = p
      /\ backlog # << >> /\ backlog' = Tail(backlog)
      /\ link' = [link EXCEPT ![p] = "open"]
      /\ UNCHANGED << reply, mode, index, log >>
      /\ UNCHANGED << phase, at, lookups, www_ip, up, down >>
  BY <1>0 DEF NsAccept, proxyVars
<1>2. \A q \in Proxy, host \in HostSet : Gave(q, host) => Gave(q, host)'
  BY GaveKept DEF Next, NameServer
<1>3. /\ backlog \in Seq(Proxy) /\ Len(backlog) \in Nat \ {0} /\ p = backlog[1] /\ p \in Proxy
      /\ backlog' \in Seq(Proxy) /\ Len(backlog') = Len(backlog) - 1
      /\ \A i \in 1 .. Len(backlog') : backlog'[i] = backlog[i + 1] /\ backlog'[i] \in Proxy
  BY <1>0, <1>1, EmptySeq, HeadTailProperties, ElementOfSeq DEF IInv, TypeOK
<1>4. TypeOK'
  <2>1. 0 \in 0 .. MAX_MESSAGE_SIZE /\ 1 \in 1 .. 5
    BY DEF MAX_MESSAGE_SIZE
  <2> QED BY <1>1, <1>3, <2>1 DEF IInv, TypeOK
<1>5. /\ link'[p] = "open" /\ link[p] = "waiting"
      /\ \A q \in Proxy \ { p } : link'[q] = link[q]
  BY <1>1, <1>3 DEF IInv, TypeOK, LinkInv
<1>6. LinkInv'
  <2>1. ASSUME NEW i \in 1 .. Len(backlog') PROVE link'[backlog'[i]] = "waiting"
    <3>1. i + 1 \in 1 .. Len(backlog) /\ 1 \in 1 .. Len(backlog) /\ i + 1 # 1
      BY <1>3
    <3>2. backlog[i + 1] # p /\ link[backlog[i + 1]] = "waiting"
      BY <1>1, <1>3, <3>1 DEF IInv, LinkInv
    <3> QED BY <1>3, <1>5, <3>2
  <2>2. ASSUME NEW i \in 1 .. Len(backlog'), NEW j \in 1 .. Len(backlog'),
               backlog'[i] = backlog'[j]
        PROVE  i = j
    <3>1. i + 1 \in 1 .. Len(backlog) /\ j + 1 \in 1 .. Len(backlog)
      BY <1>3
    <3>2. i + 1 = j + 1
      BY <1>1, <1>3, <2>2, <3>1 DEF IInv, LinkInv
    <3> QED BY <1>3, <3>2
  <2>3. \A q \in Proxy : phase[q] = "start" => link'[q] = "none"
    BY <1>5 DEF IInv, LinkInv
  <2> QED BY <1>1, <1>3, <1>5, <2>1, <2>2, <2>3 DEF IInv, LinkInv
<1>7. QueryInv'
  <2>1. \A q \in Proxy : \A n : OnItsWay(q, n) => OnItsWay(q, n)'
    BY <1>1, OnItsWayKept
  <2>2. \A q \in Proxy : Unanswered(q)' => Unanswered(q)
    BY <1>1, <1>5 DEF Unanswered
  <2>3. \A q \in Proxy : Unanswered(q)' => Fresh(q)'
    BY <1>1, <2>2, FreshKept DEF IInv, QueryInv
  <2>4. \A q \in Proxy : link'[q] \in { "none", "waiting" } => OnItsWay(q, 1)'
    BY <1>1, <1>5, <2>1 DEF IInv, QueryInv
  <2>5. BeingRead'
    <3>1. OnItsWay(p, 1)'
      BY <1>1, <1>3, <1>5, <2>1 DEF IInv, QueryInv
    <3> QED BY <1>1, <3>1 DEF BeingRead, OnItsWay, SentOf
  <2> QED BY <2>3, <2>4, <2>5 DEF QueryInv
<1>8. ReplyInv'
  BY <1>1 DEF ReplyInv
<1>9. AnswerInv'
  BY <1>1, <1>2, AnswerKept DEF AnswerInv
<1>10. LogInv'
  BY <1>1 DEF IInv, LogInv, LogCycles, Unlogged
<1>11. UsesLoggedAddress'
  BY <1>1, <1>2, UsesKept
<1> QED BY <1>4, <1>6, <1>7, <1>8, <1>9, <1>10, <1>11 DEF IInv

(* What the nameserver reads of a query is the object it is at, and what   *)
(* it leaves is on its way to the next recv().                             *)
LEMMA TailOnItsWay ==
  ASSUME NEW p \in Proxy, NEW n \in 1 .. 4, OnItsWay(p, n),
         up[p] \in Seq(Objects), up[p] # << >>
  PROVE  /\ Head(up[p]) = Query[n]
         /\ up'[p] = Tail(up[p]) /\ phase'[p] = phase[p] /\ at'[p] = at[p]
              => \A m : m = n + 1 => OnItsWay(p, m)'
<1>1. Len(up[p]) \in Nat \ {0} /\ Head(up[p]) = up[p][1]
  BY EmptySeq
<1>2. Head(up[p]) = Query[n]
  <2>1. 1 \in 1 .. Len(up[p]) /\ 1 + n - 1 = n
    BY <1>1
  <2>2. up[p][1] = Query[1 + n - 1]
    BY <2>1 DEF OnItsWay
  <2> QED BY <1>1, <2>1, <2>2
<1>3. ASSUME up'[p] = Tail(up[p]), phase'[p] = phase[p], at'[p] = at[p], NEW m, m = n + 1
      PROVE  OnItsWay(p, m)'
  <2>1. /\ Len(up'[p]) = Len(up[p]) - 1
        /\ \A i \in 1 .. Len(up'[p]) : up'[p][i] = up[p][i + 1]
    BY <1>3, HeadTailProperties
  <2>2. Len(up'[p]) + m - 1 = Len(up[p]) + n - 1
    BY <1>1, <1>3, <2>1
  <2>3. ASSUME NEW i \in 1 .. Len(up'[p]) PROVE up'[p][i] = Query[i + m - 1]
    <3>1. i + 1 \in 1 .. Len(up[p]) /\ i + 1 + n - 1 = i + m - 1
      BY <1>1, <1>3, <2>1
    <3> QED BY <2>1, <3>1 DEF OnItsWay
  <2>4. SentOf(p)' = SentOf(p)
    BY <1>3 DEF SentOf
  <2> QED BY <1>3, <2>2, <2>3, <2>4 DEF OnItsWay
<1> QED BY <1>2, <1>3

LEMMA EndOnItsWay ==
  ASSUME NEW p \in Proxy, up'[p] = << >>, phase'[p] = "dead"
  PROVE  \A n \in 1 .. 4 : OnItsWay(p, n)'
<1>1. Len(<< >>) = 0
  OBVIOUS
<1> QED BY <1>1 DEF OnItsWay

LEMMA BeingReadFrom ==
  ASSUME NEW p \in Proxy, serving' = p, NEW n \in 1 .. 4, nsAt' = n, OnItsWay(p, n)'
  PROVE  BeingRead'
BY DEF BeingRead

(* The nameserver receives something of a query, and goes on, or answers.  *)
LEMMA NsReads ==
  ASSUME IInv, ns = "recv",
         NEW s \in Seq(Objects), up' = [up EXCEPT ![serving] = s]
  PROVE  /\ serving \in Proxy /\ link[serving] = "open" /\ Fresh(serving)
         /\ up'[serving] = s
         /\ \A q \in Proxy \ { serving } : up'[q] = up[q]
         /\ up' \in [Proxy -> Seq(Objects)]
BY DEF IInv, TypeOK, LinkInv, QueryInv, Unanswered

LEMMA GoesOnInv ==
  ASSUME IInv, ns = "recv", nsAt \in 1 .. 3,
         NEW s \in Seq(Objects), up' = [up EXCEPT ![serving] = s],
         NEW n \in 0 .. MAX_MESSAGE_SIZE \cup { TextAsSize }, NsGoesOn(n),
         BeingRead'
  PROVE  IInv'
<1>1. /\ nsAt' = nsAt + 1 /\ size' = n
      /\ UNCHANGED << ns, serving, reply, mode, index, log >>
      /\ UNCHANGED << phase, at, lookups, www_ip, down, link, backlog >>
  BY DEF NsGoesOn, proxyVars
<1>2. /\ serving \in Proxy /\ link[serving] = "open"
      /\ \A q \in Proxy \ { serving } : up'[q] = up[q]
      /\ up' \in [Proxy -> Seq(Objects)]
  BY NsReads
<1>3. \A q \in Proxy, host \in HostSet : Gave(q, host) => Gave(q, host)'
  BY <1>1 DEF Gave
<1>4. TypeOK'
  <2>1. nsAt' \in 1 .. 5
    BY <1>1
  <2> QED BY <1>1, <1>2, <2>1 DEF IInv, TypeOK
<1>5. LinkInv'
  BY <1>1 DEF IInv, LinkInv
<1>6. QueryInv'
  <2>1. \A q \in Proxy : link'[q] \in { "none", "waiting" } => OnItsWay(q, 1)'
    BY <1>1, <1>2, OnItsWayKept DEF IInv, QueryInv
  <2>2. \A q \in Proxy : Unanswered(q)' => Fresh(q)'
    BY <1>1, FreshKept DEF IInv, QueryInv, Unanswered
  <2> QED BY <2>1, <2>2 DEF QueryInv
<1>7. ReplyInv'
  BY <1>1 DEF ReplyInv
<1>8. AnswerInv'
  BY <1>1, <1>3, AnswerKept DEF AnswerInv
<1>9. LogInv'
  BY <1>1 DEF IInv, LogInv, LogCycles, Unlogged
<1>10. UsesLoggedAddress'
  BY <1>1, <1>3, UsesKept
<1> QED BY <1>4, <1>5, <1>6, <1>7, <1>8, <1>9, <1>10 DEF IInv

(* In round-robin mode the index chooses, and there is always a server.    *)
LEMMA ReplyOf ==
  ASSUME IInv, NEW p \in Proxy, NEW name
  PROVE  /\ Reply(p, name) \in Replies
         /\ mode = "RR" => Reply(p, name) = IF name = Domain THEN Answer(Hosts[index + 1])
                                            ELSE Refusal
         /\ mode = "RR" => Hosts[index + 1] \in HostSet
<1>1. Selected(p) \in HostSet \cup { NoHost } /\ (mode = "RR" => Hosts[index + 1] \in HostSet)
  BY HostsAre, DnsAssumption DEF Selected, IInv, TypeOK
<1>2. mode = "RR" => Selected(p) = Hosts[index + 1] /\ Selected(p) # NoHost
  BY <1>1, DnsAssumption DEF Selected
<1> QED BY <1>1, <1>2 DEF Reply, Replies

LEMMA AnswersInv ==
  ASSUME IInv, ns = "recv",
         NEW s \in Seq(Objects), up' = [up EXCEPT ![serving] = s],
         NEW name, NsAnswers(name)
  PROVE  IInv'
<1>1. /\ ns' = "send" /\ nsAt' = 1 /\ size' = 0 /\ reply' = Reply(serving, name)
      /\ index' = IF mode = "RR" /\ name = Domain THEN NextIndex ELSE index
      /\ UNCHANGED << serving, mode, log >>
      /\ UNCHANGED << phase, at, lookups, www_ip, down, link, backlog >>
  BY DEF NsAnswers, proxyVars
<1>2. /\ serving \in Proxy /\ link[serving] = "open" /\ Fresh(serving)
      /\ \A q \in Proxy \ { serving } : up'[q] = up[q]
      /\ up' \in [Proxy -> Seq(Objects)]
  BY NsReads
<1>3. \A q \in Proxy, host \in HostSet : Gave(q, host) => Gave(q, host)'
  BY <1>1 DEF Gave
<1>4. /\ reply' \in Replies
      /\ mode = "RR" => reply' = IF name = Domain THEN Answer(Hosts[index + 1]) ELSE Refusal
      /\ mode = "RR" => Hosts[index + 1] \in HostSet
  BY <1>1, <1>2, ReplyOf
<1>5. index \in Nat /\ NextIndex \in 0 .. Len(Hosts) - 1
  BY HostsAre DEF IInv, TypeOK, NextIndex
<1>6. TypeOK'
  <2>1. 1 \in 1 .. 5 /\ 0 \in 0 .. MAX_MESSAGE_SIZE
    BY DEF MAX_MESSAGE_SIZE
  <2>2. reply' \in Seq(Objects)
    BY <1>4, ReplyIs
  <2> QED BY <1>1, <1>2, <1>5, <2>1, <2>2 DEF IInv, TypeOK
<1>7. LinkInv'
  BY <1>1, <1>2 DEF IInv, LinkInv
<1>8. QueryInv'
  <2>1. \A q \in Proxy : link'[q] \in { "none", "waiting" } => OnItsWay(q, 1)'
    BY <1>1, <1>2, OnItsWayKept DEF IInv, QueryInv
  <2>2. \A q \in Proxy : Unanswered(q)' => Fresh(q)'
    BY <1>1, FreshKept DEF IInv, QueryInv, Unanswered
  <2> QED BY <1>1, <2>1, <2>2 DEF QueryInv
<1>9. ReplyInv'
  BY <1>1, <1>4 DEF ReplyInv
<1>10. AnswerInv'
  <2>1. \A q \in Proxy \ { serving } : AnswerOf(q)'
    BY <1>1, <1>3, AnswerKept
  <2>2. PICK p \in Proxy : p = serving
    BY <1>2
  <2>3. AnswerOf(p)'
    <3>1. Position(p)' = 1 /\ down'[p] = << >> /\ www_ip'[p] = NoHost /\ Len(<< >>) = 0
      BY <1>1, <1>2, <2>2 DEF Fresh, Position
    <3> QED BY <1>1, <3>1 DEF AnswerOf, InStep, OutOfStep, SentTo
  <2> QED BY <2>1, <2>2, <2>3 DEF AnswerInv
<1>11. LogInv'
  <2>1. Unlogged = 0 /\ Len(log) \in Nat /\ LogCycles'
    BY <1>1, LenProperties DEF IInv, TypeOK, Unlogged, LogInv, LogCycles
  <2>2. CASE mode = "RR" /\ name = Domain
    <3>1. index = Len(log) % Len(Hosts)
      <4>1. index = (Len(log) + 0) % Len(Hosts)
        BY <2>1, <2>2 DEF IInv, LogInv
      <4>2. Len(log) + 0 = Len(log)
        BY <2>1
      <4> QED BY <4>1, <4>2
    <3>2. reply' = Answer(Hosts[index + 1]) /\ reply' # Refusal
      BY <1>4, <2>2, AnswerIs
    <3>3. Unlogged' = 1
      BY <1>1, <3>2 DEF Unlogged
    <3>4. index' = (Len(log) + 1) % Len(Hosts)
      BY <1>1, <2>1, <2>2, <3>1, HostsAre DEF NextIndex
    <3> QED BY <1>1, <2>1, <3>1, <3>2, <3>3, <3>4 DEF LogInv
  <2>3. CASE ~ (mode = "RR" /\ name = Domain)
    <3>1. mode = "RR" => reply' = Refusal
      BY <1>4, <2>3
    <3>2. mode = "RR" => Unlogged' = 0
      BY <3>1 DEF Unlogged
    <3> QED BY <1>1, <2>1, <2>3, <3>2 DEF IInv, LogInv
  <2> QED BY <2>2, <2>3
<1>12. UsesLoggedAddress'
  BY <1>1, <1>3, UsesKept
<1> QED BY <1>6, <1>7, <1>8, <1>9, <1>10, <1>11, <1>12 DEF IInv

(* It reads the object that it is at: whole, *)
LEMMA WholeRead ==
  ASSUME IInv, ns = "recv", NsHas, NEW k, NsTakes(k)
  PROVE  /\ up[serving] \in Seq(Objects) /\ Tail(up[serving]) \in Seq(Objects)
         /\ Left(up[serving], k) \in Seq(Objects)
         /\ up' = [up EXCEPT ![serving] = Left(up[serving], k)]
         /\ \/ Left(up[serving], k) = Tail(up[serving]) /\ ~ (k < Bytes(Head(up[serving])))
            \/ OutOfStep(Left(up[serving], k)) /\ k < Bytes(Head(up[serving]))
<1>1. up[serving] \in Seq(Objects) /\ up[serving] # << >>
  BY DEF IInv, TypeOK, LinkInv, NsHas
<1>2. up' = [up EXCEPT ![serving] = Left(up[serving], k)]
  BY DEF NsTakes
<1> QED BY <1>1, <1>2, LeftIs, HeadTailProperties

LEMMA WholeGoesOn ==
  ASSUME IInv, ns = "recv", nsAt \in 1 .. 3, NsHas, OnItsWay(serving, nsAt),
         up' = [up EXCEPT ![serving] = Tail(up[serving])],
         NEW n \in 0 .. MAX_MESSAGE_SIZE \cup { TextAsSize }, NsGoesOn(n)
  PROVE  IInv'
<1>1. PICK p \in Proxy : p = serving
  BY DEF IInv, LinkInv
<1>2. PICK m \in 1 .. 3 : m = nsAt
  OBVIOUS
<1>3. up[p] \in Seq(Objects) /\ up[p] # << >> /\ Tail(up[p]) \in Seq(Objects)
  BY <1>1, HeadTailProperties DEF IInv, TypeOK, NsHas
<1>4. /\ nsAt' = m + 1 /\ serving' = p /\ phase'[p] = phase[p] /\ at'[p] = at[p]
      /\ m + 1 \in 1 .. 4
  BY <1>1, <1>2 DEF NsGoesOn, proxyVars
<1>5. up'[p] = Tail(up[p])
  BY <1>1, <1>3, NsReads
<1>6. OnItsWay(p, m)
  BY <1>1, <1>2
<1>7. OnItsWay(p, m + 1)'
  BY <1>3, <1>4, <1>5, <1>6, TailOnItsWay
<1>8. BeingRead'
  BY <1>4, <1>7, BeingReadFrom
<1> QED BY <1>1, <1>3, <1>8, GoesOnInv

(* ... or finds that nothing came and nothing will. *)
LEMMA EndedGoesOn ==
  ASSUME IInv, ns = "recv", nsAt \in 1 .. 3, NsEnded, UNCHANGED up, NsGoesOn(0)
  PROVE  IInv'
<1>1. PICK p \in Proxy : p = serving
  BY DEF IInv, LinkInv
<1>2. PICK m \in 1 .. 4 : m = nsAt + 1
  OBVIOUS
<1>3. nsAt' = m /\ serving' = p /\ phase'[p] = "dead" /\ up'[p] = << >>
  BY <1>1, <1>2 DEF NsGoesOn, NsEnded, proxyVars
<1>4. OnItsWay(p, m)'
  BY <1>3, EndOnItsWay
<1>5. BeingRead'
  BY <1>3, <1>4, BeingReadFrom
<1>6. 0 \in 0 .. MAX_MESSAGE_SIZE \cup { TextAsSize }
  BY DEF MAX_MESSAGE_SIZE
<1>7. up[serving] \in Seq(Objects) /\ up' = [up EXCEPT ![serving] = up[serving]]
  BY DEF IInv, TypeOK, LinkInv
<1> QED BY <1>5, <1>6, <1>7, GoesOnInv

(* The object that is read. *)
LEMMA HeadIs ==
  ASSUME IInv, ns = "recv", NsHas, NEW n \in 1 .. 4, OnItsWay(serving, n)
  PROVE  Head(up[serving]) = Query[n]
<1>1. serving \in Proxy /\ up[serving] \in Seq(Objects) /\ up[serving] # << >>
  BY DEF IInv, TypeOK, LinkInv, NsHas
<1> QED BY <1>1, TailOnItsWay

LEMMA HeaderSizeInv == ASSUME IInv, ns = "recv", NsRecvHeaderSize PROVE IInv'
<1>1. CASE NsDies
  BY <1>1, NsDiesInv
<1>2. CASE ~ NsDies
  <2>1. nsAt = 1 /\ NsHas /\ NsTakes(SizeBytes) /\ NsGoesOn(Head(up[serving]).value)
    BY <1>2 DEF NsRecvHeaderSize
  <2>2. OnItsWay(serving, nsAt)
    BY <2>1 DEF IInv, QueryInv, BeingRead
  <2>3. Head(up[serving]) \in SizeObject
    <3>1. Head(up[serving]) = Query[1]
      BY <2>1, <2>2, HeadIs
    <3> QED BY <3>1, QueryIs
  <2>4. up' = [up EXCEPT ![serving] = Tail(up[serving])]
    <3>1. Bytes(Head(up[serving])) = SizeBytes /\ ~ (SizeBytes < SizeBytes)
      BY <2>3, BytesOf DEF SizeBytes
    <3> QED BY <2>1, <3>1, WholeRead
  <2>5. Head(up[serving]).value \in 0 .. MAX_MESSAGE_SIZE
    BY <2>3, ObjectIs
  <2>6. nsAt \in 1 .. 3
    BY <2>1
  <2> QED BY <2>1, <2>2, <2>4, <2>5, <2>6, WholeGoesOn
<1> QED BY <1>1, <1>2

LEMMA HeaderInv == ASSUME IInv, ns = "recv", NsRecvHeader PROVE IInv'
<1>1. CASE NsDies
  BY <1>1, NsDiesInv
<1>2. nsAt = 2 /\ nsAt \in 1 .. 3 /\ OnItsWay(serving, nsAt)
      /\ 0 \in 0 .. MAX_MESSAGE_SIZE \cup { TextAsSize }
  BY DEF NsRecvHeader, IInv, QueryInv, BeingRead, MAX_MESSAGE_SIZE
<1>3. CASE NsEnded /\ UNCHANGED up /\ NsGoesOn(0)
  BY <1>2, <1>3, EndedGoesOn
<1>4. CASE NsHas /\ (\E k \in Reads(serving, Head(up[serving])) : NsTakes(k)) /\ NsGoesOn(0)
  <2>1. PICK k : NsTakes(k)
    BY <1>4
  <2>2. CASE Left(up[serving], k) = Tail(up[serving])
    BY <1>2, <1>4, <2>1, <2>2, WholeRead, WholeGoesOn
  <2>3. CASE OutOfStep(Left(up[serving], k))
    <3>1. PICK s \in Seq(Objects) : up' = [up EXCEPT ![serving] = s] /\ OutOfStep(s)
      BY <1>4, <2>1, <2>3, WholeRead
    <3>2. up'[serving] = s /\ nsAt' = 3 /\ serving' = serving
      <4>1. up'[serving] = s
        BY <3>1, NsReads
      <4> QED BY <1>2, <1>4, <4>1 DEF NsGoesOn
    <3>3. BeingRead'
      BY <3>1, <3>2 DEF BeingRead, OutOfStep
    <3> QED BY <1>2, <1>4, <3>1, <3>3, GoesOnInv
  <2> QED BY <1>4, <2>1, <2>2, <2>3, WholeRead
<1> QED BY <1>1, <1>3, <1>4 DEF NsRecvHeader

LEMMA QuestionSizeInv == ASSUME IInv, ns = "recv", NsRecvQuestionSize PROVE IInv'
<1>1. CASE NsDies
  BY <1>1, NsDiesInv
<1>2. /\ nsAt = 3 /\ nsAt \in 1 .. 3
      /\ OnItsWay(serving, nsAt) \/ OutOfStep(up[serving])
  BY DEF NsRecvQuestionSize, IInv, QueryInv, BeingRead
<1>3. CASE NsEnded /\ UNCHANGED up /\ NsGoesOn(0)
  BY <1>2, <1>3, EndedGoesOn
<1>4. CASE NsHas /\ ~ NsDies /\ ~ (NsEnded /\ UNCHANGED up /\ NsGoesOn(0))
  <2>1. PICK k \in Reads(serving, Head(up[serving])) :
          NsTakes(k) /\ NsGoesOn(SizeRead(Head(up[serving]), k))
    BY <1>4 DEF NsRecvQuestionSize
  <2>2. CASE OnItsWay(serving, 3)
    <3>1. Head(up[serving]) \in SizeObject
      <4>1. Head(up[serving]) = Query[3]
        BY <1>4, <2>2, HeadIs
      <4> QED BY <4>1, QueryIs
    <3>2. Bytes(Head(up[serving])) = SizeBytes /\ Head(up[serving]) # Rest
          /\ Head(up[serving]).value \in 0 .. MAX_MESSAGE_SIZE
      BY <3>1, BytesOf, ObjectIs
    <3>3. CASE k < SizeBytes
      <4>1. SizeRead(Head(up[serving]), k) = 0
        BY <3>2, <3>3 DEF SizeRead
      <4>2. PICK s \in Seq(Objects) : up' = [up EXCEPT ![serving] = s]
        BY <1>4, <2>1, WholeRead
      <4>3. nsAt' = 4 /\ size' = 0
        BY <1>2, <2>1, <4>1 DEF NsGoesOn
      <4>4. BeingRead'
        BY <4>3 DEF BeingRead
      <4>5. 0 \in 0 .. MAX_MESSAGE_SIZE \cup { TextAsSize }
        BY DEF MAX_MESSAGE_SIZE
      <4> QED BY <1>2, <2>1, <4>1, <4>2, <4>4, <4>5, GoesOnInv
    <3>4. CASE ~ (k < SizeBytes)
      <4>1. SizeRead(Head(up[serving]), k) \in 0 .. MAX_MESSAGE_SIZE \cup { TextAsSize }
        BY <3>2, <3>4 DEF SizeRead
      <4>2. up' = [up EXCEPT ![serving] = Tail(up[serving])]
        BY <1>4, <2>1, <3>2, <3>4, WholeRead
      <4> QED BY <1>2, <1>4, <2>1, <2>2, <4>1, <4>2, WholeGoesOn
    <3> QED BY <3>3, <3>4
  <2>3. CASE OutOfStep(up[serving])
    <3>1. SizeRead(Head(up[serving]), k) = TextAsSize
      BY <2>3 DEF SizeRead, OutOfStep
    <3>2. PICK s \in Seq(Objects) : up' = [up EXCEPT ![serving] = s]
      BY <1>4, <2>1, WholeRead
    <3>3. nsAt' = 4 /\ size' = TextAsSize
      BY <1>2, <2>1, <3>1 DEF NsGoesOn
    <3>4. TextAsSize \notin 1 .. MAX_MESSAGE_SIZE
      BY SMT DEF TextAsSize, MAX_MESSAGE_SIZE
    <3>5. BeingRead'
      BY <3>3, <3>4 DEF BeingRead, MAX_MESSAGE_SIZE
    <3> QED BY <1>2, <2>1, <3>1, <3>2, <3>5, GoesOnInv
  <2> QED BY <1>2, <2>2, <2>3
<1> QED BY <1>1, <1>3, <1>4 DEF NsRecvQuestionSize

LEMMA QuestionInv == ASSUME IInv, ns = "recv", NsRecvQuestion PROVE IInv'
<1>1. CASE NsDies
  BY <1>1, NsDiesInv
<1>2. CASE UNCHANGED up /\ NsAnswers(Unknown)
  <2>1. up[serving] \in Seq(Objects) /\ up' = [up EXCEPT ![serving] = up[serving]]
    BY <1>2 DEF IInv, TypeOK, LinkInv
  <2> QED BY <1>2, <2>1, AnswersInv
<1>3. CASE NsHas /\ \E k, name : NsTakes(k) /\ NsAnswers(name)
  BY <1>3, WholeRead, AnswersInv
<1> QED BY <1>1, <1>2, <1>3 DEF NsRecvQuestion

LEMMA NsRecvInv == ASSUME IInv, NsRecv PROVE IInv'
BY HeaderSizeInv, HeaderInv, QuestionSizeInv, QuestionInv DEF NsRecv

LEMMA NsSendInv == ASSUME IInv, NsSend PROVE IInv'
<1> SUFFICES ASSUME ns = "send", nsAt =< Len(reply),
                    down' = IF phase[serving] = "dead" THEN down
                            ELSE [down EXCEPT ![serving] = Append(@, reply[nsAt])],
                    nsAt' = nsAt + 1,
                    UNCHANGED << ns, serving, size, reply, mode, index, log >>,
                    UNCHANGED << phase, at, lookups, www_ip, up, link, backlog >>
             PROVE  IInv'
  BY NsDiesInv DEF NsSend, proxyVars
<1>1. PICK p \in Proxy : p = serving
  BY DEF IInv, LinkInv
<1>2. /\ nsAt \in Nat \ {0} /\ Len(reply) \in { 2, 4 } /\ reply \in Replies
      /\ nsAt \in 1 .. Len(reply) /\ reply[nsAt] \in Objects
  <2>1. reply \in Replies /\ nsAt \in 1 .. 5 /\ reply \in Seq(Objects)
    BY DEF IInv, ReplyInv, TypeOK
  <2>2. Len(reply) \in { 2, 4 }
    BY <2>1, ReplyIs
  <2>3. nsAt \in 1 .. Len(reply)
    <3> DEFINE n == Len(reply)
    <3>1. nsAt =< n /\ n \in { 2, 4 }
      BY <2>2
    <3> HIDE DEF n
    <3>2. nsAt \in 1 .. n
      BY <2>1, <3>1
    <3> QED BY <3>2 DEF n
  <2> QED BY <2>1, <2>2, <2>3, ElementOfSeq
<1>3. \A q \in Proxy, host \in HostSet : Gave(q, host) => Gave(q, host)'
  BY DEF Gave
<1>4. PICK e \in Objects, n \in 1 .. 4 : e = reply[nsAt] /\ n = nsAt
  <2> DEFINE l == Len(reply)
  <2>1. l \in { 2, 4 } /\ nsAt \in 1 .. l
    BY <1>2
  <2> HIDE DEF l
  <2>2. nsAt \in 1 .. 4
    BY <2>1
  <2> QED BY <1>2, <2>2
<1>5. Append(down[p], e) \in Seq(Objects) /\ down[p] \in Seq(Objects) /\ Len(down[p]) \in Nat
  BY AppendProperties, LenProperties DEF IInv, TypeOK
<1>6. /\ \A q \in Proxy \ { p } : down'[q] = down[q]
      /\ phase[p] # "dead" => down'[p] = Append(down[p], e)
      /\ down' \in [Proxy -> Seq(Objects)]
  BY <1>1, <1>4, <1>5 DEF IInv, TypeOK
<1>7. TypeOK'
  <2>1. nsAt' \in 1 .. 5
    BY <1>4
  <2> QED BY <1>6, <2>1 DEF IInv, TypeOK
<1>8. LinkInv'
  BY DEF IInv, LinkInv
<1>9. QueryInv'
  <2>1. \A q \in Proxy : \A m : OnItsWay(q, m) => OnItsWay(q, m)'
    BY OnItsWayKept
  <2>2. ~ Unanswered(p)'
    BY <1>1 DEF IInv, LinkInv, Unanswered
  <2>3. \A q \in Proxy : Unanswered(q)' => Fresh(q)'
    BY <1>6, <2>2, FreshKept DEF IInv, QueryInv, Unanswered
  <2> QED BY <2>1, <2>3 DEF IInv, QueryInv
<1>10. ReplyInv' /\ LogInv'
  BY DEF IInv, ReplyInv, LogInv, LogCycles, Unlogged
<1>11. AnswerInv'
  <2>1. \A q \in Proxy \ { p } : AnswerOf(q)'
    BY <1>1, <1>3, <1>6, AnswerKept
  <2>2. CASE phase[p] = "dead"
    BY <2>1, <2>2 DEF AnswerInv, AnswerOf
  <2>3. CASE phase[p] # "dead"
    <3>1. /\ OutOfStep(down[p]) \/ InStep(p)
          /\ OutOfStep(down[p]) => Position(p) \in { 1, 3 }
          /\ www_ip[p] # NoHost => Position(p) = 1 /\ (down[p] = << >> \/ OutOfStep(down[p]))
          /\ SentTo(p)
      BY <1>1, <2>3 DEF IInv, AnswerInv, AnswerOf
    <3>2. down'[p] = Append(down[p], e)
      BY <1>6, <2>3
    <3>3. /\ Len(down'[p]) = Len(down[p]) + 1
          /\ \A i \in 1 .. Len(down[p]) : down'[p][i] = down[p][i]
          /\ down'[p][Len(down[p]) + 1] = e
          /\ down'[p] # << >>
          /\ Head(down'[p]) = IF down[p] = << >> THEN e ELSE Head(down[p])
      BY <1>5, <3>2, AppendProperties, HeadTailAppend
    <3>4. Position(p)' = Position(p) /\ Position(p) \in 1 .. 4
      BY DEF Position, IInv, TypeOK
    <3>5. CASE OutOfStep(down[p])
      <4>1. OutOfStep(down[p])'
        BY <3>3, <3>5 DEF OutOfStep
      <4> QED BY <2>1, <3>1, <3>4, <3>5, <4>1 DEF AnswerInv, AnswerOf, SentTo
    <3>6. CASE ~ OutOfStep(down[p])
      <4>1. www_ip[p] = NoHost /\ Len(down[p]) + Position(p) = n /\ InStep(p)
        <5> DEFINE l == Len(reply)
        <5>1. nsAt \in 1 .. l /\ l \in { 2, 4 }
          BY <1>2
        <5> HIDE DEF l
        <5>2. ~ (nsAt > l)
          BY <5>1
        <5>3. ~ (nsAt > Len(reply))
          BY <5>2 DEF l
        <5> QED BY <1>4, <3>1, <3>6, <5>3 DEF SentTo
      <4>2. e \in Slot(Given(p), n)
        <5>1. CASE reply = Refusal
          <6>1. n \in { 1, 2 }
            BY <1>2, <1>4, <5>1, RefusalIs
          <6> QED BY <1>4, <5>1, <6>1, RefusalIs, SlotForms
        <5>2. ASSUME NEW host \in HostSet, reply = Answer(host)
              PROVE  e \in Slot(Given(p), n)
          <6>1. host \in Given(p)
            BY <1>1, <5>2 DEF Given, Gave
          <6>2. n = 1 \/ n = 2 \/ n = 3 \/ n = 4
            OBVIOUS
          <6> QED BY <1>4, <5>2, <6>1, <6>2, AnswerIs, SlotForms
        <5> QED BY <1>2, <5>1, <5>2 DEF Replies
      <4>3. InStep(p)'
        <5>1. Given(p) \subseteq Given(p)' /\ Given(p) \in SUBSET HostSet
              /\ Given(p)' \in SUBSET HostSet
          BY <1>3, GivenKept
        <5>2. \A i : Slot(Given(p), i) \subseteq Slot(Given(p)', i)
          BY <5>1, SlotGrows
        <5>3. ASSUME NEW i \in 1 .. Len(down'[p])
              PROVE  down'[p][i] \in Slot(Given(p), i + Position(p) - 1)
          <6>1. CASE i = Len(down[p]) + 1
            <7>1. i + Position(p) - 1 = n
              BY <1>5, <3>4, <4>1, <6>1
            <7> QED BY <3>3, <4>2, <6>1, <7>1
          <6>2. CASE i # Len(down[p]) + 1
            <7>1. i \in 1 .. Len(down[p])
              BY <1>5, <3>3, <6>2
            <7> QED BY <3>3, <4>1, <7>1 DEF InStep
          <6> QED BY <6>1, <6>2
        <5> QED BY <3>4, <5>2, <5>3 DEF InStep
      <4>4. ~ OutOfStep(down[p])'
        <5>1. e # Rest
          BY <4>2, SlotIs DEF Given
        <5> QED BY <3>3, <3>6, <5>1 DEF OutOfStep
      <4>5. SentTo(p)'
        BY <1>4, <1>5, <3>3, <3>4, <4>1 DEF SentTo
      <4> QED BY <2>1, <4>1, <4>3, <4>4, <4>5 DEF AnswerInv, AnswerOf
    <3> QED BY <3>5, <3>6
  <2> QED BY <2>2, <2>3
<1>12. UsesLoggedAddress'
  BY <1>3, UsesKept
<1> QED BY <1>7, <1>8, <1>9, <1>10, <1>11, <1>12 DEF IInv

LEMMA NsCloseInv == ASSUME IInv, NsClose PROVE IInv'
<1>1. /\ ns = "send" /\ link' = HangUp(serving)
      /\ \/ reply = Refusal /\ NsReturns
         \/ reply # Refusal /\ ns' = "log" /\ UNCHANGED << nsAt, serving, reply >>
      /\ UNCHANGED << size, mode, index, log >>
      /\ UNCHANGED << phase, at, lookups, www_ip, up, down, backlog >>
  BY DEF NsClose, proxyVars
<1>2. PICK p \in Proxy : p = serving
  BY <1>1 DEF IInv, LinkInv
<1>3. \A q \in Proxy, host \in HostSet : Gave(q, host) => Gave(q, host)'
  BY GaveKept DEF Next, NameServer
<1>4. /\ ns' \in { "accept", "log" } /\ nsAt' \in 1 .. 5 /\ serving' \in Proxy \cup { NoProxy }
      /\ reply' \in Seq(Objects)
      /\ ns' = "log" => serving' = p /\ reply' = reply
  <2>1. << >> \in Seq(Objects) /\ 1 \in 1 .. 5
    BY EmptySeq
  <2> QED BY <1>1, <1>2, <2>1 DEF NsReturns, IInv, TypeOK
<1>5. /\ link'[p] \in { "closed", "reset" } /\ link[p] = "open"
      /\ \A q \in Proxy \ { p } : link'[q] = link[q]
      /\ link' \in [Proxy -> { "none", "waiting", "open", "closed", "reset" }]
  BY <1>1, <1>2 DEF HangUp, IInv, TypeOK, LinkInv
<1>6. TypeOK'
  BY <1>1, <1>4, <1>5 DEF IInv, TypeOK
<1>7. LinkInv'
  <2>1. \A i \in 1 .. Len(backlog) : backlog[i] \in Proxy
    BY ElementOfSeq DEF IInv, TypeOK
  <2>2. \A i \in 1 .. Len(backlog) : link'[backlog[i]] = "waiting"
    BY <1>1, <1>5, <2>1 DEF IInv, LinkInv
  <2> QED BY <1>1, <1>4, <1>5, <2>2 DEF IInv, LinkInv
<1>8. QueryInv'
  <2>1. \A q \in Proxy : Unanswered(q)' => Fresh(q)'
    BY <1>1, <1>4, <1>5, FreshKept DEF IInv, QueryInv, Unanswered
  <2>2. \A q \in Proxy : link'[q] \in { "none", "waiting" } => OnItsWay(q, 1)'
    BY <1>1, <1>5, OnItsWayKept DEF IInv, QueryInv
  <2> QED BY <1>4, <2>1, <2>2 DEF QueryInv
<1>9. ReplyInv'
  BY <1>1, <1>4 DEF IInv, ReplyInv, NsReturns
<1>10. AnswerInv'
  BY <1>1, <1>3, <1>4, AnswerKept DEF AnswerInv
<1>11. LogInv'
  <2>1. Unlogged' = Unlogged /\ (Unlogged = 1 => reply' = reply)
    BY <1>1 DEF Unlogged, NsReturns
  <2> QED BY <1>1, <2>1 DEF IInv, LogInv, LogCycles
<1>12. UsesLoggedAddress'
  BY <1>1, <1>3, UsesKept
<1> QED BY <1>6, <1>7, <1>8, <1>9, <1>10, <1>11, <1>12 DEF IInv

LEMMA NsLogInv == ASSUME IInv, NsLog PROVE IInv'
<1>1. /\ ns = "log" /\ log' = Append(log, Line) /\ ns' = "accept" /\ nsAt' = 1
      /\ serving' = NoProxy /\ reply' = << >>
      /\ UNCHANGED << size, mode, index >>
      /\ UNCHANGED << phase, at, lookups, www_ip, up, down, link, backlog >>
  BY DEF NsLog, NsReturns, proxyVars
<1>2. \A q \in Proxy, host \in HostSet : Gave(q, host) => Gave(q, host)'
  BY GaveKept DEF Next, NameServer
<1>3. PICK host \in HostSet : reply = Answer(host) /\ Line = << serving, host >>
  BY <1>1, LineIs
<1>4. /\ log \in Seq(Proxy \X HostSet) /\ Len(log) \in Nat
      /\ log' \in Seq(Proxy \X HostSet) /\ Len(log') = Len(log) + 1
      /\ \A i \in 1 .. Len(log) : log'[i] = log[i]
      /\ log'[Len(log) + 1] = Line
  BY <1>1, LineIs, AppendProperties, LenProperties DEF IInv, TypeOK
<1>5. TypeOK'
  <2>1. << >> \in Seq(Objects) /\ 1 \in 1 .. 5
    BY EmptySeq
  <2> QED BY <1>1, <1>4, <2>1 DEF IInv, TypeOK
<1>6. LinkInv'
  BY <1>1 DEF IInv, LinkInv
<1>7. QueryInv'
  <2>1. \A q \in Proxy : Unanswered(q)' => Fresh(q)'
    BY <1>1, FreshKept DEF IInv, QueryInv, Unanswered
  <2>2. \A q \in Proxy : link'[q] \in { "none", "waiting" } => OnItsWay(q, 1)'
    BY <1>1, OnItsWayKept DEF IInv, QueryInv
  <2> QED BY <1>1, <2>1, <2>2 DEF QueryInv
<1>8. ReplyInv'
  BY <1>1 DEF ReplyInv
<1>9. AnswerInv'
  BY <1>1, <1>2, AnswerKept DEF AnswerInv
<1>10. LogInv'
  <2> SUFFICES ASSUME mode = "RR" PROVE LogInv'
    BY <1>1 DEF LogInv, LogCycles
  <2>1. Unlogged = 1 /\ Unlogged' = 0
    BY <1>1 DEF Unlogged, IInv, ReplyInv
  <2>2. index = (Len(log) + 1) % Len(Hosts) /\ reply = Answer(Hosts[(Len(log) % Len(Hosts)) + 1])
    BY <1>1, <2>1 DEF IInv, LogInv
  <2>3. index' = (Len(log') + Unlogged') % Len(Hosts)
    <3>1. Len(log') + Unlogged' = Len(log) + 1
      BY <1>4, <2>1
    <3> QED BY <1>1, <2>2, <3>1
  <2>4. host = Hosts[(Len(log) % Len(Hosts)) + 1]
    <3>1. Hosts[(Len(log) % Len(Hosts)) + 1] \in HostSet
      BY <1>4, HostsAre
    <3> QED BY <1>3, <2>2, <3>1, AnswerIs
  <2>5. ASSUME NEW i \in 1 .. Len(log') PROVE log'[i][2] = Hosts[((i - 1) % Len(Hosts)) + 1]
    <3>1. CASE i = Len(log) + 1
      <4>1. i - 1 = Len(log)
        BY <1>4, <3>1
      <4> QED BY <1>3, <1>4, <2>4, <3>1, <4>1
    <3>2. CASE i # Len(log) + 1
      <4>1. i \in 1 .. Len(log)
        BY <1>4, <3>2
      <4> QED BY <1>4, <4>1 DEF IInv, LogInv, LogCycles
    <3> QED BY <3>1, <3>2
  <2> QED BY <1>1, <2>1, <2>3, <2>5 DEF LogInv, LogCycles
<1>11. UsesLoggedAddress'
  BY <1>1, <1>2, UsesKept
<1> QED BY <1>5, <1>6, <1>7, <1>8, <1>9, <1>10, <1>11 DEF IInv

LEMMA AsksInv == ASSUME IInv, NEW p \in Proxy, Asks(p) PROVE IInv'
BY SendQueryInv, RecvSizeInv, RecvHeaderInv, RecvRecordInv DEF Asks

LEMMA NextInv == IInv /\ [Next]_vars => IInv'
<1> SUFFICES ASSUME IInv, [Next]_vars PROVE IInv'
  OBVIOUS
<1>1. CASE NameServer
  BY <1>1, NsAcceptInv, NsRecvInv, NsSendInv, NsCloseInv, NsLogInv DEF NameServer
<1>2. ASSUME NEW p \in Proxy, StartFails(p) \/ Connect(p) \/ Lookup(p) \/ Asks(p)
               \/ CannotConnect(p) \/ Exit(p)
      PROVE  IInv'
  <2>1. StartFails(p) \/ CannotConnect(p) \/ Exit(p) => ProxyDies(p)
    BY DEF StartFails, CannotConnect, Exit
  <2> QED BY <1>2, <2>1, DiesInv, ConnectInv, LookupInv, AsksInv
<1>3. CASE UNCHANGED vars
  <2>1. UNCHANGED << phase, at, lookups, www_ip, up, down, link, backlog, ns, nsAt, serving,
                     size, reply, mode, index, log >>
    BY <1>3 DEF vars, proxyVars, nsVars
  <2>2. TypeOK' /\ LinkInv'
    BY <2>1 DEF IInv, TypeOK, LinkInv
  <2>3. QueryInv'
    BY <2>1 DEF IInv, QueryInv, OnItsWay, SentOf, Unanswered, Fresh, BeingRead, OutOfStep
  <2>4. \A p \in Proxy, host \in HostSet : Gave(p, host) => Gave(p, host)'
    BY <2>1 DEF Gave
  <2>5. AnswerInv'
    BY <2>1, <2>4, AnswerKept DEF AnswerInv
  <2>6. ReplyInv' /\ LogInv'
    BY <2>1 DEF IInv, ReplyInv, LogInv, LogCycles, Unlogged
  <2>7. UsesLoggedAddress'
    BY <2>1, <2>4, UsesKept
  <2> QED BY <2>2, <2>3, <2>5, <2>6, <2>7 DEF IInv
<1> QED BY <1>1, <1>2, <1>3 DEF Next

LEMMA InvAlways == Spec => []IInv
<1> QED BY InitInv, NextInv, PTL DEF Spec

(***************************************************************************)
(* Every variable keeps its type: no stream ever holds anything but the    *)
(* objects of the lookup and what a short read left of one, the place in   *)
(* a message never leaves it, and the index stays in the list.             *)
(***************************************************************************)
THEOREM TypeCorrect == Spec => []TypeOK
<1>1. IInv => TypeOK
  BY DEF IInv
<1> QED BY <1>1, InvAlways, PTL

(***************************************************************************)
(* RoundRobin::next: whoever asks, leaves or is cut short, the lines of    *)
(* the log go through the servers file in its order, over and over.        *)
(***************************************************************************)
THEOREM LogCyclesAlways == Spec => []LogCycles
<1>1. IInv => LogCycles
  BY DEF IInv, LogInv
<1> QED BY <1>1, InvAlways, PTL

(***************************************************************************)
(* request_dns and handle_connection: the address a proxy uses is the one  *)
(* that was given to it, or the beginning of that one where a recv() may   *)
(* return a part of a message; never the address given to another.         *)
(***************************************************************************)
THEOREM UsesLoggedAddressAlways == Spec => []UsesLoggedAddress
<1>1. IInv => UsesLoggedAddress
  BY DEF IInv
<1> QED BY <1>1, InvAlways, PTL

-----------------------------------------------------------------------------

(* What the steps of a proxy are in OneAnswer. *)
LEMMA DiesPromised ==
  ASSUME TypeOK, NEW p \in Proxy, phase[p] # "dead", ProxyDies(p)
  PROVE  Promise!Next
<1> DEFINE alive == [q \in Proxy |-> phase[q] # "dead"]
<1>1. alive[p] = TRUE
  BY Zenon
<1>2. alive' = [alive EXCEPT ![p] = FALSE]
  <2>1. \A q \in Proxy : phase'[q] = IF q = p THEN "dead" ELSE phase[q]
    BY DEF ProxyDies, TypeOK
  <2> QED BY <2>1
<1>3. UNCHANGED www_ip
  BY DEF ProxyDies
<1>4. Promise!Die(p)
  BY <1>1, <1>2, <1>3 DEF Promise!Die
<1> QED BY <1>4 DEF Promise!Next

LEMMA LearnsPromised ==
  ASSUME IInv, NEW p \in Proxy, RecvRecord(p), ~ ProxyDies(p)
  PROVE  [Promise!Next]_(Promise!vars)
<1> DEFINE alive == [q \in Proxy |-> phase[q] # "dead"]
<1>1. phase[p] = "recv" /\ at[p] = 4 /\ down[p] # << >>
  BY DEF RecvRecord
<1>2. PICK host \in HostSet : Gave(p, host) /\ Head(down[p]) = AnswerObject(host)
  BY <1>1, RecordAhead
<1>3. PICK k \in Reads(p, AnswerObject(host)) :
        LET address == DecodeRecord(AnswerObject(host).record, k)
        IN  /\ phase' = [phase EXCEPT ![p] = "idle"]
            /\ www_ip' = [www_ip EXCEPT ![p] = address]
  BY <1>2 DEF RecvRecord
<1> DEFINE address == DecodeRecord(AnswerObject(host).record, k)
<1>4. address \in HostSet \cup { Shortened(h) : h \in HostSet } \/ address = NoHost
  BY <1>3, RecordDecoded
<1>5. www_ip[p] = NoHost
  BY <1>1, RecordAhead
<1>6. alive[p] = TRUE
  BY <1>1, Zenon
<1>7. alive' = alive
  <2>1. \A q \in Proxy : phase'[q] # "dead" <=> phase[q] # "dead"
    BY <1>1, <1>3 DEF IInv, TypeOK
  <2> QED BY <2>1
<1>8. www_ip' = [www_ip EXCEPT ![p] = address]
  BY <1>3
<1> HIDE DEF address, alive
<1>9. CASE address = NoHost
  <2>1. www_ip' = www_ip
    BY <1>5, <1>8, <1>9 DEF IInv, TypeOK
  <2> QED BY <1>7, <2>1 DEF Promise!vars, alive
<1>10. CASE address \in HostSet \cup { Shortened(h) : h \in HostSet }
  <2>1. Promise!Learn(p)
    BY <1>5, <1>6, <1>7, <1>8, <1>10 DEF Promise!Learn, alive
  <2> QED BY <2>1 DEF Promise!Next
<1> QED BY <1>4, <1>9, <1>10

LEMMA OthersPromised ==
  ASSUME TypeOK, UNCHANGED www_ip,
         \A p \in Proxy : phase'[p] = "dead" <=> phase[p] = "dead"
  PROVE  UNCHANGED Promise!vars
<1>1. [q \in Proxy |-> phase[q] # "dead"]' = [q \in Proxy |-> phase[q] # "dead"]
  OBVIOUS
<1> QED BY <1>1 DEF Promise!vars

LEMMA StepPromised ==
  ASSUME IInv, [Next]_vars
  PROVE  [Promise!Next]_(Promise!vars)
<1>0. TypeOK
  BY DEF IInv
<1>1. CASE UNCHANGED << phase, www_ip >>
  BY <1>0, <1>1, OthersPromised
<1>2. NameServer => UNCHANGED << phase, www_ip >>
  BY DEF NameServer, NsAccept, NsRecv, NsRecvHeaderSize, NsRecvHeader, NsRecvQuestionSize,
         NsRecvQuestion, NsGoesOn, NsAnswers, NsDies, NsSend, NsClose, NsLog, proxyVars
<1>3. ASSUME NEW p \in Proxy, StartFails(p) \/ Connect(p) \/ Lookup(p) \/ Asks(p)
               \/ CannotConnect(p) \/ Exit(p)
      PROVE  [Promise!Next]_(Promise!vars)
  <2>1. phase[p] # "dead"
    BY <1>3 DEF StartFails, Connect, Lookup, Asks, CannotConnect, Exit, SendQuery,
                RecvSize, RecvHeader, RecvRecord
  <2>2. CASE ProxyDies(p)
    BY <1>0, <2>1, <2>2, DiesPromised
  <2>3. CASE RecvRecord(p) /\ ~ ProxyDies(p)
    BY <2>3, LearnsPromised
  <2>4. CASE ~ RecvRecord(p) /\ ~ ProxyDies(p)
    <3>1. UNCHANGED www_ip
      BY <1>3, <2>4 DEF StartFails, Connect, Lookup, Asks, CannotConnect, Exit, SendQuery,
                            RecvSize, RecvHeader
    <3>2. PICK u : u # "dead" /\ phase' = [phase EXCEPT ![p] = u]
      <4>1. phase = [phase EXCEPT ![p] = phase[p]]
        BY <1>0 DEF TypeOK
      <4>2. \/ phase' = [phase EXCEPT ![p] = "idle"] \/ phase' = [phase EXCEPT ![p] = "send"]
            \/ phase' = [phase EXCEPT ![p] = "recv"] \/ phase' = phase
        BY <1>3, <2>4 DEF StartFails, Connect, Lookup, Asks, CannotConnect, Exit, SendQuery,
                            RecvSize, RecvHeader
      <4> QED BY <2>1, <4>1, <4>2
    <3>3. \A q \in Proxy : phase'[q] = "dead" <=> phase[q] = "dead"
      BY <1>0, <2>1, <3>2 DEF TypeOK
    <3> QED BY <1>0, <3>1, <3>3, OthersPromised
  <2> QED BY <2>2, <2>3, <2>4
<1>4. UNCHANGED vars => UNCHANGED << phase, www_ip >>
  BY DEF vars, proxyVars
<1> QED BY <1>1, <1>2, <1>3, <1>4 DEF Next

(***************************************************************************)
(* The lookup implements OneAnswer: a proxy, which keeps one connection    *)
(* for its lifetime and may ask again and again over it, is given one      *)
(* address that it never changes, or ends: the empty address of a cut      *)
(* record is none, and request_dns never hands the proxy a second one.     *)
(***************************************************************************)
THEOREM PromiseAlwaysKept == Spec => PromiseKept
<1>1. Init => Promise!Init
  <2>1. Init => [q \in Proxy |-> phase[q] # "dead"] = [q \in Proxy |-> TRUE]
    BY DEF Init
  <2> QED BY <2>1 DEF Init, Promise!Init
<1>2. IInv /\ [Next]_vars => [Promise!Next]_(Promise!vars)
  BY StepPromised
<1> QED BY <1>1, <1>2, InvAlways, PTL DEF Spec, PromiseKept, Promise!Spec
=============================================================================
