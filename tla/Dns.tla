--------------------------------- MODULE Dns ---------------------------------
(***************************************************************************)
(* The lookup: miProxy processes, each with one connection to the          *)
(* nameserver that it opens when it starts, and the nameserver, which      *)
(* serves the connections one by one (init_dns_socket and request_dns of   *)
(* miProxy.cpp; run_server, handle_connection of nameserver.cpp;           *)
(* RoundRobin of utils.cpp).                                               *)
(*                                                                         *)
(* A query and an answer are each two messages, sent after their sizes.    *)
(* Every size and every message is sent by one send(), and taken by one    *)
(* recv(), which may return a part of it; each of these calls is a step of *)
(* its own.                                                                *)
(***************************************************************************)
EXTENDS DnsMessages, Sequences, FiniteSets

CONSTANTS
  Proxy,        \* the proxies, by address
  NoProxy,      \* nobody is served
  Hosts,        \* the addresses of the servers file, in its order
  Nearest,      \* Geography: the server found for a proxy, NoHost for none
  Modes,        \* "RR", "GEO", "EMPTY": how the nameserver may be started
  MaxLookups,   \* bound: lookups each proxy starts
  Leaving,      \* the proxies that may fail to start, or be stopped
  ShortReads,   \* the proxies on whose connection recv() may return a part
  TextLength    \* the length of each address, as text

HostSet == { Hosts[i] : i \in 1 .. Len(Hosts) }

ASSUME DnsAssumption ==
  /\ Hosts \in Seq(HostSet) /\ Hosts # << >>
  /\ NoHost \notin HostSet
  /\ NoProxy \notin Proxy
  /\ Nearest \in [Proxy -> HostSet \cup { NoHost }]
  /\ Modes \subseteq { "RR", "GEO", "EMPTY" }
  /\ MaxLookups \in [Proxy -> Nat]
  /\ Leaving \subseteq Proxy
  /\ ShortReads \subseteq Proxy
  /\ TextLength \in [HostSet \cup { NoHost } -> 0 .. 15]

(* What a stream carries.  Nobody looks at a header but for its size.      *)
(* Rest is what a short read left of a message, and is text.               *)
SizeOf(n)   == [ what |-> "size", value |-> n ]
Headed(h)   == [ what |-> "header", bytes |-> HeaderSize(h) ]
Asked(q)    == [ what |-> "question", question |-> q ]
Recorded(r) == [ what |-> "record", record |-> r ]
Rest        == [ what |-> "rest" ]

Objects ==
  [ what : { "size" }, value : 0 .. MAX_MESSAGE_SIZE ]
    \cup [ what : { "header" }, bytes : 1 .. MAX_MESSAGE_SIZE ]
    \cup [ what : { "question" }, question : Question ]
    \cup [ what : { "record" }, record : Record(HostSet) ]
    \cup { Rest }

(* The least size that four characters of text can be taken for. *)
TextAsSize == 2 ^ 29

Query ==
  << SizeOf(HeaderSize(QueryHeader)), Headed(QueryHeader),
     SizeOf(QuestionSize(QueryQuestion)), Asked(QueryQuestion) >>

Refusal ==
  LET h == AnswerHeader(QueryHeader, FALSE)
  IN  << SizeOf(HeaderSize(h)), Headed(h) >>

Answer(host) ==
  LET h == AnswerHeader(QueryHeader, TRUE)
      r == AnswerRecord(host, TextLength[host])
  IN  << SizeOf(HeaderSize(h)), Headed(h), SizeOf(RecordSize(r)), Recorded(r) >>

Bytes(o) ==
  CASE o.what = "size"     -> SizeBytes
    [] o.what = "header"   -> o.bytes
    [] o.what = "question" -> QuestionSize(o.question)
    [] o.what = "record"   -> RecordSize(o.record)
    [] o.what = "rest"     -> 1

(* Where a recv() may stop before the end: the reads that differ in what   *)
(* they deliver.                                                           *)
Cuts(o) ==
  CASE o.what = "size"     -> { SizeBytes - 1 }
    [] o.what = "header"   -> { o.bytes - 1 }
    [] o.what = "question" -> { QuestionSize(o.question) - NameSize,
                                QuestionNeeded(o.question) }
    [] o.what = "record"   -> { RecordSize(o.record) - NameSize,
                                RecordNeeded(o.record) - 1,
                                RecordNeeded(o.record) }
    [] o.what = "rest"     -> {}

(* How much of it the recv() returns, and what is left of the stream. *)
Reads(p, o) == { Bytes(o) } \cup (IF p \in ShortReads THEN Cuts(o) ELSE {})

Left(stream, k) ==
  (IF k < Bytes(Head(stream)) THEN << Rest >> ELSE << >>) \o Tail(stream)

(* The number that k bytes of a size make up: they are the high ones. *)
SizeRead(o, k) ==
  IF o = Rest THEN TextAsSize ELSE IF k < SizeBytes THEN 0 ELSE o.value

VARIABLES
  phase,     \* proxy: "start", "idle", "send", "recv", "dead"
  at,        \* proxy: the object it sends or receives next
  lookups,   \* proxy: lookups started
  www_ip,    \* proxy: the address it was given last
  up, down,  \* what is on its way to the nameserver, and from it
  link,      \* nameserver's end: "none", "waiting", "open", "closed", "reset"
  backlog,   \* connections waiting to be accepted
  ns,        \* nameserver: "accept", "recv", "send", "log", "dead"
  nsAt,      \* the object it sends or receives next
  serving,   \* the proxy it serves
  size,      \* the size of the message it reads, as it understood it
  reply,     \* what it sends
  mode, index, log

proxyVars == << phase, at, lookups, www_ip >>
nsVars    == << ns, nsAt, serving, size, reply, mode, index, log >>
vars      == << proxyVars, up, down, link, backlog, nsVars >>

Init ==
  /\ phase = [p \in Proxy |-> "start"]
  /\ at = [p \in Proxy |-> 1]
  /\ lookups = [p \in Proxy |-> 0]
  /\ www_ip = [p \in Proxy |-> NoHost]
  /\ up = [p \in Proxy |-> << >>]
  /\ down = [p \in Proxy |-> << >>]
  /\ link = [p \in Proxy |-> "none"]
  /\ backlog = << >>
  /\ ns = "accept"
  /\ nsAt = 1
  /\ serving = NoProxy
  /\ size = 0
  /\ reply = << >>
  /\ mode \in Modes
  /\ index = 0
  /\ log = << >>

-----------------------------------------------------------------------------

(* The nameserver's end is closed when it closed it, or has ended; closing *)
(* it before everything was read resets the connection. *)
Closed(p) == link[p] \in { "closed", "reset" } \/ ns = "dead"

Reset(p) == link[p] = "reset" \/ (ns = "dead" /\ up[p] # << >>)

(* What a proxy has not received is lost with it. *)
ProxyDies(p) ==
  /\ phase' = [phase EXCEPT ![p] = "dead"]
  /\ at' = [at EXCEPT ![p] = 1]
  /\ down' = [down EXCEPT ![p] = << >>]
  /\ UNCHANGED << lookups, www_ip, up, link, backlog, nsVars >>

(* init_master_socket comes first, and the port may be taken. *)
StartFails(p) ==
  /\ p \in Leaving
  /\ phase[p] = "start"
  /\ ProxyDies(p)

(* init_dns_socket, at start-up. *)
Connect(p) ==
  /\ phase[p] = "start"
  /\ \/ /\ ns # "dead"
        /\ phase' = [phase EXCEPT ![p] = "idle"]
        /\ link' = [link EXCEPT ![p] = "waiting"]
        /\ backlog' = Append(backlog, p)
        /\ UNCHANGED << at, lookups, www_ip, up, down, nsVars >>
     \/ ns = "dead" /\ ProxyDies(p)

(* A browser with a new address was accepted: request_dns begins. *)
Lookup(p) ==
  /\ phase[p] = "idle"
  /\ lookups[p] < MaxLookups[p]
  /\ phase' = [phase EXCEPT ![p] = "send"]
  /\ at' = [at EXCEPT ![p] = 1]
  /\ lookups' = [lookups EXCEPT ![p] = @ + 1]
  /\ UNCHANGED << www_ip, up, down, link, backlog, nsVars >>

(* handle_dns_request: a send to a closed connection is lost and answered  *)
(* with a reset, and those that follow it raise SIGPIPE.                   *)
SendQuery(p) ==
  /\ phase[p] = "send"
  /\ \/ /\ up' = IF Closed(p) THEN up
                 ELSE [up EXCEPT ![p] = Append(@, Query[at[p]])]
        /\ link' = IF Closed(p) THEN [link EXCEPT ![p] = "reset"] ELSE link
        /\ IF at[p] < Len(Query)
           THEN at' = [at EXCEPT ![p] = @ + 1] /\ UNCHANGED phase
           ELSE /\ at' = [at EXCEPT ![p] = 1]
                /\ phase' = [phase EXCEPT ![p] = "recv"]
        /\ UNCHANGED << lookups, www_ip, down, backlog, nsVars >>
     \/ Closed(p) /\ at[p] > 1 /\ ProxyDies(p)

(* The stream has ended. *)
Over(p) == down[p] = << >> /\ Closed(p)

Takes(p, k) == down' = [down EXCEPT ![p] = Left(@, k)]

(* handle_dns_response.  A size that is not read whole ends the program,   *)
(* and so does text taken for a size, when receive_all writes the zero     *)
(* that many bytes away.                                                   *)
RecvSize(p) ==
  /\ phase[p] = "recv" /\ at[p] \in { 1, 3 }
  /\ \/ /\ down[p] # << >> /\ Head(down[p]) # Rest
        /\ Takes(p, SizeBytes)
        /\ at' = [at EXCEPT ![p] = @ + 1]
        /\ UNCHANGED << phase, www_ip, lookups, up, link, backlog, nsVars >>
     \/ down[p] # << >> /\ (Head(down[p]) = Rest \/ p \in ShortReads) /\ ProxyDies(p)
     \/ (Over(p) \/ Reset(p)) /\ ProxyDies(p)

(* The header of the answer is not looked at. *)
RecvHeader(p) ==
  /\ phase[p] = "recv" /\ at[p] = 2
  /\ \/ /\ \/ down[p] # << >> /\ \E k \in Reads(p, Head(down[p])) : Takes(p, k)
           \/ Over(p) /\ UNCHANGED down
        /\ at' = [at EXCEPT ![p] = 3]
        /\ UNCHANGED << phase, www_ip, lookups, up, link, backlog, nsVars >>
     \/ Reset(p) /\ ProxyDies(p)

(* ... and the address is taken as it was read, the empty one included. *)
RecvRecord(p) ==
  /\ phase[p] = "recv" /\ at[p] = 4
  /\ \/ /\ down[p] # << >>
        /\ \E k \in Reads(p, Head(down[p])) :
             /\ Takes(p, k)
             /\ www_ip' = [www_ip EXCEPT ![p] = DecodeRecord(Head(down[p]).record, k)]
        /\ at' = [at EXCEPT ![p] = 1]
        /\ phase' = [phase EXCEPT ![p] = "idle"]
        /\ UNCHANGED << lookups, up, link, backlog, nsVars >>
     \/ (Over(p) \/ Reset(p)) /\ ProxyDies(p)

(* The first request of that browser: the empty address cannot be          *)
(* connected to, and neither may a part of an address.                     *)
CannotConnect(p) ==
  /\ phase[p] = "idle"
  /\ lookups[p] > 0
  /\ www_ip[p] \notin HostSet
  /\ ProxyDies(p)

(* The proxy ends for a reason of its own, or is stopped. *)
Exit(p) ==
  /\ p \in Leaving
  /\ phase[p] \notin { "start", "dead" }
  /\ ProxyDies(p)

-----------------------------------------------------------------------------

NsDies ==
  /\ ns' = "dead"
  /\ UNCHANGED << nsAt, serving, size, reply, mode, index, log,
                  proxyVars, up, down, link, backlog >>

(* run_server. *)
NsAccept ==
  /\ ns = "accept"
  /\ backlog # << >>
  /\ serving' = Head(backlog)
  /\ backlog' = Tail(backlog)
  /\ link' = [link EXCEPT ![Head(backlog)] = "open"]
  /\ ns' = "recv"
  /\ nsAt' = 1
  /\ size' = 0
  /\ UNCHANGED << reply, mode, index, log, proxyVars, up, down >>

(* Mistake: the last server of the list is never reached. *)
NextIndexShort == (index + 1) % (IF Len(Hosts) > 1 THEN Len(Hosts) - 1 ELSE 1)

(* RoundRobin::next(), selectServer. *)
NextIndex == (index + 1) % Len(Hosts)

Selected(p) == IF mode = "RR" THEN Hosts[index + 1] ELSE Nearest[p]

(* Mistake: an address that was not found is answered all the same. *)
ReplyUnchecked(p, name) == IF name # Domain THEN Refusal ELSE Answer(Selected(p))

Reply(p, name) ==
  IF name # Domain \/ Selected(p) = NoHost THEN Refusal ELSE Answer(Selected(p))

(* "EMPTY" is round robin over a file that lists no server: the remainder  *)
(* is a division by zero.                                                  *)
NoServers(name) == mode = "EMPTY" /\ name = Domain

(* handle_connection, the recv() calls: what they return, *)
NsTakes(k) == up' = [up EXCEPT ![serving] = Left(@, k)]

NsHas   == up[serving] # << >>
NsEnded == up[serving] = << >> /\ phase[serving] = "dead"

(* ... the next one, and the question understood. *)
NsGoesOn(n) ==
  /\ nsAt' = nsAt + 1
  /\ size' = n
  /\ UNCHANGED << ns, serving, reply, mode, index, log,
                  proxyVars, down, link, backlog >>

NsAnswers(name) ==
  /\ ns' = "send"
  /\ nsAt' = 1
  /\ size' = 0
  /\ reply' = Reply(serving, name)
  /\ index' = IF mode = "RR" /\ name = Domain THEN NextIndex ELSE index
  /\ UNCHANGED << serving, mode, log, proxyVars, down, link, backlog >>

(* Only the first recv() is checked for having returned everything. *)
NsRecvHeaderSize ==
  /\ nsAt = 1
  /\ \/ NsHas /\ NsTakes(SizeBytes) /\ NsGoesOn(Head(up[serving]).value)
     \/ NsHas /\ serving \in ShortReads /\ NsDies
     \/ NsEnded /\ NsDies

(* The others take what they get, nothing included.  (A header read in     *)
(* part leaves fields undefined, and the header of the answer may have     *)
(* another size, which fits and which nobody looks at: it is not told      *)
(* apart.)                                                                 *)
NsRecvHeader ==
  /\ nsAt = 2
  /\ \/ NsHas /\ (\E k \in Reads(serving, Head(up[serving])) : NsTakes(k)) /\ NsGoesOn(0)
     \/ NsEnded /\ UNCHANGED up /\ NsGoesOn(0)
     \/ NsEnded /\ NsDies

NsRecvQuestionSize ==
  /\ nsAt = 3
  /\ \/ /\ NsHas
        /\ \E k \in Reads(serving, Head(up[serving])) :
             NsTakes(k) /\ NsGoesOn(SizeRead(Head(up[serving]), k))
     \/ NsEnded /\ UNCHANGED up /\ NsGoesOn(0)
     \/ NsEnded /\ NsDies

(* receive_all writes a zero behind the size it was given, which ends the  *)
(* program when text was taken for the size.                               *)
NsRecvQuestion ==
  /\ nsAt = 4
  /\ \/ size > MAX_MESSAGE_SIZE /\ (NsHas \/ NsEnded) /\ NsDies
     \/ size = 0 /\ UNCHANGED up /\ NsAnswers(Unknown)
     \/ /\ size \in 1 .. MAX_MESSAGE_SIZE
        /\ \/ /\ NsHas
              /\ \E k \in Reads(serving, Head(up[serving])) :
                   LET name == DecodeQuestion(Head(up[serving]).question, k)
                   IN  \/ NoServers(name) /\ NsDies
                       \/ ~ NoServers(name) /\ NsTakes(k) /\ NsAnswers(name)
           \/ NsEnded /\ UNCHANGED up /\ NsAnswers(Unknown)
           \/ NsEnded /\ NsDies

NsRecv ==
  /\ ns = "recv"
  /\ NsRecvHeaderSize \/ NsRecvHeader \/ NsRecvQuestionSize \/ NsRecvQuestion

(* ... the send() calls, which fail or raise SIGPIPE when the proxy ended  *)
(* and has answered an earlier one with a reset. *)
NsSend ==
  /\ ns = "send"
  /\ nsAt =< Len(reply)
  /\ \/ /\ down' = IF phase[serving] = "dead" THEN down
                   ELSE [down EXCEPT ![serving] = Append(@, reply[nsAt])]
        /\ nsAt' = nsAt + 1
        /\ UNCHANGED << ns, serving, size, reply, mode, index, log,
                        proxyVars, up, link, backlog >>
     \/ phase[serving] = "dead" /\ NsDies

(* Mistake: only a connection that was answered is closed. *)
HangUpAnswered(p) == IF reply = Refusal THEN link ELSE [link EXCEPT ![p] = "closed"]

HangUp(p) == [link EXCEPT ![p] = IF up[p] = << >> THEN "closed" ELSE "reset"]

(* Mistake: the connection is served again instead of being closed, when   *)
(* nothing was left unread.                                                *)
NsServesOn ==
  /\ ns = "send"
  /\ nsAt > Len(reply)
  /\ up[serving] = << >>
  /\ ns' = "recv"
  /\ nsAt' = 1
  /\ UNCHANGED << serving, size, reply, mode, index, log,
                  proxyVars, up, down, link, backlog >>

(* handle_connection returns. *)
NsReturns ==
  /\ ns' = "accept"
  /\ serving' = NoProxy
  /\ nsAt' = 1
  /\ reply' = << >>

(* ... close(). *)
NsClose ==
  /\ ns = "send"
  /\ nsAt > Len(reply)
  /\ link' = HangUp(serving)
  /\ \/ reply = Refusal /\ NsReturns
     \/ reply # Refusal /\ ns' = "log" /\ UNCHANGED << nsAt, serving, reply >>
  /\ UNCHANGED << size, mode, index, log, proxyVars, up, down, backlog >>

(* Mistake: the line names the server that is next. *)
NextLine == << serving, Hosts[index + 1] >>

Line == << serving, reply[4].record.RDATA >>

(* ... and the line of the log, after the connection was closed. *)
NsLog ==
  /\ ns = "log"
  /\ log' = Append(log, Line)
  /\ NsReturns
  /\ UNCHANGED << size, mode, index, proxyVars, up, down, link, backlog >>

-----------------------------------------------------------------------------

NameServer == NsAccept \/ NsRecv \/ NsSend \/ NsClose \/ NsLog

Asks(p) == SendQuery(p) \/ RecvSize(p) \/ RecvHeader(p) \/ RecvRecord(p)

Next ==
  \/ NameServer
  \/ \E p \in Proxy : StartFails(p) \/ Connect(p) \/ Lookup(p) \/ Asks(p)
                       \/ CannotConnect(p) \/ Exit(p)

Spec == Init /\ [][Next]_vars

(* Both programs keep running, and a proxy that is started connects.       *)
Fairness ==
  /\ WF_vars(NameServer)
  /\ \A p \in Proxy : WF_vars(Connect(p)) /\ WF_vars(Asks(p))

FairSpec == Spec /\ Fairness

-----------------------------------------------------------------------------

TypeOK ==
  /\ phase \in [Proxy -> { "start", "idle", "send", "recv", "dead" }]
  /\ at \in [Proxy -> 1 .. 4]
  /\ lookups \in [Proxy -> Nat]
  /\ www_ip \in [Proxy -> HostSet \cup { Shortened(h) : h \in HostSet } \cup { NoHost }]
  /\ up \in [Proxy -> Seq(Objects)]
  /\ down \in [Proxy -> Seq(Objects)]
  /\ link \in [Proxy -> { "none", "waiting", "open", "closed", "reset" }]
  /\ backlog \in Seq(Proxy)
  /\ ns \in { "accept", "recv", "send", "log", "dead" }
  /\ nsAt \in 1 .. 5
  /\ serving \in Proxy \cup { NoProxy }
  /\ size \in 0 .. MAX_MESSAGE_SIZE \cup { TextAsSize }
  /\ reply \in Seq(Objects)
  /\ mode \in Modes
  /\ index \in 0 .. Len(Hosts) - 1
  /\ log \in Seq(Proxy \X HostSet)

(***************************************************************************)
(* In round-robin mode the lines of the log go through the servers in the  *)
(* order of the file and start again when it is exhausted, although the    *)
(* index moves before the answer is sent and the line is written after the *)
(* connection was closed.                                                  *)
(***************************************************************************)
LogCycles ==
  mode = "RR" =>
    \A i \in 1 .. Len(log) : log[i][2] = Hosts[((i - 1) % Len(Hosts)) + 1]

(***************************************************************************)
(* The address a proxy uses is the one that the log says it was given, as  *)
(* soon as the line can have been written; or the beginning of it, if one  *)
(* recv() may return a part of the record.                                 *)
(***************************************************************************)
Gave(p, host) ==
  \/ \E i \in 1 .. Len(log) : log[i] = << p, host >>
  \/ serving = p /\ ns \in { "send", "log", "dead" } /\ reply = Answer(host)

UsesLoggedAddress ==
  \A p \in Proxy : www_ip[p] # NoHost =>
    \E host \in HostSet :
      /\ Gave(p, host)
      /\ www_ip[p] = host \/ (p \in ShortReads /\ www_ip[p] = Shortened(host))

(***************************************************************************)
(* A proxy gets one address from its connection, or it ends.               *)
(***************************************************************************)
Promise == INSTANCE OneAnswer WITH
  Address   <- HostSet \cup { Shortened(h) : h \in HostSet },
  NoAddress <- NoHost,
  address   <- www_ip,
  alive     <- [p \in Proxy |-> phase[p] # "dead"]

PromiseKept == Promise!Spec

(***************************************************************************)
(* If every proxy that is connected sooner or later asks, every lookup     *)
(* comes to an end: nobody waits forever behind another connection.        *)
(***************************************************************************)
Asking(p) == phase[p] \in { "send", "recv" }

LookupsEnd ==
  (\A p \in Proxy : []<>(lookups[p] > 0 \/ phase[p] = "dead"))
    => \A p \in Proxy : []<> ~ Asking(p)

(* A proxy that is not told to stop keeps running. *)
ProxiesStayUp == \A p \in Proxy : phase[p] # "dead"

(* The nameserver serves connections forever. *)
ServesForever == ns # "dead"
=============================================================================
