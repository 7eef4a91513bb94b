---------------------------- MODULE MiProxyProofs ----------------------------
(***************************************************************************)
(* miProxy's map of entries and its descriptors, for any number of         *)
(* browsers, of descriptors, of requests and of faults.                    *)
(***************************************************************************)
EXTENDS MiProxy, BitrateProofs, SequenceTheorems, WellFoundedInduction, TLAPS

(***************************************************************************)
(* What the operators of Traffic return, for every message and socket.     *)
(***************************************************************************)

(* A part of a message is a message. *)
LEMMA PartOfMessage ==
  ASSUME NEW msg \in Message, NEW m \in Nat \ {0}, NEW n \in 0 .. Len(msg)
  PROVE  SubSeq(msg, m, n) \in Message
<1>1. \A i \in m .. n : msg[i] \in Unit
  BY ElementOfSeq DEF Message
<1> QED BY <1>1, SubSeqProperties DEF Message

(* First returns a place in the message, when there is one to return. *)
LEMMA FirstIsPlace ==
  ASSUME NEW msg \in Message, NEW part, Has(msg, part)
  PROVE  First(msg, part) \in 1 .. Len(msg)
<1> DEFINE T == { i \in 1 .. Len(msg) : msg[i].part = part }
<1>1. T # {} /\ T \subseteq Nat
  BY DEF Has
<1>2. \E x \in T : \A y \in T : ~ (<< y, x >> \in OpToRel(<, Nat))
  BY <1>1, NatLessThanWellFounded, WFMin
<1>3. \E x \in T : \A y \in T : ~ (y < x)
  BY <1>1, <1>2 DEF OpToRel
<1>4. PICK x \in T : \A y \in T : ~ (y < x)
  BY <1>3
<1>5. \A j \in 1 .. x - 1 : msg[j].part # part
  BY <1>4, LenProperties DEF Message
<1> QED BY <1>4, <1>5 DEF First

(* The length that parse_header announces is a number, 0 included. *)
LEMMA ParseHeaderIsLength ==
  ASSUME NEW msg \in Message
  PROVE  ParseHeader(msg) \in Nat
<1>1. Len(msg) \in Nat
  BY LenProperties DEF Message
<1> QED BY <1>1, FirstIsPlace DEF ParseHeader, BodyLength

(* A read leaves a socket, takes a message, and changes nothing else. *)
LEMMA ReadKeeps ==
  ASSUME NEW s \in Socket, NEW k \in Reads(s)
  PROVE  /\ Taken(s, k) \in Message
         /\ Read(s, k) \in Socket
         /\ Read(s, k).kind = s.kind
         /\ Read(s, k).ip = s.ip
         /\ Read(s, k).outq = s.outq
<1>1. s.inq \in Message /\ Len(s.inq) \in Nat /\ k \in 1 .. Len(s.inq)
  BY LenProperties DEF Socket, Message, Reads
<1>2. SubSeq(s.inq, 1, k) \in Message /\ SubSeq(s.inq, k + 1, Len(s.inq)) \in Message
  BY <1>1, PartOfMessage
<1> QED BY <1>2 DEF Socket, Taken, Read

(* A send leaves a socket of the same kind, as readable as it was. *)
LEMMA SentKeeps ==
  ASSUME NEW s \in Socket, NEW msg \in Message
  PROVE  /\ Sent(s, msg) \in Socket
         /\ Sent(s, msg).kind = s.kind
         /\ Sent(s, msg).ip = s.ip
         /\ Readable(s) => Readable(Sent(s, msg))
<1>1. s.outq \o msg \in Message
  BY ConcatProperties DEF Socket, Message
<1> QED BY <1>1 DEF Socket, Sent, Readable

(* What fits and what does not are messages. *)
LEMMA FitsSplits ==
  ASSUME NEW msg \in Message, NEW s, NEW k \in Fits(s, msg)
  PROVE  Before(msg, k) \in Message /\ Behind(msg, k) \in Message
<1>1. Len(msg) \in Nat /\ k \in 0 .. Len(msg)
  BY LenProperties DEF Message, Fits, Room
<1>2. k + 1 \in Nat \ {0} /\ 1 \in Nat \ {0} /\ Len(msg) \in 0 .. Len(msg)
  BY <1>1
<1> QED BY <1>1, <1>2, PartOfMessage DEF Before, Behind

(* A socket whose other end has closed is readable. *)
LEMMA PeerClosesKeeps ==
  ASSUME NEW s \in Socket
  PROVE  /\ PeerCloses(s) \in Socket
         /\ PeerCloses(s).kind = s.kind
         /\ PeerCloses(s).ip = s.ip
         /\ Readable(PeerCloses(s))
BY EmptySeq DEF Socket, PeerCloses, Readable, Message

(* A socket that was just made is of the kind it was made for. *)
LEMMA NewSocketIs ==
  ASSUME NEW kind \in { "client", "server" }, NEW ip \in Client
  PROVE  /\ NewSocket(kind, ip) \in Socket
         /\ NewSocket(kind, ip).kind = kind
         /\ NewSocket(kind, ip).ip = ip
BY EmptySeq DEF NewSocket, FreeSocket, Socket, Message

LEMMA FreeSocketIs ==
  FreeSocket \in Socket /\ FreeSocket.kind = "free" /\ ~ Readable(FreeSocket)
BY EmptySeq DEF FreeSocket, Socket, Message, Readable

(* The units of a whole message. *)
LEMMA WholeIsMessage ==
  ASSUME NEW u \in Unit, NEW parts \in Seq(Parts)
  PROVE  Whole(u, parts) \in Message
<1>1. Len(parts) \in Nat /\ \A i \in 1 .. Len(parts) : parts[i] \in Parts
  BY LenProperties, ElementOfSeq
<1>2. \A i \in 1 .. Len(parts) : [u EXCEPT !.part = parts[i]] \in Unit
  BY <1>1 DEF Unit
<1> QED BY <1>1, <1>2, SeqDef DEF Whole, Message

LEMMA PartsAreParts ==
  /\ RequestParts \in Seq(Parts)
  /\ NoBodyParts \in Seq(Parts)
  /\ \A kind : ResponseParts(kind) \in Seq(Parts)
<1>1. \A n \in Nat : [i \in 1 .. n |-> "body"] \in Seq(Parts)
  BY SeqDef DEF Parts
<1>2. << "length", "blank" >> \in Seq(Parts)
  BY DEF Parts
<1>3. \A kind : ResponseParts(kind) \in Seq(Parts)
  BY <1>1, <1>2, ConcatProperties DEF ResponseParts, BodyLength
<1>4. RequestParts \in Seq(Parts) /\ NoBodyParts \in Seq(Parts)
  BY DEF RequestParts, NoBodyParts, Parts
<1> QED BY <1>3, <1>4

-----------------------------------------------------------------------------

(* A message put behind another one. *)
LEMMA ConcatIsMessage ==
  ASSUME NEW p \in Message, NEW q \in Message
  PROVE  p \o q \in Message
BY ConcatProperties DEF Message

LEMMA UnitOfMessage ==
  ASSUME NEW msg \in Message, NEW part, Has(msg, part)
  PROVE  Len(msg) \in Nat \ {0} /\ msg[1] \in Unit
<1>1. Len(msg) \in Nat /\ 1 \in 1 .. Len(msg)
  BY LenProperties DEF Has, Message
<1> QED BY <1>1, ElementOfSeq DEF Message

(* What handle_request_message makes of a request is a message.            *)
LEMMA NoListIsMessage ==
  ASSUME NEW msg \in Message, NEW old \in Message
  PROVE  NoListMessage(msg, old) \in Message
<1> DEFINE renamed ==
      [i \in 1 .. Len(msg) |->
         IF i \in NamesManifest(msg) /\ \A j \in NamesManifest(msg) : i =< j
         THEN [msg[i] EXCEPT !.kind = "nolist"]
         ELSE msg[i]]
<1>1. Len(msg) \in Nat /\ \A i \in 1 .. Len(msg) : msg[i] \in Unit
  BY LenProperties, ElementOfSeq DEF Message
<1>2. \A i \in 1 .. Len(msg) : [msg[i] EXCEPT !.kind = "nolist"] \in Unit
  BY <1>1 DEF Unit, Kinds
<1>3. renamed \in [1 .. Len(msg) -> Unit]
  BY <1>1, <1>2
<1>4. renamed \in Message
  BY <1>1, <1>3, SeqDef DEF Message
<1> QED BY <1>4 DEF NoListMessage

LEMMA RewrittenIsMessage ==
  ASSUME NEW msg \in Message, NEW part, Has(msg, part), NEW st \in Stream
  PROVE  Rewritten(st, msg) \in Message
<1>1. Len(msg) \in Nat \ {0} /\ msg \in [1 .. Len(msg) -> Unit] /\ msg[1] \in Unit
  BY UnitOfMessage, LenProperties DEF Message
<1>2. [msg[1] EXCEPT !.br = st.current_bitrate] \in Unit
  BY <1>1 DEF Unit, Stream
<1>3. [msg EXCEPT ![1].br = st.current_bitrate] \in [1 .. Len(msg) -> Unit]
  BY <1>1, <1>2
<1>4. [msg EXCEPT ![1].br = st.current_bitrate] \in Message
  BY <1>1, <1>3, SeqDef DEF Message
<1> QED BY <1>4 DEF Rewritten

LEMMA ParseBitrateIsStream ==
  ASSUME NEW st \in Stream, NEW msg \in Message, NEW part, Has(msg, part),
         IsChunk(msg) => st.available_bitrates # << >>
  PROVE  ParseBitrate(st, msg) \in Stream
<1>1. msg[1].n \in Nat
  BY UnitOfMessage DEF Unit
<1> QED BY <1>1, StreamSteps DEF ParseBitrate

(* What parse_xml reads from a message is a sequence of bitrates. *)
LEMMA ListedIsSeq ==
  ASSUME NEW msg \in Message
  PROVE  Listed(msg) \in Seq(Nat)
<1> DEFINE T == { i \in 1 .. Len(msg) : msg[i].part = "body" /\ msg[i].kind = "manifest" }
<1>1. Len(msg) \in Nat
  BY LenProperties DEF Message
<1>2. Documents(msg) \in Nat
  BY <1>1, PlacesAreFinite DEF Documents
<1>3. Len(Listing) \in Nat /\ \A i \in 1 .. Len(Listing) : Listing[i] \in Nat
  BY MiProxyAssumption, LenProperties, ElementOfSeq
<1>4. CASE Len(Listing) = 0
  <2>1. Documents(msg) * Len(Listing) = 0
    BY <1>2, <1>4
  <2>2. Listed(msg) \in [1 .. 0 -> Nat]
    BY <2>1 DEF Listed
  <2> QED BY <2>2, SeqDef
<1>5. CASE Len(Listing) # 0
  <2> DEFINE m == Documents(msg) * Len(Listing)
  <2>1. m \in Nat
    BY <1>2, <1>3
  <2>2. \A i \in 1 .. m : ((i - 1) % Len(Listing)) + 1 \in 1 .. Len(Listing)
    BY <1>3, <1>5
  <2>3. Listed(msg) \in [1 .. m -> Nat]
    BY <1>3, <2>2 DEF Listed
  <2> QED BY <2>1, <2>3, SeqDef
<1> QED BY <1>3, <1>4, <1>5

(* A response has a head, however it goes on. *)
LEMMA ResponseHasHead ==
  ASSUME NEW kind
  PROVE  2 =< Len(ResponseParts(kind))
<1> DEFINE body == [i \in 1 .. BodyLength(kind) |-> "body"]
           head == << "length", "blank" >>
<1>1. body \in Seq(Parts) /\ Len(body) \in Nat
  BY SeqDef, LenProperties DEF BodyLength, Parts
<1>2. head \in Seq(Parts) /\ Len(head) = 2
  BY DEF Parts
<1> HIDE DEF head, body
<1>3. Len(head \o body) = Len(head) + Len(body)
  BY <1>1, <1>2, ConcatProperties
<1>4. ResponseParts(kind) = head \o body
  BY DEF ResponseParts, head, body
<1> QED BY <1>1, <1>2, <1>3, <1>4

(* What the web server may answer, and what it leaves unanswered. *)
LEMMA AnswersAreMessages ==
  ASSUME NEW q \in Message, Has(q, "end")
  PROVE  /\ \A answer \in Answers(q[1]) : answer \in Message
         /\ SubSeq(Whole(q[1], ResponseParts(q[1].kind)), 1, 2) \in Message
         /\ AfterRequest(q) \in Message
<1> DEFINE whole == Whole(q[1], ResponseParts(q[1].kind))
<1>1. q[1] \in Unit /\ Len(q) \in Nat
  BY UnitOfMessage
<1>2. [q[1] EXCEPT !.kind = "page"] \in Unit
  BY <1>1 DEF Unit, Kinds
<1>3. whole \in Message /\ Whole(q[1], NoBodyParts) \in Message
  BY <1>1, WholeIsMessage, PartsAreParts
<1>4. Whole([q[1] EXCEPT !.kind = "page"], ResponseParts("page")) \in Message
  BY <1>2, WholeIsMessage, PartsAreParts
<1>5. \A answer \in Answers(q[1]) : answer \in Message
  BY <1>3, <1>4 DEF Answers
<1>6. 2 \in 0 .. Len(whole)
  <2> DEFINE parts == ResponseParts(q[1].kind)
  <2>1. parts \in Seq(Parts) /\ Len(parts) \in Nat /\ 2 =< Len(parts)
    BY PartsAreParts, LenProperties, ResponseHasHead
  <2>2. Len(whole) = Len(parts)
    BY <2>1, <1>3, LenProperties DEF Whole, Message
  <2> HIDE DEF whole, parts
  <2> QED BY <2>1, <2>2
<1>7. SubSeq(whole, 1, 2) \in Message
  BY <1>3, <1>6, PartOfMessage
<1>8. First(q, "end") \in 1 .. Len(q)
  BY FirstIsPlace
<1>9. AfterRequest(q) \in Message
  BY <1>1, <1>8, PartOfMessage DEF AfterRequest
<1> QED BY <1>5, <1>7, <1>9

-----------------------------------------------------------------------------

(***************************************************************************)
(* The inductive invariant.  An entry holds what it owns because a handler *)
(* only touches the descriptors of its own entry and free ones; so the     *)
(* scan must only come to entries of the map, and a connection must be     *)
(* waiting when one is accepted.                                           *)
(***************************************************************************)
Waits        == pc = "accept" => backlog # << >>
ScansEntries == pc \in { "scan", "send" } => todo \subseteq clients
SendsSome    == pc = "send" => sending.fd \in Fd

Inv == TypeOK /\ Waits /\ ScansEntries /\ SendsSome /\ FdOwnership

Mine(ip) == { conn[ip].client_socket, conn[ip].server_socket }

Owned(ip) ==
  /\ conn[ip].client_socket \in Fd
  /\ sock[conn[ip].client_socket].kind = "client"
  /\ sock[conn[ip].client_socket].ip = ip
  /\ conn[ip].server_socket # None =>
       /\ conn[ip].server_socket \in Fd
       /\ sock[conn[ip].server_socket].kind = "server"
       /\ sock[conn[ip].server_socket].ip = ip

LEMMA InvOwned ==
  ASSUME Inv, Alive, NEW ip \in clients
  PROVE  Owned(ip)
<1>1. conn[ip] \in Connection
  BY DEF Inv, TypeOK
<1>2. conn[ip].server_socket \in Fd \cup { None }
  BY <1>1 DEF Connection
<1> QED BY <1>2 DEF Inv, FdOwnership, Owned

(***************************************************************************)
(* What a step for the entry of ip leaves alone: the other entries, and    *)
(* the descriptors in use that are not in the entry.                       *)
(***************************************************************************)
OnlyEntry(ip) ==
  /\ clients' \ { ip } \subseteq clients
  /\ \A other \in Client \ { ip } : conn'[other] = conn[other]
  /\ \A fd \in Fd :
       (sock[fd].kind # "free" /\ (ip \in clients => fd \notin Mine(ip)))
         => sock'[fd] = sock[fd]

(* Such a step disturbs no other entry.                                    *)
LEMMA OthersKept ==
  ASSUME Inv, Alive, NEW ip \in Client, OnlyEntry(ip),
         NEW other \in clients' \ { ip }
  PROVE  /\ other \in clients
         /\ conn'[other] = conn[other]
         /\ \A fd \in Mine(other) \cap Fd : sock'[fd] = sock[fd]
         /\ Owned(other)'
<1>1. other \in clients /\ other \in Client /\ conn'[other] = conn[other]
  BY DEF OnlyEntry, Inv, TypeOK
<1>2. Owned(other)
  BY <1>1, InvOwned
<1>3. ip \in clients => Owned(ip)
  BY InvOwned
<1>4. \A fd \in Fd : fd # None
  BY MiProxyAssumption DEF Fd, None
<1>5. \A fd \in Mine(other) \cap Fd : sock[fd].kind # "free" /\ sock[fd].ip = other
  BY <1>2, <1>4 DEF Owned, Mine
<1>6. ip \in clients => \A fd \in Mine(ip) \cap Fd : sock[fd].ip = ip
  BY <1>3, <1>4 DEF Owned, Mine
<1>7. \A fd \in Mine(other) \cap Fd : sock'[fd] = sock[fd]
  BY <1>5, <1>6 DEF OnlyEntry
<1>8. Owned(other)'
  BY <1>1, <1>2, <1>7 DEF Owned, Mine
<1> QED BY <1>1, <1>7, <1>8

(* So it keeps the ownership when it leaves its own entry in order.        *)
LEMMA EntryStepOwnership ==
  ASSUME Inv, Alive, NEW ip \in Client, OnlyEntry(ip),
         ip \in clients' => Owned(ip)'
  PROVE  FdOwnership'
<1>1. \A other \in clients' : Owned(other)'
  BY OthersKept
<1> QED BY <1>1 DEF FdOwnership, Owned

(* The process ends. *)
Ends == \E how \in Deaths : Dies(how)

LEMMA DiesKeeps ==
  ASSUME Inv, Ends
  PROVE  Inv'
<1>1. PICK how \in Deaths : Dies(how)
  BY DEF Ends
<1>2. how \notin Phases
  BY DEF Deaths, Phases
<1> QED BY <1>1, <1>2 DEF Inv, TypeOK, Waits, ScansEntries, SendsSome, FdOwnership, Alive, Dies,
                    Phases, proxyVars, browserVars

(* The proxy starts with an empty map. *)
LEMMA InitInv == Init => Inv
<1> SUFFICES ASSUME Init PROVE Inv
  OBVIOUS
<1>1. NoConnection \in Connection /\ NewStream \in Stream
  BY EmptySeq DEF NoConnection, Connection, NewStream, Stream, Message
<1>2. NoLine \in LogLine
  BY DEF NoLine, LogLine
<1>3. /\ backlog \in Seq(Client)
      /\ got \in [Fd -> Message]
      /\ sending \in [ fd : Fd \cup { None }, rest : Message ]
  BY EmptySeq DEF Init, Message, NotSending
<1> QED BY <1>1, <1>2, <1>3, FreeSocketIs
        DEF Init, Inv, TypeOK, Waits, ScansEntries, SendsSome, FdOwnership, Phases

(* The entry whose turn it is. *)
LEMMA TurnOwns ==
  ASSUME Inv, NEW ip, IsNext(ip)
  PROVE  /\ Alive
         /\ ip \in clients /\ ip \in Client
         /\ Owned(ip)
         /\ conn[ip] \in Connection
         /\ sock[conn[ip].client_socket] \in Socket
<1>1. pc = "scan" /\ ip \in clients /\ ip \in Client
  BY DEF Inv, TypeOK, ScansEntries, IsNext
<1>2. Alive
  BY <1>1 DEF Alive, Phases
<1>3. Owned(ip)
  BY <1>1, <1>2, InvOwned
<1> QED BY <1>1, <1>2, <1>3 DEF Inv, TypeOK, Owned

LEMMA ServerTurnOwns ==
  ASSUME Inv, NEW ip, ServerTurn(ip)
  PROVE  /\ IsNext(ip)
         /\ conn[ip].server_socket \in Fd
         /\ sock[conn[ip].server_socket] \in Socket
         /\ sock[conn[ip].server_socket].kind = "server"
         /\ sock[conn[ip].server_socket].ip = ip
         /\ conn[ip].client_socket # conn[ip].server_socket
<1>1. IsNext(ip) /\ conn[ip].server_socket # None
  BY DEF ServerTurn
<1>2. Owned(ip)
  BY <1>1, TurnOwns
<1> QED BY <1>1, <1>2 DEF Inv, TypeOK, Owned

(***************************************************************************)
(* A handler's step: it visits the entry, touches nothing else, and leaves *)
(* the entry in order.                                                     *)
(***************************************************************************)
Serves(ip) ==
  /\ IsNext(ip)
  /\ todo' = todo \ { ip }
  /\ UNCHANGED readfds
  /\ pc' \in { "scan", "send" }
  /\ sending' \in [ fd : Fd \cup { None }, rest : Message ]
  /\ pc' = "send" => sending'.fd \in Fd

LEMMA VisitedServes ==
  ASSUME Inv, NEW ip, IsNext(ip), Visited(ip)
  PROVE  Serves(ip)
BY DEF Inv, TypeOK, IsNext, Visited, Serves

(* The only descriptor it may take is for the entry's own connection to    *)
(* the web server, and it closes the one that was there before.            *)
Frugal(ip) ==
  /\ \A fd \in Fd :
       sock'[fd].kind # "free" =>
         \/ fd = conn'[ip].server_socket
         \/ sock[fd].kind # "free" /\ sock'[fd].ip = sock[fd].ip
  /\ LET old == conn[ip].server_socket
     IN  old \in Fd /\ conn'[ip].server_socket # old => sock'[old].kind = "free"

EntryStep(ip) ==
  /\ Serves(ip)
  /\ OnlyEntry(ip)
  /\ Frugal(ip)
  /\ UNCHANGED << clients, dns_socket, backlog, browserVars >>
  /\ Owned(ip)'
  /\ conn' \in [Client -> Connection]
  /\ sock' \in [Fd -> Socket]
  /\ log' \in LogLine

LEMMA EntryStepInv ==
  ASSUME Inv, NEW ip, EntryStep(ip)
  PROVE  Inv'
<1>1. Alive /\ ip \in Client
  BY TurnOwns DEF EntryStep, Serves
<1>2. FdOwnership'
  BY <1>1, EntryStepOwnership DEF EntryStep
<1>3. TypeOK'
  BY DEF Inv, TypeOK, EntryStep, Serves, Phases, browserVars
<1>4. Waits' /\ ScansEntries' /\ SendsSome'
  BY DEF Inv, Waits, ScansEntries, SendsSome, EntryStep, Serves, IsNext
<1> QED BY <1>2, <1>3, <1>4 DEF Inv

-----------------------------------------------------------------------------

LEMMA SelectInv == ASSUME Inv, Select PROVE Inv'
<1>1. Ready \subseteq Fd
  <2>1. \A ip \in clients : Owned(ip)
    BY InvOwned DEF Select, Alive, Phases
  <2>2. \A ip \in clients : conn[ip].server_socket # None => conn[ip].server_socket \in Fd
    BY <2>1 DEF Owned
  <2>3. \A ip \in clients : conn[ip].client_socket \in Fd
    BY <2>1 DEF Owned
  <2> QED BY <2>2, <2>3 DEF Ready, Watched
<1>2. TypeOK'
  BY <1>1 DEF Inv, TypeOK, Select, Phases, proxyVars, browserVars
<1>3. Waits' /\ ScansEntries' /\ SendsSome'
  BY DEF Waits, ScansEntries, SendsSome, Select, proxyVars
<1>4. FdOwnership'
  BY DEF Inv, FdOwnership, Select, Alive, Phases, proxyVars
<1> QED BY <1>2, <1>3, <1>4 DEF Inv

LEMMA SkipInv == ASSUME Inv, NEW ip, Skip(ip) PROVE Inv'
<1>1. pc' = pc /\ todo' \subseteq todo
  BY DEF Skip, Visited
<1>2. TypeOK'
  BY <1>1 DEF Inv, TypeOK, Skip, Visited, proxyVars, browserVars
<1>3. Waits' /\ ScansEntries' /\ SendsSome' /\ FdOwnership'
  BY <1>1 DEF Inv, Waits, ScansEntries, SendsSome, FdOwnership, Alive, Skip, Visited, proxyVars
<1> QED BY <1>2, <1>3 DEF Inv

LEMMA ScanEndsInv == ASSUME Inv, ScanEnds PROVE Inv'
<1>1. TypeOK'
  BY DEF Inv, TypeOK, ScanEnds, Phases, proxyVars, browserVars
<1>2. Waits' /\ ScansEntries' /\ SendsSome' /\ FdOwnership'
  BY DEF Inv, Waits, ScansEntries, SendsSome, FdOwnership, Alive, Phases, ScanEnds, proxyVars
<1> QED BY <1>1, <1>2 DEF Inv

(* What is accepted gets a descriptor nobody holds. *)
LEMMA AcceptedInv ==
  ASSUME Inv, pc = "accept", NEW ip \in Client, NEW fd \in LowestFree(sock),
         NEW entry \in Connection,
         Accepted(ip, fd),
         conn' = [conn EXCEPT ![ip] = entry],
         entry.client_socket = fd,
         \/ entry.server_socket = None
         \/ ip \in clients /\ entry.server_socket = conn[ip].server_socket,
         dns_socket' \in { "none", "open", "used" }
  PROVE  Inv'
<1>1. Tail(backlog) \in Seq(Client)
  BY HeadTailProperties DEF Inv, TypeOK, Waits
<1>2. Alive /\ fd \in Fd /\ sock[fd].kind = "free"
  BY DEF Alive, Phases, LowestFree, Inv, TypeOK
<1>3. NewSocket("client", ip) \in Socket
      /\ NewSocket("client", ip).kind = "client"
      /\ NewSocket("client", ip).ip = ip
  BY NewSocketIs
<1>4. sock' = [sock EXCEPT ![fd] = NewSocket("client", ip)]
  BY DEF Accepted
<1>5. clients' = clients \cup { ip } /\ conn' = [conn EXCEPT ![ip] = entry]
  BY DEF Accepted
<1>6. conn \in [Client -> Connection] /\ sock \in [Fd -> Socket]
  BY DEF Inv, TypeOK
<1>7. OnlyEntry(ip)
  BY <1>2, <1>4, <1>5, <1>6 DEF OnlyEntry
<1>8. conn'[ip] = entry /\ sock'[fd].kind = "client" /\ sock'[fd].ip = ip
  BY <1>1, <1>2, <1>3, <1>4, <1>5, <1>6
<1>9. Owned(ip)'
  <2>1. CASE entry.server_socket = None
    BY <1>2, <1>8, <2>1 DEF Owned
  <2>2. CASE entry.server_socket # None
    <3>1. ip \in clients /\ entry.server_socket = conn[ip].server_socket
      BY <2>2
    <3>2. Owned(ip)
      BY <3>1, <1>2, InvOwned
    <3>3. entry.server_socket \in Fd /\ entry.server_socket # fd
      BY <3>1, <3>2, <2>2, <1>2 DEF Owned
    <3>4. sock'[entry.server_socket] = sock[entry.server_socket]
      BY <3>3, <1>4, <1>6
    <3> QED BY <3>1, <3>2, <3>3, <3>4, <2>2, <1>2, <1>8 DEF Owned
  <2> QED BY <2>1, <2>2
<1>10. FdOwnership'
  BY <1>1, <1>2, <1>7, <1>9, EntryStepOwnership
<1>11. TypeOK'
  BY SMTT(30), <1>1, <1>2, <1>3, <1>4, <1>5, <1>6 DEF Inv, TypeOK, Accepted, Phases, browserVars
<1>12. Waits' /\ ScansEntries' /\ SendsSome'
  BY DEF Waits, ScansEntries, SendsSome, Accepted
<1> QED BY <1>10, <1>11, <1>12 DEF Inv

LEMMA AcceptInv == ASSUME Inv, Accept PROVE Inv'
<1>1. ASSUME pc = "accept"
      PROVE  Head(backlog) \in Client
  BY <1>1, HeadTailProperties DEF Inv, TypeOK, Waits
<1>2. CASE AcceptKnown
  <2>1. PICK ip : ip = Head(backlog)
    OBVIOUS
  <2>2. pc = "accept" /\ ip \in Client /\ ip \in clients
    BY <1>1, <1>2, <2>1 DEF AcceptKnown
  <2>3. PICK fd \in LowestFree(sock) :
          /\ Accepted(ip, fd)
          /\ conn' = [conn EXCEPT ![ip].client_socket = fd]
          /\ UNCHANGED dns_socket
    BY <1>2, <2>1 DEF AcceptKnown
  <2> DEFINE entry == [conn[ip] EXCEPT !.client_socket = fd]
  <2>4. conn[ip] \in Connection /\ fd \in Fd /\ dns_socket \in { "none", "open", "used" }
    BY <2>2 DEF Inv, TypeOK, LowestFree
  <2>5. entry \in Connection /\ entry.client_socket = fd
        /\ entry.server_socket = conn[ip].server_socket
    BY <2>4 DEF Connection
  <2>6. conn' = [conn EXCEPT ![ip] = entry]
    BY <2>3
  <2> HIDE DEF entry
  <2> QED BY <2>2, <2>3, <2>4, <2>5, <2>6, AcceptedInv
<1>3. CASE AcceptNew
  <2>1. PICK ip : ip = Head(backlog)
    OBVIOUS
  <2>2. pc = "accept" /\ ip \in Client
    BY <1>1, <1>3, <2>1 DEF AcceptNew
  <2>3. PICK fd \in LowestFree(sock) :
          /\ Accepted(ip, fd)
          /\ conn' = [conn EXCEPT ![ip] = [NoConnection EXCEPT !.client_socket = fd]]
          /\ dns_socket' = IF dns_socket = "open" THEN "used" ELSE "none"
    BY <1>3, <2>1 DEF AcceptNew
  <2> DEFINE entry == [NoConnection EXCEPT !.client_socket = fd]
  <2>4. fd \in Fd
    BY DEF Inv, TypeOK, LowestFree
  <2>5. entry \in Connection /\ entry.client_socket = fd /\ entry.server_socket = None
    BY <2>4, EmptySeq DEF NoConnection, Connection, NewStream, Stream, Message
  <2> HIDE DEF entry
  <2> QED BY <2>2, <2>3, <2>5, AcceptedInv DEF entry
<1>4. CASE AcceptWithoutAddress
  BY <1>4, DiesKeeps DEF AcceptWithoutAddress, Ends, Deaths
<1>5. CASE AcceptFails
  BY <1>5, DiesKeeps DEF AcceptFails, Ends, Deaths
<1> QED BY <1>2, <1>3, <1>4, <1>5 DEF Accept

-----------------------------------------------------------------------------

(* The entry is erased and its descriptor is free again. *)
LEMMA ClientGoneOnly ==
  ASSUME Inv, NEW ip, ClientGone(ip)
  PROVE  /\ IsNext(ip)
         /\ OnlyEntry(ip)
         /\ clients' = clients \ { ip }
<1> DEFINE fd == conn[ip].client_socket
<1>1. IsNext(ip)
  BY DEF ClientGone, ClientTurn
<1>2. ip \in clients /\ ip \in Client
  BY <1>1, TurnOwns
<1>3. /\ sock' = [sock EXCEPT ![fd] = FreeSocket]
      /\ clients' = clients \ { ip }
      /\ conn' = [conn EXCEPT ![ip] = NoConnection]
  BY DEF ClientGone
<1>4. conn \in [Client -> Connection] /\ sock \in [Fd -> Socket]
  BY DEF Inv, TypeOK
<1>5. OnlyEntry(ip)
  BY <1>2, <1>3, <1>4 DEF OnlyEntry, Mine
<1> QED BY <1>1, <1>3, <1>5

LEMMA ClientGoneInv == ASSUME Inv, NEW ip, ClientGone(ip) PROVE Inv'
<1> DEFINE fd == conn[ip].client_socket
<1>1. IsNext(ip) /\ clients' = clients \ { ip } /\ OnlyEntry(ip)
  BY ClientGoneOnly
<1>2. Alive /\ ip \in clients /\ ip \in Client
  BY <1>1, TurnOwns
<1>3. /\ sock' = [sock EXCEPT ![fd] = FreeSocket]
      /\ clients' = clients \ { ip }
      /\ conn' = [conn EXCEPT ![ip] = NoConnection]
  BY DEF ClientGone
<1>4. conn \in [Client -> Connection] /\ sock \in [Fd -> Socket]
  BY DEF Inv, TypeOK
<1>5. FdOwnership'
  BY <1>1, <1>2, EntryStepOwnership
<1>6. NoConnection \in Connection
  BY EmptySeq DEF NoConnection, Connection, NewStream, Stream, Message
<1>7. pc' \in Phases \cup Deaths /\ todo' \subseteq Client
  <2>1. "iterator" \in Deaths
    BY DEF Deaths
  <2> QED BY <1>3, <2>1 DEF ClientGone, Inv, TypeOK
<1>8. TypeOK'
  <2>1. conn' \in [Client -> Connection] /\ sock' \in [Fd -> Socket]
    BY <1>3, <1>4, <1>6, FreeSocketIs
  <2>2. clients' \subseteq Client
    BY <1>3 DEF Inv, TypeOK
  <2>3. UNCHANGED << readfds, sending, dns_socket, log, backlog, asked, got, sent, opened, player >>
    BY DEF ClientGone, browserVars
  <2> QED BY <1>7, <2>1, <2>2, <2>3 DEF Inv, TypeOK
<1>9. pc' # "accept" /\ pc' # "send"
  BY <1>1 DEF ClientGone, IsNext
<1>10. pc' = "scan" => todo' \subseteq clients'
  BY <1>1, <1>3 DEF ClientGone, IsNext, Inv, ScansEntries
<1> QED BY <1>5, <1>8, <1>9, <1>10 DEF Inv, Waits, ScansEntries, SendsSome

(* What a handler has read from a browser. *)
LEMMA ClientReads ==
  ASSUME Inv, NEW ip, ClientTurn(ip), NEW k \in Reads(sock[conn[ip].client_socket])
  PROVE  /\ conn[ip].client_message \o Taken(sock[conn[ip].client_socket], k) \in Message
         /\ Read(sock[conn[ip].client_socket], k) \in Socket
         /\ Read(sock[conn[ip].client_socket], k).kind = "client"
         /\ Read(sock[conn[ip].client_socket], k).ip = ip
<1> DEFINE s == sock[conn[ip].client_socket]
<1>1. Owned(ip) /\ conn[ip] \in Connection /\ s \in Socket
  BY TurnOwns DEF ClientTurn
<1>2. Taken(s, k) \in Message /\ Read(s, k) \in Socket /\ Read(s, k).kind = s.kind
      /\ Read(s, k).ip = s.ip
  BY <1>1, ReadKeeps
<1>3. conn[ip].client_message \in Message
  BY <1>1 DEF Connection
<1> QED BY <1>1, <1>2, <1>3, ConcatIsMessage DEF Owned

LEMMA ClientPartialStep == ASSUME Inv, NEW ip, ClientPartial(ip) PROVE EntryStep(ip)
<1> DEFINE fd == conn[ip].client_socket
<1>1. PICK k \in Reads(sock[fd]) :
        /\ conn' = [conn EXCEPT ![ip].client_message = @ \o Taken(sock[fd], k)]
        /\ sock' = [sock EXCEPT ![fd] = Read(@, k)]
  BY DEF ClientPartial
<1>2. ClientTurn(ip) /\ IsNext(ip)
  BY DEF ClientPartial, ClientTurn
<1>3. Alive /\ ip \in clients /\ ip \in Client /\ Owned(ip) /\ conn[ip] \in Connection
  BY <1>2, TurnOwns
<1>4. conn \in [Client -> Connection] /\ sock \in [Fd -> Socket] /\ log \in LogLine
  BY DEF Inv, TypeOK
<1>5. conn[ip].client_message \o Taken(sock[fd], k) \in Message
      /\ Read(sock[fd], k) \in Socket
      /\ Read(sock[fd], k).kind = "client" /\ Read(sock[fd], k).ip = ip
  BY <1>2, ClientReads
<1> DEFINE entry == [conn[ip] EXCEPT !.client_message = @ \o Taken(sock[fd], k)]
<1>6. entry \in Connection /\ entry.client_socket = fd
      /\ entry.server_socket = conn[ip].server_socket
  BY <1>3, <1>5 DEF Connection
<1>7. conn' = [conn EXCEPT ![ip] = entry]
  BY <1>1
<1> HIDE DEF entry
<1>8. UNCHANGED clients /\ OnlyEntry(ip)
  BY <1>1, <1>3, <1>4, <1>7 DEF OnlyEntry, ClientPartial, Mine
<1>9. Owned(ip)'
  BY <1>1, <1>3, <1>4, <1>5, <1>6, <1>7 DEF Owned
<1>10. Serves(ip)
  BY <1>2, VisitedServes DEF ClientPartial
<1>11. Frugal(ip)
  BY <1>1, <1>3, <1>4, <1>5, <1>6, <1>7 DEF Frugal, Owned
<1> QED BY <1>1, <1>4, <1>5, <1>6, <1>7, <1>8, <1>9, <1>10, <1>11 DEF EntryStep, ClientPartial

(***************************************************************************)
(* The kernel's state a request is sent on from: the browser's descriptor  *)
(* has been read, and server is the entry's connection to the web server   *)
(* or one that was just opened.                                            *)
(***************************************************************************)
MayForward(ip, rest, server) ==
  LET client == conn[ip].client_socket
  IN  /\ rest \in [Fd -> Socket]
      /\ server \in Fd \ { client }
      /\ rest[client].kind = "client" /\ rest[client].ip = ip
      /\ rest[server].kind = "server" /\ rest[server].ip = ip
      /\ \/ server = conn[ip].server_socket
         \/ conn[ip].server_socket = None /\ sock[server].kind = "free"
      /\ \A fd \in Fd : fd \notin { client, server } => rest[fd] = sock[fd]

LEMMA ForwardRequestStep ==
  ASSUME Inv, NEW ip, ClientTurn(ip),
         NEW msg, msg \in Message, Has(msg, "end"),
         NEW rest, NEW server, MayForward(ip, rest, server),
         ForwardRequest(ip, msg, rest, server)
  PROVE  EntryStep(ip) \/ Ends
<1> DEFINE c == conn[ip]
<1> DEFINE st == ParseBitrate(c.stream, msg)
<1>1. IsNext(ip) /\ Alive /\ ip \in clients /\ ip \in Client /\ Owned(ip) /\ c \in Connection
  BY TurnOwns DEF ClientTurn
<1>2. CASE ~ CanChoose(ip, msg)
  BY <1>2 DEF ForwardRequest, Ends, Deaths
<1>3. CASE CanChoose(ip, msg) /\ ~ CanSend(rest[server])
  BY <1>3 DEF ForwardRequest, Ends, Deaths
<1>4. CASE CanChoose(ip, msg) /\ CanSend(rest[server])
  <2>1. /\ sock' = [rest EXCEPT ![server] = Sent(@, Rewritten(st, msg))]
        /\ conn' = [conn EXCEPT ![ip] = RequestSent(@, msg, st, server)]
        /\ Visited(ip)
        /\ UNCHANGED << clients, dns_socket, log, backlog, browserVars >>
    BY <1>4 DEF ForwardRequest
  <2>2. c.stream \in Stream /\ c.no_list_message \in Message
    BY <1>1 DEF Connection
  <2>3. st \in Stream
    BY <1>4, <2>2, ParseBitrateIsStream DEF CanChoose
  <2>4. Rewritten(st, msg) \in Message /\ NoListMessage(msg, c.no_list_message) \in Message
    BY <2>2, <2>3, RewrittenIsMessage, NoListIsMessage
  <2> DEFINE entry == RequestSent(c, msg, st, server)
  <2>5. << >> \in Message
    BY EmptySeq DEF Message
  <2>6. server \in Fd
    BY DEF MayForward
  <2>7. entry \in Connection /\ entry.client_socket = c.client_socket
        /\ entry.server_socket = server
    BY <1>1, <2>6, <2>3, <2>4, <2>5 DEF RequestSent, Connection
  <2> DEFINE there == Sent(rest[server], Rewritten(st, msg))
  <2>8. there \in Socket /\ there.kind = "server" /\ there.ip = ip
    BY <2>4, SentKeeps DEF MayForward
  <2>9. conn' = [conn EXCEPT ![ip] = entry] /\ sock' = [rest EXCEPT ![server] = there]
    BY <2>1
  <2> HIDE DEF entry, there, st
  <2>10. conn \in [Client -> Connection] /\ sock \in [Fd -> Socket] /\ log \in LogLine
    BY DEF Inv, TypeOK
  <2>11. OnlyEntry(ip)
    BY <1>1, <2>1, <2>9, <2>10 DEF OnlyEntry, Mine, MayForward
  <2>12. Owned(ip)'
    BY <1>1, <2>7, <2>8, <2>9, <2>10 DEF Owned, MayForward
  <2>13. conn' \in [Client -> Connection] /\ sock' \in [Fd -> Socket] /\ log' \in LogLine
    BY <1>1, <2>1, <2>7, <2>8, <2>9, <2>10 DEF MayForward
  <2>14. Serves(ip)
    BY <1>1, <2>1, VisitedServes
  <2>15. Frugal(ip)
    <3>1. conn'[ip].server_socket = server
      BY <1>1, <2>7, <2>9, <2>10
    <3>2. conn[ip].server_socket \in Fd => conn[ip].server_socket = server
      BY MiProxyAssumption DEF MayForward, Fd, None
    <3>3. \A fd \in Fd : fd \notin { c.client_socket, server } => sock'[fd] = sock[fd]
      BY <2>9 DEF MayForward
    <3>4. sock'[c.client_socket].ip = ip
      BY <1>1, <2>9 DEF MayForward, Owned
    <3> QED BY <1>1, <3>1, <3>2, <3>3, <3>4 DEF Frugal, Owned
  <2> QED BY <2>1, <2>11, <2>12, <2>13, <2>14, <2>15 DEF EntryStep
<1> QED BY <1>2, <1>3, <1>4

LEMMA ClientRequestStep == ASSUME Inv, NEW ip, ClientRequest(ip) PROVE EntryStep(ip) \/ Ends
<1> DEFINE fd == conn[ip].client_socket
<1>1. ClientTurn(ip) /\ IsNext(ip)
  BY DEF ClientRequest, ClientTurn
<1>2. ip \in Client /\ Owned(ip)
  BY <1>1, TurnOwns
<1>3. sock \in [Fd -> Socket]
  BY DEF Inv, TypeOK
<1> DEFINE msg(k) == conn[ip].client_message \o Taken(sock[fd], k)
<1> DEFINE rest(k) == [sock EXCEPT ![fd] = Read(sock[fd], k)]
<1>4. PICK k \in Reads(sock[fd]) :
        /\ Has(msg(k), "end")
        /\ \/ /\ conn[ip].server_socket # None
              /\ ForwardRequest(ip, msg(k), rest(k), conn[ip].server_socket)
           \/ /\ conn[ip].server_socket = None
              /\ \E server \in LowestFree(rest(k)) :
                   ForwardRequest(ip, msg(k),
                     [rest(k) EXCEPT ![server] = NewSocket("server", ip)], server)
           \/ Dies("connect failed")
           \/ Dies("socket failed")
  BY DEF ClientRequest
<1>5. msg(k) \in Message
      /\ Read(sock[fd], k) \in Socket
      /\ Read(sock[fd], k).kind = "client" /\ Read(sock[fd], k).ip = ip
  BY <1>1, ClientReads
<1>6. rest(k) \in [Fd -> Socket] /\ rest(k)[fd].kind = "client" /\ rest(k)[fd].ip = ip
      /\ \A g \in Fd : g # fd => rest(k)[g] = sock[g]
  BY <1>2, <1>3, <1>5 DEF Owned
<1>7. CASE conn[ip].server_socket # None
           /\ ForwardRequest(ip, msg(k), rest(k), conn[ip].server_socket)
  <2> DEFINE server == conn[ip].server_socket
  <2>1. server \in Fd /\ server # fd /\ rest(k)[server].kind = "server"
        /\ rest(k)[server].ip = ip
    BY <1>2, <1>6, <1>7 DEF Owned
  <2>2. MayForward(ip, rest(k), server)
    BY <1>6, <2>1 DEF MayForward
  <2> HIDE DEF msg, rest
  <2> QED BY <1>1, <1>4, <1>5, <1>7, <2>2, ForwardRequestStep
<1>8. ASSUME conn[ip].server_socket = None, NEW server \in LowestFree(rest(k)),
             ForwardRequest(ip, msg(k),
               [rest(k) EXCEPT ![server] = NewSocket("server", ip)], server)
      PROVE  EntryStep(ip) \/ Ends
  <2> DEFINE new == [rest(k) EXCEPT ![server] = NewSocket("server", ip)]
  <2>1. server \in Fd /\ rest(k)[server].kind = "free"
    BY <1>6 DEF LowestFree
  <2>2. server # fd /\ sock[server].kind = "free"
    BY <1>5, <1>6, <2>1
  <2>3. NewSocket("server", ip) \in Socket /\ NewSocket("server", ip).kind = "server"
        /\ NewSocket("server", ip).ip = ip
    BY <1>2, NewSocketIs
  <2>4. new \in [Fd -> Socket] /\ new[server].kind = "server" /\ new[server].ip = ip
        /\ new[fd].kind = "client" /\ new[fd].ip = ip
        /\ \A g \in Fd : g \notin { fd, server } => new[g] = sock[g]
    BY <1>2, <1>6, <2>1, <2>2, <2>3 DEF Owned
  <2>5. ForwardRequest(ip, msg(k), new, server)
    BY <1>8
  <2> HIDE DEF msg, rest, new
  <2>6. MayForward(ip, new, server)
    <3>1. conn[ip].server_socket = None /\ server \in Fd \ { conn[ip].client_socket }
      BY <1>8, <2>1, <2>2
    <3> QED BY <3>1, <2>2, <2>4 DEF MayForward
  <2> QED BY <1>1, <1>4, <1>5, <2>5, <2>6, ForwardRequestStep
<1>9. CASE Dies("connect failed") \/ Dies("socket failed")
  BY <1>9 DEF Ends, Deaths
<1> HIDE DEF msg, rest
<1> QED BY <1>4, <1>7, <1>8, <1>9

-----------------------------------------------------------------------------

(***************************************************************************)
(* A handler's step in which the entry keeps its descriptors, and these    *)
(* stay what they are.                                                     *)
(***************************************************************************)
SameDescriptors(ip, entry) ==
  /\ Serves(ip)
  /\ UNCHANGED << clients, dns_socket, backlog, browserVars >>
  /\ entry \in Connection
  /\ entry.client_socket = conn[ip].client_socket
  /\ entry.server_socket = conn[ip].server_socket
  /\ conn' = [conn EXCEPT ![ip] = entry]
  /\ sock' \in [Fd -> Socket]
  /\ \A fd \in Fd : /\ sock'[fd].kind = sock[fd].kind
                    /\ sock'[fd].ip = sock[fd].ip
                    /\ fd \notin Mine(ip) => sock'[fd] = sock[fd]
  /\ log' \in LogLine

LEMMA SameDescriptorsStep ==
  ASSUME Inv, NEW ip, NEW entry, SameDescriptors(ip, entry)
  PROVE  EntryStep(ip)
<1>1. IsNext(ip) /\ ip \in clients /\ ip \in Client /\ Owned(ip)
  BY TurnOwns DEF SameDescriptors, Serves
<1>2. conn \in [Client -> Connection]
  BY DEF Inv, TypeOK
<1>3. OnlyEntry(ip)
  BY <1>1, <1>2 DEF OnlyEntry, SameDescriptors
<1>4. Owned(ip)'
  BY <1>1, <1>2 DEF Owned, SameDescriptors
<1>5. Frugal(ip)
  BY <1>1, <1>2 DEF Frugal, SameDescriptors
<1> QED BY <1>1, <1>2, <1>3, <1>4, <1>5 DEF EntryStep, SameDescriptors

(* What a handler has read from the web server. *)
LEMMA ServerReads ==
  ASSUME Inv, NEW ip, ServerTurn(ip), NEW k \in Reads(sock[conn[ip].server_socket])
  PROVE  /\ conn[ip].server_message \o Taken(sock[conn[ip].server_socket], k) \in Message
         /\ Read(sock[conn[ip].server_socket], k) \in Socket
         /\ Read(sock[conn[ip].server_socket], k).kind = "server"
         /\ Read(sock[conn[ip].server_socket], k).ip = ip
<1> DEFINE s == sock[conn[ip].server_socket]
<1>1. s \in Socket /\ s.kind = "server" /\ s.ip = ip
  BY ServerTurnOwns
<1>2. Taken(s, k) \in Message /\ Read(s, k) \in Socket /\ Read(s, k).kind = s.kind
      /\ Read(s, k).ip = s.ip
  BY <1>1, ReadKeeps
<1>3. conn[ip].server_message \in Message
  BY TurnOwns, ServerTurnOwns DEF Connection
<1> QED BY <1>1, <1>2, <1>3, ConcatIsMessage

(* The descriptor is given up, and the entry knows it. *)
LEMMA ServerGoneStep == ASSUME Inv, NEW ip, ServerGone(ip) PROVE EntryStep(ip)
<1> DEFINE fd == conn[ip].server_socket
<1> DEFINE entry == ServerLost(conn[ip])
<1>1. ServerTurn(ip) /\ IsNext(ip) /\ fd \in Fd /\ conn[ip].client_socket # fd
  BY ServerTurnOwns DEF ServerGone
<1>2. ip \in clients /\ ip \in Client /\ Owned(ip) /\ conn[ip] \in Connection
  BY <1>1, TurnOwns
<1>3. conn \in [Client -> Connection] /\ sock \in [Fd -> Socket] /\ log \in LogLine
  BY DEF Inv, TypeOK
<1>4. entry \in Connection /\ entry.client_socket = conn[ip].client_socket
      /\ entry.server_socket = None
  BY <1>2 DEF ServerLost, Connection
<1>5. conn' = [conn EXCEPT ![ip] = entry] /\ sock' = [sock EXCEPT ![fd] = FreeSocket]
      /\ Visited(ip) /\ UNCHANGED << clients, dns_socket, log, backlog, browserVars >>
  BY DEF ServerGone
<1> HIDE DEF entry
<1>6. OnlyEntry(ip)
  BY <1>2, <1>3, <1>5 DEF OnlyEntry, Mine
<1>7. Owned(ip)'
  BY <1>1, <1>2, <1>3, <1>4, <1>5 DEF Owned
<1>8. Serves(ip)
  BY <1>1, <1>5, VisitedServes
<1>9. Frugal(ip)
  <2>1. sock'[fd].kind = "free" /\ \A g \in Fd \ { fd } : sock'[g] = sock[g]
    BY <1>1, <1>3, <1>5 DEF FreeSocket
  <2> QED BY <2>1 DEF Frugal
<1> QED BY <1>1, <1>3, <1>4, <1>5, <1>6, <1>7, <1>8, <1>9, FreeSocketIs DEF EntryStep

LEMMA ExpectedIsLength ==
  ASSUME NEW c \in Connection, NEW msg \in Message
  PROVE  Expected(c, msg) \in Nat
BY ParseHeaderIsLength DEF Expected, Connection

(* The clock is read for a response that has begun. *)
LEMMA TimedIs ==
  ASSUME NEW c \in Connection, NEW s \in Socket, NEW k \in Reads(s)
  PROVE  Timed(c, s) \in Connection
<1>1. s.inq \in Message /\ 1 \in 1 .. Len(s.inq)
  BY LenProperties DEF Socket, Message, Reads
<1>2. s.inq[1] \in Unit
  BY <1>1, ElementOfSeq DEF Message
<1>3. s.inq[1].n \in Nat
  BY <1>2 DEF Unit
<1> QED BY <1>3 DEF Timed, Started, Connection

LEMMA ServerPartialStep == ASSUME Inv, NEW ip, ServerPartial(ip) PROVE EntryStep(ip)
<1> DEFINE c == conn[ip]
<1> DEFINE fd == c.server_socket
<1>1. ServerTurn(ip) /\ IsNext(ip) /\ fd \in Fd
  BY ServerTurnOwns DEF ServerPartial
<1>2. c \in Connection
  BY <1>1, TurnOwns
<1> DEFINE msg(k) == c.server_message \o Taken(sock[fd], k)
<1> DEFINE entry(k) == [Timed(c, sock[fd]) EXCEPT
                          !.server_message = msg(k),
                          !.server_message_len = Expected(c, msg(k))]
<1>3. PICK k \in Reads(sock[fd]) :
        /\ conn' = [conn EXCEPT ![ip] = entry(k)]
        /\ sock' = [sock EXCEPT ![fd] = Read(@, k)]
  BY DEF ServerPartial
<1>4. msg(k) \in Message /\ Read(sock[fd], k) \in Socket
      /\ Read(sock[fd], k).kind = sock[fd].kind /\ Read(sock[fd], k).ip = sock[fd].ip
  BY <1>1, ServerReads, ServerTurnOwns
<1>5. Expected(c, msg(k)) \in Nat
  BY <1>2, <1>4, ExpectedIsLength
<1>6. entry(k) \in Connection /\ entry(k).client_socket = c.client_socket
      /\ entry(k).server_socket = c.server_socket
  <2>1. Timed(c, sock[fd]) \in Connection
    BY <1>1, <1>2, TimedIs, ServerTurnOwns
  <2>2. Timed(c, sock[fd]).client_socket = c.client_socket
        /\ Timed(c, sock[fd]).server_socket = c.server_socket
    BY <1>2 DEF Timed, Connection
  <2> HIDE DEF msg
  <2> QED BY <2>1, <2>2, <1>4, <1>5 DEF Connection
<1>7. sock \in [Fd -> Socket] /\ log \in LogLine
  BY DEF Inv, TypeOK
<1> HIDE DEF entry
<1>8. Serves(ip)
  BY <1>1, VisitedServes DEF ServerPartial
<1>9. SameDescriptors(ip, entry(k))
  BY <1>1, <1>3, <1>4, <1>6, <1>7, <1>8 DEF SameDescriptors, ServerPartial, Mine
<1> QED BY <1>9, SameDescriptorsStep

(* A response leaves the entry with empty buffers. *)
LEMMA ResponseDoneIs ==
  ASSUME NEW c \in Connection, NEW st \in Stream
  PROVE  /\ ResponseDone(c, st) \in Connection
         /\ ResponseDone(c, st).client_socket = c.client_socket
         /\ ResponseDone(c, st).server_socket = c.server_socket
<1>1. << >> \in Message
  BY EmptySeq DEF Message
<1> QED BY <1>1 DEF ResponseDone, Connection

LEMMA ServerManifestStep == ASSUME Inv, NEW ip, ServerManifest(ip) PROVE EntryStep(ip) \/ Ends
<1> DEFINE c == conn[ip]
<1> DEFINE fd == c.server_socket
<1>1. ServerTurn(ip) /\ IsNext(ip) /\ fd \in Fd
  BY ServerTurnOwns DEF ServerManifest
<1>2. c \in Connection /\ c.stream \in Stream /\ c.no_list_message \in Message
  BY <1>1, TurnOwns DEF Connection
<1> DEFINE msg(k) == c.server_message \o Taken(sock[fd], k)
<1> DEFINE rest(k) == [sock EXCEPT ![fd] = Read(sock[fd], k)]
<1> DEFINE entry(st) == ResponseDone([Timed(c, sock[fd]) EXCEPT !.no_list_message = << >>], st)
<1>3. PICK k \in Reads(sock[fd]) :
        IF ~ IsXml(msg(k)) THEN Dies("not text/xml")
        ELSE IF c.stream.available_bitrates \o Listed(msg(k)) = << >> THEN Dies("no bitrates")
        ELSE IF ~ CanSend(rest(k)[fd]) THEN Dies("send failed")
        ELSE /\ sock' = [rest(k) EXCEPT ![fd] = Sent(@, c.no_list_message)]
             /\ \E st \in Learn(c.stream, Listed(msg(k))) : conn' = [conn EXCEPT ![ip] = entry(st)]
             /\ Visited(ip)
             /\ UNCHANGED << clients, dns_socket, log, backlog, browserVars >>
  BY DEF ServerManifest
<1>4. msg(k) \in Message /\ Read(sock[fd], k) \in Socket
      /\ Read(sock[fd], k).kind = sock[fd].kind /\ Read(sock[fd], k).ip = sock[fd].ip
  BY <1>1, ServerReads, ServerTurnOwns
<1>5. sock \in [Fd -> Socket] /\ log \in LogLine
  BY DEF Inv, TypeOK
<1>6. "not text/xml" \in Deaths /\ "no bitrates" \in Deaths /\ "send failed" \in Deaths
  BY DEF Deaths
<1>7. ASSUME c.stream.available_bitrates \o Listed(msg(k)) # << >>,
             sock' = [rest(k) EXCEPT ![fd] = Sent(@, c.no_list_message)],
             NEW st \in Learn(c.stream, Listed(msg(k))),
             conn' = [conn EXCEPT ![ip] = entry(st)],
             Visited(ip),
             UNCHANGED << clients, dns_socket, log, backlog, browserVars >>
      PROVE  EntryStep(ip) \/ Ends
  <2>1. st \in Stream
    <3>1. Listed(msg(k)) \in Seq(Nat)
      BY <1>4, ListedIsSeq
    <3> QED BY <3>1, <1>2, <1>7, StreamSteps
  <2> DEFINE d == [Timed(c, sock[fd]) EXCEPT !.no_list_message = << >>]
  <2>2. d \in Connection /\ d.client_socket = c.client_socket
        /\ d.server_socket = c.server_socket
    <3>1. Timed(c, sock[fd]) \in Connection
      BY <1>1, <1>2, TimedIs, ServerTurnOwns
    <3> QED BY <3>1, <1>2, EmptySeq DEF Connection, Message, Timed
  <2>3. entry(st) \in Connection /\ entry(st).client_socket = c.client_socket
        /\ entry(st).server_socket = c.server_socket
    BY <2>1, <2>2, ResponseDoneIs
  <2> DEFINE there == Sent(Read(sock[fd], k), c.no_list_message)
  <2>4. there \in Socket /\ there.kind = sock[fd].kind /\ there.ip = sock[fd].ip
    BY <1>2, <1>4, SentKeeps
  <2>5. sock' = [sock EXCEPT ![fd] = there]
    BY <1>1, <1>5, <1>7
  <2> HIDE DEF entry, there
  <2>6. Serves(ip)
    BY <1>1, <1>7, VisitedServes
  <2>7. SameDescriptors(ip, entry(st))
    BY <1>1, <1>5, <1>7, <2>3, <2>4, <2>5, <2>6 DEF SameDescriptors, Mine
  <2> QED BY <2>7, SameDescriptorsStep
<1> HIDE DEF msg, rest, entry
<1> QED BY <1>3, <1>6, <1>7 DEF Ends

(* What a response that is done leaves of the stream and of the log. *)
LEMMA UpdateThroughputIs ==
  ASSUME NEW ip \in Client, NEW c \in Connection, log \in LogLine,
         NEW msg \in Message, NEW result \in UpdateThroughput(c, ip, msg)
  PROVE  result[1] \in Stream /\ result[2] \in LogLine
<1>1. c.stream \in Stream /\ c.server_conn_start \in Nat
  BY DEF Connection
<1>2. CASE ~ IsVideo(msg)
  BY <1>1, <1>2 DEF UpdateThroughput
<1>3. CASE IsVideo(msg)
  <2>1. msg[Len(msg)].n \in Nat /\ msg[Len(msg)].br \in Nat
    <3>1. Len(msg) \in 1 .. Len(msg)
      BY <1>3, UnitOfMessage DEF IsVideo
    <3>2. msg[Len(msg)] \in Unit
      BY <3>1, ElementOfSeq DEF Message
    <3> QED BY <3>2 DEF Unit
  <2>2. \A new \in Measured : Measure(c.stream, new) \in Stream
    BY <1>1, StreamSteps, MiProxyAssumption
  <2>3. c.stream.chunkname \in Nat /\ c.stream.current_bitrate \in Nat
    BY <1>1 DEF Stream
  <2> DEFINE line == [ ip        |-> ip,
                       chunkname |-> c.stream.chunkname,
                       bitrate   |-> c.stream.current_bitrate,
                       start     |-> c.server_conn_start,
                       n         |-> msg[Len(msg)].n,
                       br        |-> msg[Len(msg)].br ]
  <2>4. line \in LogLine
    BY <1>1, <2>1, <2>3 DEF LogLine
  <2>5. UpdateThroughput(c, ip, msg) = { << Measure(c.stream, new), line >> : new \in Measured }
    BY <1>3 DEF UpdateThroughput
  <2> HIDE DEF line
  <2> QED BY <2>2, <2>4, <2>5
<1> QED BY <1>2, <1>3

(* A send leaves the loop in the scan, or in send() with a descriptor.     *)
LEMMA SendsOnIs ==
  ASSUME NEW fd \in Fd, NEW rest \in Message, SendsOn(fd, rest)
  PROVE  /\ pc' \in { "scan", "send" }
         /\ sending' \in [ fd : Fd \cup { None }, rest : Message ]
         /\ pc' = "send" => sending'.fd \in Fd
<1>1. << >> \in Message
  BY EmptySeq DEF Message
<1> QED BY <1>1 DEF SendsOn, NotSending

LEMMA ServerForwardStep == ASSUME Inv, NEW ip, ServerForward(ip) PROVE EntryStep(ip) \/ Ends
<1> DEFINE fd == conn[ip].server_socket
<1> DEFINE client == conn[ip].client_socket
<1> DEFINE c == Timed(conn[ip], sock[fd])
<1>1. ServerTurn(ip) /\ IsNext(ip) /\ fd \in Fd /\ client # fd /\ sock[fd] \in Socket
  BY ServerTurnOwns DEF ServerForward
<1>2. conn[ip] \in Connection /\ ip \in Client /\ client \in Fd /\ sock[client] \in Socket
  BY <1>1, TurnOwns DEF Owned
<1> DEFINE msg(k) == conn[ip].server_message \o Taken(sock[fd], k)
<1> DEFINE entry(st) == ResponseDone(c, st)
<1>3. PICK k \in Reads(sock[fd]) :
        IF ~ CanSend(sock[client]) THEN Dies("send failed")
        ELSE \E result \in UpdateThroughput(c, ip, msg(k)), m \in Fits(sock[client], msg(k)) :
               /\ conn' = [conn EXCEPT ![ip] = entry(result[1])]
               /\ log' = result[2]
               /\ sock' = [sock EXCEPT ![fd] = Read(@, k),
                                       ![client] = Sent(@, Before(msg(k), m))]
               /\ SendsOn(client, Behind(msg(k), m))
               /\ todo' = todo \ { ip }
               /\ UNCHANGED << readfds, clients, dns_socket, backlog, browserVars >>
  BY DEF ServerForward
<1>4. msg(k) \in Message /\ Read(sock[fd], k) \in Socket
      /\ Read(sock[fd], k).kind = sock[fd].kind /\ Read(sock[fd], k).ip = sock[fd].ip
  BY <1>1, ServerReads, ServerTurnOwns
<1>5. sock \in [Fd -> Socket] /\ log \in LogLine
  BY DEF Inv, TypeOK
<1>6. "send failed" \in Deaths
  BY DEF Deaths
<1>7. c \in Connection /\ c.client_socket = client /\ c.server_socket = fd
  <2>1. c \in Connection
    BY <1>1, <1>2, TimedIs
  <2> QED BY <2>1, <1>2 DEF Timed, Connection
<1> HIDE DEF c, msg
<1>8. ASSUME NEW result \in UpdateThroughput(c, ip, msg(k)),
             NEW m \in Fits(sock[client], msg(k)),
             conn' = [conn EXCEPT ![ip] = entry(result[1])],
             log' = result[2],
             sock' = [sock EXCEPT ![fd] = Read(@, k), ![client] = Sent(@, Before(msg(k), m))],
             SendsOn(client, Behind(msg(k), m)),
             todo' = todo \ { ip },
             UNCHANGED << readfds, clients, dns_socket, backlog, browserVars >>
      PROVE  EntryStep(ip) \/ Ends
  <2>1. result[1] \in Stream /\ result[2] \in LogLine
    BY <1>2, <1>4, <1>5, <1>7, UpdateThroughputIs
  <2> DEFINE st == result[1]
  <2>2. entry(st) \in Connection /\ entry(st).client_socket = client
        /\ entry(st).server_socket = fd
    BY <1>7, <2>1, ResponseDoneIs
  <2>3. Before(msg(k), m) \in Message /\ Behind(msg(k), m) \in Message
    BY <1>4, FitsSplits
  <2> DEFINE there == Read(sock[fd], k)
  <2> DEFINE here == Sent(sock[client], Before(msg(k), m))
  <2>4. here \in Socket /\ here.kind = sock[client].kind /\ here.ip = sock[client].ip
    BY <1>2, <2>3, SentKeeps
  <2>5. sock' = [sock EXCEPT ![fd] = there, ![client] = here]
    BY <1>1, <1>8
  <2>6. conn' = [conn EXCEPT ![ip] = entry(st)] /\ log' \in LogLine
    BY <1>8, <2>1
  <2>7. there \in Socket /\ there.kind = sock[fd].kind /\ there.ip = sock[fd].ip
    BY <1>4
  <2>8. Serves(ip)
    BY <1>1, <1>2, <1>8, <2>3, SendsOnIs DEF Serves
  <2> HIDE DEF entry, there, here, st
  <2>9. sock' \in [Fd -> Socket]
        /\ \A g \in Fd : /\ sock'[g].kind = sock[g].kind
                         /\ sock'[g].ip = sock[g].ip
                         /\ g \notin Mine(ip) => sock'[g] = sock[g]
    BY <1>1, <1>2, <1>5, <2>4, <2>5, <2>7 DEF Mine
  <2>10. SameDescriptors(ip, entry(st))
    BY <1>8, <2>2, <2>6, <2>8, <2>9 DEF SameDescriptors
  <2> QED BY <2>10, SameDescriptorsStep
<1> HIDE DEF entry
<1> QED BY <1>3, <1>6, <1>8 DEF Ends

-----------------------------------------------------------------------------

(***************************************************************************)
(* A step of a browser or of the web server: the proxy's own state does    *)
(* not change, no descriptor changes hands, and none becomes silent.       *)
(***************************************************************************)
AroundProxy ==
  /\ UNCHANGED << loopVars, proxyVars >>
  /\ sock' \in [Fd -> Socket]
  /\ \A fd \in Fd : /\ sock'[fd].kind = sock[fd].kind
                    /\ sock'[fd].ip = sock[fd].ip
                    /\ Readable(sock[fd]) => Readable(sock'[fd])
  /\ backlog' \in Seq(Client)
  /\ backlog # << >> => backlog' # << >>
  /\ asked' \in [Fd -> Nat]
  /\ got' \in [Fd -> Message]
  /\ sent' \in [Client -> Nat]
  /\ opened' \in [Client -> Nat]
  /\ player' \in [Client -> BOOLEAN]

LEMMA AroundProxyInv == ASSUME Inv, AroundProxy PROVE Inv'
<1>1. TypeOK'
  BY DEF Inv, TypeOK, AroundProxy, loopVars, proxyVars
<1>2. Waits' /\ ScansEntries' /\ SendsSome'
  BY DEF Inv, Waits, ScansEntries, SendsSome, AroundProxy, loopVars, proxyVars
<1>3. FdOwnership'
  <2> SUFFICES ASSUME Alive, NEW ip \in clients PROVE Owned(ip)'
    BY DEF FdOwnership, Owned, Alive, AroundProxy, loopVars, proxyVars
  <2>1. Owned(ip)
    BY InvOwned DEF Inv
  <2> QED BY <2>1 DEF Owned, AroundProxy, proxyVars
<1> QED BY <1>1, <1>2, <1>3 DEF Inv

(* A step that replaces one socket. *)
OneSocket(fd, s) ==
  /\ UNCHANGED << loopVars, proxyVars, backlog, sent, opened >>
  /\ sock' = [sock EXCEPT ![fd] = s]
  /\ s \in Socket /\ s.kind = sock[fd].kind /\ s.ip = sock[fd].ip
  /\ Readable(sock[fd]) => Readable(s)
  /\ asked' \in [Fd -> Nat]
  /\ got' \in [Fd -> Message]
  /\ player' \in [Client -> BOOLEAN]

LEMMA OneSocketAround ==
  ASSUME Inv, NEW fd \in Fd, NEW s, OneSocket(fd, s)
  PROVE  AroundProxy
BY DEF Inv, TypeOK, OneSocket, AroundProxy

(* What arrives on a connection leaves it readable. *)
LEMMA ArrivesKeeps ==
  ASSUME NEW s \in Socket, NEW msg \in Message, NEW out \in Message
  PROVE  LET t == [s EXCEPT !.inq = @ \o msg, !.outq = out]
         IN  /\ t \in Socket /\ t.kind = s.kind /\ t.ip = s.ip
             /\ Readable(s) => Readable(t)
<1>1. s.inq \in Message /\ s.inq \o msg \in Message
  BY ConcatIsMessage DEF Socket
<1>2. s.inq # << >> => s.inq \o msg # << >>
  BY <1>1, ConcatEqualIffEmpty DEF Message
<1> QED BY <1>1, <1>2 DEF Socket, Readable

LEMMA OpenAround == ASSUME Inv, NEW ip \in Client, OpenConnection(ip) PROVE AroundProxy
<1>1. backlog \in Seq(Client)
  BY DEF Inv, TypeOK
<1>2. Append(backlog, ip) \in Seq(Client) /\ Append(backlog, ip) # << >>
  BY <1>1, AppendProperties
<1> QED BY SMTT(30), <1>2 DEF Inv, TypeOK, AroundProxy, OpenConnection

LEMMA SendRequestAround ==
  ASSUME Inv, NEW ip \in Client, NEW fd \in Fd, NEW kind \in Asks, SendRequest(ip, fd, kind)
  PROVE  AroundProxy
<1> DEFINE n == sent[ip] + 1
<1> DEFINE u == [ ip |-> ip, n |-> n, kind |-> kind, br |-> 0, part |-> "line" ]
<1> DEFINE s == [sock[fd] EXCEPT !.inq = @ \o Whole(u, RequestParts)]
<1>1. sock[fd] \in Socket /\ n \in Nat /\ asked \in [Fd -> Nat] /\ sent \in [Client -> Nat]
  BY DEF Inv, TypeOK
<1>2. u \in Unit
  BY <1>1, MiProxyAssumption DEF Unit, Kinds, Parts
<1>3. Whole(u, RequestParts) \in Message
  BY <1>2, WholeIsMessage, PartsAreParts
<1>4. s \in Socket /\ s.kind = sock[fd].kind /\ s.ip = sock[fd].ip
      /\ (Readable(sock[fd]) => Readable(s))
  <2>1. sock[fd].inq \in Message /\ sock[fd].inq \o Whole(u, RequestParts) \in Message
    BY <1>1, <1>3, ConcatIsMessage DEF Socket
  <2>2. sock[fd].inq # << >> => sock[fd].inq \o Whole(u, RequestParts) # << >>
    BY <2>1, <1>3, ConcatEqualIffEmpty DEF Message
  <2> HIDE DEF u
  <2> QED BY <1>1, <2>1, <2>2 DEF Socket, Readable
<1>5. /\ sock' = [sock EXCEPT ![fd] = s]
      /\ asked' = [asked EXCEPT ![fd] = n] /\ sent' = [sent EXCEPT ![ip] = n]
      /\ UNCHANGED << loopVars, proxyVars, backlog, got, opened, player >>
  BY DEF SendRequest
<1> HIDE DEF s, n
<1> QED BY <1>1, <1>4, <1>5 DEF Inv, TypeOK, AroundProxy

LEMMA ReceiveAround ==
  ASSUME Inv, NEW ip \in Client, NEW fd \in Fd, Receive(ip, fd)
  PROVE  AroundProxy
<1> DEFINE all == Delivered(fd)
<1>1. sock[fd] \in Socket /\ got[fd] \in Message /\ sock[fd].outq \in Message
      /\ asked \in [Fd -> Nat] /\ got \in [Fd -> Message] /\ player \in [Client -> BOOLEAN]
  BY DEF Inv, TypeOK, Socket
<1>2. all \in Message /\ Len(all) \in Nat /\ << >> \in Message
  BY <1>1, ConcatIsMessage, LenProperties, EmptySeq DEF Delivered, Message
<1>3. ASSUME NEW left \in Message, sock' = [sock EXCEPT ![fd].outq = left],
             asked' \in [Fd -> Nat], got' \in [Fd -> Message],
             player' \in [Client -> BOOLEAN]
      PROVE  AroundProxy
  <2> DEFINE s == [sock[fd] EXCEPT !.outq = left]
  <2>1. s \in Socket /\ s.kind = sock[fd].kind /\ s.ip = sock[fd].ip
        /\ (Readable(sock[fd]) => Readable(s))
    BY <1>1 DEF Socket, Readable
  <2>2. OneSocket(fd, s)
    BY <1>3, <2>1 DEF OneSocket, Receive
  <2> QED BY <2>2, OneSocketAround
<1>4. CASE /\ sock' = [sock EXCEPT ![fd].outq = << >>]
           /\ got' = [got EXCEPT ![fd] = all]
           /\ UNCHANGED << asked, player >>
  BY <1>1, <1>2, <1>3, <1>4
<1>5. ASSUME NEW len \in ResponseLength(all),
             sock' = [sock EXCEPT ![fd].outq = Behind(all, len)],
             got' = [got EXCEPT ![fd] = << >>],
             asked' = [asked EXCEPT ![fd] = 0],
             player' = [player EXCEPT ![ip] = @ \/ all[1].kind \in { "manifest", "nolist" }]
      PROVE  AroundProxy
  <2>1. Behind(all, len) \in Message
    BY <1>2, PartOfMessage DEF ResponseLength, Behind
  <2>2. asked' \in [Fd -> Nat] /\ got' \in [Fd -> Message]
    BY <1>1, <1>2, <1>5
  <2>3. player' \in [Client -> BOOLEAN]
    BY <1>1, <1>5
  <2> QED BY <1>3, <1>5, <2>1, <2>2, <2>3
<1> QED BY <1>4, <1>5 DEF Receive

LEMMA CloseAround ==
  ASSUME Inv, NEW ip \in Client, NEW fd \in Fd, CloseConnection(ip, fd)
  PROVE  AroundProxy
<1>1. sock[fd] \in Socket /\ asked' \in [Fd -> Nat] /\ player' \in [Client -> BOOLEAN]
  BY DEF Inv, TypeOK, CloseConnection
<1>2. got' \in [Fd -> Message]
  BY EmptySeq DEF Inv, TypeOK, CloseConnection, Message
<1>3. OneSocket(fd, PeerCloses(sock[fd]))
  BY <1>1, <1>2, PeerClosesKeeps DEF OneSocket, CloseConnection
<1> QED BY <1>3, OneSocketAround

LEMMA WebServerAround ==
  ASSUME Inv, NEW fd \in Fd, Respond(fd) \/ ServerClose(fd) \/ ServerAbort(fd)
  PROVE  AroundProxy
<1> DEFINE q == sock[fd].outq
<1>1. /\ sock[fd] \in Socket /\ q \in Message
      /\ asked \in [Fd -> Nat] /\ got \in [Fd -> Message]
      /\ player \in [Client -> BOOLEAN] /\ sock \in [Fd -> Socket]
  BY DEF Inv, TypeOK, Socket
<1>2. CASE Respond(fd)
  <2>1. PICK answer \in Answers(q[1]) :
          sock' = [sock EXCEPT ![fd].inq = @ \o answer, ![fd].outq = AfterRequest(@)]
    BY <1>2 DEF Respond
  <2> DEFINE s == [sock[fd] EXCEPT !.inq = @ \o answer, !.outq = AfterRequest(q)]
  <2>2. answer \in Message /\ AfterRequest(q) \in Message
    BY <1>1, <1>2, AnswersAreMessages DEF Respond
  <2>3. sock' = [sock EXCEPT ![fd] = s]
    BY <2>1, <1>1
  <2>4. s \in Socket /\ s.kind = sock[fd].kind /\ s.ip = sock[fd].ip
        /\ (Readable(sock[fd]) => Readable(s))
    BY <1>1, <2>2, ArrivesKeeps
  <2> HIDE DEF s
  <2>5. OneSocket(fd, s)
    BY <1>1, <1>2, <2>3, <2>4 DEF OneSocket, Respond, browserVars
  <2> QED BY <2>5, OneSocketAround
<1>3. CASE ServerClose(fd)
  <2>1. OneSocket(fd, PeerCloses(sock[fd]))
    BY <1>1, <1>3, PeerClosesKeeps DEF OneSocket, ServerClose, browserVars
  <2> QED BY <2>1, OneSocketAround
<1>4. CASE ServerAbort(fd)
  <2> DEFINE part == SubSeq(Whole(q[1], ResponseParts(q[1].kind)), 1, 2)
  <2> DEFINE s == [sock[fd] EXCEPT !.inq = @ \o part, !.outq = AfterRequest(q)]
  <2>1. part \in Message /\ AfterRequest(q) \in Message
    BY <1>1, <1>4, AnswersAreMessages DEF ServerAbort
  <2>2. sock' = [sock EXCEPT ![fd] = PeerCloses(s)]
    BY <1>4 DEF ServerAbort
  <2>3. s \in Socket /\ s.kind = sock[fd].kind /\ s.ip = sock[fd].ip
        /\ (Readable(sock[fd]) => Readable(s))
    BY <1>1, <2>1, ArrivesKeeps
  <2> HIDE DEF s
  <2>4. OneSocket(fd, PeerCloses(s))
    BY <1>1, <1>4, <2>2, <2>3, PeerClosesKeeps DEF OneSocket, ServerAbort, browserVars
  <2> QED BY <2>4, OneSocketAround
<1> QED BY <1>2, <1>3, <1>4

-----------------------------------------------------------------------------

(* Sending on changes one socket, which stays what it is and as readable.  *)
SendStep ==
  /\ pc = "send"
  /\ sock' \in [Fd -> Socket]
  /\ \A fd \in Fd : /\ sock'[fd].kind = sock[fd].kind
                    /\ sock'[fd].ip = sock[fd].ip
                    /\ Readable(sock[fd]) => Readable(sock'[fd])
  /\ pc' \in { "scan", "send" }
  /\ sending' \in [ fd : Fd \cup { None }, rest : Message ]
  /\ pc' = "send" => sending'.fd \in Fd
  /\ UNCHANGED << readfds, todo, proxyVars, backlog, browserVars >>

LEMMA SendMoreStep == ASSUME Inv, SendMore PROVE SendStep \/ Ends
<1> DEFINE fd == sending.fd
<1> DEFINE msg == sending.rest
<1>1. pc = "send" /\ fd \in Fd /\ msg \in Message /\ sock \in [Fd -> Socket]
  BY DEF Inv, TypeOK, SendsSome, SendMore
<1>2. CASE ~ CanSend(sock[fd])
  BY <1>2 DEF SendMore, Ends, Deaths
<1>3. CASE CanSend(sock[fd])
  <2>1. PICK m \in Fits(sock[fd], msg) :
          /\ sock' = [sock EXCEPT ![fd] = Sent(@, Before(msg, m))]
          /\ SendsOn(fd, Behind(msg, m))
          /\ UNCHANGED << readfds, todo, proxyVars, backlog, browserVars >>
    BY <1>3 DEF SendMore
  <2>2. Before(msg, m) \in Message /\ Behind(msg, m) \in Message
    BY <1>1, FitsSplits
  <2> DEFINE s == Sent(sock[fd], Before(msg, m))
  <2>3. s \in Socket /\ s.kind = sock[fd].kind /\ s.ip = sock[fd].ip
        /\ (Readable(sock[fd]) => Readable(s))
    BY <1>1, <2>2, SentKeeps
  <2>4. sock' = [sock EXCEPT ![fd] = s]
    BY <2>1
  <2>5. /\ pc' \in { "scan", "send" }
        /\ sending' \in [ fd : Fd \cup { None }, rest : Message ]
        /\ pc' = "send" => sending'.fd \in Fd
    BY <1>1, <2>1, <2>2, SendsOnIs
  <2> HIDE DEF s, fd, msg
  <2> QED BY <1>1, <2>1, <2>3, <2>4, <2>5 DEF SendStep
<1> QED BY <1>2, <1>3

LEMMA SendMoreInv == ASSUME Inv, SendMore PROVE Inv'
<1>1. CASE SendStep
  <2>1. TypeOK'
    BY <1>1 DEF Inv, TypeOK, SendStep, Phases, proxyVars, browserVars
  <2>2. Waits' /\ ScansEntries' /\ SendsSome'
    BY <1>1 DEF Inv, Waits, ScansEntries, SendsSome, SendStep, proxyVars
  <2>3. FdOwnership'
    <3>1. Alive /\ UNCHANGED << clients, conn >>
      BY <1>1 DEF SendStep, Alive, Phases, proxyVars
    <3> SUFFICES ASSUME NEW ip \in clients PROVE Owned(ip)'
      BY <3>1 DEF FdOwnership, Owned
    <3>2. Owned(ip)
      BY <3>1, InvOwned
    <3> QED BY <1>1, <3>1, <3>2 DEF Owned, SendStep
  <2> QED BY <2>1, <2>2, <2>3 DEF Inv
<1>2. CASE Ends
  BY <1>2, DiesKeeps
<1> QED BY <1>1, <1>2, SendMoreStep

(* What a handler's call comes to. *)
LEMMA HandlerStep ==
  ASSUME Inv, NEW ip, HandleClient(ip) \/ HandleServer(ip)
  PROVE  EntryStep(ip) \/ ClientGone(ip) \/ Ends
<1>1. ClientReset(ip) \/ ServerReset(ip) => Ends
  BY DEF ClientReset, ServerReset, Ends, Deaths
<1> QED BY <1>1, ClientPartialStep, ClientRequestStep, ServerGoneStep, ServerPartialStep,
           ServerManifestStep, ServerForwardStep DEF HandleClient, HandleServer

LEMMA BrowserAround ==
  ASSUME Inv, (\E ip \in Client : Browser(ip)) \/ WebServer
  PROVE  AroundProxy
BY OpenAround, SendRequestAround, ReceiveAround, CloseAround, WebServerAround
   DEF Browser, WebServer

(* The invariant is inductive. *)
LEMMA NextInv == Inv /\ [Next]_vars => Inv'
<1> SUFFICES ASSUME Inv, [Next]_vars PROVE Inv'
  OBVIOUS
<1>1. CASE Select
  BY <1>1, SelectInv
<1>2. CASE Accept
  BY <1>2, AcceptInv
<1>3. CASE ScanEnds
  BY <1>3, ScanEndsInv
<1>4. ASSUME NEW ip \in Client, Skip(ip) PROVE Inv'
  BY <1>4, SkipInv
<1>8. CASE SendMore
  BY <1>8, SendMoreInv
<1>5. ASSUME NEW ip \in Client, HandleClient(ip) \/ HandleServer(ip) PROVE Inv'
  BY <1>5, HandlerStep, EntryStepInv, ClientGoneInv, DiesKeeps
<1>6. CASE (\E ip \in Client : Browser(ip)) \/ WebServer
  BY <1>6, BrowserAround, AroundProxyInv
<1>7. CASE UNCHANGED vars
  BY <1>7 DEF vars, loopVars, proxyVars, browserVars, Inv, TypeOK, Waits, ScansEntries,
              SendsSome, FdOwnership, Alive
<1> QED BY <1>1, <1>2, <1>3, <1>4, <1>5, <1>6, <1>7, <1>8 DEF Next, Proxy

(***************************************************************************)
(* Every variable of the proxy and around it keeps to its type, whatever   *)
(* is accepted, read, forwarded, closed or fails (run() and every handler  *)
(* it calls).                                                              *)
(***************************************************************************)
THEOREM TypeCorrect == Spec => []TypeOK
<1>1. Inv => TypeOK
  BY DEF Inv
<1> QED BY InitInv, NextInv, <1>1, PTL DEF Spec

(***************************************************************************)
(* The entries of the map hold descriptors that are open, of the right     *)
(* kind and of their own browser, although handle_master_connection        *)
(* overwrites a descriptor without closing it, both handlers close theirs, *)
(* and the kernel gives every closed number out again.                     *)
(***************************************************************************)
THEOREM FdOwnershipAlways == Spec => []FdOwnership
<1>1. Inv => FdOwnership
  BY DEF Inv
<1> QED BY InitInv, NextInv, <1>1, PTL DEF Spec

-----------------------------------------------------------------------------

(***************************************************************************)
(* What select() reported: until the scan begins it holds of every         *)
(* descriptor reported; from then on of those the scan has yet to come to. *)
(***************************************************************************)
Heard ==
  /\ pc = "accept" => \A fd \in readfds : Readable(sock[fd]) /\ sock[fd].kind # "free"
  /\ NoBlockingRead

(* A step for one entry leaves the readiness of the others' descriptors.   *)
LEMMA EntryHeard ==
  ASSUME Inv, Heard, NEW ip, IsNext(ip), OnlyEntry(ip),
         todo' \subseteq todo \ { ip }, todo' \subseteq clients',
         readfds' = readfds, pc' # "accept"
  PROVE  Heard'
<1>1. Alive /\ ip \in Client /\ pc = "scan" /\ readfds \subseteq Fd
  BY TurnOwns DEF IsNext, Inv, TypeOK
<1> SUFFICES ASSUME NEW other \in todo', NEW fd \in Mine(other)' \cap readfds
             PROVE  Readable(sock[fd])'
  BY DEF Heard, NoBlockingRead, Mine
<1>2. other \in todo /\ other \in clients' \ { ip }
  OBVIOUS
<1>3. conn'[other] = conn[other] /\ \A g \in Mine(other) \cap Fd : sock'[g] = sock[g]
  BY <1>1, <1>2, OthersKept
<1>4. fd \in Mine(other) /\ fd \in Fd
  BY <1>1, <1>3 DEF Mine
<1>5. Readable(sock[fd])
  BY <1>1, <1>2, <1>4 DEF Heard, NoBlockingRead, Mine
<1> QED BY <1>3, <1>4, <1>5

LEMMA HandlerHeard ==
  ASSUME Inv, Heard, "revisit" \notin EraseOutcomes,
         NEW ip, HandleClient(ip) \/ HandleServer(ip)
  PROVE  Heard'
<1>1. CASE EntryStep(ip)
  <2>1. IsNext(ip) /\ OnlyEntry(ip) /\ todo' = todo \ { ip } /\ clients' = clients
        /\ readfds' = readfds /\ pc' # "accept" /\ pc = "scan"
    BY <1>1 DEF EntryStep, Serves, IsNext
  <2>2. todo \subseteq clients
    BY <2>1 DEF Inv, ScansEntries
  <2> QED BY <2>1, <2>2, EntryHeard
<1>2. CASE ClientGone(ip)
  <2>1. IsNext(ip) /\ OnlyEntry(ip) /\ clients' = clients \ { ip } /\ pc = "scan"
        /\ readfds' = readfds
    BY <1>2, ClientGoneOnly DEF ClientGone, IsNext
  <2>2. todo \subseteq clients
    BY <2>1 DEF Inv, ScansEntries
  <2>3. CASE pc' = "iterator"
    BY <2>3 DEF Heard, NoBlockingRead
  <2>4. CASE todo' = todo \ { ip } /\ UNCHANGED pc
    BY <2>1, <2>2, <2>4, EntryHeard
  <2> QED BY <1>2, <2>3, <2>4 DEF ClientGone
<1>3. CASE Ends
  BY <1>3 DEF Ends, Dies, Deaths, Heard, NoBlockingRead
<1> QED BY <1>1, <1>2, <1>3, HandlerStep

(* A new descriptor is not one that select() reported. *)
LEMMA AcceptHeard == ASSUME Inv, Heard, Accept PROVE Heard'
<1>1. CASE AcceptKnown \/ AcceptNew
  <2>1. PICK fd \in LowestFree(sock) :
          /\ sock' = [sock EXCEPT ![fd] = NewSocket("client", Head(backlog))]
          /\ pc = "accept" /\ pc' = "scan" /\ readfds' = readfds
    BY <1>1 DEF AcceptKnown, AcceptNew, Accepted
  <2>2. fd \in Fd /\ sock[fd].kind = "free" /\ sock \in [Fd -> Socket] /\ readfds \subseteq Fd
    BY DEF LowestFree, Inv, TypeOK
  <2>3. \A g \in readfds : sock'[g] = sock[g] /\ Readable(sock[g])
    BY <2>1, <2>2 DEF Heard
  <2> QED BY <2>1, <2>3 DEF Heard, NoBlockingRead
<1>2. CASE AcceptWithoutAddress \/ AcceptFails
  BY <1>2 DEF AcceptWithoutAddress, AcceptFails, Dies, Heard, NoBlockingRead
<1> QED BY <1>1, <1>2 DEF Accept

LEMMA SelectHeard == ASSUME Inv, Heard, Select PROVE Heard'
<1>1. \A ip \in clients : Owned(ip)
  BY InvOwned DEF Select, Alive, Phases
<1>2. \A fd \in Watched : sock[fd].kind # "free"
  BY <1>1 DEF Watched, Owned
<1>3. \A fd \in readfds' : Readable(sock[fd]) /\ sock[fd].kind # "free"
  BY <1>2 DEF Select, Ready
<1>4. sock' = sock
  BY DEF Select
<1> QED BY <1>3, <1>4 DEF Heard, NoBlockingRead

LEMMA AroundHeard == ASSUME Inv, Heard, AroundProxy PROVE Heard'
<1>1. UNCHANGED << pc, readfds, todo, conn >>
  BY DEF AroundProxy, loopVars, proxyVars
<1>2. \A fd \in readfds : /\ sock'[fd].kind = sock[fd].kind
                          /\ Readable(sock[fd]) => Readable(sock'[fd])
  BY DEF AroundProxy, Inv, TypeOK
<1> QED BY <1>1, <1>2 DEF Heard, NoBlockingRead

LEMMA SendMoreHeard == ASSUME Inv, Heard, SendMore PROVE Heard'
<1>1. CASE SendStep
  BY <1>1 DEF Inv, TypeOK, SendStep, Heard, NoBlockingRead, proxyVars
<1>2. CASE Ends
  BY <1>2 DEF Ends, Dies, Deaths, Heard, NoBlockingRead
<1> QED BY <1>1, <1>2, SendMoreStep

LEMMA NextHeard ==
  ASSUME "revisit" \notin EraseOutcomes
  PROVE  Inv /\ Heard /\ [Next]_vars => Heard'
<1> SUFFICES ASSUME Inv, Heard, [Next]_vars PROVE Heard'
  OBVIOUS
<1>1. CASE Select
  BY <1>1, SelectHeard
<1>2. CASE Accept
  BY <1>2, AcceptHeard
<1>3. CASE ScanEnds
  BY <1>3 DEF ScanEnds, Heard, NoBlockingRead
<1>8. CASE SendMore
  BY <1>8, SendMoreHeard
<1>4. ASSUME NEW ip \in Client, Skip(ip) PROVE Heard'
  BY <1>4 DEF Skip, IsNext, Visited, Heard, NoBlockingRead, proxyVars
<1>5. ASSUME NEW ip \in Client, HandleClient(ip) \/ HandleServer(ip) PROVE Heard'
  BY <1>5, HandlerHeard
<1>6. CASE (\E ip \in Client : Browser(ip)) \/ WebServer
  BY <1>6, BrowserAround, AroundHeard
<1>7. CASE UNCHANGED vars
  BY <1>7 DEF vars, loopVars, proxyVars, Heard, NoBlockingRead
<1> QED BY <1>1, <1>2, <1>3, <1>4, <1>5, <1>6, <1>7, <1>8 DEF Next, Proxy

(***************************************************************************)
(* The loop never calls read() on a descriptor that has nothing to say,    *)
(* as long as incrementing the iterator to an erased entry does not bring  *)
(* the scan back to entries it has been at (run() and                      *)
(* handle_client_connection).                                              *)
(***************************************************************************)
THEOREM NoBlockingReadAlways ==
  ASSUME "revisit" \notin EraseOutcomes
  PROVE  Spec => []NoBlockingRead
<1>1. Init => Heard
  BY DEF Init, Heard, NoBlockingRead
<1>2. Inv /\ Heard /\ [Next]_vars => Heard'
  BY NextHeard
<1>3. Heard => NoBlockingRead
  BY DEF Heard
<1> QED BY InitInv, NextInv, <1>1, <1>2, <1>3, PTL DEF Spec

-----------------------------------------------------------------------------

(***************************************************************************)
(* Leaks.  Every step leaves a browser the descriptors held beside its     *)
(* connection to the web server, or fewer, and as many connections that    *)
(* wait; but for opening one, accepting one and closing one.               *)
(***************************************************************************)

(* An injection into a finite set counts. *)
LEMMA NoMoreThan ==
  ASSUME NEW S, NEW T, IsFiniteSet(S), IsFiniteSet(T), NEW f \in [S -> T],
         \A x, y \in S : f[x] = f[y] => x = y
  PROVE  Cardinality(S) =< Cardinality(T)
<1>1. ~ (Cardinality(T) < Cardinality(S))
  <2> SUFFICES ASSUME Cardinality(T) < Cardinality(S) PROVE FALSE
    OBVIOUS
  <2>1. \E x, y \in S : x # y /\ f[x] = f[y]
    BY FS_PigeonHole
  <2> QED BY <2>1
<1>2. Cardinality(S) \in Nat /\ Cardinality(T) \in Nat
  BY FS_CardinalityType
<1> QED BY <1>1, <1>2

LEMMA BesideIsFinite ==
  ASSUME NEW ip
  PROVE  IsFiniteSet(Beside(ip)) /\ Cardinality(Beside(ip)) \in Nat
<1>1. IsFiniteSet(Fd)
  BY MiProxyAssumption, FS_Interval DEF Fd
<1>2. Beside(ip) \in SUBSET Fd
  BY DEF Beside
<1>3. IsFiniteSet(Beside(ip))
  BY <1>1, <1>2, FS_Subset
<1> QED BY <1>3, FS_CardinalityType

LEMMA WaitingIsFinite ==
  ASSUME NEW ip, backlog \in Seq(Client)
  PROVE  IsFiniteSet(Waiting(ip)) /\ Cardinality(Waiting(ip)) \in Nat
<1>1. Len(backlog) \in Nat
  BY LenProperties
<1>2. IsFiniteSet(1 .. Len(backlog))
  BY <1>1, FS_Interval
<1>3. Waiting(ip) \in SUBSET (1 .. Len(backlog))
  BY DEF Waiting
<1>4. IsFiniteSet(Waiting(ip))
  BY <1>2, <1>3, FS_Subset
<1> QED BY <1>4, FS_CardinalityType

LEMMA WaitingStaysFinite ==
  ASSUME NEW ip, Inv'
  PROVE  Cardinality(Waiting(ip)') \in Nat
<1>1. backlog' \in Seq(Client)
  BY DEF Inv, TypeOK
<1>2. Len(backlog') \in Nat
  BY <1>1, LenProperties
<1>3. IsFiniteSet(1 .. Len(backlog'))
  BY <1>2, FS_Interval
<1>4. Waiting(ip)' \in SUBSET (1 .. Len(backlog'))
  BY DEF Waiting
<1>5. IsFiniteSet(Waiting(ip)')
  BY <1>3, <1>4, FS_Subset
<1> QED BY <1>5, FS_CardinalityType

(* One more member, or none. *)
LEMMA OneMore ==
  ASSUME NEW S, IsFiniteSet(S), NEW x
  PROVE  /\ IsFiniteSet(S \cup { x })
         /\ Cardinality(S \cup { x }) \in Nat
         /\ Cardinality(S \cup { x }) =< Cardinality(S) + 1
<1>1. Cardinality(S) \in Nat
  BY FS_CardinalityType
<1>2. /\ IsFiniteSet(S \cup { x })
      /\ Cardinality(S \cup { x }) = IF x \in S THEN Cardinality(S) ELSE Cardinality(S) + 1
  BY FS_AddElement
<1> QED BY <1>1, <1>2

(* Fewer descriptors, and the same connections. *)
LEMMA FewerBeside ==
  ASSUME Inv, Inv', LeaksLimited, UNCHANGED << backlog, opened >>,
         \A ip \in Client : Beside(ip)' \subseteq Beside(ip)
  PROVE  LeaksLimited'
<1> SUFFICES ASSUME NEW ip \in Client
             PROVE  Cardinality(Beside(ip)') + Cardinality(Waiting(ip)') =< opened'[ip]
  BY DEF LeaksLimited
<1>1. IsFiniteSet(Beside(ip)) /\ Cardinality(Beside(ip)) \in Nat
  BY BesideIsFinite
<1>2. Cardinality(Beside(ip)') =< Cardinality(Beside(ip))
  BY <1>1, FS_Subset
<1>3. IsFiniteSet(Beside(ip)')
  BY <1>1, FS_Subset
<1>4. Cardinality(Beside(ip)') \in Nat
  BY <1>3, FS_CardinalityType
<1>5. Cardinality(Waiting(ip)) \in Nat /\ Waiting(ip)' = Waiting(ip)
  BY WaitingIsFinite DEF Inv, TypeOK, Waiting
<1>6. Cardinality(Beside(ip)) + Cardinality(Waiting(ip)) =< opened[ip] /\ opened[ip] \in Nat
  BY DEF LeaksLimited, Inv, TypeOK
<1> QED BY <1>1, <1>2, <1>4, <1>5, <1>6

LEMMA EntryStepBeside ==
  ASSUME Inv, NEW ip, EntryStep(ip), NEW other \in Client
  PROVE  Beside(other)' \subseteq Beside(other)
<1>1. ip \in clients /\ ip \in Client /\ clients' = clients
  BY TurnOwns DEF EntryStep, Serves
<1> SUFFICES ASSUME NEW fd \in Fd, sock'[fd].kind # "free", sock'[fd].ip = other,
                    other \in clients => fd # conn'[other].server_socket
             PROVE  fd \in Beside(other)
  BY <1>1 DEF Beside
<1>2. CASE other = ip
  <2>1. sock[fd].kind # "free" /\ sock[fd].ip = other
    BY <1>1, <1>2 DEF EntryStep, Frugal
  <2>2. fd # conn[ip].server_socket
    BY <1>1, <1>2 DEF EntryStep, Frugal
  <2> QED BY <1>2, <2>1, <2>2 DEF Beside
<1>3. CASE other # ip
  <2>1. conn'[other] = conn[other]
    BY <1>3 DEF EntryStep, OnlyEntry
  <2>2. fd # conn'[ip].server_socket
    <3>1. \A g \in Fd : g # None
      BY MiProxyAssumption DEF Fd, None
    <3> QED BY <1>3, <3>1 DEF EntryStep, Owned
  <2>3. sock[fd].kind # "free" /\ sock[fd].ip = other
    BY <2>2 DEF EntryStep, Frugal
  <2> QED BY <2>1, <2>3 DEF Beside
<1> QED BY <1>2, <1>3

(* What does not give a descriptor to anyone leaves no more of them.       *)
LEMMA NoneGiven ==
  ASSUME Inv, UNCHANGED << clients, conn >>,
         \A fd \in Fd : sock'[fd].kind = sock[fd].kind /\ sock'[fd].ip = sock[fd].ip,
         NEW other \in Client
  PROVE  Beside(other)' \subseteq Beside(other)
BY DEF Beside

LEMMA EndsLeaks == ASSUME Inv, Inv', LeaksLimited, Ends PROVE LeaksLimited'
<1>1. PICK how \in Deaths : Dies(how)
  BY DEF Ends
<1>2. UNCHANGED << sock, clients, conn, backlog, opened >>
  BY <1>1 DEF Dies, proxyVars, browserVars
<1>3. \A ip \in Client : Beside(ip)' \subseteq Beside(ip)
  BY <1>2, NoneGiven
<1> QED BY <1>2, <1>3, FewerBeside

(* The connection at the head of the backlog waits no longer.              *)
LEMMA WaitsNoLonger ==
  ASSUME NEW ip, backlog \in Seq(Client), backlog # << >>, backlog' = Tail(backlog)
  PROVE  Cardinality(Waiting(ip)')
           =< Cardinality(Waiting(ip)) - (IF ip = Head(backlog) THEN 1 ELSE 0)
<1>1. Len(backlog) \in Nat /\ Len(backlog') = Len(backlog) - 1
      /\ Head(backlog) = backlog[1] /\ Len(backlog) # 0
      /\ \A i \in 1 .. Len(backlog') : backlog'[i] = backlog[i + 1]
  BY HeadTailProperties, LenProperties, EmptySeq
<1>2. backlog' \in Seq(Client)
  BY HeadTailProperties
<1>3. IsFiniteSet(Waiting(ip)) /\ Cardinality(Waiting(ip)) \in Nat
  BY WaitingIsFinite
<1> DEFINE S == Waiting(ip)'
           T == Waiting(ip) \ { 1 }
           f == [i \in S |-> i + 1]
<1>4. S = { i \in 1 .. Len(backlog') : backlog'[i] = ip }
  BY DEF Waiting
<1>5. IsFiniteSet(S)
  <2>1. IsFiniteSet(1 .. Len(backlog'))
    BY <1>1, FS_Interval
  <2> QED BY <1>4, <2>1, FS_Subset
<1>6. f \in [S -> T] /\ \A x, y \in S : f[x] = f[y] => x = y
  <2>1. \A i \in S : i + 1 \in T
    BY <1>1, <1>4 DEF Waiting
  <2>2. \A i \in S : i \in Nat
    BY <1>4
  <2> HIDE DEF S, T
  <2> QED BY <2>1, <2>2
<1>7. IsFiniteSet(T) /\ Cardinality(T) = Cardinality(Waiting(ip))
                                          - (IF 1 \in Waiting(ip) THEN 1 ELSE 0)
  <2>1. PICK W : W = Waiting(ip)
    OBVIOUS
  <2>2. IsFiniteSet(W) /\ Cardinality(W) \in Nat
    BY <1>3, <2>1
  <2>3. IsFiniteSet(W \ { 1 })
        /\ Cardinality(W \ { 1 }) = IF 1 \in W THEN Cardinality(W) - 1 ELSE Cardinality(W)
    BY <2>2, FS_RemoveElement
  <2> QED BY <2>1, <2>2, <2>3
<1>8. 1 \in Waiting(ip) <=> ip = Head(backlog)
  BY <1>1 DEF Waiting
<1> HIDE DEF S, T, f
<1>9. Cardinality(S) =< Cardinality(T)
  BY <1>5, <1>6, <1>7, NoMoreThan
<1> QED BY <1>7, <1>8, <1>9 DEF S

(* What is accepted is held for one that does not wait any more.           *)
LEMMA AcceptedLeaks ==
  ASSUME Inv, Inv', LeaksLimited, pc = "accept",
         NEW ip \in Client, ip = Head(backlog), NEW fd \in LowestFree(sock),
         NEW entry \in Connection,
         Accepted(ip, fd),
         conn' = [conn EXCEPT ![ip] = entry],
         \/ ip \notin clients
         \/ entry.server_socket = conn[ip].server_socket
  PROVE  LeaksLimited'
<1>1. conn \in [Client -> Connection] /\ sock \in [Fd -> Socket]
      /\ backlog \in Seq(Client) /\ backlog # << >> /\ backlog' = Tail(backlog)
      /\ opened' = opened /\ opened \in [Client -> Nat] /\ clients' = clients \cup { ip }
  BY DEF Inv, TypeOK, Waits, Accepted, browserVars
<1>2. fd \in Fd /\ sock' = [sock EXCEPT ![fd] = NewSocket("client", ip)]
      /\ NewSocket("client", ip).ip = ip
  BY <1>1, NewSocketIs DEF LowestFree, Accepted
<1>3. \A other \in Client \ { ip } : Beside(other)' \subseteq Beside(other)
  BY <1>1, <1>2 DEF Beside
<1>4. Beside(ip)' \subseteq Beside(ip) \cup { fd }
  BY <1>1, <1>2 DEF Beside
<1> SUFFICES ASSUME NEW other \in Client
             PROVE  Cardinality(Beside(other)') + Cardinality(Waiting(other)') =< opened'[other]
  BY DEF LeaksLimited
<1>5. IsFiniteSet(Beside(other)) /\ Cardinality(Beside(other)) \in Nat
  BY BesideIsFinite
<1>6. Cardinality(Beside(other)') \in Nat
      /\ Cardinality(Beside(other)') =< Cardinality(Beside(other))
                                          + (IF other = ip THEN 1 ELSE 0)
  <2>1. CASE other # ip
    <3>1. Beside(other)' \subseteq Beside(other)
      BY <1>3, <2>1
    <3>2. IsFiniteSet(Beside(other)') /\ Cardinality(Beside(other)') =< Cardinality(Beside(other))
      BY <1>5, <3>1, FS_Subset
    <3> QED BY <2>1, <1>5, <3>2, FS_CardinalityType
  <2>2. CASE other = ip
    <3>1. PICK B, D : B = Beside(ip) /\ D = Beside(ip) \cup { fd }
      OBVIOUS
    <3>2. IsFiniteSet(B) /\ Cardinality(B) \in Nat /\ D = B \cup { fd }
      BY <1>5, <2>2, <3>1
    <3>3. IsFiniteSet(D) /\ Cardinality(D) \in Nat /\ Cardinality(D) =< Cardinality(B) + 1
      BY <3>2, OneMore
    <3>4. Beside(ip)' \subseteq D
      BY <1>4, <3>1
    <3>5. IsFiniteSet(Beside(ip)') /\ Cardinality(Beside(ip)') =< Cardinality(D)
      BY <3>3, <3>4, FS_Subset
    <3>6. Cardinality(Beside(ip)') \in Nat
      BY <3>5, FS_CardinalityType
    <3>7. Cardinality(Beside(ip)') =< Cardinality(B) + 1
      BY <3>2, <3>3, <3>5, <3>6
    <3> QED BY <2>2, <3>1, <3>6, <3>7
  <2> QED BY <2>1, <2>2
<1>7. Cardinality(Waiting(other)) \in Nat /\ Cardinality(Waiting(other)') \in Nat
  BY <1>1, WaitingIsFinite, WaitingStaysFinite
<1>8. Cardinality(Waiting(other)')
        =< Cardinality(Waiting(other)) - (IF other = ip THEN 1 ELSE 0)
  BY <1>1, WaitsNoLonger
<1>9. Cardinality(Beside(other)) + Cardinality(Waiting(other)) =< opened[other]
      /\ opened[other] \in Nat
  BY <1>1 DEF LeaksLimited
<1>10. opened'[other] = opened[other]
  BY <1>1
<1>11. CASE other = ip
  BY <1>5, <1>6, <1>7, <1>8, <1>9, <1>10, <1>11
<1>12. CASE other # ip
  BY <1>5, <1>6, <1>7, <1>8, <1>9, <1>10, <1>12
<1> QED BY <1>11, <1>12

LEMMA AcceptLeaks == ASSUME Inv, Inv', LeaksLimited, Accept PROVE LeaksLimited'
<1>1. CASE AcceptKnown
  <2>1. PICK ip : ip = Head(backlog)
    OBVIOUS
  <2>2. pc = "accept" /\ ip \in clients /\ ip \in Client
    BY <1>1, <2>1 DEF AcceptKnown, Inv, TypeOK
  <2>3. PICK fd \in LowestFree(sock) :
          /\ Accepted(ip, fd)
          /\ conn' = [conn EXCEPT ![ip].client_socket = fd]
    BY <1>1, <2>1 DEF AcceptKnown
  <2> DEFINE entry == [conn[ip] EXCEPT !.client_socket = fd]
  <2>4. conn[ip] \in Connection /\ fd \in Fd
    BY <2>2 DEF Inv, TypeOK, LowestFree
  <2>5. entry \in Connection /\ entry.server_socket = conn[ip].server_socket
    BY <2>4 DEF Connection
  <2>6. conn' = [conn EXCEPT ![ip] = entry]
    BY <2>3
  <2> HIDE DEF entry
  <2> QED BY <2>1, <2>2, <2>3, <2>5, <2>6, AcceptedLeaks
<1>2. CASE AcceptNew
  <2>1. PICK ip : ip = Head(backlog)
    OBVIOUS
  <2>2. pc = "accept" /\ ip \notin clients /\ ip \in Client
    BY <1>2, <2>1, HeadTailProperties DEF AcceptNew, Inv, TypeOK, Waits
  <2>3. PICK fd \in LowestFree(sock) :
          /\ Accepted(ip, fd)
          /\ conn' = [conn EXCEPT ![ip] = [NoConnection EXCEPT !.client_socket = fd]]
    BY <1>2, <2>1 DEF AcceptNew
  <2> DEFINE entry == [NoConnection EXCEPT !.client_socket = fd]
  <2>4. fd \in Fd
    BY DEF Inv, TypeOK, LowestFree
  <2>5. entry \in Connection
    BY <2>4, EmptySeq DEF NoConnection, Connection, NewStream, Stream, Message
  <2>6. conn' = [conn EXCEPT ![ip] = entry]
    BY <2>3
  <2> HIDE DEF entry
  <2> QED BY <2>1, <2>2, <2>3, <2>5, <2>6, AcceptedLeaks
<1>3. CASE AcceptWithoutAddress
  <2>1. Dies("dns") /\ "dns" \in Deaths
    BY <1>3 DEF AcceptWithoutAddress, Deaths
  <2>2. Ends
    BY <2>1 DEF Ends
  <2> QED BY <2>2, EndsLeaks
<1>4. CASE AcceptFails
  <2>1. Dies("accept failed") /\ "accept failed" \in Deaths
    BY <1>4 DEF AcceptFails, Deaths
  <2>2. Ends
    BY <2>1 DEF Ends
  <2> QED BY <2>2, EndsLeaks
<1> QED BY <1>1, <1>2, <1>3, <1>4 DEF Accept

(* The browser's descriptor is closed, and the web server's leaks in its   *)
(* place.                                                                  *)
LEMMA ClientGoneLeaks ==
  ASSUME Inv, Inv', LeaksLimited, NEW ip, ClientGone(ip)
  PROVE  LeaksLimited'
<1> DEFINE fd == conn[ip].client_socket
           server == conn[ip].server_socket
<1>1. Alive /\ ip \in clients /\ ip \in Client /\ Owned(ip)
  BY TurnOwns DEF ClientGone, ClientTurn
<1>2. /\ sock' = [sock EXCEPT ![fd] = FreeSocket]
      /\ clients' = clients \ { ip }
      /\ conn' = [conn EXCEPT ![ip] = NoConnection]
      /\ UNCHANGED << backlog, opened >>
  BY DEF ClientGone, browserVars
<1>3. conn \in [Client -> Connection] /\ sock \in [Fd -> Socket] /\ backlog \in Seq(Client)
      /\ opened \in [Client -> Nat]
  BY DEF Inv, TypeOK
<1>4. \A other \in Client \ { ip } : Beside(other)' \subseteq Beside(other)
  BY <1>1, <1>2, <1>3 DEF Beside, FreeSocket
<1>5. Beside(ip)' \subseteq (Beside(ip) \ { fd }) \cup { server }
  BY <1>1, <1>2, <1>3 DEF Beside, FreeSocket
<1>6. fd \in Beside(ip)
  <2>1. \A g \in Fd : g # None
    BY MiProxyAssumption DEF Fd, None
  <2>2. fd \in Fd /\ sock[fd].kind = "client" /\ sock[fd].ip = ip /\ fd # server
    BY <1>1, <2>1 DEF Owned
  <2> QED BY <2>2 DEF Beside
<1> SUFFICES ASSUME NEW other \in Client
             PROVE  Cardinality(Beside(other)') + Cardinality(Waiting(other)') =< opened'[other]
  BY DEF LeaksLimited
<1>7. IsFiniteSet(Beside(other)) /\ Cardinality(Beside(other)) \in Nat
  BY BesideIsFinite
<1>8. Cardinality(Beside(other)') \in Nat
      /\ Cardinality(Beside(other)') =< Cardinality(Beside(other))
  <2>1. CASE other # ip
    <3>1. Beside(other)' \subseteq Beside(other)
      BY <1>4, <2>1
    <3> QED BY <1>7, <3>1, FS_Subset, FS_CardinalityType
  <2>2. CASE other = ip
    <3>1. IsFiniteSet(Beside(ip) \ { fd })
          /\ Cardinality(Beside(ip) \ { fd }) = Cardinality(Beside(ip)) - 1
      BY <1>6, <1>7, <2>2, FS_RemoveElement
    <3>2. PICK R, T, x : R = Beside(ip) \ { fd } /\ x = server /\ T = R \cup { x }
      OBVIOUS
    <3>3. IsFiniteSet(R) /\ Cardinality(R) = Cardinality(Beside(ip)) - 1
      BY <3>1, <3>2
    <3>4. IsFiniteSet(T) /\ Cardinality(T) \in Nat /\ Cardinality(T) =< Cardinality(R) + 1
      BY <3>2, <3>3, OneMore
    <3>5. Beside(ip)' \subseteq T
      BY <1>5, <3>2
    <3>6. IsFiniteSet(Beside(ip)') /\ Cardinality(Beside(ip)') =< Cardinality(T)
      BY <3>4, <3>5, FS_Subset
    <3>7. Cardinality(Beside(ip)') \in Nat
      BY <3>6, FS_CardinalityType
    <3>8. Cardinality(Beside(ip)) \in Nat
      BY <1>7, <2>2
    <3> HIDE DEF fd, server
    <3>9. Cardinality(Beside(ip)') =< Cardinality(Beside(ip))
      BY <3>3, <3>4, <3>6, <3>7, <3>8
    <3> QED BY <2>2, <3>7, <3>9
  <2> QED BY <2>1, <2>2
<1>9. Cardinality(Waiting(other)) \in Nat /\ Waiting(other)' = Waiting(other)
  BY <1>2, <1>3, WaitingIsFinite DEF Waiting
<1>10. Cardinality(Beside(other)) + Cardinality(Waiting(other)) =< opened[other]
       /\ opened[other] \in Nat /\ opened'[other] = opened[other]
  BY <1>2, <1>3 DEF LeaksLimited
<1> QED BY <1>7, <1>8, <1>9, <1>10

(* A connection that a browser opens waits, and may be counted.            *)
LEMMA OpenLeaks ==
  ASSUME Inv, Inv', LeaksLimited, NEW ip \in Client, OpenConnection(ip)
  PROVE  LeaksLimited'
<1>1. UNCHANGED << sock, clients, conn >> /\ backlog' = Append(backlog, ip)
      /\ opened' = [opened EXCEPT ![ip] = @ + 1]
      /\ backlog \in Seq(Client) /\ opened \in [Client -> Nat]
  BY DEF OpenConnection, proxyVars, Inv, TypeOK
<1> SUFFICES ASSUME NEW other \in Client
             PROVE  Cardinality(Beside(other)') + Cardinality(Waiting(other)') =< opened'[other]
  BY DEF LeaksLimited
<1>2. Beside(other)' = Beside(other) /\ Cardinality(Beside(other)) \in Nat
  BY <1>1, BesideIsFinite DEF Beside
<1>3. IsFiniteSet(Waiting(other)) /\ Cardinality(Waiting(other)) \in Nat
      /\ Cardinality(Waiting(other)') \in Nat
  BY <1>1, WaitingIsFinite, WaitingStaysFinite
<1>4. Len(backlog) \in Nat /\ Len(backlog') = Len(backlog) + 1
      /\ backlog'[Len(backlog) + 1] = ip
      /\ \A i \in 1 .. Len(backlog) : backlog'[i] = backlog[i]
  BY <1>1, LenProperties, AppendProperties
<1>5. Cardinality(Beside(other)) + Cardinality(Waiting(other)) =< opened[other]
      /\ opened[other] \in Nat
  BY <1>1 DEF LeaksLimited
<1>6. CASE other = ip
  <2>1. PICK W, x : W = Waiting(ip) /\ x = Len(backlog) + 1
    OBVIOUS
  <2>2. Waiting(ip)' \subseteq W \cup { x }
    BY <1>4, <2>1 DEF Waiting
  <2>3. IsFiniteSet(W) /\ Cardinality(W) \in Nat
    BY <1>3, <1>6, <2>1
  <2>4. /\ IsFiniteSet(W \cup { x }) /\ Cardinality(W \cup { x }) \in Nat
        /\ Cardinality(W \cup { x }) =< Cardinality(W) + 1
    BY <2>3, OneMore
  <2>5. Cardinality(Waiting(ip)') =< Cardinality(W \cup { x })
    BY <2>2, <2>4, FS_Subset
  <2>6. Cardinality(Waiting(ip)') =< Cardinality(Waiting(ip)) + 1
    BY <2>1, <2>3, <2>4, <2>5, <1>3, <1>6
  <2>7. opened'[ip] = opened[ip] + 1
    BY <1>1
  <2> QED BY <1>2, <1>3, <1>5, <1>6, <2>6, <2>7
<1>7. CASE other # ip
  <2>1. Waiting(other)' \subseteq Waiting(other)
    BY <1>4, <1>7 DEF Waiting
  <2>2. Cardinality(Waiting(other)') =< Cardinality(Waiting(other))
    BY <1>3, <2>1, FS_Subset
  <2>3. opened'[other] = opened[other]
    BY <1>1, <1>7
  <2> QED BY <1>2, <1>3, <1>5, <2>2, <2>3
<1> QED BY <1>6, <1>7

LEMMA NextLeaks ==
  ASSUME Inv, Inv', LeaksLimited, [Next]_vars
  PROVE  LeaksLimited'
<1>1. ASSUME UNCHANGED << sock, clients, conn, backlog, opened >> PROVE LeaksLimited'
  <2>1. \A ip \in Client : Beside(ip)' \subseteq Beside(ip)
    BY <1>1, NoneGiven
  <2> QED BY <1>1, <2>1, FewerBeside
<1>2. ASSUME AroundProxy, UNCHANGED << backlog, opened >> PROVE LeaksLimited'
  <2>1. \A ip \in Client : Beside(ip)' \subseteq Beside(ip)
    BY <1>2, NoneGiven DEF AroundProxy, proxyVars
  <2> QED BY <1>2, <2>1, FewerBeside
<1>3. CASE Select \/ ScanEnds \/ (\E ip \in Client : Skip(ip))
  BY <1>1, <1>3 DEF Select, ScanEnds, Skip, proxyVars, browserVars
<1>4. CASE Accept
  BY <1>4, AcceptLeaks
<1>5. CASE SendMore
  <2>1. CASE SendStep
    <3>1. UNCHANGED << clients, conn, backlog, opened >>
      BY <2>1 DEF SendStep, proxyVars, browserVars
    <3>2. \A ip \in Client : Beside(ip)' \subseteq Beside(ip)
      BY <2>1, <3>1, NoneGiven DEF SendStep
    <3> QED BY <3>1, <3>2, FewerBeside
  <2> QED BY <1>5, <2>1, SendMoreStep, EndsLeaks
<1>6. ASSUME NEW ip \in Client, HandleClient(ip) \/ HandleServer(ip) PROVE LeaksLimited'
  <2>1. CASE EntryStep(ip)
    <3>1. UNCHANGED << backlog, opened >>
      BY <2>1 DEF EntryStep, browserVars
    <3>2. \A other \in Client : Beside(other)' \subseteq Beside(other)
      BY <2>1, EntryStepBeside
    <3> QED BY <3>1, <3>2, FewerBeside
  <2> QED BY <1>6, <2>1, HandlerStep, ClientGoneLeaks, EndsLeaks
<1>7. CASE \E ip \in Client : OpenConnection(ip)
  BY <1>7, OpenLeaks
<1>8. ASSUME NEW ip \in Client, Browser(ip) PROVE LeaksLimited'
  <2>1. AroundProxy
    BY <1>8, BrowserAround
  <2>2. OpenConnection(ip) \/ UNCHANGED << backlog, opened >>
    BY <1>8 DEF Browser, SendRequest, Receive, CloseConnection
  <2> QED BY <1>2, <1>7, <2>1, <2>2
<1>9. CASE WebServer
  <2>1. AroundProxy
    BY <1>9, BrowserAround
  <2>2. UNCHANGED << backlog, opened >>
    BY <1>9 DEF WebServer, Respond, ServerClose, ServerAbort, browserVars
  <2> QED BY <1>2, <2>1, <2>2
<1>10. CASE UNCHANGED vars
  BY <1>1, <1>10 DEF vars, proxyVars, browserVars
<1> QED BY <1>3, <1>4, <1>5, <1>6, <1>8, <1>9, <1>10 DEF Next, Proxy

LEMMA InitLeaks == Init => LeaksLimited
<1> SUFFICES ASSUME Init, NEW ip \in Client
             PROVE  Cardinality(Beside(ip)) + Cardinality(Waiting(ip)) =< opened[ip]
  BY DEF LeaksLimited
<1>1. Beside(ip) = {}
  BY DEF Init, Beside, FreeSocket
<1>2. Waiting(ip) = {}
  BY EmptySeq DEF Init, Waiting
<1>3. opened[ip] = 0
  BY DEF Init
<1> QED BY <1>1, <1>2, <1>3, FS_EmptySet

(***************************************************************************)
(* The descriptors that handle_master_connection overwrites and that       *)
(* handle_client_connection forgets are lost, but no more of them than the *)
(* browser has opened connections, for any number of browsers and          *)
(* descriptors, however often web servers close, and wherever the erased   *)
(* iterator leads.                                                         *)
(***************************************************************************)
THEOREM LeaksLimitedAlways == Spec => []LeaksLimited
<1>1. Inv /\ LeaksLimited /\ [Next]_vars => Inv' /\ LeaksLimited'
  BY NextInv, NextLeaks
<1>2. Init => Inv /\ LeaksLimited
  BY InitInv, InitLeaks
<1> QED BY <1>1, <1>2, PTL DEF Spec
=============================================================================
