------------------------ MODULE MiProxyMessagesProofs ------------------------
(***************************************************************************)
(* What travels through miProxy, for any number of browsers, descriptors,  *)
(* requests and faults: no unit of a message ever comes to another browser *)
(* than the one whose request it belongs to.                               *)
(***************************************************************************)
EXTENDS MiProxyProofs

(* Everything in a message belongs to the browser at ip. *)
Belongs(ip, msg) == \A i \in 1 .. Len(msg) : msg[i].ip = ip

LEMMA EmptyBelongs == \A ip : Belongs(ip, << >>)
BY EmptySeq DEF Belongs

LEMMA ConcatBelongs ==
  ASSUME NEW ip, NEW p \in Message, NEW q \in Message, Belongs(ip, p), Belongs(ip, q)
  PROVE  Belongs(ip, p \o q)
<1>1. Len(p) \in Nat /\ Len(q) \in Nat
  BY LenProperties DEF Message
<1>2. Len(p \o q) = Len(p) + Len(q)
  BY ConcatProperties DEF Message
<1>3. ASSUME NEW i \in 1 .. Len(p \o q) PROVE (p \o q)[i].ip = ip
  <2>1. (p \o q)[i] = IF i =< Len(p) THEN p[i] ELSE q[i - Len(p)]
    BY <1>1, <1>2, ConcatProperties DEF Message
  <2>2. CASE i =< Len(p)
    BY <1>1, <1>2, <2>1, <2>2 DEF Belongs
  <2>3. CASE ~ (i =< Len(p))
    <3>1. i - Len(p) \in 1 .. Len(q)
      BY <1>1, <1>2, <2>3
    <3> QED BY <2>1, <2>3, <3>1 DEF Belongs
  <2> QED BY <2>2, <2>3
<1> QED BY <1>3 DEF Belongs

LEMMA PartBelongs ==
  ASSUME NEW ip, NEW msg \in Message, NEW m \in Nat \ {0}, NEW n \in 0 .. Len(msg),
         Belongs(ip, msg)
  PROVE  Belongs(ip, SubSeq(msg, m, n))
<1>1. Len(msg) \in Nat
  BY LenProperties DEF Message
<1>2. \A i \in m .. n : msg[i] \in Unit
  BY <1>1, ElementOfSeq DEF Message
<1>3. /\ Len(SubSeq(msg, m, n)) = IF m =< n THEN n - m + 1 ELSE 0
      /\ \A i \in 1 .. n - m + 1 : SubSeq(msg, m, n)[i] = msg[m + i - 1]
  BY <1>1, <1>2, SubSeqProperties
<1>4. ASSUME NEW i \in 1 .. Len(SubSeq(msg, m, n)) PROVE SubSeq(msg, m, n)[i].ip = ip
  <2>1. i \in 1 .. n - m + 1 /\ m + i - 1 \in 1 .. Len(msg)
    BY <1>1, <1>3
  <2> QED BY <1>3, <2>1 DEF Belongs
<1> QED BY <1>4 DEF Belongs

LEMMA WholeBelongs ==
  ASSUME NEW u \in Unit, NEW parts \in Seq(Parts)
  PROVE  Belongs(u.ip, Whole(u, parts))
<1>1. Len(parts) \in Nat
  BY LenProperties
<1>2. Len(Whole(u, parts)) = Len(parts)
  BY <1>1, WholeIsMessage, LenProperties DEF Whole, Message
<1> QED BY <1>2 DEF Belongs, Whole, Unit

(* The two requests that handle_request_message makes of one. *)
LEMMA NoListBelongs ==
  ASSUME NEW ip, NEW msg \in Message, NEW old, Belongs(ip, msg), Belongs(ip, old)
  PROVE  Belongs(ip, NoListMessage(msg, old))
<1> DEFINE renamed ==
      [i \in 1 .. Len(msg) |->
         IF i \in NamesManifest(msg) /\ \A j \in NamesManifest(msg) : i =< j
         THEN [msg[i] EXCEPT !.kind = "nolist"]
         ELSE msg[i]]
<1>1. Len(msg) \in Nat /\ \A i \in 1 .. Len(msg) : msg[i] \in Unit
  BY LenProperties, ElementOfSeq DEF Message
<1>2. \A i \in 1 .. Len(msg) : [msg[i] EXCEPT !.kind = "nolist"].ip = ip
  BY <1>1 DEF Unit, Belongs
<1>3. \A i \in 1 .. Len(msg) : renamed[i].ip = ip
  BY <1>2 DEF Belongs
<1>4. Len(renamed) = Len(msg)
  <2>1. renamed \in Seq(Unit)
    <3>1. \A i \in 1 .. Len(msg) : [msg[i] EXCEPT !.kind = "nolist"] \in Unit
      BY <1>1 DEF Unit, Kinds
    <3>2. renamed \in [1 .. Len(msg) -> Unit]
      BY <1>1, <3>1
    <3> QED BY <1>1, <3>2, SeqDef
  <2> QED BY <1>1, <2>1, LenProperties
<1> HIDE DEF renamed
<1>5. Belongs(ip, renamed)
  BY <1>3, <1>4 DEF Belongs
<1> QED BY <1>5 DEF NoListMessage, renamed

LEMMA RewrittenBelongs ==
  ASSUME NEW ip, NEW msg \in Message, NEW part, Has(msg, part), NEW st \in Stream,
         Belongs(ip, msg)
  PROVE  Belongs(ip, Rewritten(st, msg))
<1>1. Len(msg) \in Nat \ {0} /\ msg \in [1 .. Len(msg) -> Unit] /\ msg[1] \in Unit
  BY UnitOfMessage, LenProperties DEF Message
<1> DEFINE new == [msg EXCEPT ![1].br = st.current_bitrate]
<1>2. new \in [1 .. Len(msg) -> Unit]
  <2>1. [msg[1] EXCEPT !.br = st.current_bitrate] \in Unit
    BY <1>1 DEF Unit, Stream
  <2> QED BY <1>1, <2>1
<1>3. Len(new) = Len(msg)
  BY <1>1, <1>2, SeqDef, LenProperties
<1>4. \A i \in 1 .. Len(msg) : new[i].ip = msg[i].ip
  BY <1>1 DEF Unit
<1> HIDE DEF new
<1>5. Belongs(ip, new)
  BY <1>3, <1>4 DEF Belongs
<1> QED BY <1>5 DEF Rewritten, new

(* What the web server answers belongs to the browser that asked. *)
LEMMA AnswersBelong ==
  ASSUME NEW ip, NEW q \in Message, Has(q, "end"), Belongs(ip, q)
  PROVE  /\ \A answer \in Answers(q[1]) : Belongs(ip, answer)
         /\ Belongs(ip, SubSeq(Whole(q[1], ResponseParts(q[1].kind)), 1, 2))
         /\ Belongs(ip, AfterRequest(q))
<1> DEFINE whole == Whole(q[1], ResponseParts(q[1].kind))
<1>1. q[1] \in Unit /\ Len(q) \in Nat \ {0} /\ q[1].ip = ip
  BY UnitOfMessage DEF Belongs
<1>2. [q[1] EXCEPT !.kind = "page"] \in Unit /\ [q[1] EXCEPT !.kind = "page"].ip = ip
  BY <1>1 DEF Unit, Kinds
<1>3. Belongs(ip, whole) /\ Belongs(ip, Whole(q[1], NoBodyParts))
  BY <1>1, WholeBelongs, PartsAreParts
<1>4. Belongs(ip, Whole([q[1] EXCEPT !.kind = "page"], ResponseParts("page")))
  BY <1>2, WholeBelongs, PartsAreParts
<1>5. \A answer \in Answers(q[1]) : Belongs(ip, answer)
  BY <1>3, <1>4 DEF Answers
<1>6. whole \in Message /\ Len(whole) \in Nat
  BY <1>1, WholeIsMessage, PartsAreParts, LenProperties DEF Message
<1>7. 2 \in 0 .. Len(whole)
  <2> DEFINE parts == ResponseParts(q[1].kind)
  <2>1. Len(parts) \in Nat /\ parts \in Seq(Parts)
    BY PartsAreParts, LenProperties
  <2>2. 2 =< Len(parts)
    BY ResponseHasHead
  <2>3. Len(whole) = Len(parts)
    BY <2>1, <1>6, LenProperties DEF Whole, Message
  <2> HIDE DEF whole, parts
  <2> QED BY <2>1, <2>2, <2>3
<1>8. Belongs(ip, SubSeq(whole, 1, 2))
  BY <1>3, <1>6, <1>7, PartBelongs
<1>9. First(q, "end") \in 1 .. Len(q)
  BY FirstIsPlace
<1>10. Belongs(ip, AfterRequest(q))
  BY <1>1, <1>9, PartBelongs DEF AfterRequest
<1> QED BY <1>5, <1>8, <1>10

-----------------------------------------------------------------------------

(***************************************************************************)
(* The inductive invariant.  What a descriptor holds in either direction   *)
(* belongs to the browser it was made for, and so do the buffers of its    *)
(* entry, and what waits in send().  What a browser has read of an answer  *)
(* counts too, since it may be followed by more: there is only something   *)
(* read on a connection that is still open.                                *)
(***************************************************************************)
SocketApart(s, read) ==
  /\ Belongs(s.ip, s.inq) /\ Belongs(s.ip, s.outq)
  /\ read # << >> => s.kind = "client" /\ s.peer = "open" /\ Belongs(s.ip, read)

EntryApart(ip, c) ==
  /\ Belongs(ip, c.client_message)
  /\ Belongs(ip, c.server_message)
  /\ Belongs(ip, c.no_list_message)

SocketsApart == \A fd \in Fd : SocketApart(sock[fd], got[fd])
EntriesApart == \A ip \in Client : EntryApart(ip, conn[ip])
SendingApart == pc = "send" => Belongs(sock[sending.fd].ip, sending.rest)

Apart == SocketsApart /\ EntriesApart /\ SendingApart

LEMMA ReadApart ==
  ASSUME NEW s \in Socket, NEW read, SocketApart(s, read), NEW k \in Reads(s)
  PROVE  Belongs(s.ip, Taken(s, k)) /\ SocketApart(Read(s, k), read)
<1>1. s.inq \in Message /\ Len(s.inq) \in Nat /\ k \in 1 .. Len(s.inq)
  BY LenProperties DEF Socket, Message, Reads
<1>2. Belongs(s.ip, SubSeq(s.inq, 1, k)) /\ Belongs(s.ip, SubSeq(s.inq, k + 1, Len(s.inq)))
  BY <1>1, PartBelongs DEF SocketApart
<1>3. /\ Read(s, k).inq = SubSeq(s.inq, k + 1, Len(s.inq))
      /\ Read(s, k).outq = s.outq /\ Read(s, k).ip = s.ip
      /\ Read(s, k).kind = s.kind /\ Read(s, k).peer = s.peer
  BY DEF Read, Socket
<1> QED BY <1>2, <1>3 DEF SocketApart, Taken

LEMMA SentApart ==
  ASSUME NEW s \in Socket, NEW read, SocketApart(s, read),
         NEW msg \in Message, Belongs(s.ip, msg)
  PROVE  SocketApart(Sent(s, msg), read)
<1>1. CASE s.peer = "open"
  <2>1. Belongs(s.ip, s.outq \o msg)
    BY ConcatBelongs DEF SocketApart, Socket
  <2>2. /\ Sent(s, msg).outq = s.outq \o msg /\ Sent(s, msg).inq = s.inq
        /\ Sent(s, msg).ip = s.ip /\ Sent(s, msg).kind = s.kind /\ Sent(s, msg).peer = s.peer
    BY <1>1 DEF Sent, Socket
  <2> QED BY <2>1, <2>2 DEF SocketApart
<1>2. CASE s.peer # "open"
  BY <1>2 DEF Sent, Socket, SocketApart
<1> QED BY <1>1, <1>2

LEMMA PeerClosesApart ==
  ASSUME NEW s \in Socket, NEW read, SocketApart(s, read)
  PROVE  SocketApart(PeerCloses(s), << >>)
BY EmptyBelongs DEF PeerCloses, Socket, SocketApart

LEMMA NewSocketApart ==
  ASSUME NEW kind, NEW ip
  PROVE  SocketApart(FreeSocket, << >>) /\ SocketApart(NewSocket(kind, ip), << >>)
BY EmptyBelongs DEF FreeSocket, NewSocket, SocketApart

(* Nothing has been read where nobody reads. *)
LEMMA NothingRead ==
  ASSUME NEW s, NEW read, SocketApart(s, read), s.kind # "client" \/ s.peer # "open"
  PROVE  read = << >>
BY DEF SocketApart

LEMMA InitApart == Init => Apart
<1> SUFFICES ASSUME Init PROVE Apart
  OBVIOUS
<1>1. SocketsApart
  BY NewSocketApart DEF Init, SocketsApart
<1>2. EntriesApart
  BY EmptyBelongs DEF Init, EntriesApart, EntryApart, NoConnection
<1>3. SendingApart
  BY DEF Init, SendingApart
<1> QED BY <1>1, <1>2, <1>3 DEF Apart

LEMMA EndsApart ==
  ASSUME Apart, Ends
  PROVE  Apart'
BY DEF Ends, Dies, Deaths, Apart, SocketsApart, EntriesApart, SendingApart, proxyVars, browserVars

(* A step for the entry of ip, which becomes c. *)
LEMMA EntryStepApart ==
  ASSUME Inv, Apart, NEW ip \in Client, NEW c, conn' = [conn EXCEPT ![ip] = c],
         EntryApart(ip, c), SocketsApart', SendingApart'
  PROVE  Apart'
<1>1. conn \in [Client -> Connection]
  BY DEF Inv, TypeOK
<1>2. EntriesApart'
  BY <1>1 DEF Apart, EntriesApart
<1> QED BY <1>2 DEF Apart

LEMMA AcceptApart == ASSUME Inv, Apart, Accept PROVE Apart'
<1>1. ASSUME NEW ip, NEW fd \in LowestFree(sock), NEW c, Accepted(ip, fd), pc = "accept",
             conn' = [conn EXCEPT ![ip] = c], ip \in Client => EntryApart(ip, c)
      PROVE  Apart'
  <2>1. /\ sock' = [sock EXCEPT ![fd] = NewSocket("client", ip)]
        /\ UNCHANGED browserVars /\ pc' = "scan"
    BY <1>1 DEF Accepted
  <2>2. fd \in Fd /\ sock[fd].kind = "free" /\ sock \in [Fd -> Socket] /\ got' = got
        /\ conn \in [Client -> Connection]
    BY <2>1 DEF Inv, TypeOK, LowestFree, browserVars
  <2>3. got[fd] = << >>
    BY <2>2, NothingRead DEF Apart, SocketsApart
  <2>4. SocketsApart'
    BY <2>1, <2>2, <2>3, NewSocketApart DEF Apart, SocketsApart
  <2>5. SendingApart' /\ EntriesApart'
    BY <1>1, <2>1, <2>2 DEF Apart, SendingApart, EntriesApart
  <2> QED BY <2>4, <2>5 DEF Apart
<1>2. CASE AcceptKnown
  <2>1. PICK ip : ip = Head(backlog)
    OBVIOUS
  <2>2. PICK fd \in LowestFree(sock) :
          /\ Accepted(ip, fd)
          /\ conn' = [conn EXCEPT ![ip] = [conn[ip] EXCEPT !.client_socket = fd]]
    BY <1>2, <2>1 DEF AcceptKnown
  <2> DEFINE c == [conn[ip] EXCEPT !.client_socket = fd]
  <2>3. ip \in Client => EntryApart(ip, c)
    BY DEF Inv, TypeOK, Connection, Apart, EntriesApart, EntryApart
  <2>4. conn' = [conn EXCEPT ![ip] = c] /\ pc = "accept"
    BY <1>2, <2>2 DEF AcceptKnown
  <2> HIDE DEF c
  <2> QED BY <1>1, <2>2, <2>3, <2>4
<1>3. CASE AcceptNew
  <2>1. PICK ip : ip = Head(backlog)
    OBVIOUS
  <2>2. PICK fd \in LowestFree(sock) :
          /\ Accepted(ip, fd)
          /\ conn' = [conn EXCEPT ![ip] = [NoConnection EXCEPT !.client_socket = fd]]
    BY <1>3, <2>1 DEF AcceptNew
  <2> DEFINE c == [NoConnection EXCEPT !.client_socket = fd]
  <2>3. EntryApart(ip, c)
    BY EmptyBelongs DEF NoConnection, EntryApart
  <2>4. conn' = [conn EXCEPT ![ip] = c] /\ pc = "accept"
    BY <1>3, <2>2 DEF AcceptNew
  <2> HIDE DEF c
  <2> QED BY <1>1, <2>2, <2>3, <2>4
<1>4. CASE AcceptWithoutAddress \/ AcceptFails
  BY <1>4, EndsApart DEF AcceptWithoutAddress, AcceptFails, Ends, Deaths
<1> QED BY <1>2, <1>3, <1>4 DEF Accept

-----------------------------------------------------------------------------

(* A descriptor is given up whose other end has closed. *)
LEMMA GivenUpApart ==
  ASSUME Inv, Apart, NEW fd \in Fd, AtEnd(sock[fd]),
         sock' = [sock EXCEPT ![fd] = FreeSocket], got' = got
  PROVE  SocketsApart'
<1>1. got[fd] = << >>
  BY NothingRead DEF AtEnd, Apart, SocketsApart
<1> QED BY <1>1, NewSocketApart DEF Inv, TypeOK, Apart, SocketsApart

LEMMA ClientGoneApart == ASSUME Inv, Apart, NEW ip, ClientGone(ip) PROVE Apart'
<1>1. IsNext(ip) /\ ip \in Client /\ conn[ip].client_socket \in Fd
  BY TurnOwns DEF ClientGone, ClientTurn, Owned
<1>2. SocketsApart'
  BY <1>1, GivenUpApart DEF ClientGone, browserVars
<1>3. EntryApart(ip, NoConnection)
  BY EmptyBelongs DEF NoConnection, EntryApart
<1>4. SendingApart'
  BY <1>1 DEF ClientGone, SendingApart, IsNext
<1>5. conn' = [conn EXCEPT ![ip] = NoConnection]
  BY DEF ClientGone
<1> QED BY <1>1, <1>2, <1>3, <1>4, <1>5, EntryStepApart

LEMMA ServerGoneApart == ASSUME Inv, Apart, NEW ip, ServerGone(ip) PROVE Apart'
<1>1. IsNext(ip) /\ ip \in Client /\ conn[ip].server_socket \in Fd /\ conn[ip] \in Connection
  BY TurnOwns, ServerTurnOwns DEF ServerGone
<1>2. SocketsApart'
  BY <1>1, GivenUpApart DEF ServerGone, browserVars
<1> DEFINE c == ServerLost(conn[ip])
<1>3. EntryApart(ip, c)
  BY <1>1 DEF ServerLost, Connection, EntryApart, Apart, EntriesApart
<1>4. SendingApart'
  BY <1>1 DEF ServerGone, Visited, SendingApart, IsNext
<1>5. conn' = [conn EXCEPT ![ip] = c]
  BY DEF ServerGone
<1> HIDE DEF c
<1> QED BY <1>1, <1>2, <1>3, <1>4, <1>5, EntryStepApart

(* What a handler has read is added to the entry's buffer. *)
LEMMA ClientReadsApart ==
  ASSUME Inv, Apart, NEW ip, ClientTurn(ip), NEW k \in Reads(sock[conn[ip].client_socket])
  PROVE  LET s == sock[conn[ip].client_socket]
         IN  /\ Belongs(ip, conn[ip].client_message \o Taken(s, k))
             /\ SocketApart(Read(s, k), got[conn[ip].client_socket])
<1> DEFINE fd == conn[ip].client_socket
<1>1. /\ ip \in Client /\ fd \in Fd /\ sock[fd] \in Socket /\ sock[fd].ip = ip
      /\ conn[ip].client_message \in Message
  BY TurnOwns DEF ClientTurn, Owned, Connection
<1>2. SocketApart(sock[fd], got[fd]) /\ Belongs(ip, conn[ip].client_message)
  BY <1>1 DEF Apart, SocketsApart, EntriesApart, EntryApart
<1>3. Taken(sock[fd], k) \in Message
  BY <1>1, ReadKeeps
<1>4. Belongs(ip, Taken(sock[fd], k)) /\ SocketApart(Read(sock[fd], k), got[fd])
  BY <1>1, <1>2, ReadApart
<1> QED BY <1>1, <1>2, <1>3, <1>4, ConcatBelongs

LEMMA ServerReadsApart ==
  ASSUME Inv, Apart, NEW ip, ServerTurn(ip), NEW k \in Reads(sock[conn[ip].server_socket])
  PROVE  LET s == sock[conn[ip].server_socket]
         IN  /\ Belongs(ip, conn[ip].server_message \o Taken(s, k))
             /\ SocketApart(Read(s, k), got[conn[ip].server_socket])
<1> DEFINE fd == conn[ip].server_socket
<1>1. /\ ip \in Client /\ fd \in Fd /\ sock[fd] \in Socket /\ sock[fd].ip = ip
      /\ conn[ip].server_message \in Message
  BY TurnOwns, ServerTurnOwns DEF Connection
<1>2. SocketApart(sock[fd], got[fd]) /\ Belongs(ip, conn[ip].server_message)
  BY <1>1 DEF Apart, SocketsApart, EntriesApart, EntryApart
<1>3. Taken(sock[fd], k) \in Message
  BY <1>1, ReadKeeps
<1>4. Belongs(ip, Taken(sock[fd], k)) /\ SocketApart(Read(sock[fd], k), got[fd])
  BY <1>1, <1>2, ReadApart
<1> QED BY <1>1, <1>2, <1>3, <1>4, ConcatBelongs

LEMMA ClientPartialApart == ASSUME Inv, Apart, NEW ip, ClientPartial(ip) PROVE Apart'
<1> DEFINE fd == conn[ip].client_socket
<1>1. ClientTurn(ip) /\ IsNext(ip)
  BY DEF ClientPartial, ClientTurn
<1>2. ip \in Client /\ conn[ip] \in Connection /\ fd \in Fd /\ sock \in [Fd -> Socket]
  BY <1>1, TurnOwns DEF Inv, TypeOK, Owned
<1>3. PICK k \in Reads(sock[fd]) :
        /\ conn' = [conn EXCEPT ![ip].client_message = @ \o Taken(sock[fd], k)]
        /\ sock' = [sock EXCEPT ![fd] = Read(@, k)]
  BY DEF ClientPartial
<1>4. /\ Belongs(ip, conn[ip].client_message \o Taken(sock[fd], k))
      /\ SocketApart(Read(sock[fd], k), got[fd])
  BY <1>1, ClientReadsApart
<1> DEFINE c == [conn[ip] EXCEPT !.client_message = @ \o Taken(sock[fd], k)]
<1>5. conn' = [conn EXCEPT ![ip] = c]
  BY <1>3
<1>6. EntryApart(ip, c)
  BY <1>2, <1>4 DEF EntryApart, Connection, Apart, EntriesApart
<1>7. SocketsApart'
  BY <1>2, <1>3, <1>4 DEF SocketsApart, Apart, ClientPartial, browserVars
<1>8. SendingApart'
  BY <1>1 DEF ClientPartial, Visited, SendingApart, IsNext
<1> HIDE DEF c
<1> QED BY <1>2, <1>5, <1>6, <1>7, <1>8, EntryStepApart

LEMMA ServerPartialApart == ASSUME Inv, Apart, NEW ip, ServerPartial(ip) PROVE Apart'
<1> DEFINE fd == conn[ip].server_socket
<1>1. ServerTurn(ip) /\ IsNext(ip) /\ fd \in Fd
  BY ServerTurnOwns DEF ServerPartial
<1>2. ip \in Client /\ conn[ip] \in Connection /\ sock \in [Fd -> Socket]
  BY <1>1, TurnOwns DEF Inv, TypeOK
<1> DEFINE msg(k) == conn[ip].server_message \o Taken(sock[fd], k)
           entry(k) == [Timed(conn[ip], sock[fd]) EXCEPT
                          !.server_message = msg(k),
                          !.server_message_len = Expected(conn[ip], msg(k))]
<1>3. PICK k \in Reads(sock[fd]) :
        /\ conn' = [conn EXCEPT ![ip] = entry(k)]
        /\ sock' = [sock EXCEPT ![fd] = Read(@, k)]
  BY DEF ServerPartial
<1>4. Belongs(ip, msg(k)) /\ SocketApart(Read(sock[fd], k), got[fd])
  BY <1>1, ServerReadsApart
<1> DEFINE c == entry(k)
<1>5. conn' = [conn EXCEPT ![ip] = c]
  BY <1>3
<1>6. EntryApart(ip, c)
  <2> HIDE DEF msg
  <2> QED BY <1>2, <1>4 DEF EntryApart, Connection, Timed, Apart, EntriesApart
<1>7. SocketsApart'
  BY <1>1, <1>2, <1>3, <1>4 DEF SocketsApart, Apart, ServerPartial, browserVars
<1>8. SendingApart'
  BY <1>1 DEF ServerPartial, Visited, SendingApart, IsNext
<1> HIDE DEF c
<1> QED BY <1>2, <1>5, <1>6, <1>7, <1>8, EntryStepApart

(***************************************************************************)
(* A request goes on from descriptors that hold what belongs to their      *)
(* browsers.                                                               *)
(***************************************************************************)
LEMMA ForwardRequestApart ==
  ASSUME Inv, Apart, NEW ip, ClientTurn(ip),
         NEW msg \in Message, Has(msg, "end"), Belongs(ip, msg),
         NEW rest \in [Fd -> Socket], \A fd \in Fd : SocketApart(rest[fd], got[fd]),
         NEW server \in Fd, rest[server].ip = ip,
         ForwardRequest(ip, msg, rest, server)
  PROVE  Apart'
<1> DEFINE st == ParseBitrate(conn[ip].stream, msg)
<1>1. IsNext(ip) /\ ip \in Client /\ conn[ip] \in Connection
  BY TurnOwns DEF ClientTurn
<1>2. CASE ~ CanChoose(ip, msg) \/ ~ CanSend(rest[server])
  BY <1>2, EndsApart DEF ForwardRequest, Ends, Deaths
<1>3. CASE CanChoose(ip, msg) /\ CanSend(rest[server])
  <2>1. /\ sock' = [rest EXCEPT ![server] = Sent(@, Rewritten(st, msg))]
        /\ conn' = [conn EXCEPT ![ip] = RequestSent(@, msg, st, server)]
        /\ Visited(ip) /\ UNCHANGED browserVars
    BY <1>3 DEF ForwardRequest
  <2>2. conn[ip].stream \in Stream /\ st \in Stream
    BY <1>1, <1>3, ParseBitrateIsStream DEF CanChoose, Connection
  <2>3. Rewritten(st, msg) \in Message /\ Belongs(ip, Rewritten(st, msg))
    BY <2>2, RewrittenIsMessage, RewrittenBelongs
  <2> HIDE DEF st
  <2>4. SocketApart(Sent(rest[server], Rewritten(st, msg)), got[server])
    BY <2>3, SentApart
  <2>5. SocketsApart'
    BY <2>1, <2>4 DEF SocketsApart, browserVars
  <2> DEFINE c == RequestSent(conn[ip], msg, st, server)
  <2>6. EntryApart(ip, conn[ip])
    BY <1>1 DEF Apart, EntriesApart
  <2>7. Belongs(ip, NoListMessage(msg, conn[ip].no_list_message))
    BY <2>6, NoListBelongs DEF EntryApart
  <2>8. /\ c.client_message = << >>
        /\ c.server_message = conn[ip].server_message
        /\ c.no_list_message = NoListMessage(msg, conn[ip].no_list_message)
    BY <1>1 DEF RequestSent, Connection
  <2>9. EntryApart(ip, c)
    BY <2>6, <2>7, <2>8, EmptyBelongs DEF EntryApart
  <2>10. SendingApart'
    BY <1>1, <2>1 DEF Visited, SendingApart, IsNext
  <2>11. conn' = [conn EXCEPT ![ip] = c]
    BY <2>1
  <2> HIDE DEF c
  <2> QED BY <1>1, <2>5, <2>9, <2>10, <2>11, EntryStepApart
<1> QED BY <1>2, <1>3

LEMMA ClientRequestApart == ASSUME Inv, Apart, NEW ip, ClientRequest(ip) PROVE Apart'
<1> DEFINE fd == conn[ip].client_socket
           msg(k) == conn[ip].client_message \o Taken(sock[fd], k)
           rest(k) == [sock EXCEPT ![fd] = Read(sock[fd], k)]
<1>1. ClientTurn(ip) /\ IsNext(ip)
  BY DEF ClientRequest, ClientTurn
<1>2. ip \in Client /\ Owned(ip) /\ fd \in Fd /\ sock \in [Fd -> Socket]
  BY <1>1, TurnOwns DEF Inv, TypeOK, Owned
<1>3. PICK k \in Reads(sock[fd]) :
        /\ Has(msg(k), "end")
        /\ \/ /\ conn[ip].server_socket # None
              /\ ForwardRequest(ip, msg(k), rest(k), conn[ip].server_socket)
           \/ \E server \in LowestFree(rest(k)) :
                ForwardRequest(ip, msg(k),
                  [rest(k) EXCEPT ![server] = NewSocket("server", ip)], server)
           \/ Dies("connect failed")
           \/ Dies("socket failed")
  BY DEF ClientRequest
<1>4. /\ msg(k) \in Message /\ Belongs(ip, msg(k))
      /\ Read(sock[fd], k) \in Socket /\ Read(sock[fd], k).kind = "client"
      /\ SocketApart(Read(sock[fd], k), got[fd])
  BY <1>1, ClientReads, ClientReadsApart
<1>5. /\ rest(k) \in [Fd -> Socket] /\ rest(k)[fd].kind = "client"
      /\ \A g \in Fd : g # fd => rest(k)[g] = sock[g]
      /\ \A g \in Fd : SocketApart(rest(k)[g], got[g])
  BY <1>2, <1>4 DEF Apart, SocketsApart
<1>6. CASE conn[ip].server_socket # None
           /\ ForwardRequest(ip, msg(k), rest(k), conn[ip].server_socket)
  <2> DEFINE server == conn[ip].server_socket
  <2>1. server \in Fd /\ rest(k)[server].ip = ip
    BY <1>2, <1>5, <1>6 DEF Owned
  <2> HIDE DEF msg, rest
  <2> QED BY <1>1, <1>3, <1>4, <1>5, <1>6, <2>1, ForwardRequestApart
<1>7. ASSUME NEW server \in LowestFree(rest(k)),
             ForwardRequest(ip, msg(k),
               [rest(k) EXCEPT ![server] = NewSocket("server", ip)], server)
      PROVE  Apart'
  <2> DEFINE new == [rest(k) EXCEPT ![server] = NewSocket("server", ip)]
  <2>1. server \in Fd /\ rest(k)[server].kind = "free"
    BY <1>5 DEF LowestFree
  <2>2. got[server] = << >>
    <3> HIDE DEF rest
    <3> QED BY <1>5, <2>1, NothingRead
  <2>3. NewSocket("server", ip) \in Socket /\ NewSocket("server", ip).ip = ip
        /\ SocketApart(NewSocket("server", ip), got[server])
    BY <1>2, <2>2, NewSocketIs, NewSocketApart
  <2>4. ForwardRequest(ip, msg(k), new, server)
    BY <1>7
  <2> HIDE DEF msg, rest
  <2>5. new \in [Fd -> Socket] /\ new[server].ip = ip
        /\ \A g \in Fd : SocketApart(new[g], got[g])
    BY <1>5, <2>1, <2>3
  <2> HIDE DEF new
  <2> QED BY <1>1, <1>3, <1>4, <2>1, <2>4, <2>5, ForwardRequestApart
<1>8. CASE Dies("connect failed") \/ Dies("socket failed")
  BY <1>8, EndsApart DEF Ends, Deaths
<1> HIDE DEF msg, rest
<1> QED BY <1>3, <1>6, <1>7, <1>8

LEMMA ServerManifestApart == ASSUME Inv, Apart, NEW ip, ServerManifest(ip) PROVE Apart'
<1> DEFINE fd == conn[ip].server_socket
           msg(k) == conn[ip].server_message \o Taken(sock[fd], k)
           rest(k) == [sock EXCEPT ![fd] = Read(sock[fd], k)]
           d == [Timed(conn[ip], sock[fd]) EXCEPT !.no_list_message = << >>]
           entry(st) == ResponseDone(d, st)
<1>1. ServerTurn(ip) /\ IsNext(ip) /\ fd \in Fd /\ sock[fd].ip = ip
  BY ServerTurnOwns DEF ServerManifest
<1>2. ip \in Client /\ conn[ip] \in Connection /\ conn[ip].no_list_message \in Message
      /\ sock \in [Fd -> Socket]
  BY <1>1, TurnOwns DEF Connection, Inv, TypeOK
<1>3. PICK k \in Reads(sock[fd]) :
        IF ~ IsXml(msg(k)) THEN Dies("not text/xml")
        ELSE IF conn[ip].stream.available_bitrates \o Listed(msg(k)) = << >>
        THEN Dies("no bitrates")
        ELSE IF ~ CanSend(rest(k)[fd]) THEN Dies("send failed")
        ELSE /\ sock' = [rest(k) EXCEPT ![fd] = Sent(@, conn[ip].no_list_message)]
             /\ \E st \in Learn(conn[ip].stream, Listed(msg(k))) :
                  conn' = [conn EXCEPT ![ip] = entry(st)]
             /\ Visited(ip)
             /\ UNCHANGED << clients, dns_socket, log, backlog, browserVars >>
  BY DEF ServerManifest
<1>4. SocketApart(Read(sock[fd], k), got[fd]) /\ Read(sock[fd], k) \in Socket
      /\ Read(sock[fd], k).ip = ip
  BY <1>1, ServerReads, ServerReadsApart
<1>5. EntryApart(ip, conn[ip])
  BY <1>2 DEF Apart, EntriesApart
<1>6. ASSUME NEW st,
             sock' = [rest(k) EXCEPT ![fd] = Sent(@, conn[ip].no_list_message)],
             conn' = [conn EXCEPT ![ip] = entry(st)], Visited(ip), UNCHANGED browserVars
      PROVE  Apart'
  <2>1. SocketApart(Sent(Read(sock[fd], k), conn[ip].no_list_message), got[fd])
    BY <1>2, <1>4, <1>5, SentApart DEF EntryApart
  <2>2. sock' = [sock EXCEPT ![fd] = Sent(Read(sock[fd], k), conn[ip].no_list_message)]
    BY <1>1, <1>2, <1>6
  <2>3. SocketsApart'
    BY <1>1, <1>2, <1>6, <2>1, <2>2 DEF SocketsApart, Apart, browserVars
  <2>4. /\ entry(st).client_message = conn[ip].client_message
        /\ entry(st).server_message = << >> /\ entry(st).no_list_message = << >>
    BY <1>2 DEF ResponseDone, Timed, Connection
  <2>5. EntryApart(ip, entry(st))
    BY <1>5, <2>4, EmptyBelongs DEF EntryApart
  <2>6. SendingApart'
    BY <1>1, <1>6 DEF Visited, SendingApart, IsNext
  <2> HIDE DEF entry
  <2> QED BY <1>2, <1>6, <2>3, <2>5, <2>6, EntryStepApart
<1>7. "not text/xml" \in Deaths /\ "no bitrates" \in Deaths /\ "send failed" \in Deaths
  BY DEF Deaths
<1> HIDE DEF msg, rest, entry
<1> QED BY <1>3, <1>6, <1>7, EndsApart DEF Ends

(* What fits and what waits are both of the message. *)
LEMMA FitsBelong ==
  ASSUME NEW ip, NEW msg \in Message, Belongs(ip, msg), NEW s, NEW k \in Fits(s, msg)
  PROVE  Belongs(ip, Before(msg, k)) /\ Belongs(ip, Behind(msg, k))
<1>1. Len(msg) \in Nat /\ k \in 0 .. Len(msg)
  BY LenProperties DEF Message, Fits, Room
<1>2. k + 1 \in Nat \ {0} /\ 1 \in Nat \ {0} /\ Len(msg) \in 0 .. Len(msg)
  BY <1>1
<1> QED BY <1>1, <1>2, PartBelongs DEF Before, Behind

LEMMA ServerForwardApart == ASSUME Inv, Apart, NEW ip, ServerForward(ip) PROVE Apart'
<1> DEFINE fd == conn[ip].server_socket
           client == conn[ip].client_socket
           c == Timed(conn[ip], sock[fd])
           msg(k) == conn[ip].server_message \o Taken(sock[fd], k)
           entry(st) == ResponseDone(c, st)
<1>1. ServerTurn(ip) /\ IsNext(ip) /\ fd \in Fd /\ client # fd
  BY ServerTurnOwns DEF ServerForward
<1>2. /\ ip \in Client /\ conn[ip] \in Connection /\ sock \in [Fd -> Socket]
      /\ client \in Fd /\ sock[client] \in Socket /\ sock[client].ip = ip
  BY <1>1, TurnOwns DEF Inv, TypeOK, Owned
<1>3. PICK k \in Reads(sock[fd]) :
        IF ~ CanSend(sock[client]) THEN Dies("send failed")
        ELSE \E result \in UpdateThroughput(c, ip, msg(k)), m \in Fits(sock[client], msg(k)) :
               /\ conn' = [conn EXCEPT ![ip] = entry(result[1])]
               /\ log' = result[2]
               /\ sock' = [sock EXCEPT ![fd] = Read(@, k),
                                       ![client] = Sent(@, Before(msg(k), m))]
               /\ SendsOn(client, Behind(msg(k), m))
               /\ todo' = todo \ { ip }
               /\ UNCHANGED << readfds, clients, dns_socket, backlog, browserVars >>
  BY DEF ServerForward
<1>4. /\ msg(k) \in Message /\ Belongs(ip, msg(k))
      /\ Read(sock[fd], k) \in Socket /\ SocketApart(Read(sock[fd], k), got[fd])
  BY <1>1, ServerReads, ServerReadsApart
<1>5. EntryApart(ip, conn[ip]) /\ SocketApart(sock[client], got[client])
  BY <1>2 DEF Apart, EntriesApart, SocketsApart
<1>6. \A st : EntryApart(ip, entry(st))
  <2> TAKE st
  <2>1. /\ entry(st).client_message = conn[ip].client_message
        /\ entry(st).server_message = << >>
        /\ entry(st).no_list_message = conn[ip].no_list_message
    BY <1>2 DEF ResponseDone, Timed, Connection
  <2> QED BY <1>5, <2>1, EmptyBelongs DEF EntryApart
<1> HIDE DEF c, msg, entry
<1>7. ASSUME NEW st, NEW m \in Fits(sock[client], msg(k)),
             conn' = [conn EXCEPT ![ip] = entry(st)],
             sock' = [sock EXCEPT ![fd] = Read(@, k), ![client] = Sent(@, Before(msg(k), m))],
             SendsOn(client, Behind(msg(k), m)), UNCHANGED browserVars
      PROVE  Apart'
  <2>1. /\ Before(msg(k), m) \in Message
        /\ Belongs(ip, Before(msg(k), m)) /\ Belongs(ip, Behind(msg(k), m))
    BY <1>4, FitsSplits, FitsBelong
  <2> DEFINE here == Sent(sock[client], Before(msg(k), m))
  <2>2. SocketApart(here, got[client]) /\ here.ip = ip
    BY <1>2, <1>5, <2>1, SentApart, SentKeeps
  <2>3. sock'[fd] = Read(sock[fd], k) /\ sock'[client] = here
        /\ \A g \in Fd : g \notin { fd, client } => sock'[g] = sock[g]
    BY <1>1, <1>2, <1>7
  <2> HIDE DEF here
  <2>4. SocketsApart'
    <3> SUFFICES ASSUME NEW g \in Fd PROVE SocketApart(sock'[g], got[g])
      BY <1>7 DEF SocketsApart, browserVars
    <3>1. CASE g = fd
      BY <1>4, <2>3, <3>1
    <3>2. CASE g = client
      BY <2>2, <2>3, <3>2
    <3>3. CASE g \notin { fd, client }
      BY <2>3, <3>3 DEF Apart, SocketsApart
    <3> QED BY <3>1, <3>2, <3>3
  <2>5. SendingApart'
    <3> SUFFICES ASSUME pc' = "send" PROVE Belongs(sock'[sending'.fd].ip, sending'.rest)
      BY DEF SendingApart
    <3>1. sending' = [ fd |-> client, rest |-> Behind(msg(k), m) ]
      BY <1>7 DEF SendsOn
    <3>2. sending'.fd = client /\ sending'.rest = Behind(msg(k), m)
      BY <3>1
    <3> HIDE DEF client, fd
    <3> QED BY <2>1, <2>2, <2>3, <3>2
  <2> QED BY <1>2, <1>6, <1>7, <2>4, <2>5, EntryStepApart
<1>8. "send failed" \in Deaths
  BY DEF Deaths
<1> QED BY <1>3, <1>7, <1>8, EndsApart DEF Ends

LEMMA SendMoreApart == ASSUME Inv, Apart, SendMore PROVE Apart'
<1> DEFINE fd == sending.fd
           msg == sending.rest
<1>1. /\ pc = "send" /\ fd \in Fd /\ msg \in Message /\ sock \in [Fd -> Socket]
      /\ Belongs(sock[fd].ip, msg) /\ SocketApart(sock[fd], got[fd])
  BY DEF Inv, TypeOK, SendsSome, SendMore, Apart, SendingApart, SocketsApart
<1>2. CASE ~ CanSend(sock[fd])
  BY <1>2, EndsApart DEF SendMore, Ends, Deaths
<1>3. CASE CanSend(sock[fd])
  <2>1. PICK m \in Fits(sock[fd], msg) :
          /\ sock' = [sock EXCEPT ![fd] = Sent(@, Before(msg, m))]
          /\ SendsOn(fd, Behind(msg, m))
          /\ UNCHANGED << readfds, todo, proxyVars, backlog, browserVars >>
    BY <1>3 DEF SendMore
  <2> DEFINE s == Sent(sock[fd], Before(msg, m))
  <2>2. SocketApart(s, got[fd]) /\ s.ip = sock[fd].ip /\ Belongs(sock[fd].ip, Behind(msg, m))
    BY <1>1, FitsSplits, FitsBelong, SentApart, SentKeeps
  <2>3. sock' = [sock EXCEPT ![fd] = s]
    BY <2>1
  <2> HIDE DEF s
  <2>4. SocketsApart' /\ EntriesApart'
    BY <1>1, <2>1, <2>2, <2>3 DEF Apart, SocketsApart, EntriesApart, proxyVars, browserVars
  <2>5. SendingApart'
    <3>1. CASE Behind(msg, m) = << >>
      BY <2>1, <3>1 DEF SendsOn, SendingApart
    <3>2. CASE Behind(msg, m) # << >>
      <4>1. sending' = [ fd |-> fd, rest |-> Behind(msg, m) ]
        BY <2>1, <3>2 DEF SendsOn
      <4>2. sending'.fd = fd /\ sending'.rest = Behind(msg, m) /\ sock'[fd].ip = sock[fd].ip
        BY <1>1, <2>2, <2>3, <4>1
      <4> HIDE DEF fd, msg
      <4> QED BY <2>2, <4>2 DEF SendingApart
    <3> QED BY <3>1, <3>2
  <2> QED BY <2>4, <2>5 DEF Apart
<1> QED BY <1>2, <1>3

-----------------------------------------------------------------------------

(* A browser or the web server does something to one descriptor. *)
LEMMA AroundApart ==
  ASSUME Inv, Apart, NEW fd \in Fd, NEW s, NEW read,
         UNCHANGED << loopVars, proxyVars >>,
         sock' = [sock EXCEPT ![fd] = s], got' = [got EXCEPT ![fd] = read],
         SocketApart(s, read), s.ip = sock[fd].ip
  PROVE  Apart'
<1>1. sock \in [Fd -> Socket] /\ got \in [Fd -> Message]
  BY DEF Inv, TypeOK
<1>2. SocketsApart' /\ EntriesApart'
  BY <1>1 DEF Apart, SocketsApart, EntriesApart, proxyVars
<1>3. SendingApart'
  <2>1. \A g \in Fd : sock'[g].ip = sock[g].ip
    BY <1>1
  <2> QED BY <2>1 DEF Apart, SendingApart, Inv, SendsSome, loopVars
<1> QED BY <1>2, <1>3 DEF Apart

LEMMA SendRequestApart ==
  ASSUME Inv, Apart, NEW ip \in Client, NEW fd \in Fd, NEW kind \in Asks,
         SendRequest(ip, fd, kind)
  PROVE  Apart'
<1> DEFINE n == sent[ip] + 1
           u == [ ip |-> ip, n |-> n, kind |-> kind, br |-> 0, part |-> "line" ]
           s == [sock[fd] EXCEPT !.inq = @ \o Whole(u, RequestParts)]
<1>1. sock[fd] \in Socket /\ sock[fd].ip = ip /\ n \in Nat /\ got \in [Fd -> Message]
  BY DEF Inv, TypeOK, SendRequest, BrowserEnds
<1>2. u \in Unit /\ u.ip = ip
  BY <1>1, MiProxyAssumption DEF Unit, Kinds, Parts
<1>3. Whole(u, RequestParts) \in Message /\ Belongs(ip, Whole(u, RequestParts))
  <2> HIDE DEF u
  <2> QED BY <1>2, WholeIsMessage, WholeBelongs, PartsAreParts
<1>4. SocketApart(sock[fd], got[fd]) /\ sock[fd].inq \in Message
  BY <1>1 DEF Apart, SocketsApart, Socket
<1>5. Belongs(ip, sock[fd].inq \o Whole(u, RequestParts))
  <2> HIDE DEF u
  <2> QED BY <1>1, <1>3, <1>4, ConcatBelongs DEF SocketApart
<1>6. SocketApart(s, got[fd]) /\ s.ip = sock[fd].ip
  <2> HIDE DEF u
  <2> QED BY <1>1, <1>4, <1>5 DEF SocketApart, Socket
<1>7. /\ UNCHANGED << loopVars, proxyVars >>
      /\ sock' = [sock EXCEPT ![fd] = s] /\ got' = [got EXCEPT ![fd] = got[fd]]
  BY <1>1 DEF SendRequest
<1> HIDE DEF s
<1> QED BY <1>6, <1>7, AroundApart

LEMMA ReceiveApart ==
  ASSUME Inv, Apart, NEW ip \in Client, NEW fd \in Fd, Receive(ip, fd)
  PROVE  Apart'
<1> DEFINE all == Delivered(fd)
<1>1. /\ sock[fd] \in Socket /\ sock[fd].outq \in Message /\ got[fd] \in Message
      /\ sock[fd].kind = "client" /\ sock[fd].peer = "open"
      /\ SocketApart(sock[fd], got[fd])
      /\ UNCHANGED << loopVars, proxyVars >>
  BY DEF Inv, TypeOK, Receive, BrowserEnds, Socket, Apart, SocketsApart
<1>2. all \in Message /\ Len(all) \in Nat /\ Belongs(sock[fd].ip, all)
  <2>1. Belongs(sock[fd].ip, got[fd])
    BY <1>1, EmptyBelongs DEF SocketApart
  <2> QED BY <1>1, <2>1, ConcatIsMessage, ConcatBelongs, LenProperties
          DEF Delivered, SocketApart, Message
<1>3. ASSUME NEW left, Belongs(sock[fd].ip, left), NEW read, Belongs(sock[fd].ip, read),
             sock' = [sock EXCEPT ![fd].outq = left], got' = [got EXCEPT ![fd] = read]
      PROVE  Apart'
  <2> DEFINE s == [sock[fd] EXCEPT !.outq = left]
  <2>1. SocketApart(s, read) /\ s.ip = sock[fd].ip
    BY <1>1, <1>3 DEF SocketApart, Socket
  <2>2. sock' = [sock EXCEPT ![fd] = s]
    BY <1>3
  <2> HIDE DEF s
  <2> QED BY <1>1, <1>3, <2>1, <2>2, AroundApart
<1>4. ASSUME NEW len \in ResponseLength(all)
      PROVE  Belongs(sock[fd].ip, Behind(all, len))
  BY <1>2, PartBelongs DEF ResponseLength, Behind
<1> HIDE DEF all
<1> QED BY <1>2, <1>3, <1>4, EmptyBelongs DEF Receive, all

LEMMA CloseApart ==
  ASSUME Inv, Apart, NEW ip \in Client, NEW fd \in Fd, CloseConnection(ip, fd)
  PROVE  Apart'
<1>1. SocketApart(PeerCloses(sock[fd]), << >>) /\ PeerCloses(sock[fd]).ip = sock[fd].ip
  BY PeerClosesApart, PeerClosesKeeps DEF Inv, TypeOK, Apart, SocketsApart
<1>2. /\ UNCHANGED << loopVars, proxyVars >>
      /\ sock' = [sock EXCEPT ![fd] = PeerCloses(sock[fd])]
      /\ got' = [got EXCEPT ![fd] = << >>]
  BY DEF CloseConnection
<1> QED BY <1>1, <1>2, AroundApart

LEMMA WebServerApart ==
  ASSUME Inv, Apart, NEW fd \in Fd, Respond(fd) \/ ServerClose(fd) \/ ServerAbort(fd)
  PROVE  Apart'
<1> DEFINE q == sock[fd].outq
<1>1. /\ sock[fd] \in Socket /\ sock[fd].inq \in Message /\ q \in Message
      /\ SocketApart(sock[fd], got[fd]) /\ got[fd] = << >> /\ got \in [Fd -> Message]
      /\ UNCHANGED << loopVars, proxyVars, got >>
  <2>1. sock[fd] \in Socket /\ SocketApart(sock[fd], got[fd]) /\ got \in [Fd -> Message]
    BY DEF Inv, TypeOK, Apart, SocketsApart
  <2>2. sock[fd].kind = "server"
    BY DEF Respond, ServerClose, ServerAbort, ServerEnd
  <2>3. got[fd] = << >>
    BY <2>1, <2>2, NothingRead
  <2> QED BY <2>1, <2>3 DEF Socket, Respond, ServerClose, ServerAbort, browserVars
<1>2. got' = [got EXCEPT ![fd] = << >>]
  BY <1>1
<1>3. ASSUME NEW answer \in Message, Belongs(sock[fd].ip, answer), Has(q, "end")
      PROVE  LET s == [sock[fd] EXCEPT !.inq = @ \o answer, !.outq = AfterRequest(q)]
             IN  SocketApart(s, << >>) /\ s \in Socket /\ s.ip = sock[fd].ip
  <2>1. Belongs(sock[fd].ip, sock[fd].inq \o answer)
    BY <1>1, <1>3, ConcatBelongs DEF SocketApart
  <2>2. Belongs(sock[fd].ip, AfterRequest(q)) /\ AfterRequest(q) \in Message
    BY <1>1, <1>3, AnswersBelong, AnswersAreMessages DEF SocketApart
  <2>3. sock[fd].inq \o answer \in Message
    BY <1>1, <1>3, ConcatIsMessage
  <2> QED BY <1>1, <2>1, <2>2, <2>3 DEF SocketApart, Socket
<1>4. CASE Respond(fd)
  <2>1. PICK answer \in Answers(q[1]) :
          sock' = [sock EXCEPT ![fd].inq = @ \o answer, ![fd].outq = AfterRequest(@)]
    BY <1>4 DEF Respond
  <2>2. answer \in Message /\ Belongs(sock[fd].ip, answer) /\ Has(q, "end")
    BY <1>1, <1>4, AnswersAreMessages, AnswersBelong DEF Respond, SocketApart
  <2> DEFINE s == [sock[fd] EXCEPT !.inq = @ \o answer, !.outq = AfterRequest(q)]
  <2>3. sock' = [sock EXCEPT ![fd] = s]
    BY <2>1 DEF Inv, TypeOK
  <2>4. SocketApart(s, << >>) /\ s.ip = sock[fd].ip
    BY <1>3, <2>2
  <2> HIDE DEF s
  <2> QED BY <1>1, <1>2, <2>3, <2>4, AroundApart
<1>5. CASE ServerClose(fd)
  <2>1. SocketApart(PeerCloses(sock[fd]), << >>) /\ PeerCloses(sock[fd]).ip = sock[fd].ip
    BY <1>1, PeerClosesApart, PeerClosesKeeps
  <2> QED BY <1>1, <1>2, <1>5, <2>1, AroundApart DEF ServerClose
<1>6. CASE ServerAbort(fd)
  <2> DEFINE part == SubSeq(Whole(q[1], ResponseParts(q[1].kind)), 1, 2)
             s == [sock[fd] EXCEPT !.inq = @ \o part, !.outq = AfterRequest(q)]
  <2>1. part \in Message /\ Belongs(sock[fd].ip, part) /\ Has(q, "end")
    BY <1>1, <1>6, AnswersAreMessages, AnswersBelong DEF ServerAbort, SocketApart
  <2> HIDE DEF part
  <2>2. SocketApart(s, << >>) /\ s \in Socket /\ s.ip = sock[fd].ip
    BY <1>3, <2>1
  <2>3. sock' = [sock EXCEPT ![fd] = PeerCloses(s)]
    BY <1>6 DEF ServerAbort, part
  <2> HIDE DEF s
  <2>4. SocketApart(PeerCloses(s), << >>) /\ PeerCloses(s).ip = sock[fd].ip
    BY <2>2, PeerClosesApart, PeerClosesKeeps
  <2> QED BY <1>1, <1>2, <2>3, <2>4, AroundApart
<1> QED BY <1>4, <1>5, <1>6

LEMMA OutsideApart ==
  ASSUME Inv, Apart, (\E ip \in Client : Browser(ip)) \/ WebServer
  PROVE  Apart'
<1>1. ASSUME NEW ip \in Client, OpenConnection(ip) PROVE Apart'
  BY <1>1 DEF OpenConnection, Apart, SocketsApart, EntriesApart, SendingApart, loopVars, proxyVars
<1> QED BY <1>1, SendRequestApart, ReceiveApart, CloseApart, WebServerApart
        DEF Browser, WebServer

LEMMA NextApart == Inv /\ Apart /\ [Next]_vars => Apart'
<1> SUFFICES ASSUME Inv, Apart, [Next]_vars PROVE Apart'
  OBVIOUS
<1>1. CASE Select \/ ScanEnds
  BY <1>1 DEF Select, ScanEnds, Apart, SocketsApart, EntriesApart, SendingApart,
              proxyVars, browserVars
<1>2. CASE Accept
  BY <1>2, AcceptApart
<1>3. ASSUME NEW ip \in Client, Skip(ip) PROVE Apart'
  BY <1>3 DEF Skip, Visited, Apart, SocketsApart, EntriesApart, SendingApart,
              proxyVars, browserVars
<1>4. ASSUME NEW ip \in Client, HandleClient(ip) PROVE Apart'
  <2>1. ClientReset(ip) => Ends
    BY DEF ClientReset, Ends, Deaths
  <2> QED BY <1>4, <2>1, EndsApart, ClientGoneApart, ClientPartialApart, ClientRequestApart
          DEF HandleClient
<1>5. ASSUME NEW ip \in Client, HandleServer(ip) PROVE Apart'
  <2>1. ServerReset(ip) => Ends
    BY DEF ServerReset, Ends, Deaths
  <2> QED BY <1>5, <2>1, EndsApart, ServerGoneApart, ServerPartialApart, ServerManifestApart,
             ServerForwardApart DEF HandleServer
<1>6. CASE SendMore
  BY <1>6, SendMoreApart
<1>7. CASE (\E ip \in Client : Browser(ip)) \/ WebServer
  BY <1>7, OutsideApart
<1>8. CASE UNCHANGED vars
  BY <1>8 DEF vars, loopVars, proxyVars, browserVars, Apart, SocketsApart, EntriesApart,
              SendingApart
<1> QED BY <1>1, <1>2, <1>3, <1>4, <1>5, <1>6, <1>7, <1>8 DEF Next, Proxy

(***************************************************************************)
(* What the proxy sends on a browser's connection belongs to that browser, *)
(* although descriptors are closed and given out again, entries are erased *)
(* and taken over with what is left in their buffers, and a send may have  *)
(* to wait in the middle of a response.                                    *)
(***************************************************************************)
THEOREM NoCrossTalkAlways == Spec => []NoCrossTalk
<1>1. Apart => NoCrossTalk
  BY DEF Apart, SocketsApart, SocketApart, Belongs, NoCrossTalk
<1> QED BY InitInv, NextInv, InitApart, NextApart, <1>1, PTL DEF Spec
=============================================================================
