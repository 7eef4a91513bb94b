------------------------------- MODULE MiProxy -------------------------------
(***************************************************************************)
(* miProxy: one thread that waits in select() for the listening socket,    *)
(* the browsers' connections and its own connections to the web server,    *)
(* and serves whatever is ready (src/miProxy/miProxy.cpp).                 *)
(*                                                                         *)
(* The proxy is a loop: Select, then at most one Accept, then a scan over  *)
(* the clients map in which every entry gets at most one handler call.  A  *)
(* handler is one action.  Around it are the environment's actions, the    *)
(* browsers' and the web server's, which may come between any two steps.   *)
(***************************************************************************)
EXTENDS Bitrate, Traffic

CONSTANTS
  NumFd,          \* bound: descriptors the process may hold beside its fixed ones
  MaxRequests,    \* bound: requests each browser sends
  MaxConnects,    \* bound: connections each browser opens in all
  MaxOpen,        \* bound: connections a browser has open at the same time
  Asks,           \* the kinds of request the browsers send
  Listing,        \* the bitrates of the manifest, in its order
  Measured,       \* the throughputs a response may be measured at
  DnsModes,       \* may the web server's address be given, looked up?
  EraseOutcomes,  \* what incrementing an iterator to an erased entry may do
  Faults          \* what may go wrong around the proxy

ASSUME MiProxyAssumption ==
  /\ NumFd \in Nat
  /\ MaxRequests \in [Client -> Nat]
  /\ MaxConnects \in [Client -> Nat]
  /\ MaxOpen \in Nat
  /\ Asks \subseteq { "page", "manifest", "chunk" }
  /\ Listing \in Seq(Nat)
  /\ Measured \subseteq Nat
  /\ DnsModes \subseteq BOOLEAN
  /\ EraseOutcomes \subseteq { "advance", "revisit", "abort" }
  /\ Faults \subseteq { "clientClose", "serverClose", "serverAbort",
                        "refuse", "noLength", "notFound", "noAddress" }

Fd   == 1 .. NumFd
None == -1

Phases == { "select", "accept", "scan", "send" }

(* The ways the process ends: an uncaught or reported exception, exit(1),  *)
(* a signal.                                                               *)
Deaths == { "accept failed", "dns", "socket failed", "connect failed", "no bitrates",
            "not text/xml", "send failed", "length_error", "iterator" }

(***************************************************************************)
(* struct Connection, the fields of the video stream in one.  The time in  *)
(* server_conn_start is told by the response that was beginning then.      *)
(***************************************************************************)
Connection ==
  [ client_socket      : Fd \cup { None },
    server_socket      : Fd \cup { None },
    client_message     : Message,
    server_message     : Message,
    server_message_len : Nat,
    server_conn_start  : Nat,
    no_list_message    : Message,
    stream             : Stream ]

NoConnection ==
  [ client_socket      |-> None,
    server_socket      |-> None,
    client_message     |-> << >>,
    server_message     |-> << >>,
    server_message_len |-> 0,
    server_conn_start  |-> 0,
    no_list_message    |-> << >>,
    stream             |-> NewStream ]

VARIABLES
  pc,          \* where run() is, or how the process ended
  readfds,     \* the descriptors select() reported
  todo,        \* the entries the scan has not come to
  sending,     \* what a send that waits has left, and where it goes
  clients,     \* the keys of the map
  conn,        \* its values
  dns_socket,  \* "none" without dns_mode, "open", "used" after the one answer
  log,         \* the last line logged, and the response it was logged for
  sock,        \* the kernel: what every descriptor stands for
  backlog,     \* connections waiting in the listening socket, by address
  asked,       \* browser: the request a connection waits for an answer to, or 0
  got,         \* browser: what it has of the answer
  sent,        \* browser: requests sent so far
  opened,      \* browser: connections opened so far
  player       \* browser: has the player got a manifest?

loopVars    == << pc, readfds, todo, sending >>
proxyVars   == << clients, conn, dns_socket, log >>
browserVars == << asked, got, sent, opened, player >>
vars == << loopVars, proxyVars, sock, backlog, browserVars >>

LogLine ==
  [ ip : Client \cup { -1 }, chunkname : Nat, bitrate : Nat, start : Nat, n : Nat, br : Nat ]

NoLine == [ ip |-> -1, chunkname |-> 0, bitrate |-> 0, start |-> 0, n |-> 0, br |-> 0 ]

NotSending == [ fd |-> None, rest |-> << >> ]

Init ==
  /\ pc = "select"
  /\ readfds = {}
  /\ todo = {}
  /\ sending = NotSending
  /\ clients = {}
  /\ conn = [ip \in Client |-> NoConnection]
  /\ \E dns_mode \in DnsModes : dns_socket = IF dns_mode THEN "open" ELSE "none"
  /\ log = NoLine
  /\ sock = [fd \in Fd |-> FreeSocket]
  /\ backlog = << >>
  /\ asked = [fd \in Fd |-> 0]
  /\ got = [fd \in Fd |-> << >>]
  /\ sent = [ip \in Client |-> 0]
  /\ opened = [ip \in Client |-> 0]
  /\ player = [ip \in Client |-> FALSE]

-----------------------------------------------------------------------------

Alive == pc \in Phases

(* The process ends; nothing it would still have changed matters. *)
Dies(how) ==
  /\ pc' = how
  /\ UNCHANGED << readfds, todo, sending, proxyVars, sock, backlog, browserVars >>

Watched ==
  { conn[ip].client_socket : ip \in clients } \cup
  { conn[ip].server_socket : ip \in { c \in clients : conn[c].server_socket # None } }

(* Mistake: what was asked of select() is taken for its answer. *)
AllWatched == Watched

Ready == { fd \in Watched : Readable(sock[fd]) }

(***************************************************************************)
(* run(): the top of the loop.  The listening socket is ready when a       *)
(* connection waits; select() has no timeout.                              *)
(***************************************************************************)
Select ==
  /\ pc = "select"
  /\ Ready # {} \/ backlog # << >>
  /\ readfds' = Ready
  /\ IF backlog # << >>
     THEN pc' = "accept" /\ UNCHANGED todo
     ELSE pc' = "scan" /\ todo' = clients
  /\ UNCHANGED << sending, proxyVars, sock, backlog, browserVars >>

(***************************************************************************)
(* handle_master_connection: entries are keyed by the address, so that a   *)
(* second connection from an address takes over the first one's entry.     *)
(***************************************************************************)
Accepted(ip, fd) ==
  /\ sock' = [sock EXCEPT ![fd] = NewSocket("client", ip)]
  /\ backlog' = Tail(backlog)
  /\ pc' = "scan"
  /\ todo' = clients \cup { ip }
  /\ clients' = clients \cup { ip }
  /\ UNCHANGED << readfds, sending, log, browserVars >>

AcceptKnown ==
  /\ pc = "accept"
  /\ Head(backlog) \in clients
  /\ \E fd \in LowestFree(sock) :
       /\ Accepted(Head(backlog), fd)
       /\ conn' = [conn EXCEPT ![Head(backlog)].client_socket = fd]
       /\ UNCHANGED dns_socket

AcceptNew ==
  /\ pc = "accept"
  /\ Head(backlog) \notin clients
  /\ dns_socket # "used"
  /\ \E fd \in LowestFree(sock) :
       /\ Accepted(Head(backlog), fd)
       /\ conn' = [conn EXCEPT ![Head(backlog)] =
                     [NoConnection EXCEPT !.client_socket = fd]]
       /\ dns_socket' = IF dns_socket = "open" THEN "used" ELSE "none"

(* request_dns does not return: the nameserver has closed its end after    *)
(* the first answer, or has no address to give.                            *)
AcceptWithoutAddress ==
  /\ pc = "accept"
  /\ Head(backlog) \notin clients
  /\ LowestFree(sock) # {}
  /\ \/ dns_socket = "used"
     \/ dns_socket = "open" /\ "noAddress" \in Faults
  /\ Dies("dns")

AcceptFails ==
  /\ pc = "accept"
  /\ LowestFree(sock) = {}
  /\ Dies("accept failed")

-----------------------------------------------------------------------------

(***************************************************************************)
(* The scan visits the entries in the order of their keys.  A descriptor   *)
(* counts as ready when select() reported it, whatever happened since; the *)
(* browser's connection has precedence.                                    *)
(***************************************************************************)
IsNext(ip) == pc = "scan" /\ ip \in todo /\ \A other \in todo : ip =< other

ClientTurn(ip) == IsNext(ip) /\ conn[ip].client_socket \in readfds

ServerTurn(ip) ==
  /\ IsNext(ip)
  /\ conn[ip].client_socket \notin readfds
  /\ conn[ip].server_socket # None
  /\ conn[ip].server_socket \in readfds

Visited(ip) == todo' = todo \ { ip } /\ UNCHANGED << pc, readfds, sending >>

Skip(ip) ==
  /\ IsNext(ip)
  /\ { conn[ip].client_socket, conn[ip].server_socket } \cap readfds = {}
  /\ Visited(ip)
  /\ UNCHANGED << proxyVars, sock, backlog, browserVars >>

ScanEnds ==
  /\ pc = "scan"
  /\ todo = {}
  /\ pc' = "select"
  /\ readfds' = {}
  /\ UNCHANGED << todo, sending, proxyVars, sock, backlog, browserVars >>

(***************************************************************************)
(* handle_client_connection, read() = 0: the entry is erased while the     *)
(* loop of run() holds an iterator to it.  Incrementing that iterator is   *)
(* undefined; the loop goes on behind the entry, or comes back to one it   *)
(* has been at, or the process crashes.                                    *)
(***************************************************************************)
ClientGone(ip) ==
  LET fd == conn[ip].client_socket
  IN  /\ ClientTurn(ip)
      /\ AtEnd(sock[fd])
      /\ sock' = [sock EXCEPT ![fd] = FreeSocket]
      /\ clients' = clients \ { ip }
      /\ conn' = [conn EXCEPT ![ip] = NoConnection]
      /\ \/ /\ "advance" \in EraseOutcomes
            /\ todo' = todo \ { ip }
            /\ UNCHANGED pc
         \/ /\ "revisit" \in EraseOutcomes
            /\ \E back \in clients' :
                 back < ip /\ todo' = { c \in clients' : back =< c }
            /\ UNCHANGED pc
         \/ /\ "abort" \in EraseOutcomes
            /\ pc' = "iterator"
            /\ UNCHANGED todo
      /\ UNCHANGED << readfds, sending, dns_socket, log, backlog, browserVars >>

(* read() = -1 reaches append(buffer, -1), whose exception main() does not *)
(* catch.                                                                  *)
ClientReset(ip) ==
  /\ ClientTurn(ip)
  /\ IsReset(sock[conn[ip].client_socket])
  /\ Dies("length_error")

ClientPartial(ip) ==
  LET fd == conn[ip].client_socket
  IN  /\ ClientTurn(ip)
      /\ \E k \in Reads(sock[fd]) :
           LET msg == conn[ip].client_message \o Taken(sock[fd], k)
           IN  /\ ~ Has(msg, "end")
               /\ conn' = [conn EXCEPT ![ip].client_message = msg]
               /\ sock' = [sock EXCEPT ![fd] = Read(@, k)]
      /\ Visited(ip)
      /\ UNCHANGED << clients, dns_socket, log, backlog, browserVars >>

(***************************************************************************)
(* handle_request_message: a request that names the manifest is kept with  *)
(* the other manifest's name in it, a request for a chunk gets the chosen  *)
(* bitrate, and the request goes to the web server.                        *)
(***************************************************************************)
NamesManifest(msg) ==
  { i \in 1 .. Len(msg) : msg[i].part = "line" /\ msg[i].kind = "manifest" }

(* Mistake: the name of the manifest is not recognised. *)
NoListForgotten(msg, old) == old

NoListMessage(msg, old) ==
  IF NamesManifest(msg) = {}
  THEN old
  ELSE [i \in 1 .. Len(msg) |->
          IF i \in NamesManifest(msg) /\ \A j \in NamesManifest(msg) : i =< j
          THEN [msg[i] EXCEPT !.kind = "nolist"]
          ELSE msg[i]]

(* Mistake: every path is taken for that of a chunk. *)
AnyPath(msg) == msg[1].part = "line"

IsChunk(msg) == msg[1].part = "line" /\ msg[1].kind = "chunk"

CanChoose(ip, msg) ==
  IsChunk(msg) => conn[ip].stream.available_bitrates # << >>

ParseBitrate(st, msg) == IF IsChunk(msg) THEN Choose(st, msg[1].n) ELSE st

Rewritten(st, msg) ==
  IF IsChunk(msg) THEN [msg EXCEPT ![1].br = st.current_bitrate] ELSE msg

(* Mistake: the request stays in the buffer after it was sent. *)
RequestKept(c, msg, st, server) ==
  [c EXCEPT !.server_socket = server,
            !.no_list_message = NoListMessage(msg, @),
            !.stream = st,
            !.client_message = msg]

RequestSent(c, msg, st, server) ==
  [c EXCEPT !.server_socket = server,
            !.no_list_message = NoListMessage(msg, @),
            !.stream = st,
            !.client_message = << >>]

(* rest is sock after the last read of the request, with the connection to *)
(* the web server at server.                                               *)
ForwardRequest(ip, msg, rest, server) ==
  LET st == ParseBitrate(conn[ip].stream, msg)
  IN  IF ~ CanChoose(ip, msg) THEN Dies("no bitrates")
      ELSE IF ~ CanSend(rest[server]) THEN Dies("send failed")
      ELSE /\ sock' = [rest EXCEPT ![server] = Sent(@, Rewritten(st, msg))]
           /\ conn' = [conn EXCEPT ![ip] = RequestSent(@, msg, st, server)]
           /\ Visited(ip)
           /\ UNCHANGED << clients, dns_socket, log, backlog, browserVars >>

ClientRequest(ip) ==
  LET fd == conn[ip].client_socket
  IN  /\ ClientTurn(ip)
      /\ \E k \in Reads(sock[fd]) :
           LET msg  == conn[ip].client_message \o Taken(sock[fd], k)
               rest == [sock EXCEPT ![fd] = Read(@, k)]
           IN  /\ Has(msg, "end")
               /\ \/ /\ conn[ip].server_socket # None
                     /\ ForwardRequest(ip, msg, rest, conn[ip].server_socket)
                  \/ /\ conn[ip].server_socket = None
                     /\ \E server \in LowestFree(rest) :
                          ForwardRequest(ip, msg,
                            [rest EXCEPT ![server] = NewSocket("server", ip)], server)
                  \/ /\ conn[ip].server_socket = None
                     /\ LowestFree(rest) # {}
                     /\ "refuse" \in Faults
                     /\ Dies("connect failed")
                  \/ /\ conn[ip].server_socket = None
                     /\ LowestFree(rest) = {}
                     /\ Dies("socket failed")

-----------------------------------------------------------------------------

(* Mistake: the entry still holds the descriptor it has closed. *)
ServerKept(c) == c

(* Mistake: it is marked as 0, as the comment in the code says. *)
ServerZero(c) == [c EXCEPT !.server_socket = 0]

ServerLost(c) == [c EXCEPT !.server_socket = None]

(* Mistake: the entry forgets a descriptor that it has not closed. *)
ServerUnclosed(ip) ==
  /\ ServerTurn(ip)
  /\ AtEnd(sock[conn[ip].server_socket])
  /\ conn' = [conn EXCEPT ![ip] = ServerLost(@)]
  /\ Visited(ip)
  /\ UNCHANGED << clients, dns_socket, log, sock, backlog, browserVars >>

(***************************************************************************)
(* handle_server_connection.  When the web server closes, the descriptor   *)
(* is given up and everything else is kept.                                *)
(***************************************************************************)
ServerGone(ip) ==
  LET fd == conn[ip].server_socket
  IN  /\ ServerTurn(ip)
      /\ AtEnd(sock[fd])
      /\ sock' = [sock EXCEPT ![fd] = FreeSocket]
      /\ conn' = [conn EXCEPT ![ip] = ServerLost(@)]
      /\ Visited(ip)
      /\ UNCHANGED << clients, dns_socket, log, backlog, browserVars >>

ServerReset(ip) ==
  /\ ServerTurn(ip)
  /\ IsReset(sock[conn[ip].server_socket])
  /\ Dies("length_error")

(* Mistake: the clock is read when the connection is made and never after. *)
StartedOnce(c, s) ==
  IF c.server_conn_start = 0 THEN s.inq[1].n ELSE c.server_conn_start

(* The clock is read whenever the buffer is empty. *)
Started(c, s) ==
  IF c.server_message = << >> THEN s.inq[1].n ELSE c.server_conn_start

Timed(c, s) == [c EXCEPT !.server_conn_start = Started(c, s)]

Expected(c, msg) ==
  IF c.server_message_len # 0 THEN c.server_message_len ELSE ParseHeader(msg)

(* Mistake: one byte more is awaited than was announced. *)
IsLonger(c, msg) ==
  Expected(c, msg) # 0 /\ Len(msg) > Expected(c, msg)

IsComplete(c, msg) ==
  Expected(c, msg) # 0 /\ Len(msg) >= Expected(c, msg)

ServerPartial(ip) ==
  LET fd == conn[ip].server_socket
  IN  /\ ServerTurn(ip)
      /\ \E k \in Reads(sock[fd]) :
           LET msg == conn[ip].server_message \o Taken(sock[fd], k)
           IN  /\ ~ IsComplete(conn[ip], msg)
               /\ conn' = [conn EXCEPT ![ip] =
                             [Timed(@, sock[fd]) EXCEPT
                                !.server_message = msg,
                                !.server_message_len = Expected(conn[ip], msg)]]
               /\ sock' = [sock EXCEPT ![fd] = Read(@, k)]
      /\ Visited(ip)
      /\ UNCHANGED << clients, dns_socket, log, backlog, browserVars >>

(* Mistake: the length announced for one response is kept for the next. *)
LengthKept(c, st) == [c EXCEPT !.stream = st, !.server_message = << >>]

(* Mistake: a response stays in the buffer after it was sent. *)
ResponseKept(c, st) == [c EXCEPT !.stream = st, !.server_message_len = 0]

ResponseDone(c, st) ==
  [c EXCEPT !.stream = st, !.server_message = << >>, !.server_message_len = 0]

(***************************************************************************)
(* handle_response_message while a manifest is awaited: parse_xml reads    *)
(* the bitrates of every manifest in the message, and the request for the  *)
(* other manifest goes to the web server.                                  *)
(***************************************************************************)
IsXml(msg) ==
  \E i \in 1 .. Len(msg) :
    msg[i].part \in { "length", "plain" } /\ msg[i].kind \in { "manifest", "nolist" }

Documents(msg) ==
  Cardinality({ i \in 1 .. Len(msg) : msg[i].part = "body" /\ msg[i].kind = "manifest" })

Listed(msg) ==
  [i \in 1 .. Documents(msg) * Len(Listing) |-> Listing[((i - 1) % Len(Listing)) + 1]]

ServerManifest(ip) ==
  LET fd == conn[ip].server_socket
  IN  /\ ServerTurn(ip)
      /\ conn[ip].no_list_message # << >>
      /\ \E k \in Reads(sock[fd]) :
           LET msg  == conn[ip].server_message \o Taken(sock[fd], k)
               rest == [sock EXCEPT ![fd] = Read(@, k)]
           IN  /\ IsComplete(conn[ip], msg)
               /\ IF ~ IsXml(msg) THEN Dies("not text/xml")
                  ELSE IF conn[ip].stream.available_bitrates \o Listed(msg) = << >>
                  THEN Dies("no bitrates")
                  ELSE IF ~ CanSend(rest[fd]) THEN Dies("send failed")
                  ELSE /\ sock' = [rest EXCEPT ![fd] = Sent(@, conn[ip].no_list_message)]
                       /\ \E st \in Learn(conn[ip].stream, Listed(msg)) :
                            conn' = [conn EXCEPT ![ip] =
                              ResponseDone([Timed(@, sock[fd]) EXCEPT
                                              !.no_list_message = << >>], st)]
                       /\ Visited(ip)
                       /\ UNCHANGED << clients, dns_socket, log, backlog, browserVars >>

(***************************************************************************)
(* handle_response_message otherwise: a video chunk is measured and        *)
(* logged, and everything that was received goes to the browser.           *)
(***************************************************************************)
IsVideo(msg) ==
  /\ Has(msg, "blank")
  /\ \E i \in 1 .. First(msg, "blank") :
       msg[i].part \in { "length", "plain" } /\ msg[i].kind = "chunk"

UpdateThroughput(c, ip, msg) ==
  IF ~ IsVideo(msg)
  THEN { << c.stream, log >> }
  ELSE { << Measure(c.stream, new),
            [ ip        |-> ip,
              chunkname |-> c.stream.chunkname,
              bitrate   |-> c.stream.current_bitrate,
              start     |-> c.server_conn_start,
              n         |-> msg[Len(msg)].n,
              br        |-> msg[Len(msg)].br ] >> : new \in Measured }

(***************************************************************************)
(* send_all: the loop of run() goes on when everything is sent.  Until     *)
(* then the process waits in send() for the browser to read.  The buffer   *)
(* that is being sent is cleared afterwards, and nobody looks at it before.*)
(***************************************************************************)
SendsOn(fd, rest) ==
  IF rest = << >>
  THEN pc' = "scan" /\ sending' = NotSending
  ELSE pc' = "send" /\ sending' = [ fd |-> fd, rest |-> rest ]

ServerForward(ip) ==
  LET fd == conn[ip].server_socket
      client == conn[ip].client_socket
      c == Timed(conn[ip], sock[fd])
  IN  /\ ServerTurn(ip)
      /\ conn[ip].no_list_message = << >>
      /\ \E k \in Reads(sock[fd]) :
           LET msg == conn[ip].server_message \o Taken(sock[fd], k)
           IN  /\ IsComplete(conn[ip], msg)
               /\ IF ~ CanSend(sock[client]) THEN Dies("send failed")
                  ELSE \E result \in UpdateThroughput(c, ip, msg), m \in Fits(sock[client], msg) :
                         /\ conn' = [conn EXCEPT ![ip] = ResponseDone(c, result[1])]
                         /\ log' = result[2]
                         /\ sock' = [sock EXCEPT ![fd] = Read(@, k),
                                                 ![client] = Sent(@, Before(msg, m))]
                         /\ SendsOn(client, Behind(msg, m))
                         /\ todo' = todo \ { ip }
                         /\ UNCHANGED << readfds, clients, dns_socket, backlog, browserVars >>

SendMore ==
  LET fd == sending.fd
  IN  /\ pc = "send"
      /\ IF ~ CanSend(sock[fd]) THEN Dies("send failed")
         ELSE \E m \in Fits(sock[fd], sending.rest) \ { 0 } :
                /\ sock' = [sock EXCEPT ![fd] = Sent(@, Before(sending.rest, m))]
                /\ SendsOn(fd, Behind(sending.rest, m))
                /\ UNCHANGED << readfds, todo, proxyVars, backlog, browserVars >>

-----------------------------------------------------------------------------

(***************************************************************************)
(* The browsers.  A browser has up to MaxOpen connections, has one request *)
(* outstanding on each, and asks for chunks once its player has the        *)
(* manifest.                                                               *)
(***************************************************************************)
BrowserEnds(ip) ==
  { fd \in Fd : sock[fd].kind = "client" /\ sock[fd].ip = ip /\ sock[fd].peer = "open" }

Waiting(ip) == { i \in 1 .. Len(backlog) : backlog[i] = ip }

OpenConnection(ip) ==
  /\ Alive
  /\ opened[ip] < MaxConnects[ip]
  /\ Cardinality(BrowserEnds(ip)) + Cardinality(Waiting(ip)) < MaxOpen
  /\ backlog' = Append(backlog, ip)
  /\ opened' = [opened EXCEPT ![ip] = @ + 1]
  /\ UNCHANGED << loopVars, proxyVars, sock, asked, got, sent, player >>

SendRequest(ip, fd, kind) ==
  LET n == sent[ip] + 1
      u == [ ip |-> ip, n |-> n, kind |-> kind, br |-> 0, part |-> "line" ]
  IN  /\ Alive
      /\ fd \in BrowserEnds(ip)
      /\ asked[fd] = 0
      /\ sent[ip] < MaxRequests[ip]
      /\ kind = "chunk" => player[ip]
      /\ sock' = [sock EXCEPT ![fd].inq = @ \o Whole(u, RequestParts)]
      /\ asked' = [asked EXCEPT ![fd] = n]
      /\ sent' = [sent EXCEPT ![ip] = n]
      /\ UNCHANGED << loopVars, proxyVars, backlog, got, opened, player >>

(***************************************************************************)
(* The browser reads.  It takes everything there is, as long as that is    *)
(* not a whole response, and no more than the response it waits for.       *)
(***************************************************************************)
ResponseLength(q) ==
  { len \in 1 .. Len(q) :
      SubSeq(q, 1, len) \in { Whole(q[1], ResponseParts(q[1].kind)),
                              Whole(q[1], NoBodyParts) } }

Delivered(fd) == got[fd] \o sock[fd].outq

Receive(ip, fd) ==
  LET all == Delivered(fd)
  IN  /\ Alive
      /\ fd \in BrowserEnds(ip)
      /\ asked[fd] # 0
      /\ sock[fd].outq # << >>
      /\ \/ /\ ResponseLength(all) = {}
            /\ sock' = [sock EXCEPT ![fd].outq = << >>]
            /\ got' = [got EXCEPT ![fd] = all]
            /\ UNCHANGED << asked, player >>
         \/ \E len \in ResponseLength(all) :
              /\ sock' = [sock EXCEPT ![fd].outq = Behind(all, len)]
              /\ got' = [got EXCEPT ![fd] = << >>]
              /\ asked' = [asked EXCEPT ![fd] = 0]
              /\ player' = [player EXCEPT ![ip] = @ \/ all[1].kind \in { "manifest", "nolist" }]
      /\ UNCHANGED << loopVars, proxyVars, backlog, sent, opened >>

CloseConnection(ip, fd) ==
  /\ Alive
  /\ "clientClose" \in Faults
  /\ fd \in BrowserEnds(ip)
  /\ sock' = [sock EXCEPT ![fd] = PeerCloses(@)]
  /\ asked' = [asked EXCEPT ![fd] = 0]
  /\ got' = [got EXCEPT ![fd] = << >>]
  /\ UNCHANGED << loopVars, proxyVars, backlog, sent, opened, player >>

-----------------------------------------------------------------------------

(***************************************************************************)
(* The web server answers the first request it has received on a           *)
(* connection.                                                             *)
(***************************************************************************)
ServerEnd(fd) == sock[fd].kind = "server" /\ sock[fd].peer = "open"

Answers(line) ==
  { Whole(line, ResponseParts(line.kind)) } \cup
  (IF "noLength" \in Faults THEN { Whole(line, NoBodyParts) } ELSE {}) \cup
  (IF "notFound" \in Faults
   THEN { Whole([line EXCEPT !.kind = "page"], ResponseParts("page")) }
   ELSE {})

AfterRequest(q) == SubSeq(q, First(q, "end") + 1, Len(q))

Respond(fd) ==
  /\ Alive
  /\ ServerEnd(fd)
  /\ Has(sock[fd].outq, "end")
  /\ \E answer \in Answers(sock[fd].outq[1]) :
       sock' = [sock EXCEPT ![fd].inq = @ \o answer,
                            ![fd].outq = AfterRequest(@)]
  /\ UNCHANGED << loopVars, proxyVars, backlog, browserVars >>

ServerClose(fd) ==
  /\ Alive
  /\ "serverClose" \in Faults
  /\ ServerEnd(fd)
  /\ sock' = [sock EXCEPT ![fd] = PeerCloses(@)]
  /\ UNCHANGED << loopVars, proxyVars, backlog, browserVars >>

(* The web server stops in the middle of a response. *)
ServerAbort(fd) ==
  LET s == sock[fd]
      line == s.outq[1]
      part == SubSeq(Whole(line, ResponseParts(line.kind)), 1, 2)
  IN  /\ Alive
      /\ "serverAbort" \in Faults
      /\ ServerEnd(fd)
      /\ Has(s.outq, "end")
      /\ sock' = [sock EXCEPT
                    ![fd] = PeerCloses([s EXCEPT !.inq = s.inq \o part,
                                                 !.outq = AfterRequest(s.outq)])]
      /\ UNCHANGED << loopVars, proxyVars, backlog, browserVars >>

-----------------------------------------------------------------------------

Accept == AcceptKnown \/ AcceptNew \/ AcceptWithoutAddress \/ AcceptFails

HandleClient(ip) ==
  ClientGone(ip) \/ ClientReset(ip) \/ ClientPartial(ip) \/ ClientRequest(ip)

HandleServer(ip) ==
  \/ ServerGone(ip) \/ ServerReset(ip) \/ ServerPartial(ip)
  \/ ServerManifest(ip) \/ ServerForward(ip)

Proxy ==
  \/ Select
  \/ Accept
  \/ SendMore
  \/ ScanEnds
  \/ \E ip \in Client : Skip(ip) \/ HandleClient(ip) \/ HandleServer(ip)

Browser(ip) ==
  \/ OpenConnection(ip)
  \/ \E fd \in Fd :
       \/ \E kind \in Asks : SendRequest(ip, fd, kind)
       \/ Receive(ip, fd)
       \/ CloseConnection(ip, fd)

WebServer == \E fd \in Fd : Respond(fd) \/ ServerClose(fd) \/ ServerAbort(fd)

Next == Proxy \/ (\E ip \in Client : Browser(ip)) \/ WebServer

Spec == Init /\ [][Next]_vars

(***************************************************************************)
(* The proxy's thread keeps running, the web server answers what it was    *)
(* asked, and a browser reads what it was sent.                            *)
(***************************************************************************)
Fairness ==
  /\ WF_vars(Proxy)
  /\ \A fd \in Fd : WF_vars(Respond(fd))
  /\ \A ip \in Client, fd \in Fd : WF_vars(Receive(ip, fd))

FairSpec == Spec /\ Fairness
-----------------------------------------------------------------------------

TypeOK ==
  /\ pc \in Phases \cup Deaths
  /\ readfds \subseteq Fd
  /\ clients \subseteq Client
  /\ todo \subseteq Client
  /\ sending \in [ fd : Fd \cup { None }, rest : Message ]
  /\ conn \in [Client -> Connection]
  /\ dns_socket \in { "none", "open", "used" }
  /\ log \in LogLine
  /\ sock \in [Fd -> Socket]
  /\ backlog \in Seq(Client)
  /\ asked \in [Fd -> Nat]
  /\ got \in [Fd -> Message]
  /\ sent \in [Client -> Nat]
  /\ opened \in [Client -> Nat]
  /\ player \in [Client -> BOOLEAN]

(***************************************************************************)
(* Every entry of the map holds descriptors that are open, that stand for  *)
(* what the entry takes them for, and that belong to its own browser; so   *)
(* no two entries share one, whatever is closed and reused.                *)
(***************************************************************************)
FdOwnership ==
  Alive =>
    \A ip \in clients :
      /\ conn[ip].client_socket \in Fd
      /\ sock[conn[ip].client_socket].kind = "client"
      /\ sock[conn[ip].client_socket].ip = ip
      /\ conn[ip].server_socket # None =>
           /\ sock[conn[ip].server_socket].kind = "server"
           /\ sock[conn[ip].server_socket].ip = ip

(***************************************************************************)
(* The loop never calls read() on a descriptor that has nothing to say:    *)
(* what select() reported still holds when the scan comes to it, although  *)
(* descriptors are closed and reused in between.  A read that blocks stops *)
(* the service of every browser.                                           *)
(***************************************************************************)
NoBlockingRead ==
  pc \in { "scan", "send" } =>
    \A ip \in todo :
      \A fd \in { conn[ip].client_socket, conn[ip].server_socket } \cap readfds :
        Readable(sock[fd])

(***************************************************************************)
(* Descriptors leak, when an entry is erased or taken over, but no faster  *)
(* than a browser connects: beside the one that its entry has to the web   *)
(* server, at most one is held for each of its connections that was        *)
(* accepted, however often the web server comes and goes.                  *)
(***************************************************************************)
Beside(ip) ==
  { fd \in Fd : /\ sock[fd].kind # "free"
                /\ sock[fd].ip = ip
                /\ ip \in clients => fd # conn[ip].server_socket }

LeaksLimited ==
  \A ip \in Client :
    Cardinality(Beside(ip)) + Cardinality(Waiting(ip)) =< opened[ip]

(***************************************************************************)
(* What the proxy sends on a browser's connection belongs to that browser, *)
(* whatever entries, descriptors and buffers have been reused.             *)
(***************************************************************************)
NoCrossTalk ==
  \A fd \in Fd : sock[fd].kind = "client" =>
    \A i \in 1 .. Len(sock[fd].outq) : sock[fd].outq[i].ip = sock[fd].ip

(***************************************************************************)
(* A connection of a browser carries answers to the request it waits for,  *)
(* and nothing else.                                                       *)
(***************************************************************************)
AnswersGoToAsker ==
  \A fd \in Fd : sock[fd].kind = "client" =>
    \A i \in 1 .. Len(Delivered(fd)) :
      /\ Delivered(fd)[i].ip = sock[fd].ip
      /\ Delivered(fd)[i].n = asked[fd]

(***************************************************************************)
(* The manifest with the bitrates never reaches a browser: its player must *)
(* not choose a bitrate itself.                                            *)
(***************************************************************************)
PlayerNeverSeesBitrates ==
  \A fd \in Fd : sock[fd].kind = "client" =>
    \A i \in 1 .. Len(sock[fd].outq) : sock[fd].outq[i].kind # "manifest"

(***************************************************************************)
(* A chunk is asked for at the highest bitrate of the manifest that the    *)
(* throughput known at that moment supports.                               *)
(***************************************************************************)
ChunkAtBestBitrate ==
  \A ip \in clients : conn[ip].server_socket # None =>
    LET q == sock[conn[ip].server_socket].outq
    IN  \A i \in 1 .. Len(q) : q[i].part = "line" /\ q[i].kind = "chunk" =>
          IsBest(q[i].br, Elements(Listing), conn[ip].stream.current_throughput)

(***************************************************************************)
(* A line of the log names the chunk and the bitrate of the response it    *)
(* was written for, although both are taken from the entry, and its time   *)
(* was taken from when that response began, although the clock is read     *)
(* before anything of it.                                                  *)
(***************************************************************************)
LogMatchesResponse ==
  log.chunkname = log.n /\ log.bitrate = log.br /\ log.start = log.n

(***************************************************************************)
(* A request is never lost and never in two places: while a browser waits, *)
(* its request, or the answer to it, is on its way to the proxy or in its  *)
(* buffer, or on its way to the web server, or on its way back or in the   *)
(* other buffer, or on its way to the browser, of which a part may be      *)
(* waiting to be sent and another one may have been read.                  *)
(***************************************************************************)
Mentions(q, n) == \E i \in 1 .. Len(q) : q[i].n = n

Places(ip, n) ==
  LET c == conn[ip]
      there == << sock[c.client_socket].inq \o c.client_message,
                  IF c.server_socket = None THEN << >> ELSE sock[c.server_socket].outq,
                  IF c.server_socket = None THEN c.server_message
                  ELSE c.server_message \o sock[c.server_socket].inq,
                  Delivered(c.client_socket)
                    \o (IF sending.fd = c.client_socket THEN sending.rest ELSE << >>) >>
  IN  { p \in 1 .. 4 : Mentions(there[p], n) }

RequestInOnePlace ==
  Alive =>
    \A ip \in clients :
      LET n == asked[conn[ip].client_socket]
      IN  n # 0 => Cardinality(Places(ip, n)) = 1

(***************************************************************************)
(* The web server may close at any moment, and what it has sent of a       *)
(* response, or the request itself, may be lost with the connection.  That *)
(* is the only way to lose one: the request of a browser that has opened   *)
(* but one connection is in one place, or in none while the entry has no   *)
(* connection that the web server still holds.                             *)
(***************************************************************************)
Steady(ip) == opened[ip] = 1

LostOnlyWithServer ==
  Alive =>
    \A ip \in clients : Steady(ip) =>
      LET c == conn[ip]
          n == asked[c.client_socket]
      IN  n # 0 =>
            \/ Cardinality(Places(ip, n)) = 1
            \/ /\ Places(ip, n) = {}
               /\ \/ c.server_socket = None
                  \/ sock[c.server_socket].peer # "open"

(***************************************************************************)
(* The buffer, the length and the kept request that a lost connection to   *)
(* the web server leaves in the entry never meet the answer to a later     *)
(* request: a browser that has opened but one connection is sent answers   *)
(* to the request it waits for, whatever else fails.                       *)
(***************************************************************************)
SteadyAnswers ==
  \A fd \in Fd : sock[fd].kind = "client" /\ Steady(sock[fd].ip) =>
    \A i \in 1 .. Len(Delivered(fd)) : Delivered(fd)[i].n = asked[fd]

(***************************************************************************)
(* A browser that was given a manifest streams from an entry that knows    *)
(* the bitrates: its requests for chunks find a vector that is not empty.  *)
(***************************************************************************)
LearntBitratesKept ==
  \A ip \in clients : player[ip] => conn[ip].stream.available_bitrates # << >>

(***************************************************************************)
(* The same of a browser that has opened but one connection, whatever      *)
(* fails: lost connections to the web server do not make a browser's       *)
(* manifest arrive without the one that has the bitrates.                  *)
(***************************************************************************)
SteadyBitrates ==
  \A ip \in clients :
    Steady(ip) /\ player[ip] => conn[ip].stream.available_bitrates # << >>

(***************************************************************************)
(* What a browser reads, as long as it keeps one connection, is at every   *)
(* moment the beginning of one whole response to the request it waits for, *)
(* in order and with nothing twice, although the proxy receives, keeps and *)
(* sends it in other pieces.                                               *)
(***************************************************************************)
OfBrowser(ip, value, none) ==
  IF BrowserEnds(ip) = {} THEN none ELSE value[CHOOSE fd \in BrowserEnds(ip) : TRUE]

Service == INSTANCE Forwarder WITH
  Offered <- Elements(Listing),
  waiting <- [ip \in Client |-> OfBrowser(ip, asked, 0)],
  read    <- [ip \in Client |-> OfBrowser(ip, got, << >>)],
  count   <- sent

Forwards == Service!Spec

(* Nothing a browser or the web server does ends the process. *)
StaysUp == Alive

(* Every request is answered. *)
Answered == \A fd \in Fd : asked[fd] # 0 ~> asked[fd] = 0
=============================================================================
