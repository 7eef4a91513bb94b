------------------------------- MODULE Traffic -------------------------------
(***************************************************************************)
(* What travels between a browser, miProxy and the web server, and the     *)
(* sockets it travels through.                                             *)
(*                                                                         *)
(* A message is a sequence of units.  A unit stands for the bytes that the *)
(* proxy searches a message for:                                           *)
(*   "line"    the request line, which names what is asked for;            *)
(*   "end"     the rest of a request, with its empty line;                 *)
(*   "length"  status line and headers, a Content-Length among them;       *)
(*   "plain"   status line and headers without a Content-Length;           *)
(*   "blank"   the empty line that ends the headers of a response;         *)
(*   "body"    the body of a response.                                     *)
(* ip and n say whose request the unit belongs to: the n-th request of     *)
(* the browser at address ip.  No code of the proxy looks at n.            *)
(***************************************************************************)
EXTENDS Integers, Sequences, FiniteSets

CONSTANTS
  Client,       \* the addresses of the browsers, numbered in the order of the map
  BufferSize,   \* the units that one read returns at most
  SendBuffer    \* the units that a browser's connection holds unread at most

ASSUME ClientAssumption == Client \subseteq Nat
ASSUME BufferAssumption == { BufferSize, SendBuffer } \subseteq Nat \ {0}

Kinds == { "page", "manifest", "nolist", "chunk" }
Parts == { "line", "end", "length", "plain", "blank", "body" }

Unit == [ ip : Client, n : Nat, kind : Kinds, br : Nat, part : Parts ]

Message == Seq(Unit)

Whole(u, parts) == [ i \in 1 .. Len(parts) |-> [u EXCEPT !.part = parts[i]] ]

(* The Content-Length of a response: a chunk is longer than the rest. *)
BodyLength(kind) == IF kind = "chunk" THEN 2 ELSE 1

RequestParts == << "line", "end" >>

ResponseParts(kind) ==
  << "length", "blank" >> \o [i \in 1 .. BodyLength(kind) |-> "body"]

NoBodyParts == << "plain", "blank" >>      \* a 304

Has(msg, part) == \E i \in 1 .. Len(msg) : msg[i].part = part

First(msg, part) ==
  CHOOSE i \in 1 .. Len(msg) :
    /\ msg[i].part = part
    /\ \A j \in 1 .. i - 1 : msg[j].part # part

(***************************************************************************)
(* parse_header: the place where the message should end, 0 as long as the  *)
(* empty line or the Content-Length has not been seen.  The two are found  *)
(* independently of one another, wherever they are.                        *)
(***************************************************************************)
ParseHeader(msg) ==
  IF Has(msg, "blank") /\ Has(msg, "length")
  THEN First(msg, "blank") + BodyLength(msg[First(msg, "length")].kind)
  ELSE 0

-----------------------------------------------------------------------------

(***************************************************************************)
(* The proxy's end of a TCP connection.  inq is what it may still read,    *)
(* outq what it has written and the other end has not read.  peer is what  *)
(* has been heard from the other end: "open"; "fin" when it was closed;    *)
(* "finrst" when something was sent to it after that; "reset".             *)
(***************************************************************************)
Socket ==
  [ kind : { "free", "client", "server" },
    ip   : Client \cup { -1 },
    inq  : Message,
    outq : Message,
    peer : { "open", "fin", "finrst", "reset" } ]

FreeSocket ==
  [ kind |-> "free", ip |-> -1, inq |-> << >>, outq |-> << >>, peer |-> "open" ]

NewSocket(kind, ip) == [FreeSocket EXCEPT !.kind = kind, !.ip = ip]

(* The descriptor that socket() or accept() returns is the lowest free one. *)
LowestFree(sock) ==
  { fd \in DOMAIN sock :
      /\ sock[fd].kind = "free"
      /\ \A g \in DOMAIN sock : sock[g].kind = "free" => fd =< g }

Readable(s) == s.inq # << >> \/ s.peer # "open"

(* A read takes as much as has arrived, up to BufferSize. *)
Reads(s) == { k \in 1 .. Len(s.inq) : k =< BufferSize }

Taken(s, k) == SubSeq(s.inq, 1, k)

Read(s, k) == [s EXCEPT !.inq = SubSeq(@, k + 1, Len(@))]

(* read() returns 0 at the end of the stream and -1 after a reset. *)
AtEnd(s)   == s.inq = << >> /\ s.peer \in { "fin", "finrst" }
IsReset(s) == s.inq = << >> /\ s.peer = "reset"

(* The first send to a closed end is accepted, and answered with a reset;  *)
(* a send after a reset fails, or raises SIGPIPE.                          *)
CanSend(s) == s.peer \in { "open", "fin" }

Sent(s, msg) ==
  IF s.peer = "open"
  THEN [s EXCEPT !.outq = @ \o msg]
  ELSE [s EXCEPT !.peer = "finrst"]

(***************************************************************************)
(* How much of a message the kernel takes without waiting.  A browser may  *)
(* be slow to read a response.  The web server reads before it answers,    *)
(* and a request is small: there is always room for one.                   *)
(***************************************************************************)
Room(s, msg) ==
  { k \in 0 .. Len(msg) : s.kind = "client" => Len(s.outq) + k =< SendBuffer }

Fits(s, msg) == { k \in Room(s, msg) : \A j \in Room(s, msg) : j =< k }

Before(msg, k) == SubSeq(msg, 1, k)

(* Mistake: what was sent last is sent again. *)
BehindLast(msg, k) == IF k > 1 THEN SubSeq(msg, k, Len(msg)) ELSE SubSeq(msg, k + 1, Len(msg))

Behind(msg, k) == SubSeq(msg, k + 1, Len(msg))

(* The other end closes: in order when it has read everything it was sent, *)
(* with a reset otherwise.                                                 *)
PeerCloses(s) ==
  [s EXCEPT !.outq = << >>,
            !.peer = IF s.outq = << >> THEN "fin" ELSE "reset"]
=============================================================================
