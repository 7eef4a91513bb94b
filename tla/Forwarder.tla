------------------------------ MODULE Forwarder ------------------------------
(***************************************************************************)
(* What a browser with one connection sees of the proxy, the web server    *)
(* and each other: it asks, and reads one response, piece by piece and in  *)
(* order; this response is to its own request; and it is a page, a         *)
(* manifest without bitrates, or a chunk at a bitrate that is on offer.    *)
(***************************************************************************)
EXTENDS Traffic

CONSTANT Offered     \* the bitrates of the manifest

VARIABLES
  waiting,   \* the request a browser waits for the response to, or 0
  read,      \* what it has read of the response
  count      \* the requests it has sent

vars == << waiting, read, count >>

Init ==
  /\ waiting = [ip \in Client |-> 0]
  /\ read = [ip \in Client |-> << >>]
  /\ count = [ip \in Client |-> 0]

Ask(ip) ==
  /\ waiting[ip] = 0
  /\ count' = [count EXCEPT ![ip] = @ + 1]
  /\ waiting' = [waiting EXCEPT ![ip] = count[ip] + 1]
  /\ UNCHANGED read

Contents ==
  { << "page", 0 >>, << "nolist", 0 >> } \cup { << "chunk", br >> : br \in Offered }

Response(ip, n, what) ==
  Whole([ ip |-> ip, n |-> n, kind |-> what[1], br |-> what[2], part |-> "line" ],
        ResponseParts(what[1]))

(* The next piece, which may be the last one. *)
Hear(ip, response) ==
  \E k \in Len(read[ip]) + 1 .. Len(response) :
    /\ read[ip] = Before(response, Len(read[ip]))
    /\ read' = [read EXCEPT ![ip] = IF k < Len(response) THEN Before(response, k) ELSE << >>]
    /\ waiting' = [waiting EXCEPT ![ip] = IF k < Len(response) THEN @ ELSE 0]
    /\ UNCHANGED count

HearSome(ip) ==
  /\ waiting[ip] # 0
  /\ \E what \in Contents : Hear(ip, Response(ip, waiting[ip], what))

Next == \E ip \in Client : Ask(ip) \/ HearSome(ip)

Spec == Init /\ [][Next]_vars
=============================================================================
