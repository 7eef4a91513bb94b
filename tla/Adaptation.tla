------------------------------ MODULE Adaptation ------------------------------
(***************************************************************************)
(* One Connection of miProxy seen from its stream: manifests, requests for *)
(* chunks and measured responses, in any order a browser may cause.        *)
(***************************************************************************)
EXTENDS Bitrate

CONSTANTS
  Listings,    \* the manifests the video may have, as sequences of bitrates
  Measured,    \* the throughputs that may be measured
  MaxLearnt    \* bound: bitrates the connection holds

ASSUME AdaptationAssumption ==
  /\ Listings \subseteq Seq(Nat) \ { << >> }
  /\ Measured \subseteq Nat
  /\ MaxLearnt \in Nat

VARIABLES
  st,          \* the stream's part of the Connection
  listing,     \* the manifest of the video
  last,        \* "none", or what happened last: "manifest", "request", "response"
  seen         \* the throughputs that have entered the average

vars == << st, listing, last, seen >>

Init ==
  /\ st = NewStream
  /\ listing \in Listings
  /\ last = "none"
  /\ seen = {}

Manifest ==
  /\ Len(st.available_bitrates) + Len(listing) =< MaxLearnt
  /\ st' \in Learn(st, listing)
  /\ last' = "manifest"
  /\ seen' = { st'.current_throughput }
  /\ UNCHANGED listing

Request ==
  /\ st.available_bitrates # << >>
  /\ st' = Choose(st, 1)
  /\ last' = "request"
  /\ UNCHANGED << listing, seen >>

(* A chunk that was asked for before a manifest may be measured after it.  *)
Response ==
  /\ st.chunkname # 0
  /\ \E new \in Measured :
       st' = Measure(st, new) /\ seen' = seen \cup { new }
  /\ last' = "response"
  /\ UNCHANGED listing

Next == Manifest \/ Request \/ Response

Spec == Init /\ [][Next]_vars

-----------------------------------------------------------------------------

TypeOK ==
  /\ st \in Stream
  /\ listing \in Listings
  /\ last \in { "none", "manifest", "request", "response" }
  /\ seen \subseteq Nat

(***************************************************************************)
(* Every chunk is asked for at the highest bitrate the manifest offers and *)
(* the current throughput supports, in whatever order the manifest lists   *)
(* them, and also when it has been read more than once.                    *)
(***************************************************************************)
ChoosesBest ==
  last = "request" =>
    IsBest(st.current_bitrate, Elements(listing), st.current_throughput)

(***************************************************************************)
(* The average never leaves the range of what it is made of, so that one   *)
(* outlier cannot push it beyond what has been measured.                   *)
(***************************************************************************)
AverageInRange ==
  seen # {} =>
    /\ \E low \in seen : low =< st.current_throughput
    /\ \E high \in seen : st.current_throughput =< high

(* When a stream starts, the throughput is the lowest bitrate. *)
StartsAtLowest ==
  last = "manifest" =>
    \E low \in Elements(listing) :
      /\ \A b \in Elements(listing) : low =< b
      /\ st.current_throughput = 2 * low
=============================================================================
