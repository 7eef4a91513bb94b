------------------------------ MODULE MCMiProxy ------------------------------
(* Values for the constants of MiProxy that a .cfg cannot write down. *)
EXTENDS MiProxy

(* The manifest lists its bitrates in no particular order. *)
ListingValue == << 4, 2 >>

Once  == [ip \in Client |-> 1]
Twice == [ip \in Client |-> 2]

(* A manifest and two chunks, so that the second one is chosen after a     *)
(* measurement; the other browser has time for a manifest and one chunk.   *)
TwoStreams == [ip \in Client |-> IF ip = 1 THEN 3 ELSE 2]

(* One browser only comes and goes, the other one also asks. *)
SecondAsks     == [ip \in Client |-> IF ip = 1 THEN 0 ELSE 2]
SecondConnects == [ip \in Client |-> IF ip = 1 THEN 1 ELSE 2]
=============================================================================
