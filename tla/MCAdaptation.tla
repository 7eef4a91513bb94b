----------------------------- MODULE MCAdaptation -----------------------------
(* Values for the constants of Adaptation that a .cfg cannot write down. *)
EXTENDS Adaptation

(* One to three bitrates, in every order, some of them twice. *)
ListingsValue == UNION { [1 .. n -> { 1, 3, 5 }] : n \in 1 .. 3 }

(* Two of them just below and at the throughput that 3 needs, 9 half kbps. *)
MeasuredValue == { 0, 8, 9, 40 }
=============================================================================
