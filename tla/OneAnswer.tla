------------------------------ MODULE OneAnswer ------------------------------
(***************************************************************************)
(* What a proxy can rely on when it keeps one connection to the nameserver *)
(* for its lifetime: one address, or none at all.                          *)
(***************************************************************************)
CONSTANTS Proxy, Address, NoAddress

VARIABLES address, alive

vars == << address, alive >>

Init ==
  /\ address = [p \in Proxy |-> NoAddress]
  /\ alive = [p \in Proxy |-> TRUE]

Learn(p) ==
  /\ alive[p]
  /\ address[p] = NoAddress
  /\ \E a \in Address : address' = [address EXCEPT ![p] = a]
  /\ UNCHANGED alive

Die(p) ==
  /\ alive[p]
  /\ alive' = [alive EXCEPT ![p] = FALSE]
  /\ UNCHANGED address

Next == \E p \in Proxy : Learn(p) \/ Die(p)

Spec == Init /\ [][Next]_vars
=============================================================================
