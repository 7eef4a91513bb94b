-------------------------------- MODULE MCDns --------------------------------
(* Values for the constants of Dns that a .cfg cannot write down. *)
EXTENDS Dns

CONSTANTS p1, p2, p3, h1, h2

HostsValue == << h1, h2 >>

(* The map places the first two proxies, and does not know the third. *)
NearestValue == [p \in Proxy |-> IF p = p3 THEN NoHost ELSE IF p = p1 THEN h2 ELSE h1]
(* The proxy that may be stopped looks up twice. *)
LookupsValue == [p \in Proxy |-> IF p = p1 THEN 2 ELSE 1]

(* The addresses as text: 10.0.0.1 and 10.0.0.12. *)
LengthValue ==
  [h \in HostSet \cup { NoHost } |-> IF h = h1 THEN 8 ELSE IF h = h2 THEN 9 ELSE 0]

TwiceEach == [p \in Proxy |-> 2]
=============================================================================
