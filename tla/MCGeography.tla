----------------------------- MODULE MCGeography -----------------------------
(* Values for the constants of Geography that a .cfg cannot write down. *)
EXTENDS Geography

(* Two clients and three nodes that may be switches or servers, ... *)
Types == { t \in [Node -> NodeTypes] : \A v \in Node : (t[v] = "CLIENT") = (v =< 2) }

NodeLines(t) ==
  [v \in 1 .. Cardinality(Node) |->
     [ id |-> v, type |-> t[v], ip |-> IF t[v] = "SWITCH" THEN NoIp ELSE v ]]

(* ... each of these links or none, at one of two costs: two ways from     *)
(* client 1, a triangle, and a way through the other client.               *)
Possible == << <<1, 2>>, <<1, 3>>, <<1, 4>>, <<2, 3>>, <<3, 4>>, <<4, 5>>, <<3, 5>> >>

LinkLine(u, v, d) == [ id1 |-> u, id2 |-> v, dist |-> d ]

(* Every line has a longer one the other way round, and a way from the     *)
(* first client to node 4 at no cost leads through a node without a line.  *)
LinkLines(cost) ==
  LET used  == SelectSeq([i \in DOMAIN cost |-> << i, cost[i] >>], LAMBDA p : p[2] # 0)
      there(p) == LinkLine(Possible[p[1]][1], Possible[p[1]][2], p[2])
      back(p)  == LinkLine(Possible[p[1]][2], Possible[p[1]][1], p[2] + 1)
  IN  [i \in DOMAIN used |-> back(used[i])] \o [i \in DOMAIN used |-> there(used[i])]
        \o << LinkLine(1, 9, 0), LinkLine(9, 4, 0) >>

(* Files that name an id twice, and files that name an address twice.      *)
Rejected ==
  { [ nodes |-> lines, links |-> << >> ] :
      lines \in UNION { { Append(NodeLines(t), [ id |-> 1, type |-> "SERVER", ip |-> 6 ]),
                          [NodeLines(t) EXCEPT ![2].ip = 1] } : t \in Types } }

FilesValue ==
  { [ nodes |-> NodeLines(t), links |-> LinkLines(cost) ] :
      t \in Types, cost \in [DOMAIN Possible -> { 0, 1, 3 }] } \cup Rejected

(* What libstdc++ makes of the end of an empty map, and something else. *)
EndValuesValue == { [ id |-> 0, distance |-> 0 ], [ id |-> 3, distance |-> -7 ] }
=============================================================================
