---------------------------- MODULE NetworkFile ----------------------------
(***************************************************************************)
(* The servers file of the nameserver in its geographic mode, and what the *)
(* constructors of Geography and Node make of it (src/nameserver/utils.cpp). *)
(*                                                                         *)
(* A file is its lines for nodes and its lines for links, as many of each  *)
(* as it announces.  The program ends at a line for a node that it cannot  *)
(* accept, before it serves anybody.                                       *)
(***************************************************************************)
EXTENDS Integers, Sequences

CONSTANTS
  Node,        \* the ids of the lines for nodes
  Files        \* the files the nameserver may be started with

NodeTypes == { "CLIENT", "SWITCH", "SERVER" }

NoIp == 0      \* NO_IP

(* Hosts have addresses, and so may a switch. *)
ASSUME FilesAssumption ==
  /\ Node \subseteq Nat
  /\ \A file \in Files :
       /\ file.nodes \in Seq([ id : Nat, type : STRING, ip : Nat ])
       /\ file.links \in Seq([ id1 : Nat, id2 : Nat, dist : Nat ])
       /\ { file.nodes[i].id : i \in 1 .. Len(file.nodes) } = Node
       /\ \A i \in 1 .. Len(file.nodes) :
            file.nodes[i].ip = NoIp => file.nodes[i].type = "SWITCH"

(* An address that was not given is not remembered. *)
Duplicate(old, new) == old.id = new.id \/ (old.ip = new.ip /\ old.ip # NoIp)

Accepted(file) ==
  /\ \A i \in 1 .. Len(file.nodes) : file.nodes[i].type \in NodeTypes
  /\ \A i, j \in 1 .. Len(file.nodes) :
       i < j => ~ Duplicate(file.nodes[i], file.nodes[j])

TypeOf(file, v) ==
  LET i == CHOOSE i \in 1 .. Len(file.nodes) : file.nodes[i].id = v
  IN  file.nodes[i].type

(***************************************************************************)
(* A line makes each of its two nodes a neighbour of the other one.  When  *)
(* it names a node that has no line, the search creates this node as a     *)
(* client and does not go there: the line is as good as absent.  When two  *)
(* lines name the same nodes, the search uses the shorter link.            *)
(***************************************************************************)
Ends(line) == { line.id1, line.id2 }

Distances(file, link) ==
  { file.links[i].dist : i \in { j \in 1 .. Len(file.links) : Ends(file.links[j]) = link } }

Linking(file) ==
  { Ends(file.links[i]) :
      i \in { j \in 1 .. Len(file.links) : Ends(file.links[j]) \subseteq Node } }

Loaded(file) ==
  [ type |-> [v \in Node |-> TypeOf(file, v)],
    cost |-> [link \in Linking(file) |->
                CHOOSE d \in Distances(file, link) :
                  \A other \in Distances(file, link) : d =< other] ]

Networks == { Loaded(file) : file \in { f \in Files : Accepted(f) } }
=============================================================================
