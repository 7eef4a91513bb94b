------------------------------ MODULE Geography ------------------------------
(***************************************************************************)
(* Geography of the nameserver: the search for the server nearest to a     *)
(* client in the network of the servers file, and the cache of its results *)
(* (src/nameserver/utils.cpp).                                             *)
(*                                                                         *)
(* findServer is called for one client after another.  A return before the *)
(* search is one step, and so is every iteration of its loop.              *)
(***************************************************************************)
EXTENDS NetworkFile, FiniteSets

CONSTANTS
  CacheSize,   \* CACHE_SIZE
  EndValues    \* what the end of an empty distMap may be read as

ASSUME GeographyAssumption ==
  /\ CacheSize \in Nat \ { 0 }
  /\ EndValues \subseteq [ id : Int, distance : Int ]

NotFound == -1      \* the empty string; an address the network does not have

Nothing == [v \in {} |-> 0]

VARIABLES
  net,       \* nodes and edges
  cache,     \* client -> server
  pc,        \* "idle", or "search" inside the loop
  client,    \* whom the search is for, or was for
  answer,    \* what was returned for it
  current,   \* the node the loop has come to, and its distance
  distMap,   \* node -> distance known so far
  visited    \* node -> the distance it was visited at

locals == << current, distMap, visited >>
vars == << net, cache, pc, client, answer, locals >>

Nowhere == [ id |-> NotFound, distance |-> 0 ]

Init ==
  /\ net \in Networks
  /\ cache = Nothing
  /\ pc = "idle"
  /\ client = NotFound
  /\ answer = NotFound
  /\ current = Nowhere
  /\ distMap = Nothing
  /\ visited = Nothing

-----------------------------------------------------------------------------

Of(type) == { v \in Node : net.type[v] = type }

Linked(u, v) == { u, v } \in DOMAIN net.cost

Cost(u, v) == net.cost[{ u, v }]

(* The function that maps key to value, and the rest as before. *)
Put(f, key, value) ==
  [k \in DOMAIN f \cup { key } |-> IF k = key THEN value ELSE f[k]]

Restricted(f, keys) == [k \in keys |-> f[k]]

Return(c, result) ==
  /\ pc' = "idle"
  /\ client' = c
  /\ answer' = result
  /\ current' = Nowhere
  /\ distMap' = Nothing
  /\ visited' = Nothing

(***************************************************************************)
(* findServer, up to the loop.                                             *)
(***************************************************************************)
AskUnknown(c) ==
  /\ pc = "idle"
  /\ c \notin Of("CLIENT")
  /\ Return(c, NotFound)
  /\ UNCHANGED << net, cache >>

AskCached(c) ==
  /\ pc = "idle"
  /\ c \in Of("CLIENT") \cap DOMAIN cache
  /\ Return(c, cache[c])
  /\ UNCHANGED << net, cache >>

AskNew(c) ==
  /\ pc = "idle"
  /\ c \in Of("CLIENT") \ DOMAIN cache
  /\ pc' = "search"
  /\ client' = c
  /\ answer' = NotFound
  /\ current' = [ id |-> c, distance |-> 0 ]
  /\ distMap' = Put(Nothing, c, 0)
  /\ visited' = Nothing
  /\ UNCHANGED << net, cache >>

-----------------------------------------------------------------------------

InLoop == pc = "search" /\ DOMAIN distMap # {}

(* Mistake: whatever is not a switch is taken for a server. *)
NotSwitch(u) == net.type[u] # "SWITCH"

IsServer(u) == net.type[u] = "SERVER"

(* Mistake: room is made only when the cache is over its size. *)
KeptLate ==
  { keys \in SUBSET DOMAIN cache :
      IF Cardinality(DOMAIN cache) =< CacheSize
      THEN keys = DOMAIN cache ELSE Cardinality(keys) = CacheSize }

(* What is left of the cache when entries were erased from the beginning   *)
(* of the unordered_map, which may be any, until there is room.            *)
Kept ==
  { keys \in SUBSET DOMAIN cache :
      IF Cardinality(DOMAIN cache) < CacheSize
      THEN keys = DOMAIN cache ELSE Cardinality(keys) = CacheSize - 1 }

Found ==
  /\ InLoop
  /\ IsServer(current.id)
  /\ \E keys \in Kept :
       cache' = Put(Restricted(cache, keys), client, current.id)
  /\ Return(client, current.id)
  /\ UNCHANGED net

Fresh(u) ==
  { v \in Node : Linked(u, v) /\ net.type[v] # "CLIENT"
                  /\ v \notin DOMAIN visited \cup { u } }

(* Mistake: the distance is that of the last link alone. *)
ByLastLink(u, v) == Cost(u, v)

Via(u, v) == current.distance + Cost(u, v)

(* Mistake: the node that was visited is not erased. *)
NotErased(u) ==
  [v \in DOMAIN distMap \cup Fresh(u) |->
     IF v \in DOMAIN distMap THEN distMap[v] ELSE Via(u, v)]

Relaxed(u) ==
  [v \in (DOMAIN distMap \ { u }) \cup Fresh(u) |->
     IF v \in Fresh(u) /\ (v \in DOMAIN distMap => Via(u, v) < distMap[v])
     THEN Via(u, v)
     ELSE distMap[v]]

(* Mistake: the pairs of the map are compared by their keys. *)
LowestId(map) == { v \in DOMAIN map : \A o \in DOMAIN map : v =< o }

(* min_element takes the first of the smallest, in the order of the keys. *)
NearestIn(map) ==
  { v \in DOMAIN map :
      \A o \in DOMAIN map : map[v] < map[o] \/ (map[v] = map[o] /\ v =< o) }

(* The end of an empty map is read as a pair nobody has put there. *)
MinElement(map) ==
  IF DOMAIN map = {} THEN EndValues
  ELSE { [ id |-> v, distance |-> map[v] ] : v \in NearestIn(map) }

Visit ==
  /\ InLoop
  /\ ~ IsServer(current.id)
  /\ visited' = Put(visited, current.id, current.distance)
  /\ distMap' = Relaxed(current.id)
  /\ current' \in MinElement(distMap')
  /\ UNCHANGED << net, cache, pc, client, answer >>

NotReached ==
  /\ pc = "search"
  /\ DOMAIN distMap = {}
  /\ Return(client, NotFound)
  /\ UNCHANGED << net, cache >>

-----------------------------------------------------------------------------

Ask == \E c \in Node \cup { NotFound } : AskUnknown(c) \/ AskCached(c) \/ AskNew(c)

Search == Found \/ Visit \/ NotReached

Next == Ask \/ Search

Spec == Init /\ [][Next]_vars

(* The loop runs on by itself; nobody has to ask. *)
FairSpec == Spec /\ WF_vars(Search)

-----------------------------------------------------------------------------

TypeOK ==
  /\ DOMAIN cache \subseteq Of("CLIENT")
  /\ \A c \in DOMAIN cache : cache[c] \in Of("SERVER")
  /\ pc \in { "idle", "search" }
  /\ client \in Node \cup { NotFound }
  /\ answer \in Of("SERVER") \cup { NotFound }
  /\ current \in [ id : Int, distance : Int ]
  /\ DOMAIN distMap \subseteq Node
  /\ \A v \in DOMAIN distMap : distMap[v] \in Nat
  /\ DOMAIN visited \subseteq Node
  /\ \A v \in DOMAIN visited : visited[v] \in Nat

(***************************************************************************)
(* The reference: the lengths of the routes from a client that pass        *)
(* through no other client, as pairs of the node a route ends at and its   *)
(* length.  A shortest route has fewer links than there are nodes.         *)
(***************************************************************************)
Extended(routes) ==
  UNION { { << v, r[2] + Cost(r[1], v) >> :
              v \in { w \in Node : Linked(r[1], w) /\ net.type[w] # "CLIENT" } } :
            r \in routes }

Routes(c) ==
  LET upTo[n \in Nat] ==
        IF n = 0 THEN { << c, 0 >> } ELSE upTo[n - 1] \cup Extended(upTo[n - 1])
  IN  upTo[Cardinality(Node) - 1]

ServerRoutes(c) == { r \in Routes(c) : net.type[r[1]] = "SERVER" }

IsNearest(s, c) ==
  \E r \in ServerRoutes(c) : r[1] = s /\ \A q \in ServerRoutes(c) : r[2] =< q[2]

(***************************************************************************)
(* A client is told the nearest server, whether it is searched for or      *)
(* found in the cache, and nothing when no server can be reached; nor is   *)
(* anybody who is not a client of the network told anything.               *)
(***************************************************************************)
AnswersNearest ==
  pc = "idle" =>
    IF client \notin Of("CLIENT") THEN answer = NotFound
    ELSE IF ServerRoutes(client) = {} THEN answer = NotFound
    ELSE IsNearest(answer, client)

(***************************************************************************)
(* The cache never outgrows its size, and evicting the entries of some     *)
(* clients leaves those of the others as they were found.                  *)
(***************************************************************************)
CacheSound ==
  /\ Cardinality(DOMAIN cache) =< CacheSize
  /\ \A c \in DOMAIN cache : IsNearest(cache[c], c)

(***************************************************************************)
(* The loop comes to the nodes in the order of their distances: what makes *)
(* it right to return the first server it comes to.                        *)
(***************************************************************************)
VisitsInOrder ==
  [][Visit /\ DOMAIN distMap' # {} => current.distance =< current'.distance]_vars

(* Every search comes to an end. *)
SearchEnds == pc = "search" ~> pc = "idle"
=============================================================================
