--------------------------- MODULE GeographyProofs ---------------------------
(***************************************************************************)
(* Theorems about Geography: for every network, every cache size and       *)
(* whatever the end of an empty map is read as.                            *)
(*                                                                         *)
(* Routes are stated here as functions: the i-th node of a route and its   *)
(* distance, so that the shortest one is shortest among all of them,       *)
(* however long.  RoutesAreRoutes relates them to the routes that          *)
(* Geography enumerates.                                                   *)
(***************************************************************************)
EXTENDS Geography, FiniteSetTheorems, WellFoundedInduction, TLAPS

(* Every set of natural numbers that is not empty has a least element.     *)
Below == { p \in Nat \X Nat : p[1] < p[2] }

LEMMA BelowIsWellFounded == IsWellFoundedOn(Below, Nat)
  BY NatLessThanWellFounded, Zenon DEF OpToRel, Below

LEMMA LeastElement ==
  ASSUME NEW S \in SUBSET Nat, S # {}
  PROVE  \E m \in S : \A n \in S : m =< n
<1>1. PICK m \in S : \A n \in S : << n, m >> \notin Below
  BY BelowIsWellFounded, WFMin, Zenon
<1>2. ASSUME NEW n \in S PROVE m =< n
  <2>1. m \in Nat /\ n \in Nat
    OBVIOUS
  <2>2. n < m => << n, m >> \in Below
    BY <2>1 DEF Below
  <2>3. ~ (n < m)
    BY <1>1, <2>2, Zenon
  <2> QED BY <2>1, <2>3
<1> QED BY <1>2, Zenon

-----------------------------------------------------------------------------

(* n is a network: these operators are about the file, not about a state.  *)
Step(n, u, v) == { u, v } \in DOMAIN n.cost /\ n.type[v] # "CLIENT"

Length(n, u, v) == n.cost[{ u, v }]

IsRoute(n, k, w, m, c) ==
  /\ w[1] = c
  /\ m[1] = 0
  /\ \A i \in 1 .. k - 1 :
       Step(n, w[i], w[i + 1]) /\ m[i + 1] = m[i] + Length(n, w[i], w[i + 1])

(* A route over k nodes, each as often as the route comes to it. *)
RouteOver(n, k, c, v, d) ==
  \E w \in [1 .. k -> Node], m \in [1 .. k -> Nat] :
    IsRoute(n, k, w, m, c) /\ w[k] = v /\ m[k] = d

RouteTo(n, c, v, d) == \E k \in Nat \ { 0 } : RouteOver(n, k, c, v, d)

(* What is loaded from a file that is accepted: every node has one of the  *)
(* three types, and every link a cost.                                     *)
LEMMA NetworksLoaded ==
  ASSUME NEW n \in Networks
  PROVE  /\ n.type \in [Node -> NodeTypes]
         /\ \A link \in DOMAIN n.cost : n.cost[link] \in Nat
<1>1. PICK file \in Files : Accepted(file) /\ n = Loaded(file)
  BY DEF Networks
<1>2. /\ file.links \in Seq([ id1 : Nat, id2 : Nat, dist : Nat ])
      /\ { file.nodes[i].id : i \in 1 .. Len(file.nodes) } = Node
  BY FilesAssumption
<1>3. ASSUME NEW v \in Node PROVE TypeOf(file, v) \in NodeTypes
  <2>1. \E i \in 1 .. Len(file.nodes) : file.nodes[i].id = v
    BY <1>2
  <2> DEFINE i == CHOOSE i \in 1 .. Len(file.nodes) : file.nodes[i].id = v
  <2>2. i \in 1 .. Len(file.nodes)
    BY <2>1, Zenon
  <2> QED BY <1>1, <2>2 DEF Accepted, TypeOf
<1>4. ASSUME NEW link \in Linking(file)
      PROVE  (CHOOSE d \in Distances(file, link) :
                \A other \in Distances(file, link) : d =< other) \in Nat
  <2>1. \A j \in 1 .. Len(file.links) : file.links[j].dist \in Nat
    <3> DEFINE Line == [ id1 : Nat, id2 : Nat, dist : Nat ]
    <3>1. \A line \in Line : line.dist \in Nat
      OBVIOUS
    <3>2. file.links \in Seq(Line)
      BY <1>2
    <3> HIDE DEF Line
    <3>3. \A j \in 1 .. Len(file.links) : file.links[j] \in Line
      BY <3>2
    <3> QED BY <3>1, <3>3, Zenon
  <2>2. Distances(file, link) \in SUBSET Nat
    BY <2>1 DEF Distances
  <2>3. Distances(file, link) # {}
    BY DEF Distances, Linking
  <2>4. \E d \in Distances(file, link) : \A other \in Distances(file, link) : d =< other
    BY <2>2, <2>3, LeastElement, Zenon
  <2> HIDE DEF Distances
  <2>5. (CHOOSE d \in Distances(file, link) :
           \A other \in Distances(file, link) : d =< other) \in Distances(file, link)
    BY <2>4, Zenon
  <2> QED BY <2>2, <2>5, Zenon
<1>5. n.type = [v \in Node |-> TypeOf(file, v)]
  BY <1>1 DEF Loaded
<1>6. n.cost = [link \in Linking(file) |->
                  CHOOSE d \in Distances(file, link) :
                    \A other \in Distances(file, link) : d =< other]
  BY <1>1 DEF Loaded
<1> QED BY <1>3, <1>4, <1>5, <1>6, Zenon

(* A link costs a natural number. *)
LEMMA LengthIsNat ==
  ASSUME NEW n \in Networks, NEW u, NEW v, Step(n, u, v)
  PROVE  Length(n, u, v) \in Nat
BY NetworksLoaded DEF Step, Length

LEMMA RouteStarts ==
  ASSUME NEW n, NEW c \in Node
  PROVE  RouteOver(n, 1, c, c, 0) /\ RouteTo(n, c, c, 0)
<1> DEFINE w == [i \in 1 .. 1 |-> c]
           m == [i \in 1 .. 1 |-> 0]
<1>1. w \in [1 .. 1 -> Node] /\ m \in [1 .. 1 -> Nat]
  OBVIOUS
<1>2. IsRoute(n, 1, w, m, c) /\ w[1] = c /\ m[1] = 0
  BY DEF IsRoute
<1> HIDE DEF w, m
<1>3. RouteOver(n, 1, c, c, 0)
  BY <1>1, <1>2, Zenon DEF RouteOver
<1>4. 1 \in Nat \ { 0 }
  OBVIOUS
<1> QED BY <1>3, <1>4, Zenon DEF RouteTo

LEMMA RouteIsLonger ==
  ASSUME NEW n \in Networks, NEW k \in Nat \ { 0 }, NEW c, NEW u \in Node, NEW v \in Node,
         NEW d \in Nat, RouteOver(n, k, c, u, d), Step(n, u, v)
  PROVE  RouteOver(n, k + 1, c, v, d + Length(n, u, v))
<1>1. PICK w \in [1 .. k -> Node], m \in [1 .. k -> Nat] :
        IsRoute(n, k, w, m, c) /\ w[k] = u /\ m[k] = d
  BY DEF RouteOver
<1>2. Length(n, u, v) \in Nat
  BY LengthIsNat
<1> DEFINE ww == [i \in 1 .. k + 1 |-> IF i = k + 1 THEN v ELSE w[i]]
           mm == [i \in 1 .. k + 1 |-> IF i = k + 1 THEN d + Length(n, u, v) ELSE m[i]]
<1>3. k + 1 \in Nat \ { 0 } /\ ww \in [1 .. k + 1 -> Node] /\ mm \in [1 .. k + 1 -> Nat]
  BY <1>2
<1>4. ww[1] = c /\ mm[1] = 0
  BY <1>1 DEF IsRoute
<1>5. ASSUME NEW i \in 1 .. k
      PROVE  Step(n, ww[i], ww[i + 1]) /\ mm[i + 1] = mm[i] + Length(n, ww[i], ww[i + 1])
  <2>1. CASE i = k
    <3>1. ww[i] = u /\ ww[i + 1] = v /\ mm[i] = d /\ mm[i + 1] = d + Length(n, u, v)
      BY <1>1, <2>1
    <3> QED BY <3>1
  <2>2. CASE i # k
    <3>1. i \in 1 .. k - 1 /\ i + 1 \in 1 .. k
      BY <2>2
    <3>2. ww[i] = w[i] /\ ww[i + 1] = w[i + 1] /\ mm[i] = m[i] /\ mm[i + 1] = m[i + 1]
      BY <3>1
    <3>3. Step(n, w[i], w[i + 1]) /\ m[i + 1] = m[i] + Length(n, w[i], w[i + 1])
      BY <1>1, <3>1 DEF IsRoute
    <3> QED BY <3>2, <3>3
  <2> QED BY <2>1, <2>2
<1>6. IsRoute(n, k + 1, ww, mm, c)
  <2>1. (k + 1) - 1 = k
    OBVIOUS
  <2> QED BY <1>4, <1>5, <2>1 DEF IsRoute
<1>7. ww[k + 1] = v /\ mm[k + 1] = d + Length(n, u, v)
  OBVIOUS
<1> QED BY <1>3, <1>6, <1>7 DEF RouteOver

LEMMA RouteGoesOn ==
  ASSUME NEW n \in Networks, NEW c, NEW u \in Node, NEW v \in Node, NEW d \in Nat,
         RouteTo(n, c, u, d), Step(n, u, v)
  PROVE  RouteTo(n, c, v, d + Length(n, u, v))
<1>1. PICK k \in Nat \ { 0 } : RouteOver(n, k, c, u, d)
  BY DEF RouteTo
<1>2. RouteOver(n, k + 1, c, v, d + Length(n, u, v)) /\ k + 1 \in Nat \ { 0 }
  BY <1>1, RouteIsLonger
<1> QED BY <1>2, Zenon DEF RouteTo

(***************************************************************************)
(* The heart of the argument.  V are nodes with a distance f that no link  *)
(* within V undercuts, and a link that leaves V comes at least to bound,   *)
(* or none does (open is FALSE).  Then a route from c stays in V and is no *)
(* shorter than f, or it is at least as long as bound.  A shortest         *)
(* counterexample would leave through its last link.                       *)
(***************************************************************************)
LEMMA RoutesAreBounded ==
  ASSUME NEW n \in Networks,
         NEW V \in SUBSET Node, NEW f, \A v \in V : f[v] \in Nat,
         NEW open \in BOOLEAN, NEW bound \in Int,
         NEW c \in V, f[c] = 0,
         \A u \in V, v \in Node : Step(n, u, v) =>
           \/ v \in V /\ f[v] =< f[u] + Length(n, u, v)
           \/ open /\ bound =< f[u] + Length(n, u, v),
         NEW t \in Node, NEW e \in Nat, RouteTo(n, c, t, e)
  PROVE  \/ t \in V /\ f[t] =< e
         \/ open /\ bound =< e
<1>0. PICK k \in Nat \ { 0 } : RouteOver(n, k, c, t, e)
  BY DEF RouteTo
<1>1. PICK w \in [1 .. k -> Node], m \in [1 .. k -> Nat] :
        IsRoute(n, k, w, m, c) /\ w[k] = t /\ m[k] = e
  BY <1>0 DEF RouteOver
<1> DEFINE Fine(i) == \/ w[i] \in V /\ f[w[i]] =< m[i]
                      \/ open /\ bound =< m[i]
           Bad == { i \in 1 .. k : ~ Fine(i) }
<1>2. SUFFICES Bad = {}
  <2>1. k \in 1 .. k
    OBVIOUS
  <2>2. Fine(k)
    BY <1>2, <2>1
  <2> QED BY <1>1, <2>2
<1>3. SUFFICES ASSUME Bad # {} PROVE FALSE
  OBVIOUS
<1>4. PICK i \in Bad : \A j \in Bad : i =< j
  <2>1. Bad \in SUBSET Nat
    OBVIOUS
  <2> HIDE DEF Bad
  <2> QED BY <1>3, <2>1, LeastElement, Zenon
<1>5. i \in 1 .. k /\ ~ Fine(i)
  OBVIOUS
<1>6. i # 1
  <2>1. w[1] = c /\ m[1] = 0
    BY <1>1 DEF IsRoute
  <2> QED BY <1>5, <2>1
<1>7. i - 1 \in 1 .. k - 1 /\ i - 1 \in 1 .. k /\ (i - 1) + 1 = i
  BY <1>5, <1>6
<1>8. Fine(i - 1)
  <2>1. i - 1 \notin Bad
    BY <1>4, <1>5, <1>7
  <2> QED BY <1>7, <2>1
<1>9. Step(n, w[i - 1], w[i]) /\ m[i] = m[i - 1] + Length(n, w[i - 1], w[i])
  BY <1>1, <1>7 DEF IsRoute
<1>10. Length(n, w[i - 1], w[i]) \in Nat
  BY <1>9, LengthIsNat
<1>11. w[i - 1] \in Node /\ w[i] \in Node /\ m[i - 1] \in Nat /\ m[i] \in Nat
  BY <1>5, <1>7
<1> HIDE DEF Bad
<1>12. CASE w[i - 1] \in V /\ f[w[i - 1]] =< m[i - 1]
  <2>1. f[w[i - 1]] \in Nat
    BY <1>12
  <2>2. CASE w[i] \in V /\ f[w[i]] =< f[w[i - 1]] + Length(n, w[i - 1], w[i])
    <3>1. f[w[i]] \in Nat
      BY <2>2
    <3> QED BY <1>5, <1>9, <1>10, <1>11, <1>12, <2>1, <2>2, <3>1
  <2>3. CASE open /\ bound =< f[w[i - 1]] + Length(n, w[i - 1], w[i])
    BY <1>5, <1>9, <1>10, <1>11, <1>12, <2>1, <2>3
  <2> QED BY <1>9, <1>11, <1>12, <2>2, <2>3
<1>13. CASE open /\ bound =< m[i - 1]
  BY <1>5, <1>9, <1>10, <1>11, <1>13
<1> QED BY <1>8, <1>12, <1>13

-----------------------------------------------------------------------------

(***************************************************************************)
(* A route that is no longer than another and comes to no node twice has   *)
(* as many nodes as the network at most.  So it is enough to look at       *)
(* routes over that many nodes, as Routes does.                            *)
(***************************************************************************)
LEMMA NodeIsFinite ==
  ASSUME NEW n \in Networks
  PROVE  IsFiniteSet(Node)
<1>1. PICK file \in Files : n = Loaded(file)
  BY DEF Networks
<1> DEFINE lines == 1 .. Len(file.nodes)
           id == [i \in lines |-> file.nodes[i].id]
<1>2. Len(file.nodes) \in Nat /\ Node = { file.nodes[i].id : i \in lines }
  BY FilesAssumption
<1>3. IsFiniteSet(lines)
  BY <1>2, FS_Interval
<1>4. id \in Surjection(lines, Node)
  BY <1>2 DEF Surjection
<1> HIDE DEF lines, id
<1> QED BY <1>3, <1>4, FS_Surjection

(* The last link of a route. *)
LEMMA RouteIsShorter ==
  ASSUME NEW n \in Networks, NEW k \in Nat \ { 0, 1 }, NEW c, NEW v, NEW e,
         RouteOver(n, k, c, v, e)
  PROVE  \E u \in Node, d \in Nat :
           RouteOver(n, k - 1, c, u, d) /\ Step(n, u, v) /\ e = d + Length(n, u, v)
<1>1. PICK w \in [1 .. k -> Node], m \in [1 .. k -> Nat] :
        IsRoute(n, k, w, m, c) /\ w[k] = v /\ m[k] = e
  BY DEF RouteOver
<1>2. k - 1 \in 1 .. k - 1 /\ k - 1 \in 1 .. k /\ (k - 1) + 1 = k
  OBVIOUS
<1> DEFINE ww == [i \in 1 .. k - 1 |-> w[i]]
           mm == [i \in 1 .. k - 1 |-> m[i]]
<1>3. ww \in [1 .. k - 1 -> Node] /\ mm \in [1 .. k - 1 -> Nat]
  OBVIOUS
<1>4. IsRoute(n, k - 1, ww, mm, c)
  <2>1. ww[1] = c /\ mm[1] = 0
    BY <1>1 DEF IsRoute
  <2>2. ASSUME NEW i \in 1 .. (k - 1) - 1
        PROVE  Step(n, ww[i], ww[i + 1]) /\ mm[i + 1] = mm[i] + Length(n, ww[i], ww[i + 1])
    <3>1. i \in 1 .. k - 1 /\ i + 1 \in 1 .. k - 1
      OBVIOUS
    <3>2. ww[i] = w[i] /\ ww[i + 1] = w[i + 1] /\ mm[i] = m[i] /\ mm[i + 1] = m[i + 1]
      BY <3>1
    <3>3. Step(n, w[i], w[i + 1]) /\ m[i + 1] = m[i] + Length(n, w[i], w[i + 1])
      BY <1>1, <3>1 DEF IsRoute
    <3> QED BY <3>2, <3>3
  <2> HIDE DEF ww, mm
  <2> QED BY <2>1, <2>2 DEF IsRoute
<1>5. ww[k - 1] = w[k - 1] /\ mm[k - 1] = m[k - 1]
  BY <1>2
<1> HIDE DEF ww, mm
<1>6. RouteOver(n, k - 1, c, w[k - 1], m[k - 1])
  BY <1>3, <1>4, <1>5 DEF RouteOver
<1>7. Step(n, w[k - 1], w[k]) /\ m[k] = m[k - 1] + Length(n, w[k - 1], w[k])
  BY <1>1, <1>2 DEF IsRoute
<1>8. w[k - 1] \in Node /\ m[k - 1] \in Nat
  BY <1>2
<1> QED BY <1>1, <1>6, <1>7, <1>8, Zenon

(* Distances grow along a route. *)
LEMMA RouteAscends ==
  ASSUME NEW n \in Networks, NEW k \in Nat \ { 0 }, NEW c,
         NEW w \in [1 .. k -> Node], NEW m \in [1 .. k -> Nat], IsRoute(n, k, w, m, c),
         NEW i \in 1 .. k, NEW j \in i .. k
  PROVE  m[i] =< m[j]
<1> DEFINE Bad == { x \in i .. k : ~ (m[i] =< m[x]) }
<1> SUFFICES ASSUME Bad # {} PROVE FALSE
  OBVIOUS
<1>1. PICK x \in Bad : \A y \in Bad : x =< y
  <2>1. Bad \in SUBSET Nat
    OBVIOUS
  <2> HIDE DEF Bad
  <2> QED BY <2>1, LeastElement, Zenon
<1>2. x \in i .. k /\ ~ (m[i] =< m[x]) /\ x # i
  OBVIOUS
<1>3. x - 1 \in i .. k /\ x - 1 \in 1 .. k - 1 /\ x - 1 \in 1 .. k /\ (x - 1) + 1 = x
  BY <1>2
<1>4. m[i] =< m[x - 1]
  <2>1. x - 1 \notin Bad
    BY <1>1, <1>2, <1>3
  <2> QED BY <1>3, <2>1
<1>5. Step(n, w[x - 1], w[x]) /\ m[x] = m[x - 1] + Length(n, w[x - 1], w[x])
  BY <1>1, <1>3 DEF IsRoute
<1>6. Length(n, w[x - 1], w[x]) \in Nat
  BY <1>5, LengthIsNat
<1>7. m[i] \in Nat /\ m[x - 1] \in Nat /\ m[x] \in Nat
  BY <1>2, <1>3
<1> QED BY <1>2, <1>4, <1>5, <1>6, <1>7

(* What a route does between two visits of the same node can be left out.  *)
LEMMA DetourIsCut ==
  ASSUME NEW n \in Networks, NEW k \in Nat \ { 0 }, NEW c, NEW v, NEW e,
         NEW w \in [1 .. k -> Node], NEW m \in [1 .. k -> Nat], IsRoute(n, k, w, m, c),
         w[k] = v, m[k] = e,
         NEW i \in 1 .. k, NEW j \in 1 .. k, i < j, w[i] = w[j]
  PROVE  \E d \in Nat : d =< e /\ RouteOver(n, k - (j - i), c, v, d)
<1> DEFINE cut == j - i
           saved == m[j] - m[i]
           ww == [x \in 1 .. k - cut |-> IF x =< i THEN w[x] ELSE w[x + cut]]
           mm == [x \in 1 .. k - cut |-> IF x =< i THEN m[x] ELSE m[x + cut] - saved]
<1>1. /\ cut \in Nat /\ 1 =< cut /\ i + cut = j /\ i =< k - cut /\ k - cut \in Nat
      /\ \A x \in i .. k - cut : x + cut \in j .. k /\ x + cut \in 1 .. k
      /\ \A x \in 1 .. k - cut : x \in 1 .. k
  OBVIOUS
<1>2. m[i] \in Nat /\ m[j] \in Nat /\ saved \in Nat /\ m[j] - saved = m[i]
  BY RouteAscends
<1> HIDE DEF saved
<1>3. ASSUME NEW x \in i .. k - cut
      PROVE  m[x + cut] \in Nat /\ m[x + cut] - saved \in Nat
  <2>1. x + cut \in j .. k /\ x + cut \in 1 .. k
    BY <1>1
  <2>2. m[j] =< m[x + cut]
    BY <2>1, RouteAscends
  <2>3. m[x + cut] \in Nat
    BY <2>1
  <2> HIDE DEF cut
  <2> QED BY <1>2, <2>2, <2>3
<1>4. ww \in [1 .. k - cut -> Node] /\ mm \in [1 .. k - cut -> Nat]
  <2>1. ASSUME NEW x \in 1 .. k - cut
        PROVE  ww[x] \in Node /\ mm[x] \in Nat
    <3>1. CASE x =< i
      BY <1>1, <3>1
    <3>2. CASE ~ (x =< i)
      <4>1. x \in i .. k - cut
        BY <1>1, <3>2
      <4>2. ww[x] = w[x + cut] /\ mm[x] = m[x + cut] - saved
        BY <3>2
      <4> QED BY <1>1, <1>3, <4>1, <4>2
    <3> QED BY <3>1, <3>2
  <2> QED BY <2>1
<1>5. ASSUME NEW x \in i .. k - cut
      PROVE  ww[x] = w[x + cut] /\ mm[x] = m[x + cut] - saved
  <2>1. CASE x = i
    BY <1>1, <1>2, <2>1
  <2>2. CASE x # i
    BY <1>1, <2>2
  <2> QED BY <2>1, <2>2
<1>6. ASSUME NEW x \in 1 .. i
      PROVE  ww[x] = w[x] /\ mm[x] = m[x]
  BY <1>1
<1> HIDE DEF ww, mm
<1>7. IsRoute(n, k - cut, ww, mm, c)
  <2>1. ww[1] = c /\ mm[1] = 0
    BY <1>6 DEF IsRoute
  <2>2. ASSUME NEW x \in 1 .. (k - cut) - 1
        PROVE  Step(n, ww[x], ww[x + 1]) /\ mm[x + 1] = mm[x] + Length(n, ww[x], ww[x + 1])
    <3>1. CASE x < i
      <4>1. x \in 1 .. i /\ x + 1 \in 1 .. i /\ x \in 1 .. k - 1
        BY <3>1
      <4> QED BY <1>6, <4>1 DEF IsRoute
    <3>2. CASE ~ (x < i)
      <4>1. /\ x \in i .. k - cut /\ x + 1 \in i .. k - cut
            /\ x + cut \in 1 .. k - 1 /\ (x + 1) + cut = (x + cut) + 1
        BY <1>1, <3>2
      <4>2. /\ Step(n, w[x + cut], w[(x + cut) + 1])
            /\ m[(x + cut) + 1] = m[x + cut] + Length(n, w[x + cut], w[(x + cut) + 1])
        BY <4>1 DEF IsRoute
      <4>3. Length(n, w[x + cut], w[(x + cut) + 1]) \in Nat
        BY <4>2, LengthIsNat
      <4>4. m[x + cut] \in Nat /\ m[(x + cut) + 1] \in Nat
        BY <1>3, <4>1
      <4>5. /\ ww[x] = w[x + cut] /\ ww[x + 1] = w[(x + cut) + 1]
            /\ mm[x] = m[x + cut] - saved /\ mm[x + 1] = m[(x + cut) + 1] - saved
        BY <1>5, <4>1
      <4> HIDE DEF cut
      <4> QED BY <1>2, <4>2, <4>3, <4>4, <4>5
    <3> QED BY <3>1, <3>2
  <2> QED BY <2>1, <2>2 DEF IsRoute
<1>8. k - cut \in i .. k - cut /\ (k - cut) + cut = k
  BY <1>1
<1>9. ww[k - cut] = v /\ mm[k - cut] = e - saved
  BY <1>5, <1>8
<1>10. mm[k - cut] \in Nat /\ mm[k - cut] =< e
  <2>1. e - saved \in Nat /\ e \in Nat
    BY <1>3, <1>8
  <2> QED BY <1>2, <1>9, <2>1
<1>11. RouteOver(n, k - cut, c, v, mm[k - cut])
  BY <1>4, <1>7, <1>9 DEF RouteOver
<1> QED BY <1>10, <1>11

LEMMA ShortRouteExists ==
  ASSUME NEW n \in Networks, NEW c, NEW v, NEW e \in Nat, RouteTo(n, c, v, e)
  PROVE  \E k \in 1 .. Cardinality(Node), d \in Nat : d =< e /\ RouteOver(n, k, c, v, d)
<1> DEFINE S == { k \in Nat \ { 0 } : \E d \in Nat : d =< e /\ RouteOver(n, k, c, v, d) }
<1>1. PICK k \in S : \A o \in S : k =< o
  <2>1. S # {}
    BY DEF RouteTo
  <2>2. S \in SUBSET Nat
    OBVIOUS
  <2> HIDE DEF S
  <2> QED BY <2>1, <2>2, LeastElement, Zenon
<1>2. PICK d \in Nat : d =< e /\ RouteOver(n, k, c, v, d)
  OBVIOUS
<1>3. k \in Nat \ { 0 }
  OBVIOUS
<1>4. IsFiniteSet(Node) /\ Cardinality(Node) \in Nat
  BY NodeIsFinite, FS_CardinalityType
<1>5. k =< Cardinality(Node)
  <2> SUFFICES ASSUME Cardinality(Node) < k PROVE FALSE
    BY <1>3, <1>4
  <2>1. PICK w \in [1 .. k -> Node], m \in [1 .. k -> Nat] :
          IsRoute(n, k, w, m, c) /\ w[k] = v /\ m[k] = d
    BY <1>2 DEF RouteOver
  <2>2. IsFiniteSet(1 .. k) /\ Cardinality(1 .. k) = k
    BY <1>3, FS_Interval
  <2>3. PICK x, y \in 1 .. k : x # y /\ w[x] = w[y]
    BY <1>4, <2>2, FS_PigeonHole
  <2>4. PICK i, j \in 1 .. k : i < j /\ w[i] = w[j]
    BY <1>3, <2>3
  <2>5. PICK b \in Nat : b =< d /\ RouteOver(n, k - (j - i), c, v, b)
    BY <1>3, <2>1, <2>4, DetourIsCut
  <2>6. k - (j - i) \in Nat \ { 0 } /\ ~ (k =< k - (j - i)) /\ b =< e
    BY <1>2, <1>3, <2>4, <2>5
  <2>7. k - (j - i) \in S
    BY <2>5, <2>6
  <2> QED BY <1>1, <2>6, <2>7
<1>6. k \in 1 .. Cardinality(Node)
  BY <1>3, <1>4, <1>5
<1> QED BY <1>2, <1>6

-----------------------------------------------------------------------------

Clients(n) == { v \in Node : n.type[v] = "CLIENT" }
Servers(n) == { v \in Node : n.type[v] = "SERVER" }

Unreached(n, c) == \A t \in Servers(n), e \in Nat : ~ RouteTo(n, c, t, e)

Shortest(n, s, c) ==
  /\ s \in Servers(n)
  /\ \E d \in Nat :
       /\ RouteTo(n, c, s, d)
       /\ \A t \in Servers(n), e \in Nat : RouteTo(n, c, t, e) => d =< e

(***************************************************************************)
(* Whoever is a client of the network is told the server at the end of a   *)
(* shortest route, from the search or from the cache, and nothing when no  *)
(* route leads to a server; nobody else is told anything.                  *)
(***************************************************************************)
ShortestAnswers ==
  /\ pc = "idle" =>
       IF client \notin Clients(net) THEN answer = NotFound
       ELSE IF answer = NotFound THEN Unreached(net, client)
       ELSE Shortest(net, answer, client)
  /\ \A c \in DOMAIN cache : Shortest(net, cache[c], c)

(***************************************************************************)
(* What holds in the loop.  The search began at its client; ...            *)
(***************************************************************************)
Origin ==
  \/ DOMAIN visited = {} /\ DOMAIN distMap = { client } /\ distMap[client] = 0
  \/ client \in DOMAIN visited /\ visited[client] = 0

(* ... the loop is at the nearest node of distMap, ... *)
AtNearest ==
  DOMAIN distMap # {} =>
    /\ current.id \in DOMAIN distMap
    /\ current.distance = distMap[current.id]
    /\ \A o \in DOMAIN distMap : current.distance =< distMap[o]

(* ... which are others than those visited, and no nearer; ... *)
Ordered ==
  \A u \in DOMAIN visited, o \in DOMAIN distMap : u # o /\ visited[u] =< distMap[o]

(* ... a link from a visited node leads to a visited node or one of        *)
(* distMap, whose distance takes it into account; ...                      *)
Covers(f, v, d) == v \in DOMAIN f /\ f[v] =< d

Frontier ==
  \A u \in DOMAIN visited, v \in Node : Step(net, u, v) =>
    \/ Covers(visited, v, visited[u] + Length(net, u, v))
    \/ Covers(distMap, v, visited[u] + Length(net, u, v))

(* ... distances are those of routes, and no server was passed by.         *)
Real ==
  /\ \A v \in DOMAIN visited : RouteTo(net, client, v, visited[v]) /\ v \notin Servers(net)
  /\ \A v \in DOMAIN distMap : RouteTo(net, client, v, distMap[v])

SearchInv ==
  pc = "search" =>
    client \in Clients(net) /\ Origin /\ AtNearest /\ Ordered /\ Frontier /\ Real

Inv == net \in Networks /\ TypeOK /\ SearchInv /\ ShortestAnswers

LEMMA OfType ==
  /\ Of("CLIENT") = Clients(net)
  /\ Of("SERVER") = Servers(net)
BY DEF Of, Clients, Servers

LEMMA PutIsFunction ==
  ASSUME NEW f, NEW key, NEW value
  PROVE  /\ DOMAIN Put(f, key, value) = DOMAIN f \cup { key }
         /\ Put(f, key, value)[key] = value
         /\ \A k \in DOMAIN f : k # key => Put(f, key, value)[k] = f[k]
BY DEF Put

LEMMA InitInv == Init => Inv
<1> SUFFICES ASSUME Init PROVE Inv
  OBVIOUS
<1>1. DOMAIN Nothing = {}
  BY DEF Nothing
<1>2. NotFound \notin Node
  BY GeographyAssumption, FilesAssumption DEF NotFound
<1>3. TypeOK
  BY <1>1 DEF Init, TypeOK, Nowhere, NotFound
<1>4. ShortestAnswers
  BY <1>1, <1>2 DEF Init, ShortestAnswers, Clients
<1> QED BY <1>3, <1>4 DEF Init, Inv, SearchInv

(* Every return leaves the loop with its local variables gone. *)
LEMMA ReturnKeepsType ==
  ASSUME TypeOK, net \in Networks, net' = net,
         NEW c \in Node \cup { NotFound },
         NEW s \in Servers(net) \cup { NotFound }, Return(c, s),
         DOMAIN cache' \subseteq Clients(net),
         \A k \in DOMAIN cache' : cache'[k] \in Servers(net)
  PROVE  TypeOK'
<1>1. DOMAIN Nothing = {}
  BY DEF Nothing
<1>2. Clients(net') = Clients(net) /\ Servers(net') = Servers(net)
  OBVIOUS
<1>3. (Of("CLIENT"))' = Clients(net) /\ (Of("SERVER"))' = Servers(net)
  BY <1>2 DEF Of, Clients, Servers
<1> QED BY <1>1, <1>3 DEF TypeOK, Return, Nowhere, NotFound

LEMMA AskUnknownInv == \A c \in Node \cup { NotFound } : Inv /\ AskUnknown(c) => Inv'
<1> SUFFICES ASSUME NEW c \in Node \cup { NotFound }, Inv, AskUnknown(c) PROVE Inv'
  OBVIOUS
<1>1. net' = net /\ cache' = cache /\ pc' = "idle" /\ client' = c /\ answer' = NotFound
      /\ c \notin Clients(net)
  BY OfType DEF AskUnknown, Return
<1>2. TypeOK'
  BY <1>1, OfType, ReturnKeepsType DEF AskUnknown, Inv, TypeOK
<1>3. ShortestAnswers'
  BY <1>1 DEF Inv, ShortestAnswers
<1> QED BY <1>1, <1>2, <1>3 DEF Inv, SearchInv

LEMMA AskCachedInv == \A c \in Node \cup { NotFound } : Inv /\ AskCached(c) => Inv'
<1> SUFFICES ASSUME NEW c \in Node \cup { NotFound }, Inv, AskCached(c) PROVE Inv'
  OBVIOUS
<1>1. /\ net' = net /\ cache' = cache /\ pc' = "idle" /\ client' = c /\ answer' = cache[c]
      /\ c \in Clients(net) /\ c \in DOMAIN cache
  BY OfType DEF AskCached, Return
<1>2. cache[c] \in Servers(net)
  BY <1>1, OfType DEF Inv, TypeOK
<1>3. TypeOK'
  BY <1>1, <1>2, OfType, ReturnKeepsType DEF AskCached, Inv, TypeOK
<1>4. answer' # NotFound
  BY <1>1, <1>2, GeographyAssumption, FilesAssumption DEF Servers, NotFound
<1>5. ShortestAnswers'
  BY <1>1, <1>4 DEF Inv, ShortestAnswers
<1> QED BY <1>1, <1>3, <1>5 DEF Inv, SearchInv

LEMMA AskNewInv == \A c \in Node \cup { NotFound } : Inv /\ AskNew(c) => Inv'
<1> SUFFICES ASSUME NEW c \in Node \cup { NotFound }, Inv, AskNew(c) PROVE Inv'
  OBVIOUS
<1>1. /\ net' = net /\ cache' = cache /\ pc' = "search" /\ client' = c
      /\ answer' = NotFound
      /\ current' = [ id |-> c, distance |-> 0 ]
      /\ distMap' = Put(Nothing, c, 0) /\ visited' = Nothing
      /\ c \in Clients(net) /\ c \in Node
  BY OfType DEF AskNew, Of
<1>2. DOMAIN visited' = {} /\ DOMAIN distMap' = { c } /\ distMap'[c] = 0
  BY <1>1 DEF Nothing, Put
<1>3. TypeOK'
  <2>1. (Of("CLIENT"))' = Of("CLIENT") /\ (Of("SERVER"))' = Of("SERVER")
    BY <1>1 DEF Of
  <2>2. current' \in [ id : Int, distance : Int ]
    BY <1>1, GeographyAssumption, FilesAssumption
  <2> QED BY <1>1, <1>2, <2>1, <2>2 DEF Inv, TypeOK
<1>4. RouteTo(net, c, c, 0)
  BY <1>1, RouteStarts
<1>5. SearchInv'
  <2>1. Origin' /\ AtNearest' /\ Ordered' /\ Frontier'
    BY <1>1, <1>2 DEF Origin, AtNearest, Ordered, Frontier
  <2>2. Real'
    BY <1>1, <1>2, <1>4 DEF Real
  <2> QED BY <1>1, <2>1, <2>2 DEF SearchInv
<1>6. ShortestAnswers'
  BY <1>1 DEF Inv, ShortestAnswers
<1> QED BY <1>1, <1>3, <1>5, <1>6 DEF Inv

(***************************************************************************)
(* While the loop runs, a route to a server leads through distMap and is   *)
(* at least as long as the distance the loop has come to.                  *)
(***************************************************************************)
LEMMA ServersAreAhead ==
  ASSUME Inv, pc = "search",
         NEW t \in Servers(net), NEW e \in Nat, RouteTo(net, client, t, e)
  PROVE  DOMAIN distMap # {} /\ current.distance =< e
<1> DEFINE open == DOMAIN distMap # {}
<1>1. /\ net \in Networks /\ current.distance \in Int /\ t \in Node
      /\ Origin /\ AtNearest /\ Ordered /\ Frontier /\ Real
      /\ DOMAIN visited \in SUBSET Node
      /\ \A v \in DOMAIN visited : visited[v] \in Nat
      /\ \A v \in DOMAIN distMap : distMap[v] \in Nat
  BY DEF Inv, SearchInv, TypeOK, Servers
<1>2. CASE DOMAIN visited = {} /\ DOMAIN distMap = { client } /\ distMap[client] = 0
  BY <1>1, <1>2 DEF AtNearest
<1>3. CASE client \in DOMAIN visited /\ visited[client] = 0
  <2>1. ASSUME NEW u \in DOMAIN visited, NEW v \in Node, Step(net, u, v)
        PROVE  \/ v \in DOMAIN visited /\ visited[v] =< visited[u] + Length(net, u, v)
               \/ open /\ current.distance =< visited[u] + Length(net, u, v)
    <3>1. Length(net, u, v) \in Nat /\ visited[u] \in Nat
      BY <1>1, <2>1, LengthIsNat
    <3>2. CASE Covers(visited, v, visited[u] + Length(net, u, v))
      BY <3>2 DEF Covers
    <3>3. CASE Covers(distMap, v, visited[u] + Length(net, u, v))
      <4>1. v \in DOMAIN distMap /\ distMap[v] =< visited[u] + Length(net, u, v)
        BY <3>3 DEF Covers
      <4>2. current.distance =< distMap[v] /\ distMap[v] \in Nat
        BY <1>1, <4>1 DEF AtNearest
      <4> QED BY <1>1, <3>1, <4>1, <4>2
    <3> QED BY <1>1, <2>1, <3>2, <3>3 DEF Frontier
  <2>2. open \in BOOLEAN
    OBVIOUS
  <2> HIDE DEF open
  <2>3. \/ t \in DOMAIN visited /\ visited[t] =< e
        \/ open /\ current.distance =< e
    BY <1>1, <1>3, <2>1, <2>2, RoutesAreBounded
  <2>4. t \notin DOMAIN visited
    BY <1>1 DEF Real
  <2> QED BY <2>3, <2>4 DEF open
<1> QED BY <1>1, <1>2, <1>3 DEF Origin

LEMMA FoundInv == Inv /\ Found => Inv'
<1> SUFFICES ASSUME Inv, Found PROVE Inv'
  OBVIOUS
<1> DEFINE s == current.id
<1>1. /\ net' = net /\ pc = "search" /\ pc' = "idle" /\ client' = client /\ answer' = s
      /\ DOMAIN distMap # {} /\ Return(client, s)
  BY DEF Found, InLoop, Return
<1>2. PICK keys \in Kept : cache' = Put(Restricted(cache, keys), client, s)
  BY DEF Found
<1>3. /\ client \in Clients(net) /\ AtNearest /\ Real /\ net \in Networks
      /\ DOMAIN distMap \subseteq Node
      /\ \A v \in DOMAIN distMap : distMap[v] \in Nat
  BY <1>1 DEF Inv, SearchInv, TypeOK
<1>4. s \in Servers(net)
  BY <1>1, <1>3 DEF Found, IsServer, Servers, AtNearest
<1>5. Shortest(net, s, client)
  <2>1. s \in DOMAIN distMap /\ current.distance = distMap[s]
    BY <1>1, <1>3 DEF AtNearest
  <2>2. current.distance \in Nat /\ RouteTo(net, client, s, current.distance)
    BY <1>3, <2>1 DEF Real
  <2>3. \A t \in Servers(net), e \in Nat :
          RouteTo(net, client, t, e) => current.distance =< e
    BY <1>1, ServersAreAhead
  <2> QED BY <1>4, <2>2, <2>3 DEF Shortest
<1>6. /\ DOMAIN cache' \subseteq DOMAIN cache \cup { client }
      /\ cache'[client] = s
      /\ \A c \in DOMAIN cache' : c # client => c \in DOMAIN cache /\ cache'[c] = cache[c]
  BY <1>2 DEF Kept, Restricted, Put
<1>7. TypeOK'
  <2>1. /\ DOMAIN cache' \subseteq Clients(net)
        /\ \A c \in DOMAIN cache' : cache'[c] \in Servers(net)
    BY <1>3, <1>4, <1>6, OfType DEF Inv, TypeOK
  <2>2. client \in Node \cup { NotFound }
    BY DEF Inv, TypeOK
  <2> QED BY <1>1, <1>3, <1>4, <2>1, <2>2, ReturnKeepsType DEF Inv
<1>8. s # NotFound
  BY <1>4, GeographyAssumption, FilesAssumption DEF Servers, NotFound
<1>9. \A c \in DOMAIN cache' : Shortest(net, cache'[c], c)
  BY <1>5, <1>6 DEF Inv, ShortestAnswers
<1>10. ShortestAnswers'
  BY <1>1, <1>3, <1>5, <1>8, <1>9 DEF ShortestAnswers
<1> QED BY <1>1, <1>3, <1>7, <1>10 DEF Inv, SearchInv

LEMMA NotReachedInv == Inv /\ NotReached => Inv'
<1> SUFFICES ASSUME Inv, NotReached PROVE Inv'
  OBVIOUS
<1>1. /\ net' = net /\ cache' = cache /\ pc = "search" /\ pc' = "idle"
      /\ client' = client /\ answer' = NotFound
      /\ DOMAIN distMap = {} /\ Return(client, NotFound)
  BY DEF NotReached, Return
<1>2. Unreached(net, client)
  BY <1>1, ServersAreAhead DEF Unreached
<1>3. TypeOK'
  BY <1>1, OfType, ReturnKeepsType DEF Inv, TypeOK
<1>4. ShortestAnswers'
  BY <1>1, <1>2 DEF Inv, ShortestAnswers
<1> QED BY <1>1, <1>3, <1>4 DEF Inv, SearchInv

(***************************************************************************)
(* Visit.  First what it does to the two maps.                             *)
(***************************************************************************)
LEMMA VisitSteps ==
  ASSUME Inv, Visit
  PROVE  /\ net' = net /\ cache' = cache /\ pc = "search" /\ pc' = "search"
         /\ client' = client /\ answer' = answer
         /\ net \in Networks /\ client \in Clients(net)
         /\ Origin /\ AtNearest /\ Ordered /\ Frontier /\ Real
         /\ DOMAIN visited \subseteq Node
         /\ \A v \in DOMAIN visited : visited[v] \in Nat
         /\ DOMAIN distMap \subseteq Node
         /\ \A v \in DOMAIN distMap : distMap[v] \in Nat
         /\ current.id \in DOMAIN distMap /\ current.id \in Node
         /\ current.id \notin Servers(net)
         /\ current.distance = distMap[current.id] /\ current.distance \in Nat
         /\ \A o \in DOMAIN distMap : current.distance =< distMap[o]
<1>1. /\ pc = "search" /\ DOMAIN distMap # {}
      /\ DOMAIN distMap \subseteq Node
      /\ \A v \in DOMAIN distMap : distMap[v] \in Nat
      /\ AtNearest
  BY DEF Visit, InLoop, Inv, TypeOK, SearchInv
<1>2. /\ current.id \in DOMAIN distMap
      /\ current.distance = distMap[current.id]
      /\ \A o \in DOMAIN distMap : current.distance =< distMap[o]
  BY <1>1 DEF AtNearest
<1>3. current.id \notin Servers(net)
  BY DEF Visit, IsServer, Servers
<1> QED BY <1>1, <1>2, <1>3 DEF Visit, Inv, SearchInv, TypeOK

LEMMA VisitedAfter ==
  ASSUME Inv, Visit
  PROVE  /\ DOMAIN visited' = DOMAIN visited \cup { current.id }
         /\ visited'[current.id] = current.distance
         /\ \A v \in DOMAIN visited : visited'[v] = visited[v] /\ v # current.id
<1>1. visited' = Put(visited, current.id, current.distance)
  BY DEF Visit
<1>2. \A v \in DOMAIN visited : v # current.id
  BY VisitSteps DEF Ordered
<1> QED BY <1>1, <1>2 DEF Put

(* Every node of the new distMap is an old one at its old distance, or a   *)
(* neighbour of the node that is left, at the distance through it; in both *)
(* cases it is no farther than before and through that node.               *)
LEMMA DistMapAfter ==
  ASSUME Inv, Visit
  PROVE  /\ DOMAIN distMap' = (DOMAIN distMap \ { current.id }) \cup Fresh(current.id)
         /\ \A v \in Fresh(current.id) :
              /\ v \in Node /\ v \notin DOMAIN visited /\ v # current.id
              /\ Step(net, current.id, v)
              /\ distMap'[v] =< current.distance + Length(net, current.id, v)
         /\ \A v \in DOMAIN distMap' :
              \/ v \in DOMAIN distMap /\ distMap'[v] = distMap[v]
              \/ /\ v \in Fresh(current.id)
                 /\ distMap'[v] = current.distance + Length(net, current.id, v)
         /\ \A v \in DOMAIN distMap \ { current.id } : distMap'[v] =< distMap[v]
         /\ \A v \in DOMAIN distMap' : distMap'[v] \in Nat
<1> DEFINE u == current.id
<1>1. distMap' = Relaxed(u)
  BY DEF Visit
<1>2. ASSUME NEW v \in Fresh(u)
      PROVE  /\ v \in Node /\ v \notin DOMAIN visited /\ v # u /\ Step(net, u, v)
             /\ Via(u, v) = current.distance + Length(net, u, v)
             /\ Via(u, v) \in Nat
  <2>1. v \in Node /\ v \notin DOMAIN visited /\ v # u /\ Step(net, u, v)
    BY DEF Fresh, Linked, Step
  <2>2. Length(net, u, v) \in Nat
    BY <2>1, VisitSteps, LengthIsNat
  <2> QED BY <2>1, <2>2, VisitSteps DEF Via, Cost, Length
<1>3. DOMAIN distMap' = (DOMAIN distMap \ { u }) \cup Fresh(u)
  BY <1>1 DEF Relaxed
<1>4. \A v \in DOMAIN distMap' :
        distMap'[v] = IF v \in Fresh(u) /\ (v \in DOMAIN distMap => Via(u, v) < distMap[v])
                      THEN Via(u, v) ELSE distMap[v]
  BY <1>1, <1>3 DEF Relaxed
<1>5. \A v \in DOMAIN distMap : distMap[v] \in Nat
  BY VisitSteps
<1> HIDE DEF u
<1>6. ASSUME NEW v \in Fresh(u)
      PROVE  distMap'[v] =< Via(u, v)
  BY <1>2, <1>3, <1>4, <1>5
<1>7. ASSUME NEW v \in DOMAIN distMap'
      PROVE  /\ \/ v \in DOMAIN distMap /\ distMap'[v] = distMap[v]
                \/ v \in Fresh(u) /\ distMap'[v] = Via(u, v)
             /\ distMap'[v] \in Nat
  BY <1>2, <1>3, <1>4, <1>5
<1>8. ASSUME NEW v \in DOMAIN distMap \ { u }
      PROVE  distMap'[v] =< distMap[v]
  BY <1>2, <1>3, <1>4, <1>5
<1> QED BY <1>2, <1>3, <1>6, <1>7, <1>8 DEF u

(* The loop goes to a node of distMap, and none of them is nearer. *)
LEMMA CurrentAfter ==
  ASSUME Inv, Visit
  PROVE  /\ AtNearest'
         /\ current' \in [ id : Int, distance : Int ]
<1>1. current' \in MinElement(distMap')
  BY DEF Visit
<1>2. /\ \A v \in DOMAIN distMap' : v \in Node /\ distMap'[v] \in Nat
      /\ Node \subseteq Nat
  BY DistMapAfter, VisitSteps, GeographyAssumption, FilesAssumption
<1>3. CASE DOMAIN distMap' = {}
  BY <1>1, <1>3, GeographyAssumption, FilesAssumption DEF MinElement, AtNearest
<1>4. CASE DOMAIN distMap' # {}
  <2>1. PICK v \in NearestIn(distMap') :
          current' = [ id |-> v, distance |-> distMap'[v] ]
    BY <1>1, <1>4 DEF MinElement
  <2>2. v \in DOMAIN distMap'
    BY DEF NearestIn
  <2>3. \A o \in DOMAIN distMap' : distMap'[v] =< distMap'[o]
    BY <1>2, <2>2 DEF NearestIn
  <2>4. current'.id = v /\ current'.distance = distMap'[v]
    BY <2>1
  <2>5. v \in Int /\ distMap'[v] \in Int
    <3>1. v \in Node /\ distMap'[v] \in Nat
      BY <1>2, <2>2, Zenon
    <3>2. v \in Nat
      BY <1>2, <3>1, Zenon
    <3> QED BY <3>1, <3>2
  <2>6. current' \in [ id : Int, distance : Int ]
    BY <2>1, <2>5
  <2>7. AtNearest'
    BY <2>2, <2>3, <2>4 DEF AtNearest
  <2> QED BY <2>6, <2>7
<1> QED BY <1>3, <1>4

LEMMA VisitInv == Inv /\ Visit => Inv'
<1> SUFFICES ASSUME Inv, Visit PROVE Inv'
  OBVIOUS
<1> DEFINE u == current.id
           d == current.distance
<1>1. TypeOK'
  <2>1. (Of("CLIENT"))' = Of("CLIENT") /\ (Of("SERVER"))' = Of("SERVER")
    BY VisitSteps DEF Of
  <2>2. DOMAIN distMap' \subseteq Node /\ \A v \in DOMAIN distMap' : distMap'[v] \in Nat
    BY DistMapAfter, VisitSteps
  <2>3. DOMAIN visited' \subseteq Node /\ \A v \in DOMAIN visited' : visited'[v] \in Nat
    BY VisitedAfter, VisitSteps
  <2> QED BY VisitSteps, CurrentAfter, <2>1, <2>2, <2>3 DEF Inv, TypeOK
<1>2. Origin'
  BY VisitSteps, VisitedAfter DEF Origin
<1>3. Ordered'
  <2> SUFFICES ASSUME NEW v \in DOMAIN visited', NEW o \in DOMAIN distMap'
               PROVE  v # o /\ visited'[v] =< distMap'[o]
    BY DEF Ordered
  <2>1. o # u /\ o \notin DOMAIN visited /\ d =< distMap'[o] /\ distMap'[o] \in Nat
    <3>1. CASE o \in Fresh(u)
      <4>1. Length(net, u, o) \in Nat
        BY <3>1, DistMapAfter, VisitSteps, LengthIsNat
      <4>2. \/ o \in DOMAIN distMap /\ distMap'[o] = distMap[o]
            \/ distMap'[o] = d + Length(net, u, o)
        BY DistMapAfter
      <4> QED BY <3>1, <4>1, <4>2, DistMapAfter, VisitSteps
    <3>2. CASE o \notin Fresh(u)
      <4>1. o \in DOMAIN distMap /\ o # u /\ distMap'[o] = distMap[o]
        BY <3>2, DistMapAfter
      <4> QED BY <4>1, DistMapAfter, VisitSteps DEF Ordered
    <3> QED BY <3>1, <3>2
  <2>2. CASE v = u
    BY <2>1, <2>2, VisitedAfter
  <2>3. CASE v # u
    <3>1. v \in DOMAIN visited /\ visited'[v] = visited[v] /\ visited[v] \in Nat
      BY <2>3, VisitedAfter, VisitSteps
    <3>2. visited[v] =< d
      BY <3>1, VisitSteps DEF Ordered
    <3> QED BY <2>1, <3>1, <3>2, VisitSteps
  <2> QED BY <2>2, <2>3
<1>4. Frontier'
  <2> SUFFICES ASSUME NEW a \in DOMAIN visited', NEW v \in Node, Step(net, a, v)
               PROVE  \/ v \in DOMAIN visited' /\ visited'[v] =< visited'[a] + Length(net, a, v)
                      \/ v \in DOMAIN distMap' /\ distMap'[v] =< visited'[a] + Length(net, a, v)
    BY VisitSteps DEF Frontier, Covers
  <2>1. Length(net, a, v) \in Nat
    BY VisitSteps, LengthIsNat
  <2>2. CASE a = u
    <3>1. visited'[a] = d /\ d \in Nat
      BY <2>2, VisitedAfter, VisitSteps
    <3>2. CASE v = u
      BY <2>1, <3>1, <3>2, VisitedAfter
    <3>3. CASE v \in DOMAIN visited
      <4>1. visited'[v] = visited[v] /\ v \in DOMAIN visited' /\ visited[v] \in Nat
        BY <3>3, VisitedAfter, VisitSteps
      <4>2. visited[v] =< d
        BY <3>3, VisitSteps DEF Ordered
      <4> QED BY <2>1, <3>1, <4>1, <4>2
    <3>4. CASE v # u /\ v \notin DOMAIN visited
      <4>1. v \in Fresh(u)
        BY <2>2, <3>4 DEF Fresh, Step, Linked
      <4>2. v \in DOMAIN distMap' /\ distMap'[v] =< d + Length(net, u, v)
        BY <4>1, DistMapAfter
      <4> QED BY <2>2, <3>1, <4>2
    <3> QED BY <3>2, <3>3, <3>4
  <2>3. CASE a # u
    <3>1. a \in DOMAIN visited /\ visited'[a] = visited[a] /\ visited[a] \in Nat
      BY <2>3, VisitedAfter, VisitSteps
    <3>2. CASE v \in DOMAIN visited /\ visited[v] =< visited[a] + Length(net, a, v)
      BY <3>1, <3>2, VisitedAfter
    <3>3. CASE v \in DOMAIN distMap /\ distMap[v] =< visited[a] + Length(net, a, v)
      <4>1. CASE v = u
        BY <3>1, <3>3, <4>1, VisitedAfter, VisitSteps
      <4>2. CASE v # u
        <5>1. v \in DOMAIN distMap' /\ distMap'[v] =< distMap[v] /\ distMap'[v] \in Nat
          BY <3>3, <4>2, DistMapAfter
        <5> QED BY <2>1, <3>1, <3>3, <5>1, VisitSteps
      <4> QED BY <4>1, <4>2
    <3> QED BY <3>1, <3>2, <3>3, VisitSteps DEF Frontier, Covers
  <2> QED BY <2>2, <2>3
<1>5. Real'
  <2>1. ASSUME NEW v \in DOMAIN visited'
        PROVE  RouteTo(net, client, v, visited'[v]) /\ v \notin Servers(net)
    <3>1. CASE v = u
      BY <3>1, VisitedAfter, VisitSteps DEF Real
    <3>2. CASE v # u
      BY <3>2, VisitedAfter, VisitSteps DEF Real
    <3> QED BY <3>1, <3>2
  <2>2. ASSUME NEW v \in DOMAIN distMap'
        PROVE  RouteTo(net, client, v, distMap'[v])
    <3>1. CASE v \in DOMAIN distMap /\ distMap'[v] = distMap[v]
      BY <3>1, VisitSteps DEF Real
    <3>2. CASE v \in Fresh(u) /\ distMap'[v] = d + Length(net, u, v)
      <4>1. RouteTo(net, client, u, d) /\ u \in Node /\ d \in Nat
        BY VisitSteps DEF Real
      <4>2. Step(net, u, v) /\ v \in Node
        BY <3>2, DistMapAfter
      <4>3. RouteTo(net, client, v, d + Length(net, u, v))
        BY <4>1, <4>2, VisitSteps, RouteGoesOn
      <4> QED BY <3>2, <4>3
    <3> QED BY <3>1, <3>2, DistMapAfter
  <2> QED BY <2>1, <2>2, VisitSteps DEF Real
<1>6. SearchInv'
  BY <1>2, <1>3, <1>4, <1>5, CurrentAfter, VisitSteps DEF SearchInv
<1>7. ShortestAnswers'
  BY VisitSteps DEF Inv, ShortestAnswers
<1> QED BY <1>1, <1>6, <1>7, VisitSteps DEF Inv

LEMMA NextInv == Inv /\ [Next]_vars => Inv'
<1>1. Inv /\ UNCHANGED vars => Inv'
  BY DEF Inv, TypeOK, SearchInv, ShortestAnswers, Origin, AtNearest, Ordered, Frontier,
         Covers, Real, Of, vars, locals
<1>2. Inv /\ Ask => Inv'
  BY AskUnknownInv, AskCachedInv, AskNewInv DEF Ask
<1>3. Inv /\ Search => Inv'
  BY FoundInv, VisitInv, NotReachedInv DEF Search
<1> QED BY <1>1, <1>2, <1>3 DEF Next

-----------------------------------------------------------------------------

(***************************************************************************)
(* The routes that Geography enumerates are the routes of this module over *)
(* as many nodes as the network has at most: both make a route one link    *)
(* longer at a time.                                                       *)
(***************************************************************************)
Recurs(f, c) ==
  f = [j \in Nat |-> IF j = 0 THEN { << c, 0 >> } ELSE f[j - 1] \cup Extended(f[j - 1])]

UpTo(c) == CHOOSE f : Recurs(f, c)

OverAtMost(n, c, K) ==
  { r \in Node \X Nat : \E k \in 1 .. K : RouteOver(n, k, c, r[1], r[2]) }

LEMMA ExtendedRoutes ==
  ASSUME net \in Networks, NEW c \in Node, NEW K \in Nat \ { 0 }
  PROVE  OverAtMost(net, c, K + 1) = OverAtMost(net, c, K) \cup Extended(OverAtMost(net, c, K))
<1>1. ASSUME NEW r \in OverAtMost(net, c, K + 1)
      PROVE  r \in OverAtMost(net, c, K) \cup Extended(OverAtMost(net, c, K))
  <2>1. PICK k \in 1 .. K + 1 : RouteOver(net, k, c, r[1], r[2])
    BY DEF OverAtMost
  <2>2. r \in Node \X Nat
    BY DEF OverAtMost
  <2>3. CASE k \in 1 .. K
    BY <2>1, <2>2, <2>3 DEF OverAtMost
  <2>4. CASE k = K + 1
    <3>1. k \in Nat \ { 0, 1 } /\ k - 1 \in 1 .. K
      BY <2>4
    <3>2. PICK u \in Node, d \in Nat :
            RouteOver(net, k - 1, c, u, d) /\ Step(net, u, r[1]) /\ r[2] = d + Length(net, u, r[1])
      BY <2>1, <3>1, RouteIsShorter
    <3>3. << u, d >> \in OverAtMost(net, c, K)
      BY <3>1, <3>2 DEF OverAtMost
    <3>4. r = << r[1], d + Cost(u, r[1]) >> /\ r[1] \in Node
      BY <2>2, <3>2 DEF Cost, Length
    <3>5. r[1] \in { w \in Node : Linked(u, w) /\ net.type[w] # "CLIENT" }
      BY <3>2, <3>4 DEF Step, Linked
    <3> HIDE DEF OverAtMost
    <3>6. r \in Extended(OverAtMost(net, c, K))
      BY <3>3, <3>4, <3>5 DEF Extended
    <3> QED BY <3>6
  <2> QED BY <2>3, <2>4
<1>2. ASSUME NEW r \in OverAtMost(net, c, K)
      PROVE  r \in OverAtMost(net, c, K + 1)
  BY DEF OverAtMost
<1>3. ASSUME NEW r \in Extended(OverAtMost(net, c, K))
      PROVE  r \in OverAtMost(net, c, K + 1)
  <2>1. PICK q \in OverAtMost(net, c, K), v \in Node :
          /\ Linked(q[1], v) /\ net.type[v] # "CLIENT"
          /\ r = << v, q[2] + Cost(q[1], v) >>
    BY DEF Extended
  <2>2. PICK k \in 1 .. K : RouteOver(net, k, c, q[1], q[2])
    BY DEF OverAtMost
  <2>3. q[1] \in Node /\ q[2] \in Nat
    BY DEF OverAtMost
  <2>4. Step(net, q[1], v) /\ Cost(q[1], v) = Length(net, q[1], v)
    BY <2>1 DEF Step, Linked, Cost, Length
  <2>5. RouteOver(net, k + 1, c, v, q[2] + Length(net, q[1], v))
    BY <2>2, <2>3, <2>4, RouteIsLonger
  <2>6. Length(net, q[1], v) \in Nat
    BY <2>4, LengthIsNat
  <2>7. k + 1 \in 1 .. K + 1 /\ r \in Node \X Nat
    BY <2>1, <2>3, <2>4, <2>6
  <2>8. r[1] = v /\ r[2] = q[2] + Length(net, q[1], v)
    BY <2>1, <2>4
  <2> QED BY <2>5, <2>7, <2>8 DEF OverAtMost
<1> QED BY <1>1, <1>2, <1>3

LEMMA RoutesOverOne ==
  ASSUME NEW n, NEW c \in Node
  PROVE  OverAtMost(n, c, 1) = { << c, 0 >> }
<1>1. << c, 0 >> \in OverAtMost(n, c, 1)
  BY RouteStarts DEF OverAtMost
<1>2. ASSUME NEW r \in OverAtMost(n, c, 1) PROVE r = << c, 0 >>
  <2>1. r \in Node \X Nat /\ RouteOver(n, 1, c, r[1], r[2])
    BY DEF OverAtMost
  <2>2. r[1] = c /\ r[2] = 0
    BY <2>1 DEF RouteOver, IsRoute
  <2> QED BY <2>1, <2>2
<1> QED BY <1>1, <1>2

LEMMA RoutesAreRoutes ==
  ASSUME net \in Networks, NEW c \in Node
  PROVE  Routes(c) = OverAtMost(net, c, Cardinality(Node))
<1> DEFINE g == [j \in Nat |-> OverAtMost(net, c, j + 1)]
           f == UpTo(c)
<1>1. Recurs(g, c)
  <2>1. ASSUME NEW j \in Nat
        PROVE  g[j] = IF j = 0 THEN { << c, 0 >> } ELSE g[j - 1] \cup Extended(g[j - 1])
    <3>1. CASE j = 0
      BY <3>1, RoutesOverOne
    <3>2. CASE j # 0
      <4>1. j \in Nat \ { 0 } /\ j - 1 \in Nat /\ (j - 1) + 1 = j
        BY <3>2
      <4>2. g[j] = OverAtMost(net, c, j + 1) /\ g[j - 1] = OverAtMost(net, c, j)
        BY <4>1
      <4> HIDE DEF g
      <4> QED BY <3>2, <4>1, <4>2, ExtendedRoutes
    <3> QED BY <3>1, <3>2
  <2> QED BY <2>1 DEF Recurs
<1> HIDE DEF g
<1>2. Recurs(f, c)
  BY <1>1, Zenon DEF UpTo
<1> HIDE DEF f
<1> DEFINE Differ == { j \in Nat : f[j] # g[j] }
<1>3. Differ = {}
  <2> SUFFICES ASSUME Differ # {} PROVE FALSE
    OBVIOUS
  <2>1. PICK j \in Differ : \A o \in Differ : j =< o
    <3>1. Differ \in SUBSET Nat
      OBVIOUS
    <3> HIDE DEF Differ
    <3> QED BY <3>1, LeastElement, Zenon
  <2>2. j \in Nat /\ f[j] # g[j]
    OBVIOUS
  <2>3. CASE j = 0
    BY <1>1, <1>2, <2>2, <2>3 DEF Recurs
  <2>4. CASE j # 0
    <3>1. j - 1 \in Nat /\ j - 1 \notin Differ
      BY <2>1, <2>2, <2>4
    <3>2. f[j - 1] = g[j - 1]
      BY <3>1
    <3>3. f[j] = f[j - 1] \cup Extended(f[j - 1]) /\ g[j] = g[j - 1] \cup Extended(g[j - 1])
      BY <1>1, <1>2, <2>2, <2>4 DEF Recurs
    <3> QED BY <2>2, <3>2, <3>3
  <2> QED BY <2>3, <2>4
<1>4. Cardinality(Node) \in Nat \ { 0 }
  BY NodeIsFinite, FS_CardinalityType, FS_EmptySet
<1>5. Routes(c) = f[Cardinality(Node) - 1]
  BY DEF Routes, Recurs, UpTo, f
<1>6. Cardinality(Node) - 1 \in Nat /\ (Cardinality(Node) - 1) + 1 = Cardinality(Node)
  BY <1>4
<1>7. f[Cardinality(Node) - 1] = g[Cardinality(Node) - 1]
  BY <1>3, <1>6
<1> QED BY <1>5, <1>6, <1>7 DEF g

(* So what is shortest among all routes is nearest among those.            *)
LEMMA ShortestIsNearest ==
  ASSUME net \in Networks, NEW c \in Node, NEW s, Shortest(net, s, c)
  PROVE  IsNearest(s, c) /\ ServerRoutes(c) # {}
<1>1. PICK d \in Nat :
        /\ RouteTo(net, c, s, d)
        /\ \A t \in Servers(net), e \in Nat : RouteTo(net, c, t, e) => d =< e
  BY DEF Shortest
<1>2. PICK k \in 1 .. Cardinality(Node), b \in Nat : b =< d /\ RouteOver(net, k, c, s, b)
  BY <1>1, ShortRouteExists
<1>3. s \in Node /\ net.type[s] = "SERVER"
  BY DEF Shortest, Servers
<1>4. << s, b >> \in ServerRoutes(c)
  <2>1. << s, b >> \in OverAtMost(net, c, Cardinality(Node))
    BY <1>2, <1>3 DEF OverAtMost
  <2> QED BY <1>3, <2>1, RoutesAreRoutes DEF ServerRoutes
<1>5. ASSUME NEW q \in ServerRoutes(c)
      PROVE  b =< q[2]
  <2>1. /\ q[1] \in Servers(net) /\ q[2] \in Nat
        /\ \E j \in 1 .. Cardinality(Node) : RouteOver(net, j, c, q[1], q[2])
    BY RoutesAreRoutes DEF ServerRoutes, OverAtMost, Servers
  <2>2. RouteTo(net, c, q[1], q[2])
    BY <2>1 DEF RouteTo
  <2>3. d =< q[2]
    BY <1>1, <2>1, <2>2
  <2> QED BY <1>2, <2>1, <2>3
<1> DEFINE r == << s, b >>
<1>6. r \in ServerRoutes(c) /\ r[1] = s /\ \A q \in ServerRoutes(c) : r[2] =< q[2]
  BY <1>4, <1>5
<1> QED BY <1>6, Zenon DEF IsNearest

LEMMA UnreachedHasNoRoutes ==
  ASSUME net \in Networks, NEW c \in Node, Unreached(net, c)
  PROVE  ServerRoutes(c) = {}
<1> SUFFICES ASSUME NEW q \in ServerRoutes(c) PROVE FALSE
  OBVIOUS
<1>1. /\ q[1] \in Servers(net) /\ q[2] \in Nat
      /\ \E j \in 1 .. Cardinality(Node) : RouteOver(net, j, c, q[1], q[2])
  BY RoutesAreRoutes DEF ServerRoutes, OverAtMost, Servers
<1>2. RouteTo(net, c, q[1], q[2])
  BY <1>1 DEF RouteTo
<1> QED BY <1>1, <1>2 DEF Unreached

(* The cache has room for whatever is put into it.                         *)
Bounded == IsFiniteSet(DOMAIN cache) /\ Cardinality(DOMAIN cache) =< CacheSize

LEMMA NextBounded == Bounded /\ [Next]_vars => Bounded'
<1> SUFFICES ASSUME Bounded, [Next]_vars PROVE Bounded'
  OBVIOUS
<1>1. CASE cache' = cache
  BY <1>1 DEF Bounded
<1>2. CASE Found
  <2>1. PICK keys \in Kept : cache' = Put(Restricted(cache, keys), client, current.id)
    BY <1>2 DEF Found
  <2>2. DOMAIN cache' = keys \cup { client }
    BY <2>1 DEF Put, Restricted
  <2>3. IsFiniteSet(keys) /\ Cardinality(keys) \in Nat /\ Cardinality(DOMAIN cache) \in Nat
    BY FS_Subset, FS_CardinalityType DEF Kept, Bounded
  <2>4. Cardinality(keys) =< CacheSize - 1
    BY <2>3, GeographyAssumption DEF Kept
  <2>5. /\ IsFiniteSet(keys \cup { client })
        /\ Cardinality(keys \cup { client }) =< Cardinality(keys) + 1
    <3> DEFINE n == Cardinality(keys)
    <3>1. /\ IsFiniteSet(keys \cup { client })
          /\ Cardinality(keys \cup { client }) = IF client \in keys THEN n ELSE n + 1
      BY <2>3, FS_AddElement
    <3>2. n \in Nat
      BY <2>3
    <3> HIDE DEF n
    <3>3. CASE client \in keys
      BY <3>1, <3>2, <3>3 DEF n
    <3>4. CASE client \notin keys
      BY <3>1, <3>2, <3>4 DEF n
    <3> QED BY <3>3, <3>4
  <2>6. Cardinality(keys \cup { client }) \in Nat
    BY <2>5, FS_CardinalityType
  <2> QED BY <2>2, <2>3, <2>4, <2>5, <2>6, GeographyAssumption DEF Bounded
<1>3. CASE ~ Found
  BY <1>1, <1>3 DEF Next, Ask, Search, AskUnknown, AskCached, AskNew, Visit, NotReached, vars
<1> QED BY <1>2, <1>3

-----------------------------------------------------------------------------

(***************************************************************************)
(* Every variable of the search keeps its type; in particular a cached     *)
(* answer is a server of the network and belongs to a client of it.        *)
(***************************************************************************)
THEOREM TypeCorrect == Spec => []TypeOK
<1>1. Inv => TypeOK
  BY DEF Inv
<1> QED BY InitInv, NextInv, <1>1, PTL DEF Spec

(***************************************************************************)
(* findServer finds the nearest server, for every network: no route to any *)
(* server, however long and however it winds, is shorter than one to the   *)
(* answer, and where there is no answer there is no route.  The cache only *)
(* holds such answers.                                                     *)
(***************************************************************************)
THEOREM ShortestAnswersAlways == Spec => []ShortestAnswers
<1>1. Inv => ShortestAnswers
  BY DEF Inv
<1> QED BY InitInv, NextInv, <1>1, PTL DEF Spec

(***************************************************************************)
(* The same of the routes that can be enumerated: a client is told the     *)
(* server at the end of a shortest one, and nothing when there is none;    *)
(* who is not a client of the network is told nothing.                     *)
(***************************************************************************)
THEOREM AnswersNearestAlways == Spec => []AnswersNearest
<1>1. Inv => AnswersNearest
  <2> SUFFICES ASSUME Inv, pc = "idle"
               PROVE  IF client \notin Clients(net) THEN answer = NotFound
                      ELSE IF ServerRoutes(client) = {} THEN answer = NotFound
                      ELSE IsNearest(answer, client)
    BY OfType DEF AnswersNearest
  <2>1. CASE client \notin Clients(net)
    BY <2>1 DEF Inv, ShortestAnswers
  <2>2. CASE client \in Clients(net) /\ answer = NotFound
    <3>1. Unreached(net, client)
      BY <2>2 DEF Inv, ShortestAnswers
    <3>2. net \in Networks /\ client \in Node
      BY <2>2 DEF Inv, Clients
    <3> QED BY <2>2, <3>1, <3>2, UnreachedHasNoRoutes
  <2>3. CASE client \in Clients(net) /\ answer # NotFound
    <3>1. Shortest(net, answer, client)
      BY <2>3 DEF Inv, ShortestAnswers
    <3>2. net \in Networks /\ client \in Node
      BY <2>3 DEF Inv, Clients
    <3> QED BY <2>3, <3>1, <3>2, ShortestIsNearest
  <2> QED BY <2>1, <2>2, <2>3
<1> QED BY InitInv, NextInv, <1>1, PTL DEF Spec

(***************************************************************************)
(* The cache holds no more than CACHE_SIZE entries, however many clients   *)
(* ask, and each of them is still the nearest server of its client,        *)
(* whichever entries were evicted to make room.                            *)
(***************************************************************************)
THEOREM CacheSoundAlways == Spec => []CacheSound
<1>1. Init => Bounded
  BY FS_EmptySet, GeographyAssumption DEF Init, Nothing, Bounded
<1>2. Inv /\ Bounded => CacheSound
  <2> SUFFICES ASSUME Inv, Bounded, NEW c \in DOMAIN cache PROVE IsNearest(cache[c], c)
    BY DEF CacheSound, Bounded
  <2>1. Shortest(net, cache[c], c) /\ net \in Networks
    BY DEF Inv, ShortestAnswers
  <2>2. c \in Node
    BY DEF Inv, TypeOK, Of
  <2> QED BY <2>1, <2>2, ShortestIsNearest
<1> QED BY InitInv, NextInv, NextBounded, <1>1, <1>2, PTL DEF Spec

(***************************************************************************)
(* The loop comes to the nodes in the order of their distances.            *)
(***************************************************************************)
THEOREM VisitsInOrderAlways == Spec => VisitsInOrder
<1> DEFINE InOrder == Visit /\ DOMAIN distMap' # {} => current.distance =< current'.distance
<1>1. Inv /\ Inv' /\ [Next]_vars => [InOrder]_vars
  <2> SUFFICES ASSUME Inv, Inv', Visit, DOMAIN distMap' # {}
               PROVE  current.distance =< current'.distance
    OBVIOUS
  <2>1. visited'[current.id] = current.distance /\ current.id \in DOMAIN visited'
    BY VisitedAfter
  <2>2. current'.distance = distMap'[current'.id] /\ current'.id \in DOMAIN distMap'
    BY CurrentAfter DEF AtNearest
  <2>3. Ordered'
    BY VisitSteps DEF Inv, SearchInv
  <2> QED BY <2>1, <2>2, <2>3 DEF Ordered
<1>2. Spec => []Inv
  BY InitInv, NextInv, PTL DEF Spec
<1> QED BY <1>1, <1>2, PTL DEF Spec, VisitsInOrder
=============================================================================
