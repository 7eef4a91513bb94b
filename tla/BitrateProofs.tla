---------------------------- MODULE BitrateProofs ----------------------------
(***************************************************************************)
(* What the operators of Bitrate return, for every vector of bitrates,     *)
(* every throughput and every alpha.                                       *)
(***************************************************************************)
EXTENDS Bitrate, FiniteSetTheorems, SequenceTheorems, TLAPS

(* A set of places in a vector is finite, and no larger than the vector. *)
LEMMA PlacesAreFinite ==
  ASSUME NEW n \in Nat, NEW T \in SUBSET (1 .. n)
  PROVE  IsFiniteSet(T) /\ Cardinality(T) \in 0 .. n
<1>1. IsFiniteSet(1 .. n) /\ Cardinality(1 .. n) = n
  BY FS_Interval
<1>2. IsFiniteSet(T) /\ Cardinality(T) =< n
  BY <1>1, FS_Subset
<1>3. Cardinality(T) \in Nat
  BY <1>2, FS_CardinalityType
<1> QED BY <1>2, <1>3

(* How often a bitrate occurs is a number, not zero where it is an element. *)
LEMMA OccurrencesOfElement ==
  ASSUME NEW s \in Seq(Nat), NEW b
  PROVE  /\ Occurrences(s, b) \in Nat
         /\ Occurrences(s, b) # 0 <=> b \in Elements(s)
<1> DEFINE T == { i \in 1 .. Len(s) : s[i] = b }
<1>1. Len(s) \in Nat
  BY LenProperties
<1>2. IsFiniteSet(T)
  BY <1>1, PlacesAreFinite
<1>3. Cardinality(T) \in Nat /\ (Cardinality(T) = 0 <=> T = {})
  BY <1>2, FS_CardinalityType, FS_EmptySet
<1>4. T # {} <=> b \in Elements(s)
  BY DEF Elements
<1> QED BY <1>3, <1>4 DEF Occurrences

(* Sorting keeps the length and the elements, and puts them in order.      *)
LEMMA SortingKeeps ==
  ASSUME NEW s \in Seq(Nat), NEW t \in Sortings(s)
  PROVE  /\ t \in Seq(Nat)
         /\ Len(t) = Len(s)
         /\ Elements(t) = Elements(s)
         /\ IsAscending(t)
<1>1. Len(s) \in Nat /\ Elements(s) \subseteq Nat
  BY LenProperties, ElementOfSeq DEF Elements
<1>2. t \in [1 .. Len(s) -> Elements(s)]
  BY DEF Sortings
<1>3. t \in Seq(Nat) /\ Len(t) = Len(s)
  BY <1>1, <1>2, SeqDef, LenProperties
<1>4. Elements(t) \subseteq Elements(s)
  BY <1>2, <1>3 DEF Elements
<1>5. Elements(s) \subseteq Elements(t)
  <2> SUFFICES ASSUME NEW b \in Elements(s) PROVE b \in Elements(t)
    OBVIOUS
  <2>1. Occurrences(t, b) = Occurrences(s, b)
    BY DEF Sortings
  <2>2. Occurrences(s, b) # 0
    BY OccurrencesOfElement
  <2> QED BY <2>1, <2>2, <1>3, OccurrencesOfElement
<1>6. IsAscending(t)
  BY DEF Sortings
<1> QED BY <1>3, <1>4, <1>5, <1>6

(***************************************************************************)
(* The walk stops at the first bitrate that is not supported: when the     *)
(* vector is in order, what it has passed are the places from 1 to the     *)
(* number of supported ones.                                               *)
(***************************************************************************)
LEMMA WalkIsPrefix ==
  ASSUME NEW avail \in Seq(Nat), NEW throughput \in Nat
  PROVE  /\ Cardinality(Walked(avail, throughput)) \in 0 .. Len(avail)
         /\ Walked(avail, throughput) = 1 .. Cardinality(Walked(avail, throughput))
<1> DEFINE W == Walked(avail, throughput)
<1> DEFINE m == Cardinality(W)
<1>1. Len(avail) \in Nat
  BY LenProperties
<1>2. W \subseteq 1 .. Len(avail)
  BY DEF Walked
<1>3. IsFiniteSet(W) /\ m \in 0 .. Len(avail)
  BY <1>1, <1>2, PlacesAreFinite
<1>4. \A k \in W : \A j \in 1 .. k : j \in W
  BY <1>1 DEF Walked
<1>5. \A k \in W : k =< m
  <2> SUFFICES ASSUME NEW k \in W PROVE k =< m
    OBVIOUS
  <2>1. 1 .. k \subseteq W /\ k \in Nat
    BY <1>1, <1>2, <1>4
  <2>2. Cardinality(1 .. k) =< m
    BY <2>1, <1>3, FS_Subset
  <2>3. k \in Nat \ {0}
    BY <1>1, <1>2
  <2>4. Cardinality(1 .. k) = k
    BY <2>3, FS_Interval
  <2> QED BY <2>2, <2>4
<1>6. W = 1 .. m
  <2>1. W \subseteq 1 .. m
    BY <1>1, <1>2, <1>5
  <2>2. Cardinality(1 .. m) = m /\ IsFiniteSet(1 .. m)
    BY <1>3, FS_Interval
  <2> QED BY <2>1, <2>2, FS_Subset
<1> QED BY <1>3, <1>6

(***************************************************************************)
(* parse_bitrate takes the best bitrate of a sorted vector.                *)
(***************************************************************************)
LEMMA ChosenIsBest ==
  ASSUME NEW avail \in Seq(Nat), avail # << >>, IsAscending(avail),
         NEW throughput \in Nat
  PROVE  IsBest(Chosen(avail, throughput), Elements(avail), throughput)
<1> DEFINE W == Walked(avail, throughput)
<1> DEFINE m == Cardinality(W)
<1>1. Len(avail) \in Nat \ {0} /\ \A i \in 1 .. Len(avail) : avail[i] \in Nat
  BY EmptySeq, ElementOfSeq
<1>2. m \in 0 .. Len(avail) /\ W = 1 .. m
  BY WalkIsPrefix
<1>3. CASE m = 0
  <2>1. Chosen(avail, throughput) = avail[1]
    BY <1>2, <1>3 DEF Chosen
  <2>2. ~ Supports(throughput, avail[1])
    <3>1. 1 \notin W
      BY <1>2, <1>3
    <3> QED BY <3>1, <1>1 DEF Walked
  <2>3. \A i \in 1 .. Len(avail) : avail[1] =< avail[i]
    BY <1>1 DEF IsAscending
  <2> QED BY <2>1, <2>2, <2>3, <1>1 DEF IsBest, Supports, Elements
<1>4. CASE m # 0
  <2>1. Chosen(avail, throughput) = avail[m]
    BY <1>2, <1>4 DEF Chosen
  <2>2. Supports(throughput, avail[m])
    <3>1. m \in W
      BY <1>2, <1>4
    <3> QED BY <3>1, <1>1, <1>2 DEF Walked
  <2>3. \A i \in 1 .. Len(avail) : Supports(throughput, avail[i]) => avail[i] =< avail[m]
    <3> SUFFICES ASSUME NEW i \in 1 .. Len(avail), Supports(throughput, avail[i])
                 PROVE  avail[i] =< avail[m]
      OBVIOUS
    <3>1. \A j \in 1 .. i : Supports(throughput, avail[j])
      BY <1>1 DEF IsAscending, Supports
    <3>2. i \in W
      BY <3>1 DEF Walked
    <3>3. i =< m
      BY <3>2, <1>2
    <3> QED BY <3>3, <1>1, <1>2 DEF IsAscending
  <2>4. avail[m] \in Elements(avail)
    BY <1>2, <1>4 DEF Elements
  <2> QED BY <2>1, <2>2, <2>3, <2>4 DEF IsBest, Elements
<1> QED BY <1>2, <1>3, <1>4

(* The average of two throughputs is a throughput.                         *)
LEMMA AverageIsNat ==
  ASSUME NEW new \in Nat, NEW cur \in Nat
  PROVE  Average(new, cur) \in Nat
<1>1. AlphaNum * new \in Nat /\ (AlphaDen - AlphaNum) * cur \in Nat
  BY AlphaAssumption
<1>2. \A a \in Nat, d \in Nat \ {0} : a \div d \in Nat
  OBVIOUS
<1> QED BY <1>1, <1>2, AlphaAssumption DEF Average

(* The operations on a stream yield streams.                               *)
LEMMA ChosenIsElement ==
  ASSUME NEW avail \in Seq(Nat), avail # << >>, NEW throughput \in Nat
  PROVE  Chosen(avail, throughput) \in Elements(avail)
<1> DEFINE W == Walked(avail, throughput)
<1>1. Len(avail) \in Nat \ {0}
  BY EmptySeq
<1>2. Cardinality(W) \in 0 .. Len(avail) /\ W = 1 .. Cardinality(W)
  BY WalkIsPrefix
<1>3. CASE W = {}
  BY <1>1, <1>3 DEF Chosen, Elements
<1>4. CASE W # {}
  <2>1. Cardinality(W) \in 1 .. Len(avail)
    BY <1>1, <1>2, <1>4
  <2> QED BY <2>1, <1>4 DEF Chosen, Elements
<1> QED BY <1>3, <1>4

LEMMA StreamSteps ==
  ASSUME NEW st \in Stream
  PROVE  /\ \A n \in Nat : st.available_bitrates # << >> => Choose(st, n) \in Stream
         /\ \A new \in Nat : Measure(st, new) \in Stream
         /\ \A l \in Seq(Nat) : st.available_bitrates \o l # << >> =>
              \A new \in Learn(st, l) : new \in Stream
<1>1. ASSUME NEW n \in Nat, st.available_bitrates # << >>
      PROVE  Choose(st, n) \in Stream
  <2> DEFINE avail == st.available_bitrates
  <2>1. avail \in Seq(Nat) /\ st.current_throughput \in Nat
    BY DEF Stream
  <2>2. Elements(avail) \subseteq Nat
    BY <2>1, ElementOfSeq DEF Elements
  <2>3. Chosen(avail, st.current_throughput) \in Nat
    BY <1>1, <2>1, <2>2, ChosenIsElement
  <2> QED BY <2>3 DEF Choose, Stream
<1>2. ASSUME NEW new \in Nat
      PROVE  Measure(st, new) \in Stream
  BY AverageIsNat DEF Measure, Stream
<1>3. ASSUME NEW l \in Seq(Nat), st.available_bitrates \o l # << >>,
             NEW t \in Sortings(st.available_bitrates \o l)
      PROVE  [st EXCEPT !.available_bitrates = t, !.current_throughput = 3 * t[1]]
               \in Stream
  <2> DEFINE s == st.available_bitrates \o l
  <2>1. s \in Seq(Nat) /\ Len(s) \in Nat \ {0}
    BY <1>3, ConcatProperties, EmptySeq DEF Stream
  <2>2. t \in Seq(Nat) /\ Len(t) = Len(s)
    BY <2>1, SortingKeeps
  <2>3. t[1] \in Nat
    BY <2>1, <2>2, ElementOfSeq
  <2>4. 3 * t[1] \in Nat
    BY <2>3
  <2> QED BY <2>2, <2>4 DEF Stream
<1> QED BY <1>1, <1>2, <1>3 DEF Learn

(* What has been pushed behind a vector is in it. *)
LEMMA ElementsOfConcat ==
  ASSUME NEW s \in Seq(Nat), NEW t \in Seq(Nat)
  PROVE  Elements(s \o t) = Elements(s) \cup Elements(t)
<1>1. /\ Len(s) \in Nat /\ Len(t) \in Nat
      /\ Len(s \o t) = Len(s) + Len(t)
      /\ \A i \in 1 .. Len(s) + Len(t) :
           (s \o t)[i] = IF i =< Len(s) THEN s[i] ELSE t[i - Len(s)]
  BY ConcatProperties, LenProperties
<1>2. Elements(s \o t) \subseteq Elements(s) \cup Elements(t)
  BY <1>1 DEF Elements
<1>3. Elements(s) \subseteq Elements(s \o t)
  BY <1>1 DEF Elements
<1>4. Elements(t) \subseteq Elements(s \o t)
  <2> SUFFICES ASSUME NEW i \in 1 .. Len(t) PROVE t[i] \in Elements(s \o t)
    BY DEF Elements
  <2>1. Len(s) + i \in 1 .. Len(s \o t) /\ (s \o t)[Len(s) + i] = t[i]
    BY <1>1
  <2> QED BY <2>1 DEF Elements
<1> QED BY <1>2, <1>3, <1>4

(* The average lies between any bounds of the two it is made of.           *)
LEMMA AverageIsBetween ==
  ASSUME NEW new \in Nat, NEW cur \in Nat, NEW low \in Nat, NEW high \in Nat,
         low =< new, low =< cur, new =< high, cur =< high
  PROVE  low =< Average(new, cur) /\ Average(new, cur) =< high
<1> DEFINE a == AlphaNum
           b == AlphaDen - AlphaNum
<1>1. a \in Nat /\ b \in Nat /\ AlphaDen \in Nat \ { 0 } /\ AlphaDen = a + b
  BY AlphaAssumption
<1>2. \A w, x, y \in Nat : x =< y => w * x =< w * y
  <2> SUFFICES ASSUME NEW w \in Nat, NEW x \in Nat, NEW y \in Nat, x =< y
               PROVE  w * x =< w * y
    OBVIOUS
  <2>1. w * (y - x) >= 0 /\ w * (y - x) = w * y - w * x
    OBVIOUS
  <2>2. w * x \in Int /\ w * y \in Int
    OBVIOUS
  <2> QED BY <2>1, <2>2
<1>3. \A w, x, y \in Nat : (w + x) * y = w * y + x * y
  OBVIOUS
<1>4. \A w, x \in Nat : w * x \in Nat
  OBVIOUS
<1> HIDE DEF a, b
<1> DEFINE sum == a * new + b * cur
<1>5. a * low =< a * new /\ a * new =< a * high /\ b * low =< b * cur /\ b * cur =< b * high
  BY <1>1, <1>2
<1>6. /\ AlphaDen * low = a * low + b * low
      /\ AlphaDen * high = a * high + b * high
  BY <1>1, <1>3
<1>7. /\ a * low \in Nat /\ b * low \in Nat /\ a * high \in Nat /\ b * high \in Nat
      /\ a * new \in Nat /\ b * cur \in Nat
  BY <1>1, <1>4
<1>8. AlphaDen * low =< sum /\ sum =< AlphaDen * high /\ sum \in Nat
  BY <1>5, <1>6, <1>7
<1>9. Average(new, cur) = sum \div AlphaDen
  BY DEF Average, a, b
<1> HIDE DEF sum
<1>10. \A s \in Nat, d \in Nat \ { 0 }, k \in Nat : d * k =< s => k =< s \div d
  OBVIOUS
<1>11. \A s \in Nat, d \in Nat \ { 0 }, k \in Nat : s =< d * k => s \div d =< k
  OBVIOUS
<1> QED BY <1>1, <1>8, <1>9, <1>10, <1>11
=============================================================================
