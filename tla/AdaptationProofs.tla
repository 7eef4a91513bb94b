--------------------------- MODULE AdaptationProofs ---------------------------
(***************************************************************************)
(* The choice of the bitrate is the best one, for every manifest, every    *)
(* sequence of measurements and every alpha.                               *)
(***************************************************************************)
EXTENDS Adaptation, BitrateProofs

(***************************************************************************)
(* What the vector of bitrates is at all times: in order, and the bitrates *)
(* of the manifest when it is not empty.                                   *)
(***************************************************************************)
VectorInv ==
  LET avail == st.available_bitrates
  IN  /\ IsAscending(avail)
      /\ avail # << >> => Elements(avail) = Elements(listing)

IInv == TypeOK /\ VectorInv /\ ChoosesBest

LEMMA InitIInv == Init => IInv
BY EmptySeq, AdaptationAssumption
   DEF Init, IInv, TypeOK, VectorInv, ChoosesBest, NewStream, Stream, IsAscending

LEMMA ManifestIInv == IInv /\ Manifest => IInv'
<1> SUFFICES ASSUME IInv, Manifest PROVE IInv'
  OBVIOUS
<1> DEFINE s == st.available_bitrates \o listing
<1>1. st \in Stream /\ st.available_bitrates \in Seq(Nat) /\ listing \in Seq(Nat) /\ listing # << >>
  BY AdaptationAssumption DEF IInv, TypeOK, Stream
<1>2. s \in Seq(Nat) /\ s # << >>
  BY <1>1, ConcatProperties, ConcatEqualIffEmpty
<1>3. PICK t \in Sortings(s) :
        st' = [st EXCEPT !.available_bitrates = t, !.current_throughput = 3 * t[1]]
  BY DEF Manifest, Learn
<1>4. st' \in Stream
  BY <1>1, <1>2, StreamSteps DEF Manifest
<1>5. st'.available_bitrates = t
  BY <1>1, <1>3 DEF Stream
<1>6. IsAscending(t) /\ Elements(t) = Elements(s)
  BY <1>2, SortingKeeps
<1>7. Elements(s) = Elements(listing)
  <2>1. Elements(s) = Elements(st.available_bitrates) \cup Elements(listing)
    BY <1>1, ElementsOfConcat
  <2>2. CASE st.available_bitrates = << >>
    BY <2>1, <2>2, EmptySeq DEF Elements
  <2>3. CASE st.available_bitrates # << >>
    BY <2>1, <2>3 DEF IInv, VectorInv
  <2> QED BY <2>2, <2>3
<1>8. TypeOK'
  BY <1>4 DEF IInv, TypeOK, Manifest, Stream
<1>9. VectorInv'
  BY <1>5, <1>6, <1>7 DEF VectorInv, Manifest
<1>10. ChoosesBest'
  BY DEF ChoosesBest, Manifest
<1> QED BY <1>8, <1>9, <1>10 DEF IInv

LEMMA RequestIInv == IInv /\ Request => IInv'
<1> SUFFICES ASSUME IInv, Request PROVE IInv'
  OBVIOUS
<1> DEFINE avail == st.available_bitrates
<1>1. st \in Stream /\ avail \in Seq(Nat) /\ avail # << >> /\ st.current_throughput \in Nat
  BY DEF IInv, TypeOK, Stream, Request
<1>2. st' \in Stream
  BY <1>1, StreamSteps DEF Request
<1>3. /\ st'.available_bitrates = avail
      /\ st'.current_throughput = st.current_throughput
      /\ st'.current_bitrate = Chosen(avail, st.current_throughput)
  BY <1>1 DEF Request, Choose, Stream
<1>4. IsBest(st'.current_bitrate, Elements(listing), st'.current_throughput)
  BY <1>1, <1>3, ChosenIsBest DEF IInv, VectorInv
<1> QED BY <1>2, <1>3, <1>4 DEF IInv, TypeOK, VectorInv, ChoosesBest, Request

LEMMA ResponseIInv == IInv /\ Response => IInv'
<1> SUFFICES ASSUME IInv, Response PROVE IInv'
  OBVIOUS
<1>1. st \in Stream
  BY DEF IInv, TypeOK
<1>2. PICK new \in Measured : st' = Measure(st, new) /\ seen' = seen \cup { new }
  BY DEF Response
<1>3. new \in Nat
  BY AdaptationAssumption
<1>4. st' \in Stream /\ st'.available_bitrates = st.available_bitrates
  BY <1>1, <1>2, <1>3, StreamSteps DEF Measure, Stream
<1> QED BY <1>2, <1>3, <1>4 DEF IInv, TypeOK, VectorInv, ChoosesBest, Response

LEMMA NextIInv == IInv /\ [Next]_vars => IInv'
<1>1. IInv /\ UNCHANGED vars => IInv'
  BY DEF IInv, TypeOK, VectorInv, ChoosesBest, vars
<1> QED BY <1>1, ManifestIInv, RequestIInv, ResponseIInv DEF Next

(***************************************************************************)
(* Whatever the manifests and the measurements are, the Connection's part  *)
(* of the stream stays what parse_bitrate and update_throughput rely on:   *)
(* bitrates and throughputs are natural numbers, since neither the sort    *)
(* nor the average leaves them.                                            *)
(***************************************************************************)
THEOREM StreamTypeCorrect == Spec => []TypeOK
<1>1. IInv => TypeOK
  BY DEF IInv
<1> QED BY InitIInv, NextIInv, <1>1, PTL DEF Spec

(***************************************************************************)
(* Every chunk is asked for at the best bitrate of the manifest, whatever  *)
(* the manifest lists in whatever order, whatever is measured, and however *)
(* often the manifest is read: parse_xml keeps the vector sorted, which is *)
(* what parse_bitrate's early exit relies on.                              *)
(***************************************************************************)
THEOREM ChoosesBestAlways == Spec => []ChoosesBest
<1>1. IInv => ChoosesBest
  BY DEF IInv
<1> QED BY InitIInv, NextIInv, <1>1, PTL DEF Spec

(***************************************************************************)
(* The average.  It is made of something as soon as a chunk can be asked   *)
(* for.                                                                    *)
(***************************************************************************)
RangeInv ==
  /\ AverageInRange
  /\ seen = {} => st.available_bitrates = << >> /\ st.chunkname = 0

LEMMA ResponseInRange == IInv /\ RangeInv /\ Response => RangeInv'
<1> SUFFICES ASSUME IInv, RangeInv, Response PROVE RangeInv'
  OBVIOUS
<1> DEFINE cur == st.current_throughput
<1>1. st \in Stream /\ cur \in Nat /\ seen \subseteq Nat /\ seen # {}
  BY DEF IInv, TypeOK, Stream, RangeInv, Response
<1>2. PICK new \in Measured : st' = Measure(st, new) /\ seen' = seen \cup { new }
  BY DEF Response
<1>3. new \in Nat
  BY AdaptationAssumption
<1>4. st'.current_throughput = Average(new, cur)
  BY <1>1, <1>2 DEF Measure, Stream
<1>5. PICK low \in seen : low =< cur
  BY <1>1 DEF RangeInv, AverageInRange
<1>6. PICK high \in seen : cur =< high
  BY <1>1 DEF RangeInv, AverageInRange
<1> DEFINE least == IF new < low THEN new ELSE low
           most  == IF new > high THEN new ELSE high
<1>7. /\ least \in seen' /\ most \in seen' /\ least \in Nat /\ most \in Nat
      /\ least =< new /\ least =< cur /\ new =< most /\ cur =< most
  BY <1>1, <1>2, <1>3, <1>5, <1>6
<1> HIDE DEF least, most, cur
<1>8. least =< Average(new, cur) /\ Average(new, cur) =< most
  BY <1>1, <1>3, <1>7, AverageIsBetween DEF cur
<1>9. AverageInRange'
  BY <1>4, <1>7, <1>8 DEF AverageInRange
<1> QED BY <1>7, <1>9 DEF RangeInv

LEMMA NextInRange == IInv /\ RangeInv /\ [Next]_vars => RangeInv'
<1> SUFFICES ASSUME IInv, RangeInv, [Next]_vars PROVE RangeInv'
  OBVIOUS
<1>1. CASE UNCHANGED vars
  BY <1>1 DEF RangeInv, AverageInRange, vars
<1>2. CASE Manifest
  <2>1. st'.current_throughput \in Nat
    BY <1>2, ManifestIInv DEF IInv, TypeOK, Stream
  <2> QED BY <1>2, <2>1 DEF Manifest, RangeInv, AverageInRange
<1>3. CASE Request
  <2>1. st \in Stream
    BY DEF IInv, TypeOK
  <2>2. st'.current_throughput = st.current_throughput /\ seen' = seen /\ seen # {}
    BY <1>3, <2>1 DEF Request, Choose, Stream, RangeInv
  <2> QED BY <2>2 DEF RangeInv, AverageInRange
<1>4. CASE Response
  BY <1>4, ResponseInRange
<1> QED BY <1>1, <1>2, <1>3, <1>4 DEF Next

(***************************************************************************)
(* update_throughput keeps the throughput within the range of the          *)
(* measurements and of the start that parse_xml gives, for every alpha.    *)
(***************************************************************************)
THEOREM AverageInRangeAlways == Spec => []AverageInRange
<1>1. Init => RangeInv
  BY DEF Init, RangeInv, AverageInRange, NewStream
<1>2. RangeInv => AverageInRange
  BY DEF RangeInv
<1> QED BY InitIInv, NextIInv, NextInRange, <1>1, <1>2, PTL DEF Spec
=============================================================================
