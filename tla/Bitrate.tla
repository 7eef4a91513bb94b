------------------------------- MODULE Bitrate -------------------------------
(***************************************************************************)
(* The bitrate adaptation of miProxy: what a Connection knows about the    *)
(* video it streams, and the three member functions that change it         *)
(* (parse_xml, update_throughput and parse_bitrate of miProxy.cpp).        *)
(*                                                                         *)
(* A throughput is a number of half kbps: the code's 1.5 is then 3 / 2 and *)
(* every comparison is between integers.  Only the moving average rounds   *)
(* (down, where the code rounds a double).                                 *)
(***************************************************************************)
EXTENDS Integers, Sequences, FiniteSets

CONSTANTS
  AlphaNum, AlphaDen   \* the command line's alpha, as a fraction

ASSUME AlphaAssumption ==
  /\ AlphaNum \in Nat
  /\ AlphaDen \in Nat \ {0}
  /\ AlphaNum =< AlphaDen

(***************************************************************************)
(* The fields of Connection that describe the stream.  chunkname is the    *)
(* number of the request the chunk was asked for in, 0 when none was.      *)
(***************************************************************************)
Stream ==
  [ available_bitrates : Seq(Nat),
    current_throughput : Nat,
    current_bitrate    : Nat,
    chunkname          : Nat ]

NewStream ==
  [ available_bitrates |-> << >>,
    current_throughput |-> 0,
    current_bitrate    |-> 0,
    chunkname          |-> 0 ]

-----------------------------------------------------------------------------

Elements(s) == { s[i] : i \in 1 .. Len(s) }

Occurrences(s, b) == Cardinality({ i \in 1 .. Len(s) : s[i] = b })

IsAscending(s) == \A i, j \in 1 .. Len(s) : i < j => s[i] =< s[j]

(* Mistake: the vector is left as it was read. *)
Unsorted(s) == { s }

(***************************************************************************)
(* What std::sort may leave in a vector: the same bitrates, as often, in   *)
(* ascending order.  There is always exactly one such sequence.            *)
(***************************************************************************)
Sortings(s) ==
  { t \in [1 .. Len(s) -> Elements(s)] :
      /\ IsAscending(t)
      /\ \A b \in Elements(s) : Occurrences(t, b) = Occurrences(s, b) }

(***************************************************************************)
(* parse_xml: the bitrates of the document are pushed behind those the     *)
(* connection already has, the vector is sorted, and the throughput is set *)
(* to what the lowest bitrate needs.  The caller makes sure that the       *)
(* vector is not empty.                                                    *)
(***************************************************************************)
Learn(st, listing) ==
  { [st EXCEPT !.available_bitrates = t, !.current_throughput = 3 * t[1]] :
      t \in Sortings(st.available_bitrates \o listing) }

(* Mistakes: the old average keeps its full weight, or a negative one. *)
AverageHeavy(new, cur) == (AlphaNum * new + AlphaDen * cur) \div AlphaDen

AverageNegative(new, cur) == (AlphaNum * new + (AlphaNum - AlphaDen) * cur) \div AlphaDen

(***************************************************************************)
(* update_throughput: one measurement enters the moving average.           *)
(***************************************************************************)
Average(new, cur) == (AlphaNum * new + (AlphaDen - AlphaNum) * cur) \div AlphaDen

Measure(st, new) ==
  [st EXCEPT !.current_throughput = Average(new, @)]

(***************************************************************************)
(* parse_bitrate: the vector is walked from its start for as long as the   *)
(* throughput supports the bitrate; the last one reached is taken, the     *)
(* first when there is none.                                               *)
(***************************************************************************)
Supports(throughput, b) == 3 * b =< throughput

Walked(avail, throughput) ==
  { k \in 1 .. Len(avail) : \A j \in 1 .. k : Supports(throughput, avail[j]) }

Chosen(avail, throughput) ==
  LET walked == Walked(avail, throughput)
  IN  IF walked = {} THEN avail[1] ELSE avail[Cardinality(walked)]

(* Mistake: the entry keeps the name of the first chunk. *)
ChooseOnce(st, n) ==
  [st EXCEPT !.current_bitrate = Chosen(st.available_bitrates, st.current_throughput),
             !.chunkname = IF @ = 0 THEN n ELSE @]

Choose(st, n) ==
  [st EXCEPT !.current_bitrate = Chosen(st.available_bitrates, st.current_throughput),
             !.chunkname = n]

-----------------------------------------------------------------------------

(***************************************************************************)
(* The reference definition of the choice, after "Choosing a Bitrate" of   *)
(* the README: the highest bitrate offered that the throughput supports,   *)
(* and the lowest one offered when it supports none.                       *)
(***************************************************************************)
IsBest(b, offered, throughput) ==
  /\ b \in offered
  /\ \/ /\ Supports(throughput, b)
        /\ \A c \in offered : Supports(throughput, c) => c =< b
     \/ /\ \A c \in offered : ~ Supports(throughput, c)
        /\ \A c \in offered : b =< c
=============================================================================
