------------------------ MODULE MiProxyLockstepProofs ------------------------
(***************************************************************************)
(* The dialogue of a browser with the web server through miProxy, as long  *)
(* as the browser keeps one connection and nobody closes anything: each    *)
(* request, and the answer to it, is in exactly one place at a time, and   *)
(* everything else is empty.                                               *)
(***************************************************************************)
EXTENDS MiProxyProofs

-----------------------------------------------------------------------------

(* What is moved from one end of a queue to the next stays in order. *)
LEMMA MovedOn ==
  ASSUME NEW p \in Message, NEW q \in Message, NEW k \in 0 .. Len(q)
  PROVE  /\ SubSeq(q, 1, k) \in Message /\ SubSeq(q, k + 1, Len(q)) \in Message
         /\ (p \o SubSeq(q, 1, k)) \o SubSeq(q, k + 1, Len(q)) = p \o q
<1>1. Len(q) \in Nat
  BY LenProperties DEF Message
<1>2. /\ 1 \in 1 .. Len(q) + 1 /\ k \in 1 - 1 .. Len(q) /\ Len(q) \in k .. Len(q)
      /\ 1 \in Nat \ {0} /\ k + 1 \in Nat \ {0} /\ Len(q) \in 0 .. Len(q)
  BY <1>1
<1>3. SubSeq(q, 1, k) \in Message /\ SubSeq(q, k + 1, Len(q)) \in Message
  BY <1>2, PartOfMessage
<1>4. SubSeq(q, 1, k) \o SubSeq(q, k + 1, Len(q)) = SubSeq(q, 1, Len(q))
  BY <1>2, ConcatAdjacentSubSeq DEF Message
<1>5. SubSeq(q, 1, Len(q)) = q
  BY SubSeqFull DEF Message
<1>6. (p \o SubSeq(q, 1, k)) \o SubSeq(q, k + 1, Len(q))
        = p \o (SubSeq(q, 1, k) \o SubSeq(q, k + 1, Len(q)))
  <2>1. \A a, b \in Seq(Unit) : (p \o a) \o b = p \o (a \o b)
    BY ConcatAssociative DEF Message
  <2> QED BY <1>3, <2>1 DEF Message
<1> QED BY <1>3, <1>4, <1>5, <1>6

(* The beginning of a message. *)
LEMMA BeginningIs ==
  ASSUME NEW p \in Message, NEW q \in Message
  PROVE  /\ p \o q \in Message
         /\ Len(p) \in Nat /\ Len(q) \in Nat /\ Len(p) =< Len(p \o q)
         /\ \A i \in 1 .. Len(p) : i \in 1 .. Len(p \o q) /\ (p \o q)[i] = p[i]
         /\ p \o q = << >> <=> p = << >> /\ q = << >>
         /\ Len(p) = Len(p \o q) => q = << >> /\ p \o q = p
<1>1. /\ Len(p) \in Nat /\ Len(q) \in Nat /\ p \o q \in Message
      /\ Len(p \o q) = Len(p) + Len(q)
      /\ \A i \in 1 .. Len(p) + Len(q) : (p \o q)[i] = IF i =< Len(p) THEN p[i] ELSE q[i - Len(p)]
  BY ConcatProperties, LenProperties DEF Message
<1>2. p \o q = << >> <=> p = << >> /\ q = << >>
  BY ConcatEqualIffEmpty DEF Message
<1>3. ASSUME Len(p) = Len(p \o q) PROVE q = << >> /\ p \o q = p
  <2>1. Len(q) = 0
    BY <1>1, <1>3
  <2>2. q = << >>
    BY <2>1, EmptySeq DEF Message
  <2> QED BY <2>2, ConcatEmptySeq DEF Message
<1> QED BY <1>1, <1>2, <1>3

(* First is the place where the part is found and not before. *)
LEMMA FirstIs ==
  ASSUME NEW msg, Len(msg) \in Nat, NEW part, NEW i \in 1 .. Len(msg), msg[i].part = part,
         \A j \in 1 .. i - 1 : msg[j].part # part
  PROVE  First(msg, part) = i
<1> DEFINE P(x) == msg[x].part = part /\ \A j \in 1 .. x - 1 : msg[j].part # part
<1>1. \A x \in 1 .. Len(msg) : P(x) => x = i
  <2> SUFFICES ASSUME NEW x \in 1 .. Len(msg), P(x) PROVE x = i
    OBVIOUS
  <2>1. ~ (x < i)
    BY SMT
  <2>2. ~ (i < x)
    BY SMT
  <2> QED BY <2>1, <2>2
<1>2. P(i)
  OBVIOUS
<1>3. First(msg, part) = CHOOSE x \in 1 .. Len(msg) : P(x)
  BY DEF First
<1> HIDE DEF P
<1> QED BY <1>1, <1>2, <1>3

-----------------------------------------------------------------------------

(***************************************************************************)
(* The shape of messages.                                                  *)
(***************************************************************************)
IsRequest(q, u) ==
  /\ q \in Message
  /\ Len(q) = 2
  /\ q[1] = [u EXCEPT !.part = "line"]
  /\ q[2].part = "end" /\ q[2].n = u.n

LEMMA ResponsePartsAre ==
  ASSUME NEW kind
  PROVE  LET parts == ResponseParts(kind)
         IN  /\ parts \in Seq(Parts)
             /\ Len(parts) = 2 + BodyLength(kind)
             /\ parts[1] = "length" /\ parts[2] = "blank"
             /\ \A i \in 3 .. Len(parts) : parts[i] = "body"
<1> DEFINE body == [i \in 1 .. BodyLength(kind) |-> "body"]
           head == << "length", "blank" >>
<1>0. BodyLength(kind) \in Nat
  BY DEF BodyLength
<1>1. body \in Seq(Parts) /\ Len(body) = BodyLength(kind)
  <2>1. body \in Seq(Parts)
    BY <1>0, SeqDef DEF Parts
  <2>2. DOMAIN body = 1 .. BodyLength(kind)
    OBVIOUS
  <2>3. DOMAIN body = 1 .. Len(body) /\ Len(body) \in Nat
    BY <2>1, LenProperties
  <2>4. \A m, n \in Nat : 1 .. m = 1 .. n => m = n
    BY SMT
  <2> HIDE DEF body
  <2> QED BY <1>0, <2>1, <2>2, <2>3, <2>4
<1>2. head \in Seq(Parts) /\ Len(head) = 2 /\ head[1] = "length" /\ head[2] = "blank"
  BY DEF Parts
<1>3. \A i \in 1 .. BodyLength(kind) : body[i] = "body"
  OBVIOUS
<1>4. ResponseParts(kind) = head \o body
  BY DEF ResponseParts
<1> HIDE DEF head, body
<1>5. /\ head \o body \in Seq(Parts)
      /\ Len(head \o body) = 2 + BodyLength(kind)
      /\ \A i \in 1 .. 2 + BodyLength(kind) :
           (head \o body)[i] = IF i =< 2 THEN head[i] ELSE body[i - 2]
  <2>1. /\ head \o body \in Seq(Parts)
        /\ Len(head \o body) = Len(head) + Len(body)
        /\ \A i \in 1 .. Len(head) + Len(body) :
             (head \o body)[i] = IF i <= Len(head) THEN head[i] ELSE body[i - Len(head)]
    BY <1>1, <1>2, ConcatProperties
  <2> QED BY <1>1, <1>2, <2>1
<1>6. 1 \in 1 .. 2 + BodyLength(kind) /\ 2 \in 1 .. 2 + BodyLength(kind)
      /\ \A i \in 3 .. 2 + BodyLength(kind) :
            i \in 1 .. 2 + BodyLength(kind) /\ i - 2 \in 1 .. BodyLength(kind) /\ ~ (i =< 2)
  BY <1>0
<1>7. 1 =< 2 /\ 2 =< 2
  OBVIOUS
<1>8. (head \o body)[1] = "length" /\ (head \o body)[2] = "blank"
  BY <1>2, <1>5, <1>6, <1>7
<1>9. \A i \in 3 .. Len(head \o body) : (head \o body)[i] = "body"
  BY <1>3, <1>5, <1>6
<1> QED BY <1>4, <1>5, <1>8, <1>9

LEMMA WholeIs ==
  ASSUME NEW u \in Unit, NEW parts \in Seq(Parts)
  PROVE  /\ Whole(u, parts) \in Message
         /\ Len(Whole(u, parts)) = Len(parts)
         /\ \A i \in 1 .. Len(parts) : Whole(u, parts)[i] = [u EXCEPT !.part = parts[i]]
         /\ \A i \in 1 .. Len(parts) :
              /\ Whole(u, parts)[i].ip = u.ip /\ Whole(u, parts)[i].n = u.n
              /\ Whole(u, parts)[i].kind = u.kind /\ Whole(u, parts)[i].br = u.br
              /\ Whole(u, parts)[i].part = parts[i]
<1>1. Len(parts) \in Nat
  BY LenProperties
<1>2. Whole(u, parts) \in Message
  BY WholeIsMessage
<1>3. DOMAIN Whole(u, parts) = 1 .. Len(parts)
  BY DEF Whole
<1>4. DOMAIN Whole(u, parts) = 1 .. Len(Whole(u, parts)) /\ Len(Whole(u, parts)) \in Nat
  BY <1>2, LenProperties DEF Message
<1>5. Len(Whole(u, parts)) = Len(parts)
  BY <1>1, <1>3, <1>4
<1>6. \A i \in 1 .. Len(parts) : Whole(u, parts)[i] = [u EXCEPT !.part = parts[i]]
  BY DEF Whole
<1>7. \A i \in 1 .. Len(parts) :
        LET v == [u EXCEPT !.part = parts[i]]
        IN  v.ip = u.ip /\ v.n = u.n /\ v.kind = u.kind /\ v.br = u.br /\ v.part = parts[i]
  BY DEF Unit
<1> QED BY <1>2, <1>5, <1>6, <1>7

(* A request, read to the part that ends it, was read whole. *)
LEMMA RequestIs ==
  ASSUME NEW u \in Unit, NEW q, IsRequest(q, u)
  PROVE  /\ q \in Message /\ q # << >> /\ Has(q, "end")
         /\ q[1] = [u EXCEPT !.part = "line"] /\ q[1].part = "line"
         /\ q[1].ip = u.ip /\ q[1].n = u.n /\ q[1].kind = u.kind /\ q[1].br = u.br
         /\ AfterRequest(q) = << >>
<1>1. q \in Message /\ Len(q) = 2 /\ 1 \in 1 .. Len(q) /\ 2 \in 1 .. Len(q)
  BY DEF IsRequest
<1>2. q # << >>
  BY <1>1, EmptySeq
<1>3. Has(q, "end")
  BY <1>1 DEF IsRequest, Has
<1>4. /\ q[1].part = "line" /\ q[1].ip = u.ip /\ q[1].n = u.n
      /\ q[1].kind = u.kind /\ q[1].br = u.br
  BY DEF IsRequest, Unit
<1>5. First(q, "end") = 2
  <2>1. \A j \in 1 .. 2 - 1 : q[j].part # "end"
    BY <1>4
  <2> QED BY <1>1, <2>1, FirstIs DEF IsRequest
<1>6. AfterRequest(q) = << >>
  BY <1>1, <1>5, SubSeqEmpty DEF AfterRequest
<1> QED BY <1>1, <1>2, <1>3, <1>4, <1>6 DEF IsRequest

LEMMA RequestRead ==
  ASSUME NEW u \in Unit, NEW p \in Message, NEW r \in Message, IsRequest(p \o r, u),
         Has(p, "end")
  PROVE  r = << >> /\ IsRequest(p, u)
<1>1. /\ Len(p) \in Nat /\ Len(p) =< Len(p \o r)
      /\ \A i \in 1 .. Len(p) : i \in 1 .. Len(p \o r) /\ (p \o r)[i] = p[i]
  BY BeginningIs
<1>2. (p \o r)[1].part = "line" /\ Len(p \o r) = 2
  BY RequestIs DEF IsRequest
<1>3. PICK i \in 1 .. Len(p) : p[i].part = "end"
  BY DEF Has
<1>4. i # 1
  BY <1>1, <1>2, <1>3
<1>5. Len(p) = Len(p \o r)
  <2>1. i \in Nat /\ 1 =< i /\ i =< Len(p)
    BY <1>1, <1>3
  <2>2. 2 =< Len(p)
    BY <1>1, <1>4, <2>1
  <2>3. Len(p) =< 2
    BY <1>1, <1>2
  <2> QED BY <1>1, <1>2, <2>2, <2>3
<1> QED BY <1>5, BeginningIs

-----------------------------------------------------------------------------

(***************************************************************************)
(* The beginning of a response: its length is known when the empty line    *)
(* is there, and it is the right one.                                      *)
(***************************************************************************)
Shapes(kind) == { ResponseParts(kind), NoBodyParts }

LEMMA ShapesAre ==
  ASSUME NEW kind, NEW parts \in Shapes(kind)
  PROVE  /\ parts \in Seq(Parts)
         /\ Len(parts) \in Nat /\ 2 =< Len(parts)
         /\ parts[2] = "blank"
         /\ \A i \in 1 .. Len(parts) : parts[i] # "line" /\ parts[i] # "end"
         /\ parts = NoBodyParts => Len(parts) = 2 /\ parts[1] = "plain"
         /\ parts = ResponseParts(kind) => Len(parts) = 2 + BodyLength(kind) /\ parts[1] = "length"
<1>1. BodyLength(kind) \in Nat
  BY DEF BodyLength
<1>2. CASE parts = NoBodyParts
  <2>1. parts \in Seq(Parts) /\ Len(parts) = 2 /\ parts[1] = "plain" /\ parts[2] = "blank"
    BY <1>2, PartsAreParts DEF NoBodyParts
  <2>2. parts # ResponseParts(kind)
    BY <2>1, ResponsePartsAre
  <2> QED BY <2>1, <2>2
<1>3. CASE parts = ResponseParts(kind)
  <2>1. /\ parts \in Seq(Parts) /\ Len(parts) = 2 + BodyLength(kind)
        /\ parts[1] = "length" /\ parts[2] = "blank"
        /\ \A i \in 3 .. Len(parts) : parts[i] = "body"
    BY <1>3, ResponsePartsAre
  <2>2. parts # NoBodyParts
    BY <2>1 DEF NoBodyParts
  <2>3. \A i \in 1 .. Len(parts) : parts[i] # "line" /\ parts[i] # "end"
    BY <1>1, <2>1
  <2> QED BY <1>1, <2>1, <2>2, <2>3
<1> QED BY <1>2, <1>3 DEF Shapes

LEMMA LengthKnown ==
  ASSUME NEW u \in Unit, NEW parts \in Shapes(u.kind),
         NEW p \in Message, NEW r \in Message, p \o r = Whole(u, parts)
  PROVE  /\ ParseHeader(p) \in { 0, Len(ResponseParts(u.kind)) }
         /\ parts = NoBodyParts => ParseHeader(p) = 0
<1>1. /\ Len(p) \in Nat /\ Len(p) =< Len(p \o r)
      /\ \A i \in 1 .. Len(p) : i \in 1 .. Len(p \o r) /\ (p \o r)[i] = p[i]
  BY BeginningIs
<1>2. /\ parts \in Seq(Parts) /\ Len(parts) \in Nat /\ 2 =< Len(parts) /\ parts[2] = "blank"
      /\ parts = NoBodyParts => Len(parts) = 2 /\ parts[1] = "plain"
      /\ parts = ResponseParts(u.kind) =>
           Len(parts) = 2 + BodyLength(u.kind) /\ parts[1] = "length"
  BY ShapesAre
<1>3. /\ Len(p \o r) = Len(parts)
      /\ \A i \in 1 .. Len(parts) : (p \o r)[i].part = parts[i] /\ (p \o r)[i].kind = u.kind
  BY <1>2, WholeIs
<1>4. \A i \in 1 .. Len(p) : p[i].part = parts[i] /\ p[i].kind = u.kind /\ i \in 1 .. Len(parts)
  BY <1>1, <1>3
<1>5. CASE parts = NoBodyParts
  <2>1. ~ Has(p, "length")
    <3> SUFFICES ASSUME NEW i \in 1 .. Len(p), p[i].part = "length" PROVE FALSE
      BY DEF Has
    <3>1. parts[i] = "length" /\ i \in 1 .. Len(parts)
      BY <1>4
    <3>2. Len(parts) = 2 /\ parts[1] = "plain" /\ parts[2] = "blank"
      BY <1>2, <1>5
    <3>3. i = 1 \/ i = 2
      BY <3>1, <3>2
    <3> QED BY <3>1, <3>2, <3>3
  <2>2. ParseHeader(p) = 0
    BY <2>1 DEF ParseHeader
  <2> QED BY <2>2
<1>6. CASE parts = ResponseParts(u.kind) /\ parts # NoBodyParts
  <2>1. CASE Len(p) < 2
    <3>1. ~ Has(p, "blank")
      BY <1>1, <1>2, <1>4, <1>6, <2>1 DEF Has
    <3>2. ParseHeader(p) = 0
      BY <3>1 DEF ParseHeader
    <3> QED BY <1>6, <3>2
  <2>2. CASE 2 =< Len(p)
    <3>1. 1 \in 1 .. Len(p) /\ 2 \in 1 .. Len(p)
      BY <1>1, <2>2
    <3>2. p[1].part = "length" /\ p[2].part = "blank" /\ p[1].kind = u.kind
      BY <1>2, <1>4, <1>6, <3>1
    <3>3. First(p, "length") = 1 /\ First(p, "blank") = 2
      BY <1>1, <3>1, <3>2, FirstIs
    <3>4. Has(p, "length") /\ Has(p, "blank")
      BY <3>1, <3>2 DEF Has
    <3>5. ParseHeader(p) = 2 + BodyLength(u.kind)
      BY <3>2, <3>3, <3>4 DEF ParseHeader
    <3> QED BY <1>2, <1>6, <3>5
  <2> QED BY <1>1, <2>1, <2>2
<1> QED BY <1>5, <1>6 DEF Shapes

(* What handle_server_connection takes for complete is the whole response. *)
LEMMA CompleteIs ==
  ASSUME NEW u \in Unit, NEW parts \in Shapes(u.kind),
         NEW p \in Message, NEW r \in Message, NEW c,
         p \o r = Whole(u, parts),
         c.server_message_len \in { 0, Len(ResponseParts(u.kind)) },
         parts = NoBodyParts => c.server_message_len = 0
  PROVE  /\ Expected(c, p) \in { 0, Len(ResponseParts(u.kind)) }
         /\ parts = NoBodyParts => Expected(c, p) = 0
         /\ IsComplete(c, p) =>
              r = << >> /\ parts = ResponseParts(u.kind) /\ p = Whole(u, ResponseParts(u.kind))
<1>1. /\ ParseHeader(p) \in { 0, Len(ResponseParts(u.kind)) }
      /\ parts = NoBodyParts => ParseHeader(p) = 0
  BY LengthKnown
<1>2. /\ Expected(c, p) \in { 0, Len(ResponseParts(u.kind)) }
      /\ parts = NoBodyParts => Expected(c, p) = 0
  BY <1>1 DEF Expected
<1>3. ASSUME IsComplete(c, p)
      PROVE  r = << >> /\ parts = ResponseParts(u.kind) /\ p = Whole(u, ResponseParts(u.kind))
  <2>1. Expected(c, p) # 0 /\ Len(p) >= Expected(c, p)
    BY <1>3 DEF IsComplete
  <2>2. parts = ResponseParts(u.kind) /\ Expected(c, p) = Len(parts)
    BY <1>2, <2>1 DEF Shapes
  <2>3. Len(p \o r) = Len(parts) /\ Len(parts) \in Nat
    BY ShapesAre, WholeIs
  <2>4. Len(p) \in Nat /\ Len(p) =< Len(p \o r)
    BY BeginningIs
  <2>5. Len(p) = Len(p \o r)
    BY <2>1, <2>2, <2>3, <2>4
  <2>6. r = << >> /\ p \o r = p
    BY <2>5, BeginningIs
  <2> QED BY <2>2, <2>6
<1> QED BY <1>2, <1>3

IsAll(u, p, r) == r = << >> /\ p = Whole(u, ResponseParts(u.kind))

LEMMA CompleteWhole ==
  ASSUME NEW u \in Unit, NEW parts \in Shapes(u.kind),
         NEW p \in Message, NEW r \in Message, NEW c,
         p \o r = Whole(u, parts),
         c.server_message_len \in { 0, Len(ResponseParts(u.kind)) },
         parts = NoBodyParts => c.server_message_len = 0,
         IsComplete(c, p)
  PROVE  IsAll(u, p, r)
BY CompleteIs DEF IsAll

-----------------------------------------------------------------------------

(* What the proxy finds in a whole response. *)
LEMMA ResponseIs ==
  ASSUME NEW u \in Unit, NEW w, w = Whole(u, ResponseParts(u.kind))
  PROVE  /\ w \in Message /\ w # << >> /\ Len(w) \in Nat /\ 2 =< Len(w)
         /\ \A i \in 1 .. Len(w) : w[i].ip = u.ip /\ w[i].n = u.n /\ w[i].kind = u.kind
         /\ w[1].n = u.n
         /\ w[Len(w)].n = u.n /\ w[Len(w)].br = u.br
         /\ IsVideo(w) <=> u.kind = "chunk"
         /\ IsXml(w) <=> u.kind \in { "manifest", "nolist" }
<1> DEFINE parts == ResponseParts(u.kind)
<1>1. /\ parts \in Seq(Parts) /\ Len(parts) \in Nat /\ 2 =< Len(parts)
      /\ parts[1] = "length" /\ parts[2] = "blank"
  BY ShapesAre, ResponsePartsAre DEF Shapes
<1> HIDE DEF parts
<1>2. /\ w \in Message /\ Len(w) = Len(parts)
      /\ \A i \in 1 .. Len(parts) :
           /\ w[i].ip = u.ip /\ w[i].n = u.n /\ w[i].kind = u.kind /\ w[i].br = u.br
           /\ w[i].part = parts[i]
  BY <1>1, WholeIs DEF parts
<1>3. 1 \in 1 .. Len(w) /\ 2 \in 1 .. Len(w) /\ Len(w) \in 1 .. Len(w)
  BY <1>1, <1>2
<1>4. w # << >>
  BY <1>1, <1>2, EmptySeq
<1>5. w[1].part = "length" /\ w[2].part = "blank"
  BY <1>1, <1>2, <1>3
<1>6. First(w, "blank") = 2 /\ Has(w, "blank")
  <2>1. \A j \in 1 .. 2 - 1 : w[j].part # "blank"
    BY <1>5
  <2> QED BY <1>1, <1>2, <1>3, <1>5, <2>1, FirstIs DEF Has
<1>7. IsVideo(w) <=> u.kind = "chunk"
  <2>1. u.kind = "chunk" => IsVideo(w)
    <3>1. 1 \in 1 .. 2
      OBVIOUS
    <3> QED BY <1>2, <1>3, <1>5, <1>6, <3>1 DEF IsVideo
  <2>2. IsVideo(w) => u.kind = "chunk"
    <3>1. \A i \in 1 .. 2 : i \in 1 .. Len(w)
      BY <1>1, <1>2
    <3> QED BY <1>2, <1>6, <3>1 DEF IsVideo
  <2> QED BY <2>1, <2>2
<1>8. IsXml(w) <=> u.kind \in { "manifest", "nolist" }
  BY <1>2, <1>3, <1>5 DEF IsXml
<1> QED BY <1>1, <1>2, <1>3, <1>4, <1>7, <1>8

AnswerTo(u, w) == \A i \in 1 .. Len(w) : w[i].ip = u.ip /\ w[i].n = u.n /\ w[i].kind = u.kind

LEMMA AnswerUnits ==
  ASSUME NEW u \in Unit, NEW w, w = Whole(u, ResponseParts(u.kind))
  PROVE  AnswerTo(u, w)
BY ResponseIs DEF AnswerTo

(* The manifest gives its bitrates once. *)
LEMMA ListedOnce ==
  ASSUME NEW u \in Unit, u.kind = "manifest"
  PROVE  Listed(Whole(u, ResponseParts(u.kind))) = Listing
<1> DEFINE parts == ResponseParts(u.kind)
           w == Whole(u, parts)
           bodies == { i \in 1 .. Len(w) : w[i].part = "body" /\ w[i].kind = "manifest" }
           m == Len(Listing)
<1>1. /\ parts \in Seq(Parts) /\ Len(parts) = 3
      /\ parts[1] = "length" /\ parts[2] = "blank" /\ parts[3] = "body"
  <2>1. BodyLength(u.kind) = 1
    BY DEF BodyLength
  <2>2. /\ parts \in Seq(Parts) /\ Len(parts) = 2 + 1
        /\ parts[1] = "length" /\ parts[2] = "blank"
        /\ \A i \in 3 .. Len(parts) : parts[i] = "body"
    BY <2>1, ResponsePartsAre
  <2> HIDE DEF parts
  <2>3. Len(parts) = 3
    BY <2>2
  <2>4. 3 \in 3 .. 3
    OBVIOUS
  <2> QED BY <2>2, <2>3, <2>4
<1>2. Len(w) = 3 /\ \A i \in 1 .. 3 : w[i].part = parts[i] /\ w[i].kind = "manifest"
  BY <1>1, WholeIs
<1> HIDE DEF w, parts
<1>3. bodies = { 3 }
  <2>1. \A i \in 1 .. 3 : i = 1 \/ i = 2 \/ i = 3
    OBVIOUS
  <2>2. 3 \in 1 .. 3
    OBVIOUS
  <2> QED BY <1>1, <1>2, <2>1, <2>2
<1>4. Documents(w) = 1
  BY <1>3, FS_Singleton DEF Documents
<1>5. Listing \in Seq(Nat) /\ m \in Nat
  BY MiProxyAssumption, LenProperties
<1>6. Listed(w) = [i \in 1 .. m |-> Listing[((i - 1) % m) + 1]]
  BY <1>4, <1>5 DEF Listed
<1>7. \A i \in 1 .. m : ((i - 1) % m) + 1 = i
  <2> HIDE DEF m
  <2>1. \A i \in 1 .. m : m \in Nat \ {0} /\ i - 1 \in 0 .. m - 1
    BY <1>5
  <2>2. \A x \in 0 .. m - 1 : m \in Nat \ {0} => x % m = x
    BY <1>5, SMT
  <2> QED BY <1>5, <2>1, <2>2
<1>8. Listing = [i \in 1 .. m |-> Listing[i]]
  BY <1>5, LenProperties
<1>9. [i \in 1 .. m |-> Listing[((i - 1) % m) + 1]] = [i \in 1 .. m |-> Listing[i]]
  BY <1>7
<1> QED BY <1>6, <1>8, <1>9 DEF w, parts

(* The browser knows a response when it has all of it, and not before. *)
LEMMA HeardIs ==
  ASSUME NEW u \in Unit, NEW p \in Message, NEW r \in Message,
         p \o r = Whole(u, ResponseParts(u.kind))
  PROVE  /\ \A len \in ResponseLength(p) :
              r = << >> /\ p = Whole(u, ResponseParts(u.kind)) /\ Behind(p, len) = << >>
         /\ p = Whole(u, ResponseParts(u.kind)) => ResponseLength(p) # {}
<1> DEFINE parts == ResponseParts(u.kind)
           w == Whole(u, parts)
<1>1. /\ parts \in Seq(Parts) /\ Len(parts) \in Nat /\ 2 =< Len(parts) /\ parts[1] = "length"
      /\ Len(w) = Len(parts)
      /\ \A i \in 1 .. Len(parts) : w[i] = [u EXCEPT !.part = parts[i]]
  BY ShapesAre, ResponsePartsAre, WholeIs DEF Shapes
<1>2. /\ Len(p) \in Nat /\ Len(p) =< Len(w) /\ \A i \in 1 .. Len(p) : w[i] = p[i]
      /\ Len(p) = Len(w) => r = << >> /\ p = w
  <2>1. p \o r = w
    OBVIOUS
  <2> HIDE DEF w
  <2>2. /\ Len(p) \in Nat /\ Len(p) =< Len(p \o r)
        /\ \A i \in 1 .. Len(p) : (p \o r)[i] = p[i]
        /\ Len(p) = Len(p \o r) => r = << >> /\ p \o r = p
    BY BeginningIs
  <2> QED BY <2>1, <2>2
<1>3. ASSUME 1 =< Len(p)
      PROVE  /\ p[1] = [u EXCEPT !.part = "length"] /\ p[1] \in Unit
             /\ p[1].kind = u.kind /\ p[1].part = "length"
             /\ \A q : [p[1] EXCEPT !.part = q] = [u EXCEPT !.part = q]
  <2>1. 1 \in 1 .. Len(p) /\ 1 \in 1 .. Len(parts)
    BY <1>1, <1>2, <1>3
  <2>2. p[1] = [u EXCEPT !.part = "length"]
    BY <1>1, <1>2, <2>1
  <2>3. [u EXCEPT !.part = "length"] \in Unit
    BY DEF Unit, Parts
  <2> QED BY <2>2, <2>3 DEF Unit
<1>4. ASSUME 1 =< Len(p) PROVE Whole(p[1], ResponseParts(p[1].kind)) = w
  BY <1>3, <1>4 DEF Whole
<1> HIDE DEF w, parts
<1>5. ASSUME NEW len \in ResponseLength(p)
      PROVE  r = << >> /\ p = w /\ Behind(p, len) = << >>
  <2>1. /\ len \in 1 .. Len(p)
        /\ SubSeq(p, 1, len) \in { Whole(p[1], ResponseParts(p[1].kind)),
                                   Whole(p[1], NoBodyParts) }
    BY <1>5 DEF ResponseLength
  <2>2. 1 =< Len(p) /\ len \in Nat /\ len =< Len(p) /\ 1 =< len
    BY <1>2, <2>1
  <2>3. /\ Len(SubSeq(p, 1, len)) = len
        /\ SubSeq(p, 1, len)[1] = p[1]
    <3>1. \A i \in 1 .. len : p[i] \in Unit
      <4>1. \A i \in 1 .. len : i \in 1 .. Len(p)
        BY <1>2, <2>2
      <4> QED BY <4>1, ElementOfSeq DEF Message
    <3>2. /\ Len(SubSeq(p, 1, len)) = IF 1 <= len THEN len - 1 + 1 ELSE 0
          /\ \A i \in 1 .. len - 1 + 1 : SubSeq(p, 1, len)[i] = p[1 + i - 1]
      BY <2>2, <3>1, SubSeqProperties
    <3>3. 1 \in 1 .. len - 1 + 1 /\ 1 + 1 - 1 = 1 /\ len - 1 + 1 = len
      BY <2>2
    <3> QED BY <2>2, <3>2, <3>3
  <2>4. SubSeq(p, 1, len) # Whole(p[1], NoBodyParts)
    <3>1. 1 \in 1 .. Len(NoBodyParts) /\ NoBodyParts[1] = "plain"
      BY DEF NoBodyParts
    <3>2. Whole(p[1], NoBodyParts)[1].part = "plain"
      BY <1>3, <2>2, <3>1, PartsAreParts, WholeIs
    <3> QED BY <1>3, <2>2, <2>3, <3>2
  <2>5. SubSeq(p, 1, len) = w
    BY <1>4, <2>1, <2>2, <2>4
  <2>6. len = Len(w)
    BY <2>3, <2>5
  <2>7. len = Len(p) /\ Len(p) = Len(w)
    BY <1>1, <1>2, <2>2, <2>6
  <2>8. Behind(p, len) = << >>
    BY <1>2, <2>7, SubSeqEmpty DEF Behind
  <2> QED BY <1>2, <2>7, <2>8
<1>6. ASSUME p = w PROVE ResponseLength(p) # {}
  <2>1. 1 =< Len(p) /\ Len(p) \in 1 .. Len(p)
    BY <1>1, <1>2, <1>6
  <2>2. SubSeq(p, 1, Len(p)) = p
    BY SubSeqFull DEF Message
  <2>3. Len(p) \in ResponseLength(p)
    BY <1>4, <1>6, <2>1, <2>2 DEF ResponseLength
  <2> QED BY <2>3
<1> QED BY <1>5, <1>6 DEF w, parts

-----------------------------------------------------------------------------

(***************************************************************************)
(* A browser keeps one connection, and nobody but the proxy closes one.    *)
(***************************************************************************)
Quiet ==
  /\ MaxOpen =< 1
  /\ { "clientClose", "serverClose", "serverAbort" } \cap Faults = {}

(***************************************************************************)
(* Every descriptor that is not free is that of an entry, and open at the  *)
(* other end; a browser that waits in the backlog has no entry yet.        *)
(***************************************************************************)
InUse(fd) ==
  /\ sock[fd].peer = "open"
  /\ sock[fd].ip \in clients
  /\ sock[fd].kind = "client" => conn[sock[fd].ip].client_socket = fd
  /\ sock[fd].kind = "server" => conn[sock[fd].ip].server_socket = fd

SocketsInUse == \A fd \in Fd : sock[fd].kind # "free" => InUse(fd)
NobodyElseAsks == \A fd \in Fd : sock[fd].kind # "client" => asked[fd] = 0 /\ got[fd] = << >>
WaitOnce ==
  /\ \A i \in 1 .. Len(backlog) : backlog[i] \notin clients
  /\ \A i, j \in 1 .. Len(backlog) : backlog[i] = backlog[j] => i = j
PlayersAreKnown == \A ip \in Client \ clients : ~ player[ip]

Separate ==
  /\ SocketsInUse /\ NobodyElseAsks /\ WaitOnce /\ PlayersAreKnown
  /\ \A ip \in clients : Owned(ip)

(* A send that waits has something left, and the loop waits with it. *)
SendingOn ==
  \/ sending = NotSending
  \/ /\ sending.fd \in Fd /\ sock[sending.fd].kind = "client"
     /\ sending.rest # << >>
     /\ pc \notin { "select", "accept", "scan" }

(***************************************************************************)
(* What there is of the dialogue of one browser: what is on its way to the *)
(* proxy, to the web server, back to the proxy and to the browser, each    *)
(* with what its receiver has kept of it; and what the entry knows.        *)
(***************************************************************************)
Out(ip) == IF conn[ip].server_socket = None THEN << >> ELSE sock[conn[ip].server_socket].outq
In(ip)  == IF conn[ip].server_socket = None THEN << >> ELSE sock[conn[ip].server_socket].inq
Unsent(fd) == IF sending.fd = fd THEN sending.rest ELSE << >>

Situation(ip) ==
  LET c == conn[ip]
      fd == c.client_socket
  IN  [ n       |-> asked[fd],
        up      |-> c.client_message \o sock[fd].inq,
        out     |-> Out(ip),
        back    |-> c.server_message \o In(ip),
        down    |-> Delivered(fd) \o Unsent(fd),
        begun   |-> IF c.server_message = << >> THEN asked[fd] ELSE c.server_conn_start,
        len     |-> c.server_message_len,
        no_list |-> c.no_list_message,
        stream  |-> c.stream,
        player  |-> player[ip] ]

Known(s) == s.stream.available_bitrates # << >>

Idle(s) ==
  /\ s.n = 0
  /\ s.up = << >> /\ s.out = << >> /\ s.back = << >> /\ s.down = << >>
  /\ s.no_list = << >> /\ s.len = 0

AtProxy(s, u) ==
  /\ IsRequest(s.up, u) /\ s.out = << >> /\ s.back = << >> /\ s.down = << >>
  /\ s.no_list = << >> /\ s.len = 0
  /\ u.kind # "nolist" /\ u.br = 0
  /\ u.kind = "chunk" => Known(s)

(* What the entry remembers of the request that is at the web server. *)
Sought(s, u) ==
  /\ u.kind = "manifest" => s.no_list # << >>
  /\ s.no_list # << >> =>
       /\ u.kind = "manifest" \/ (u.kind = "page" /\ "notFound" \in Faults)
       /\ IsRequest(s.no_list, [u EXCEPT !.kind = "nolist"])
  /\ u.kind \in { "chunk", "nolist" } => Known(s)
  /\ u.kind # "chunk" /\ "notFound" \notin Faults => u.br = 0
  /\ u.kind = "chunk" =>
       /\ s.stream.chunkname = u.n
       /\ s.stream.current_bitrate = u.br
       /\ IsBest(u.br, Elements(Listing), s.stream.current_throughput)

AtServer(s, u) ==
  /\ s.up = << >> /\ IsRequest(s.out, u) /\ s.back = << >> /\ s.down = << >>
  /\ s.len = 0
  /\ Sought(s, u)

OnItsWay(s, u) ==
  /\ s.up = << >> /\ s.out = << >> /\ s.down = << >>
  /\ \E parts \in Shapes(u.kind) :
       /\ s.back = Whole(u, parts)
       /\ parts = NoBodyParts => s.len = 0
  /\ s.len \in { 0, Len(ResponseParts(u.kind)) }
  /\ s.begun = u.n
  /\ Sought(s, u)

AtBrowser(s, u) ==
  /\ s.up = << >> /\ s.out = << >> /\ s.back = << >>
  /\ s.down = Whole(u, ResponseParts(u.kind))
  /\ s.no_list = << >> /\ s.len = 0
  /\ u.kind # "manifest"
  /\ u.kind = "nolist" => Known(s)
  /\ u.kind # "chunk" /\ "notFound" \notin Faults => u.br = 0
  /\ u.kind = "chunk" => u.br \in Elements(Listing)

Asking(ip, s, u) == u \in Unit /\ u.ip = ip /\ u.n = s.n /\ s.n # 0 /\ u.part = "line"

Proceeds(ip, s) ==
  \/ Idle(s)
  \/ \E u \in Unit :
       Asking(ip, s, u) /\ (AtProxy(s, u) \/ AtServer(s, u) \/ OnItsWay(s, u) \/ AtBrowser(s, u))

(* The vector has each bitrate of the manifest, from the lowest one up. *)
Learnt(st) ==
  st.available_bitrates # << >> =>
    /\ IsAscending(st.available_bitrates)
    /\ Elements(st.available_bitrates) = Elements(Listing)

Orderly(ip, s) == Proceeds(ip, s) /\ Learnt(s.stream) /\ (s.player => Known(s))

Lockstep == \A ip \in clients : \A s \in { Situation(ip) } : Orderly(ip, s)

QuietInv == Inv /\ Separate /\ SendingOn /\ Lockstep /\ LogMatchesResponse
-----------------------------------------------------------------------------

(***************************************************************************)
(* What a step for the entry of ip leaves alone: the dialogues of the      *)
(* others.                                                                 *)
(***************************************************************************)
SameDialogue(ip) ==
  /\ conn'[ip] = conn[ip]
  /\ player'[ip] = player[ip]
  /\ \A fd \in Mine(ip) \cap Fd :
       /\ sock'[fd] = sock[fd]
       /\ asked'[fd] = asked[fd]
       /\ got'[fd] = got[fd]
       /\ Unsent(fd)' = Unsent(fd)

LEMMA DialogueKept ==
  ASSUME NEW ip, Owned(ip), SameDialogue(ip)
  PROVE  Situation(ip)' = Situation(ip)
<1> DEFINE c == conn[ip]
           fd == c.client_socket
<1>1. fd \in Mine(ip) \cap Fd /\ c.server_socket # None => c.server_socket \in Mine(ip) \cap Fd
  BY DEF Owned, Mine
<1>2. /\ sock'[fd] = sock[fd] /\ asked'[fd] = asked[fd] /\ got'[fd] = got[fd]
      /\ Unsent(fd)' = Unsent(fd)
  BY DEF Owned, Mine, SameDialogue
<1>3. Out(ip)' = Out(ip) /\ In(ip)' = In(ip)
  BY <1>1 DEF Out, In, SameDialogue, Owned, Mine
<1> QED BY <1>2, <1>3 DEF Situation, Delivered, SameDialogue, Unsent

(* So the dialogues are orderly after a step that leaves its own so.       *)
LEMMA LockstepKept ==
  ASSUME Separate, Lockstep, NEW ip,
         \A other \in clients' \ { ip } : other \in clients /\ SameDialogue(other),
         NEW s, s = Situation(ip)', ip \in clients' => Orderly(ip, s)
  PROVE  Lockstep'
<1> SUFFICES ASSUME NEW other \in clients', NEW t, t = Situation(other)'
             PROVE  Orderly(other, t)
  BY DEF Lockstep
<1>1. CASE other = ip
  BY <1>1
<1>2. CASE other # ip
  <2>1. other \in clients /\ SameDialogue(other) /\ Owned(other)
    BY <1>2 DEF Separate
  <2>2. t = Situation(other)
    BY <2>1, DialogueKept
  <2> QED BY <2>1, <2>2 DEF Lockstep
<1> QED BY <1>1, <1>2

(***************************************************************************)
(* A step in which the descriptors, the map and the backlog stay what they *)
(* are.                                                                    *)
(***************************************************************************)
SameSockets ==
  /\ UNCHANGED << clients, backlog >>
  /\ \A fd \in Fd :
       /\ sock'[fd].kind = sock[fd].kind
       /\ sock'[fd].ip = sock[fd].ip
       /\ sock'[fd].peer = sock[fd].peer
       /\ sock[fd].kind # "client" => asked'[fd] = asked[fd] /\ got'[fd] = got[fd]
  /\ \A ip \in clients :
       /\ conn'[ip].client_socket = conn[ip].client_socket
       /\ conn'[ip].server_socket = conn[ip].server_socket
  /\ \A ip \in Client \ clients : player'[ip] = player[ip]

LEMMA SeparateKept ==
  ASSUME Separate, SameSockets
  PROVE  Separate'
<1>1. SocketsInUse'
  <2> SUFFICES ASSUME NEW fd \in Fd, sock'[fd].kind # "free" PROVE InUse(fd)'
    BY DEF SocketsInUse
  <2>1. InUse(fd)
    BY DEF Separate, SocketsInUse, SameSockets
  <2> QED BY <2>1 DEF InUse, SameSockets
<1>2. NobodyElseAsks' /\ WaitOnce' /\ PlayersAreKnown'
  BY DEF Separate, NobodyElseAsks, WaitOnce, PlayersAreKnown, SameSockets
<1>3. ASSUME NEW ip \in clients' PROVE Owned(ip)'
  <2>1. ip \in clients /\ Owned(ip)
    BY DEF Separate, SameSockets
  <2> QED BY <2>1 DEF Owned, SameSockets
<1> QED BY <1>1, <1>2, <1>3 DEF Separate

(* The entry in whose turn a handler is called. *)
LEMMA EntryIs ==
  ASSUME Separate, NEW ip \in clients
  PROVE  LET c == conn[ip]
         IN  /\ c.client_socket \in Fd
             /\ sock[c.client_socket].kind = "client" /\ sock[c.client_socket].ip = ip
             /\ sock[c.client_socket].peer = "open"
             /\ c.server_socket # None =>
                  /\ c.server_socket \in Fd /\ c.server_socket # c.client_socket
                  /\ sock[c.server_socket].kind = "server"
                  /\ sock[c.server_socket].ip = ip
                  /\ sock[c.server_socket].peer = "open"
<1>1. Owned(ip)
  BY DEF Separate
<1> QED BY <1>1 DEF Separate, SocketsInUse, InUse, Owned

(* A browser's connection is the one of its entry. *)
LEMMA BrowserEndIs ==
  ASSUME Separate, NEW ip, NEW fd \in BrowserEnds(ip)
  PROVE  ip \in clients /\ conn[ip].client_socket = fd /\ fd \in Fd
BY DEF BrowserEnds, Separate, SocketsInUse, InUse

(* A step of the dialogue of ip leaves the others alone. *)
LEMMA OthersDialogue ==
  ASSUME Separate, NEW ip \in clients,
         UNCHANGED clients,
         \A other \in clients \ { ip } : conn'[other] = conn[other] /\ player'[other] = player[other],
         \A fd \in Fd \ Mine(ip) : /\ sock[fd].kind # "free" =>
                                         sock'[fd] = sock[fd]
                                   /\ asked'[fd] = asked[fd] /\ got'[fd] = got[fd]
                                   /\ Unsent(fd)' = Unsent(fd)
  PROVE  \A other \in clients' \ { ip } : other \in clients /\ SameDialogue(other)
<1> SUFFICES ASSUME NEW other \in clients, other # ip PROVE SameDialogue(other)
  OBVIOUS
<1>1. Owned(ip) /\ Owned(other)
  BY DEF Separate
<1>2. \A fd \in Fd : fd # None
  BY MiProxyAssumption DEF Fd, None
<1>3. \A fd \in Mine(other) \cap Fd : sock[fd].kind # "free" /\ sock[fd].ip = other
  BY <1>1, <1>2 DEF Owned, Mine
<1>4. \A fd \in Mine(ip) \cap Fd : sock[fd].ip = ip
  BY <1>1, <1>2 DEF Owned, Mine
<1>5. \A fd \in Mine(other) \cap Fd : fd \in Fd \ Mine(ip) /\ sock[fd].kind # "free"
  BY <1>3, <1>4
<1> QED BY <1>5 DEF SameDialogue

-----------------------------------------------------------------------------

LEMMA InitQuiet == Init => Separate /\ SendingOn /\ Lockstep /\ LogMatchesResponse
<1> SUFFICES ASSUME Init PROVE Separate /\ SendingOn /\ Lockstep /\ LogMatchesResponse
  OBVIOUS
<1>1. SocketsInUse /\ NobodyElseAsks /\ PlayersAreKnown
  BY DEF Init, SocketsInUse, NobodyElseAsks, PlayersAreKnown, FreeSocket
<1>2. WaitOnce
  BY DEF Init, WaitOnce
<1> QED BY <1>1, <1>2 DEF Init, Separate, SendingOn, Lockstep, LogMatchesResponse, NoLine

(* A step of the loop that serves nobody. *)
Loops == UNCHANGED << sending, proxyVars, sock, backlog, browserVars >>

LEMMA LoopsQuiet ==
  ASSUME Separate, SendingOn, Lockstep, LogMatchesResponse, Loops,
         sending = NotSending \/ pc' \notin { "select", "accept", "scan" }
  PROVE  Separate' /\ SendingOn' /\ Lockstep' /\ LogMatchesResponse'
<1>1. Separate'
  BY SeparateKept DEF Loops, SameSockets, proxyVars, browserVars
<1>2. SendingOn'
  BY DEF SendingOn, Loops
<1>3. Lockstep'
  <2> SUFFICES ASSUME NEW ip \in clients, NEW t, t = Situation(ip)'
               PROVE  Orderly(ip, t)
    BY DEF Lockstep, Loops, proxyVars
  <2>1. Owned(ip) /\ SameDialogue(ip)
    BY DEF Separate, SameDialogue, Unsent, Loops, proxyVars, browserVars
  <2>2. t = Situation(ip)
    BY <2>1, DialogueKept
  <2> QED BY <2>2 DEF Lockstep
<1>4. LogMatchesResponse'
  BY DEF LogMatchesResponse, Loops, proxyVars
<1> QED BY <1>1, <1>2, <1>3, <1>4

LEMMA LoopSteps ==
  ASSUME QuietInv,
         \/ Select \/ ScanEnds \/ Ends \/ UNCHANGED vars
         \/ \E ip \in Client : Skip(ip)
  PROVE  Separate' /\ SendingOn' /\ Lockstep' /\ LogMatchesResponse'
<1>1. CASE Ends
  <2>1. Loops /\ pc' \in Deaths
    BY <1>1 DEF Ends, Dies, Loops
  <2> QED BY <2>1, LoopsQuiet DEF QuietInv, Deaths
<1>2. CASE UNCHANGED vars
  <2>1. Loops /\ pc' = pc
    BY <1>2 DEF vars, loopVars, Loops
  <2> QED BY <2>1, LoopsQuiet DEF QuietInv, SendingOn
<1>3. CASE Select
  BY <1>3, LoopsQuiet DEF Select, QuietInv, SendingOn, Loops
<1>4. CASE ScanEnds
  BY <1>4, LoopsQuiet DEF ScanEnds, QuietInv, SendingOn, Loops
<1>5. ASSUME NEW ip \in Client, Skip(ip)
      PROVE  Separate' /\ SendingOn' /\ Lockstep' /\ LogMatchesResponse'
  BY <1>5, LoopsQuiet DEF Skip, Visited, IsNext, QuietInv, SendingOn, Loops
<1> QED BY <1>1, <1>2, <1>3, <1>4, <1>5

(* When a send does not wait, nothing is unsent. *)
LEMMA NothingUnsent ==
  ASSUME sending = NotSending, NEW fd \in Fd
  PROVE  Unsent(fd) = << >>
BY MiProxyAssumption DEF Unsent, NotSending, Fd, None

-----------------------------------------------------------------------------

(* A new connection comes from a browser without an entry. *)
LEMMA AcceptQuiet ==
  ASSUME QuietInv, Accept
  PROVE  Separate' /\ SendingOn' /\ Lockstep' /\ LogMatchesResponse'
<1>1. CASE AcceptWithoutAddress \/ AcceptFails
  <2>1. Ends
    BY <1>1 DEF AcceptWithoutAddress, AcceptFails, Ends, Deaths
  <2> QED BY <2>1, LoopSteps
<1>2. CASE AcceptKnown \/ AcceptNew
  <2>1. /\ pc = "accept" /\ backlog # << >> /\ backlog \in Seq(Client)
        /\ Len(backlog) \in Nat \ {0} /\ Head(backlog) = backlog[1] /\ 1 \in 1 .. Len(backlog)
        /\ Head(backlog) \in Client
    <3>1. pc = "accept" /\ backlog # << >> /\ backlog \in Seq(Client)
      BY <1>2 DEF AcceptKnown, AcceptNew, QuietInv, Inv, TypeOK, Waits
    <3>2. Len(backlog) \in Nat \ {0}
      BY <3>1, LenProperties, EmptySeq
    <3> QED BY <3>1, <3>2, HeadTailProperties
  <2>2. Head(backlog) \notin clients
    BY <2>1 DEF QuietInv, Separate, WaitOnce
  <2>3. PICK ip : ip = Head(backlog)
    OBVIOUS
  <2>4. PICK fd \in LowestFree(sock) :
          /\ Accepted(ip, fd)
          /\ conn' = [conn EXCEPT ![ip] = [NoConnection EXCEPT !.client_socket = fd]]
    BY <1>2, <2>2, <2>3 DEF AcceptKnown, AcceptNew
  <2>5. /\ sock \in [Fd -> Socket] /\ conn \in [Client -> Connection]
        /\ fd \in Fd /\ sock[fd].kind = "free" /\ ip \in Client
    BY <2>1, <2>3, <2>4 DEF QuietInv, Inv, TypeOK, LowestFree
  <2>6. /\ sock' = [sock EXCEPT ![fd] = NewSocket("client", ip)]
        /\ backlog' = Tail(backlog)
        /\ pc' = "scan"
        /\ clients' = clients \cup { ip }
        /\ UNCHANGED << readfds, sending, log, browserVars >>
    BY <2>4 DEF Accepted
  <2>7. sending = NotSending
    BY <2>1 DEF QuietInv, SendingOn
  <2>8. Separate /\ ip \notin clients /\ clients \subseteq Client
    BY <2>2, <2>3 DEF QuietInv, Inv, TypeOK
  <2>9. asked[fd] = 0 /\ got[fd] = << >> /\ ~ player[ip]
    BY <2>5, <2>8 DEF Separate, NobodyElseAsks, PlayersAreKnown
  <2>10. /\ sock'[fd] = NewSocket("client", ip)
         /\ sock'[fd].kind = "client" /\ sock'[fd].ip = ip /\ sock'[fd].peer = "open"
         /\ sock'[fd].inq = << >> /\ sock'[fd].outq = << >>
         /\ \A g \in Fd : g # fd => sock'[g] = sock[g]
    BY <2>5, <2>6 DEF NewSocket, FreeSocket
  <2>11. /\ conn'[ip].client_socket = fd /\ conn'[ip].server_socket = None
         /\ conn'[ip].client_message = << >> /\ conn'[ip].server_message = << >>
         /\ conn'[ip].server_message_len = 0 /\ conn'[ip].no_list_message = << >>
         /\ conn'[ip].stream = NewStream
         /\ \A other \in Client : other # ip => conn'[other] = conn[other]
    BY <2>4, <2>5 DEF NoConnection
  <2>12. UNCHANGED << asked, got, player, sent, opened >>
    BY <2>6 DEF browserVars
  <2>13. \A other \in clients :
           /\ Owned(other) /\ other \in Client /\ other # ip
           /\ \A g \in Mine(other) \cap Fd : g # fd
    <3>1. \A g \in Fd : g # None
      BY MiProxyAssumption DEF Fd, None
    <3> QED BY <2>5, <2>8, <3>1 DEF Separate, Owned, Mine
  <2>14. Separate'
    <3>1. ASSUME NEW g \in Fd, sock'[g].kind # "free" PROVE InUse(g)'
      <4>1. CASE g = fd
        BY <4>1, <2>6, <2>10, <2>11 DEF InUse
      <4>2. CASE g # fd
        <5>1. sock'[g] = sock[g] /\ InUse(g)
          BY <4>2, <3>1, <2>8, <2>10 DEF Separate, SocketsInUse
        <5>2. sock[g].ip \in clients /\ sock[g].ip \in Client /\ sock[g].ip # ip
          BY <5>1, <2>8 DEF InUse
        <5>3. conn'[sock[g].ip] = conn[sock[g].ip]
          BY <5>2, <2>11
        <5> QED BY <5>1, <5>2, <5>3, <2>6 DEF InUse
      <4> QED BY <4>1, <4>2
    <3>2. NobodyElseAsks' /\ PlayersAreKnown'
      BY <2>6, <2>8, <2>10, <2>12 DEF Separate, NobodyElseAsks, PlayersAreKnown
    <3>3. WaitOnce'
      <4>1. Len(backlog') = Len(backlog) - 1
            /\ \A i \in 1 .. Len(backlog) - 1 : backlog'[i] = backlog[i + 1]
        BY <2>1, <2>6, HeadTailProperties
      <4>2. \A i \in 1 .. Len(backlog) - 1 : i + 1 \in 1 .. Len(backlog) /\ i + 1 # 1
        BY <2>1
      <4>3. \A i \in 1 .. Len(backlog') : backlog'[i] \notin clients /\ backlog'[i] # ip
        BY <2>1, <2>3, <2>8, <4>1, <4>2 DEF Separate, WaitOnce
      <4>4. \A i, j \in 1 .. Len(backlog') : backlog'[i] = backlog'[j] => i = j
        <5> SUFFICES ASSUME NEW i \in 1 .. Len(backlog) - 1, NEW j \in 1 .. Len(backlog) - 1,
                            backlog[i + 1] = backlog[j + 1]
                     PROVE  i = j
          BY <4>1
        <5>1. i + 1 = j + 1
          BY <2>8, <4>2 DEF Separate, WaitOnce
        <5> QED BY <2>1, <5>1
      <4> QED BY <2>6, <4>3, <4>4 DEF WaitOnce
    <3>4. ASSUME NEW other \in clients' PROVE Owned(other)'
      <4>1. CASE other = ip
        BY <4>1, <2>5, <2>10, <2>11 DEF Owned
      <4>2. CASE other # ip
        <5>1. Owned(other) /\ conn'[other] = conn[other]
          BY <4>2, <2>6, <2>11, <2>13
        <5> QED BY <5>1, <4>2, <2>6, <2>10, <2>13 DEF Owned, Mine
      <4> QED BY <4>1, <4>2
    <3> QED BY <3>1, <3>2, <3>3, <3>4 DEF Separate, SocketsInUse
  <2>15. \A other \in clients' \ { ip } : other \in clients /\ SameDialogue(other)
    <3> SUFFICES ASSUME NEW other \in clients PROVE SameDialogue(other)
      BY <2>6
    <3>1. Owned(other) /\ conn'[other] = conn[other]
      BY <2>11, <2>13
    <3> QED BY <3>1, <2>6, <2>10, <2>12, <2>13 DEF SameDialogue, Unsent
  <2>16. PICK s : s = Situation(ip)'
    OBVIOUS
  <2>17. Idle(s) /\ ~ Known(s) /\ ~ s.player
    <3>1. s.n = 0 /\ s.len = 0 /\ s.no_list = << >> /\ s.stream = NewStream /\ ~ s.player
      BY <2>9, <2>11, <2>12, <2>16 DEF Situation
    <3>2. Unsent(fd)' = << >>
      BY <2>5, <2>6, <2>7, MiProxyAssumption DEF Unsent, NotSending, Fd, None
    <3>3. s.up = << >> /\ s.out = << >> /\ s.back = << >> /\ s.down = << >>
      BY <2>9, <2>10, <2>11, <2>12, <2>16, <3>2
         DEF Situation, Out, In, Delivered
    <3> QED BY <3>1, <3>3 DEF Idle, Known, NewStream
  <2>18. Lockstep'
    <3>1. Orderly(ip, s)
      BY <2>17 DEF Orderly, Proceeds, Known, Learnt
    <3> QED BY <2>8, <2>15, <2>16, <3>1, LockstepKept DEF QuietInv
  <2>19. SendingOn' /\ LogMatchesResponse'
    BY <2>6, <2>7 DEF QuietInv, SendingOn, LogMatchesResponse
  <2> QED BY <2>14, <2>18, <2>19
<1> QED BY <1>1, <1>2 DEF Accept

-----------------------------------------------------------------------------

(* The place that is not empty says how far a request has come. *)
LEMMA PlaceTells ==
  ASSUME NEW ip, NEW s, Proceeds(ip, s)
  PROVE  /\ s.up # << >> => \E u \in Unit : Asking(ip, s, u) /\ AtProxy(s, u)
         /\ s.out # << >> => \E u \in Unit : Asking(ip, s, u) /\ AtServer(s, u)
         /\ s.back # << >> => \E u \in Unit : Asking(ip, s, u) /\ OnItsWay(s, u)
         /\ s.down # << >> => \E u \in Unit : Asking(ip, s, u) /\ AtBrowser(s, u)
         /\ s.n = 0 => Idle(s)
BY DEF Proceeds, Idle, AtProxy, AtServer, OnItsWay, AtBrowser, Asking

(* A handler's call: the step of one dialogue. *)
Handles(ip, entry) ==
  /\ IsNext(ip)
  /\ UNCHANGED << clients, backlog, browserVars >>
  /\ conn' = [conn EXCEPT ![ip] = entry]
  /\ \A fd \in Fd \ Mine(ip) : sock[fd].kind # "free" => sock'[fd] = sock[fd]
  /\ sending' = NotSending \/ sending'.fd = conn[ip].client_socket

LEMMA HandlesLockstep ==
  ASSUME QuietInv, NEW ip, NEW entry, Handles(ip, entry),
         NEW s, s = Situation(ip)', Orderly(ip, s)
  PROVE  Lockstep'
<1>1. ip \in clients /\ ip \in Client /\ pc = "scan" /\ sending = NotSending
  BY TurnOwns DEF QuietInv, SendingOn, Handles, IsNext
<1>2. conn \in [Client -> Connection] /\ clients \subseteq Client
  BY DEF QuietInv, Inv, TypeOK
<1>3. \A fd \in Fd \ Mine(ip) : Unsent(fd)' = Unsent(fd)
  BY <1>1, MiProxyAssumption DEF Handles, Unsent, NotSending, Fd, None, Mine
<1>4. \A other \in clients \ { ip } : conn'[other] = conn[other]
  BY <1>2 DEF Handles
<1>5. UNCHANGED << asked, got, player >>
  BY DEF Handles, browserVars
<1>6. \A other \in clients' \ { ip } : other \in clients /\ SameDialogue(other)
  BY <1>1, <1>3, <1>4, <1>5, OthersDialogue DEF Handles, QuietInv
<1> QED BY <1>6, LockstepKept DEF QuietInv

(* What has been read leaves the queue and joins what was read before. *)
LEMMA ReadIs ==
  ASSUME NEW s \in Socket, NEW k \in Reads(s), NEW p \in Message
  PROVE  /\ k \in 0 .. Len(s.inq) /\ s.inq # << >> /\ Len(s.inq) \in Nat \ {0}
         /\ Taken(s, k) \in Message /\ p \o Taken(s, k) \in Message
         /\ Read(s, k).inq \in Message
         /\ (p \o Taken(s, k)) \o Read(s, k).inq = p \o s.inq
         /\ p \o s.inq # << >> /\ p \o Taken(s, k) # << >>
         /\ Read(s, k) = [s EXCEPT !.inq = Read(s, k).inq]
         /\ Read(s, k).peer = s.peer
<1>1. s.inq \in Message /\ Len(s.inq) \in Nat /\ k \in 1 .. Len(s.inq)
  BY LenProperties DEF Socket, Message, Reads
<1>2. /\ Taken(s, k) = SubSeq(s.inq, 1, k)
      /\ Read(s, k).inq = SubSeq(s.inq, k + 1, Len(s.inq))
      /\ Read(s, k).peer = s.peer
      /\ Read(s, k) = [s EXCEPT !.inq = Read(s, k).inq]
  BY DEF Taken, Read, Socket
<1>3. k \in 0 .. Len(s.inq) /\ Len(s.inq) \in Nat \ {0} /\ s.inq # << >>
  BY <1>1, EmptySeq
<1>4. /\ Taken(s, k) \in Message /\ Read(s, k).inq \in Message
      /\ (p \o Taken(s, k)) \o Read(s, k).inq = p \o s.inq
  <2>1. \A q \in Message : \A j \in 0 .. Len(q) :
          /\ SubSeq(q, 1, j) \in Message /\ SubSeq(q, j + 1, Len(q)) \in Message
          /\ (p \o SubSeq(q, 1, j)) \o SubSeq(q, j + 1, Len(q)) = p \o q
    BY MovedOn
  <2> QED BY <1>1, <1>2, <1>3, <2>1
<1>5. p \o Taken(s, k) \in Message
  BY <1>4, ConcatIsMessage
<1>6. p \o s.inq # << >>
  BY <1>1, <1>3, BeginningIs
<1>7. p \o Taken(s, k) # << >>
  <2>1. Len(SubSeq(s.inq, 1, k)) = k
    <3>1. \A i \in 1 .. k : i \in 1 .. Len(s.inq)
      BY <1>1
    <3>2. \A i \in 1 .. k : s.inq[i] \in Unit
      BY <1>1, <3>1, ElementOfSeq DEF Message
    <3>3. Len(SubSeq(s.inq, 1, k)) = IF 1 <= k THEN k - 1 + 1 ELSE 0
      BY <1>1, <3>2, SubSeqProperties
    <3> QED BY <1>1, <3>3
  <2>2. Taken(s, k) # << >>
    BY <1>1, <1>2, <2>1, EmptySeq
  <2> QED BY <1>4, <2>2, BeginningIs
<1> QED BY <1>2, <1>3, <1>4, <1>5, <1>6, <1>7

-----------------------------------------------------------------------------

(* Part of a request has come: it is still on its way to the proxy. *)
LEMMA ClientPartialQuiet ==
  ASSUME QuietInv, NEW ip, ClientPartial(ip)
  PROVE  Separate' /\ SendingOn' /\ Lockstep' /\ LogMatchesResponse'
<1> DEFINE fd == conn[ip].client_socket
<1>1. ClientTurn(ip) /\ IsNext(ip) /\ Visited(ip)
      /\ UNCHANGED << clients, dns_socket, log, backlog, browserVars >>
  BY DEF ClientPartial, ClientTurn
<1>2. /\ ip \in clients /\ ip \in Client /\ fd \in Fd /\ sock[fd] \in Socket
      /\ conn[ip] \in Connection
  BY <1>1, TurnOwns DEF QuietInv, Owned
<1>3. PICK k \in Reads(sock[fd]) :
        /\ conn' = [conn EXCEPT ![ip].client_message = @ \o Taken(sock[fd], k)]
        /\ sock' = [sock EXCEPT ![fd] = Read(@, k)]
  BY DEF ClientPartial
<1> DEFINE there == Read(sock[fd], k)
           msg == conn[ip].client_message \o Taken(sock[fd], k)
           entry == [conn[ip] EXCEPT !.client_message = msg]
<1>4. conn \in [Client -> Connection] /\ sock \in [Fd -> Socket]
      /\ conn[ip].client_message \in Message
  BY <1>2 DEF QuietInv, Inv, TypeOK, Connection
<1>5. /\ there = [sock[fd] EXCEPT !.inq = there.inq]
      /\ msg \o there.inq = conn[ip].client_message \o sock[fd].inq
  BY <1>2, <1>4, ReadIs
<1>6. conn' = [conn EXCEPT ![ip] = entry] /\ sock' = [sock EXCEPT ![fd] = there]
  BY <1>3
<1>7. /\ there.kind = sock[fd].kind /\ there.ip = sock[fd].ip /\ there.peer = sock[fd].peer
      /\ there.outq = sock[fd].outq
  BY <1>2, <1>5 DEF Socket
<1>8. /\ entry.client_socket = fd /\ entry.server_socket = conn[ip].server_socket
      /\ entry.client_message = msg /\ entry.server_message = conn[ip].server_message
      /\ entry.server_message_len = conn[ip].server_message_len
      /\ entry.server_conn_start = conn[ip].server_conn_start
      /\ entry.no_list_message = conn[ip].no_list_message
      /\ entry.stream = conn[ip].stream
  BY <1>2 DEF Connection
<1> HIDE DEF there, msg, entry
<1>9. pc = "scan" /\ pc' = pc /\ sending = NotSending /\ sending' = sending
  BY <1>1 DEF QuietInv, SendingOn, IsNext, Visited
<1>10. Separate'
  BY <1>1, <1>2, <1>4, <1>6, <1>7, <1>8, SeparateKept
     DEF QuietInv, SameSockets, browserVars, Inv, TypeOK
<1>11. Handles(ip, entry)
  BY <1>1, <1>2, <1>4, <1>6, <1>9 DEF Handles, Mine
<1>12. PICK s : s = Situation(ip)'
  OBVIOUS
<1>13. s = Situation(ip)
  <2>1. conn'[ip] = entry /\ sock'[fd] = there /\ \A g \in Fd : g # fd => sock'[g] = sock[g]
    BY <1>2, <1>4, <1>6
  <2>2. conn[ip].server_socket # None =>
          conn[ip].server_socket \in Fd /\ conn[ip].server_socket # fd
    BY <1>2, EntryIs DEF QuietInv
  <2>3. UNCHANGED << asked, got, player, sending >>
    BY <1>1, <1>9 DEF browserVars
  <2>4. Out(ip)' = Out(ip) /\ In(ip)' = In(ip)
    BY <1>8, <2>1, <2>2 DEF Out, In
  <2>5. sock'[fd].outq = sock[fd].outq
    BY <1>7, <2>1
  <2>6. conn'[ip].client_message \o sock'[fd].inq = conn[ip].client_message \o sock[fd].inq
    BY <1>5, <1>8, <2>1
  <2> QED BY <1>8, <1>12, <2>1, <2>3, <2>4, <2>5, <2>6 DEF Situation, Delivered, Unsent
<1>14. Orderly(ip, s)
  BY <1>2, <1>13 DEF QuietInv, Lockstep
<1>15. Lockstep'
  BY <1>11, <1>12, <1>14, HandlesLockstep
<1> QED BY <1>1, <1>9, <1>10, <1>15 DEF QuietInv, SendingOn, LogMatchesResponse

-----------------------------------------------------------------------------

(* What handle_request_message makes of a request. *)
LEMMA RenamedIs ==
  ASSUME NEW u \in Unit, NEW q, IsRequest(q, u), u.kind = "manifest"
  PROVE  /\ IsRequest(NoListMessage(q, << >>), [u EXCEPT !.kind = "nolist"])
         /\ NoListMessage(q, << >>) # << >>
<1> DEFINE r == NoListMessage(q, << >>)
           v == [u EXCEPT !.kind = "nolist"]
<1>1. /\ q \in Message /\ Len(q) = 2 /\ q[1].part = "line" /\ q[1].kind = "manifest"
      /\ q[1] = [u EXCEPT !.part = "line"] /\ q[2].part = "end" /\ q[2].n = u.n
  BY RequestIs DEF IsRequest
<1>2. NamesManifest(q) = { 1 }
  <2>1. \A i \in 1 .. 2 : i = 1 \/ i = 2
    OBVIOUS
  <2>2. 1 \in 1 .. 2
    OBVIOUS
  <2> QED BY <1>1, <2>1, <2>2 DEF NamesManifest
<1>3. r = [i \in 1 .. 2 |-> IF i = 1 THEN [q[1] EXCEPT !.kind = "nolist"] ELSE q[i]]
  <2>1. r = [i \in 1 .. 2 |-> IF i = 1 THEN [q[i] EXCEPT !.kind = "nolist"] ELSE q[i]]
    BY <1>1, <1>2 DEF NoListMessage
  <2> QED BY <2>1
<1>4. r \in Message
  BY <1>1, EmptySeq, NoListIsMessage DEF Message
<1>5. Len(r) = 2
  <2>1. DOMAIN r = 1 .. Len(r) /\ Len(r) \in Nat
    BY <1>4, LenProperties DEF Message
  <2>2. DOMAIN r = 1 .. 2
    BY <1>3
  <2>3. \A m, n \in Nat : 1 .. m = 1 .. n => m = n
    BY SMT
  <2> HIDE DEF r
  <2> QED BY <2>1, <2>2, <2>3
<1>6. r[1] = [q[1] EXCEPT !.kind = "nolist"] /\ r[2] = q[2]
  BY <1>3
<1>7. r[1] = [v EXCEPT !.part = "line"] /\ v.n = u.n
  BY <1>1, <1>6 DEF Unit
<1>8. r # << >>
  BY <1>4, <1>5, EmptySeq
<1> HIDE DEF r, v
<1>9. IsRequest(r, v)
  BY <1>1, <1>4, <1>5, <1>6, <1>7 DEF IsRequest
<1> QED BY <1>8, <1>9 DEF r, v

LEMMA NotRenamedIs ==
  ASSUME NEW u \in Unit, NEW q, IsRequest(q, u), u.kind # "manifest", NEW old
  PROVE  NoListMessage(q, old) = old
<1>1. NamesManifest(q) = {}
  <2>1. \A i \in 1 .. 2 : i = 1 \/ i = 2
    OBVIOUS
  <2>2. Len(q) = 2 /\ q[1].kind # "manifest" /\ q[2].part # "line"
    BY RequestIs DEF IsRequest
  <2> QED BY <2>1, <2>2 DEF NamesManifest
<1> QED BY <1>1 DEF NoListMessage

LEMMA RewrittenIs ==
  ASSUME NEW u \in Unit, NEW q, IsRequest(q, u), NEW st \in Stream
  PROVE  /\ IsChunk(q) <=> u.kind = "chunk"
         /\ u.kind # "chunk" => Rewritten(st, q) = q
         /\ u.kind = "chunk" => IsRequest(Rewritten(st, q), [u EXCEPT !.br = st.current_bitrate])
<1>1. /\ q \in Message /\ Len(q) = 2 /\ q[1].part = "line" /\ q[1].kind = u.kind
      /\ q[1] = [u EXCEPT !.part = "line"] /\ q[2].part = "end" /\ q[2].n = u.n
      /\ Has(q, "end")
  BY RequestIs DEF IsRequest
<1>2. IsChunk(q) <=> u.kind = "chunk"
  BY <1>1 DEF IsChunk
<1>3. ASSUME u.kind = "chunk"
      PROVE  IsRequest(Rewritten(st, q), [u EXCEPT !.br = st.current_bitrate])
  <2> DEFINE r == Rewritten(st, q)
             v == [u EXCEPT !.br = st.current_bitrate]
  <2>1. r = [q EXCEPT ![1].br = st.current_bitrate]
    BY <1>2, <1>3 DEF Rewritten
  <2>2. r \in Message
    BY <1>1, RewrittenIsMessage
  <2>3. DOMAIN q = 1 .. 2
    BY <1>1, LenProperties DEF Message
  <2>4. 1 \in 1 .. 2 /\ 2 \in 1 .. 2
    OBVIOUS
  <2>5. r[1] = [q[1] EXCEPT !.br = st.current_bitrate] /\ r[2] = q[2] /\ DOMAIN r = 1 .. 2
    BY <2>1, <2>3, <2>4
  <2>6. r[1] = [v EXCEPT !.part = "line"] /\ v.n = u.n
    BY <1>1, <2>5 DEF Unit
  <2> HIDE DEF r, v
  <2>7. Len(r) = 2
    <3>1. DOMAIN r = 1 .. Len(r) /\ Len(r) \in Nat
      BY <2>2, LenProperties DEF Message
    <3>2. \A m, n \in Nat : 1 .. m = 1 .. n => m = n
      BY SMT
    <3> QED BY <2>5, <3>1, <3>2
  <2>8. IsRequest(r, v)
    BY <1>1, <2>2, <2>5, <2>6, <2>7 DEF IsRequest
  <2> QED BY <2>8 DEF r, v
<1> QED BY <1>2, <1>3 DEF Rewritten

(* A request that was forwarded is at the web server. *)
LEMMA ForwardedIs ==
  ASSUME NEW ip, NEW s, Orderly(ip, s), s.stream \in Stream,
         NEW u \in Unit, Asking(ip, s, u), AtProxy(s, u),
         NEW st, st = ParseBitrate(s.stream, s.up),
         NEW t, t.n = s.n, t.up = << >>, t.out = Rewritten(st, s.up),
         t.back = << >>, t.down = << >>, t.no_list = NoListMessage(s.up, s.no_list),
         t.len = 0, t.stream = st, t.player = s.player
  PROVE  Orderly(ip, t)
<1>1. /\ IsRequest(s.up, u) /\ s.no_list = << >> /\ u.kind # "nolist" /\ u.br = 0
      /\ u.kind = "chunk" => Known(s)
  BY DEF AtProxy
<1>2. IsChunk(s.up) <=> u.kind = "chunk"
  BY <1>1, RewrittenIs
<1>3. CASE u.kind # "chunk"
  <2>1. st = s.stream /\ IsRequest(t.out, u)
    <3>1. st = s.stream /\ st \in Stream
      BY <1>2, <1>3 DEF ParseBitrate
    <3>2. Rewritten(st, s.up) = s.up
      BY <1>1, <1>3, <3>1, RewrittenIs
    <3> QED BY <1>1, <3>1, <3>2
  <2>2. /\ u.kind = "manifest" => t.no_list # << >>
        /\ t.no_list # << >> =>
             u.kind = "manifest" /\ IsRequest(t.no_list, [u EXCEPT !.kind = "nolist"])
    BY <1>1, RenamedIs, NotRenamedIs
  <2>3. AtServer(t, u)
    BY <1>1, <1>3, <2>1, <2>2 DEF AtServer, Sought
  <2> QED BY <2>1, <2>3 DEF Orderly, Proceeds, Asking, Known
<1>4. CASE u.kind = "chunk"
  <2> DEFINE avail == s.stream.available_bitrates
             throughput == s.stream.current_throughput
             v == [u EXCEPT !.br = st.current_bitrate]
  <2>1. s.up[1].n = u.n /\ u.n \in Nat /\ s.up[1].n = s.n
    BY <1>1, RequestIs DEF Unit, Asking
  <2>2. st = Choose(s.stream, u.n)
    BY <1>2, <1>4, <2>1 DEF ParseBitrate
  <2>3. avail # << >> /\ avail \in Seq(Nat) /\ throughput \in Nat
    BY <1>1, <1>4 DEF Known, Stream
  <2>4. st \in Stream
    BY <2>1, <2>2, <2>3, StreamSteps
  <2>5. /\ st.current_bitrate = Chosen(avail, throughput) /\ st.chunkname = u.n
        /\ st.available_bitrates = avail /\ st.current_throughput = throughput
    BY <2>2 DEF Choose, Stream
  <2>6. IsAscending(avail) /\ Elements(avail) = Elements(Listing)
    BY <2>3 DEF Orderly, Learnt
  <2>7. IsBest(st.current_bitrate, Elements(Listing), throughput)
    BY <2>3, <2>5, <2>6, ChosenIsBest
  <2>8. /\ v \in Unit /\ v.ip = u.ip /\ v.n = u.n /\ v.kind = "chunk" /\ v.part = u.part
        /\ v.br = st.current_bitrate
    BY <1>4, <2>4 DEF Unit, Stream
  <2>9. IsRequest(t.out, v)
    BY <1>1, <1>4, <2>4, RewrittenIs
  <2>10. t.no_list = << >>
    BY <1>1, <1>4, NotRenamedIs
  <2> HIDE DEF v
  <2>11. AtServer(t, v)
    BY <2>3, <2>5, <2>7, <2>8, <2>9, <2>10 DEF AtServer, Sought, Known
  <2>12. Asking(ip, t, v)
    BY <2>8 DEF Asking
  <2> QED BY <2>3, <2>5, <2>6, <2>8, <2>11, <2>12 DEF Orderly, Proceeds, Learnt, Known
<1> QED BY <1>3, <1>4

-----------------------------------------------------------------------------

(***************************************************************************)
(* What handle_client_connection takes for a request is what the browser   *)
(* asked, from the beginning to the end, with nothing behind it.           *)
(***************************************************************************)
Comes(ip, k, msg, s) ==
  /\ Orderly(ip, s) /\ s.up = msg /\ msg \in Message
  /\ Read(sock[conn[ip].client_socket], k)
       = [sock[conn[ip].client_socket] EXCEPT !.inq = << >>]
  /\ \E u \in Unit : Asking(ip, s, u) /\ AtProxy(s, u)

LEMMA RequestComes ==
  ASSUME QuietInv, NEW ip, ClientTurn(ip),
         NEW k \in Reads(sock[conn[ip].client_socket]),
         NEW msg, msg = conn[ip].client_message \o Taken(sock[conn[ip].client_socket], k),
         Has(msg, "end"),
         NEW s, s = Situation(ip)
  PROVE  Comes(ip, k, msg, s)
<1> DEFINE client == conn[ip].client_socket
           c == conn[ip]
<1>1. /\ ip \in clients /\ sock[client] \in Socket /\ c.client_message \in Message
  BY TurnOwns DEF QuietInv, ClientTurn, Connection
<1>2. PICK r : r = Read(sock[client], k).inq
  OBVIOUS
<1>3. /\ msg \in Message /\ r \in Message
      /\ msg \o r = c.client_message \o sock[client].inq
      /\ msg \o r # << >>
      /\ Read(sock[client], k) = [sock[client] EXCEPT !.inq = r]
      /\ Read(sock[client], k).peer = sock[client].peer
  BY <1>1, <1>2, ReadIs
<1>4. Orderly(ip, s) /\ s.up = msg \o r /\ s.up # << >>
  <2>1. Orderly(ip, s)
    BY <1>1 DEF QuietInv, Lockstep
  <2> QED BY <1>3, <2>1 DEF Situation
<1>5. PICK u \in Unit : Asking(ip, s, u) /\ AtProxy(s, u)
  BY <1>4, PlaceTells DEF Orderly
<1>6. r = << >> /\ s.up = msg
  <2>1. r = << >>
    <3>1. IsRequest(msg \o r, u)
      BY <1>4, <1>5 DEF AtProxy
    <3> HIDE DEF client, c
    <3> QED BY <1>3, <3>1, RequestRead
  <2> QED BY <1>3, <1>4, <2>1, ConcatEmptySeq DEF Message
<1>7. Read(sock[client], k) = [sock[client] EXCEPT !.inq = << >>]
  BY <1>3, <1>6
<1>8. \E w \in Unit : Asking(ip, s, w) /\ AtProxy(s, w)
  BY <1>5
<1> QED BY <1>3, <1>4, <1>6, <1>7, <1>8 DEF Comes

(***************************************************************************)
(* A whole request goes on to the web server, through the connection the   *)
(* entry has or through one that is opened for it.                         *)
(***************************************************************************)
LEMMA ForwardRequestQuiet ==
  ASSUME QuietInv, NEW ip, ClientTurn(ip),
         NEW k \in Reads(sock[conn[ip].client_socket]),
         NEW msg, msg = conn[ip].client_message \o Taken(sock[conn[ip].client_socket], k),
         Has(msg, "end"),
         NEW rest, NEW server, MayForward(ip, rest, server),
         rest[conn[ip].client_socket] = Read(sock[conn[ip].client_socket], k),
         rest[server].peer = "open", rest[server].outq = Out(ip), rest[server].inq = In(ip),
         conn[ip].server_socket \in { None, server },
         ForwardRequest(ip, msg, rest, server)
  PROVE  Separate' /\ SendingOn' /\ Lockstep' /\ LogMatchesResponse'
<1> DEFINE client == conn[ip].client_socket
           c == conn[ip]
           st == ParseBitrate(c.stream, msg)
           there == Sent(rest[server], Rewritten(st, msg))
           entry == RequestSent(c, msg, st, server)
<1>1. /\ IsNext(ip) /\ ip \in clients /\ ip \in Client /\ client \in Fd /\ sock[client] \in Socket
      /\ c \in Connection
  BY TurnOwns DEF QuietInv, Owned, ClientTurn
<1>2. /\ conn \in [Client -> Connection] /\ sock \in [Fd -> Socket] /\ clients \subseteq Client
      /\ c.client_message \in Message /\ c.stream \in Stream
      /\ sock[client].outq \in Message
  BY <1>1 DEF QuietInv, Inv, TypeOK, Connection, Socket
<1>3. PICK s : s = Situation(ip)
  OBVIOUS
<1>4. /\ Orderly(ip, s) /\ s.up = msg /\ msg \in Message
      /\ Read(sock[client], k) = [sock[client] EXCEPT !.inq = << >>]
      /\ \E u \in Unit : Asking(ip, s, u) /\ AtProxy(s, u)
  <2>1. Comes(ip, k, msg, s)
    BY <1>3, RequestComes
  <2> QED BY <2>1 DEF Comes
<1>5. s.stream = c.stream
  BY <1>3 DEF Situation
<1>6. PICK u \in Unit : Asking(ip, s, u) /\ AtProxy(s, u)
  BY <1>4
<1>7. CASE ~ CanChoose(ip, msg) \/ ~ CanSend(rest[server])
  <2>1. Ends
    BY <1>7 DEF ForwardRequest, Ends, Deaths
  <2> QED BY <2>1, LoopSteps
<1>8. CASE CanChoose(ip, msg) /\ CanSend(rest[server])
  <2>1. /\ sock' = [rest EXCEPT ![server] = there]
        /\ conn' = [conn EXCEPT ![ip] = entry]
        /\ Visited(ip)
        /\ UNCHANGED << clients, dns_socket, log, backlog, browserVars >>
    BY <1>8 DEF ForwardRequest
  <2>2. pc = "scan" /\ pc' = pc /\ sending = NotSending /\ sending' = sending
        /\ UNCHANGED << asked, got, player >>
    BY <1>1, <2>1 DEF QuietInv, SendingOn, IsNext, Visited, browserVars
  <2>3. EntryStep(ip)
    <3>1. EntryStep(ip) \/ Ends
      BY <1>4, ForwardRequestStep DEF QuietInv
    <3> QED BY <2>2, <3>1 DEF Ends, Dies, Deaths
  <2>4. st \in Stream /\ Rewritten(st, msg) \in Message
    <3>1. st \in Stream
      BY <1>2, <1>4, <1>8, ParseBitrateIsStream DEF CanChoose
    <3> QED BY <1>4, <3>1, RewrittenIsMessage
  <2>5. /\ there.kind = "server" /\ there.ip = ip /\ there.peer = "open"
        /\ there.outq = Out(ip) \o Rewritten(st, msg) /\ there.inq = In(ip)
    BY DEF MayForward, Socket, Sent
  <2>6. /\ entry.client_socket = client /\ entry.server_socket = server
        /\ entry.client_message = << >> /\ entry.server_message = c.server_message
        /\ entry.server_message_len = c.server_message_len
        /\ entry.server_conn_start = c.server_conn_start
        /\ entry.no_list_message = NoListMessage(msg, c.no_list_message)
        /\ entry.stream = st
    BY <1>1 DEF RequestSent, Connection
  <2> HIDE DEF there, entry
  <2>7. /\ server \in Fd /\ server # client /\ server # None /\ rest \in [Fd -> Socket]
        /\ conn'[ip] = entry /\ sock'[server] = there
        /\ sock'[client] = Read(sock[client], k)
        /\ \A fd \in Fd : fd \notin { client, server } => sock'[fd] = sock[fd]
        /\ \A other \in Client : other # ip => conn'[other] = conn[other]
    <3>1. server \in Fd \ { client } /\ rest \in [Fd -> Socket]
          /\ \A fd \in Fd : fd \notin { client, server } => rest[fd] = sock[fd]
      BY DEF MayForward
    <3>2. server # None
      BY <3>1, MiProxyAssumption DEF Fd, None
    <3> QED BY <1>1, <1>2, <2>1, <3>1, <3>2
  <2>8. /\ sock'[client].kind = "client" /\ sock'[client].ip = ip
        /\ sock'[client].peer = "open"
        /\ sock'[client].inq = << >> /\ sock'[client].outq = sock[client].outq
    <3>1. sock[client].kind = "client" /\ sock[client].ip = ip /\ sock[client].peer = "open"
      BY <1>1, EntryIs DEF QuietInv
    <3> QED BY <1>1, <1>4, <2>7, <3>1 DEF Socket
  <2>9. Separate'
    <3>1. ASSUME NEW fd \in Fd, sock'[fd].kind # "free" PROVE InUse(fd)'
      <4>1. CASE fd = server
        BY <1>1, <2>1, <2>5, <2>6, <2>7, <4>1 DEF InUse
      <4>2. CASE fd = client
        BY <1>1, <2>1, <2>6, <2>7, <2>8, <4>2 DEF InUse
      <4>3. CASE fd \notin { client, server }
        <5>1. sock'[fd] = sock[fd] /\ InUse(fd)
          BY <3>1, <4>3, <2>7 DEF QuietInv, Separate, SocketsInUse
        <5>2. fd # None
          BY MiProxyAssumption DEF Fd, None
        <5>3. CASE sock[fd].ip = ip
          <6>1. sock[fd].kind \in { "client", "server" }
            BY <1>2, <3>1, <5>1 DEF Socket
          <6> QED BY <4>3, <5>1, <5>2, <5>3, <6>1 DEF InUse
        <5>4. CASE sock[fd].ip # ip
          <6>1. sock[fd].ip \in clients /\ conn'[sock[fd].ip] = conn[sock[fd].ip]
            BY <1>2, <2>7, <5>1, <5>4 DEF InUse
          <6> QED BY <2>1, <5>1, <6>1 DEF InUse
        <5> QED BY <5>3, <5>4
      <4> QED BY <4>1, <4>2, <4>3
    <3>2. NobodyElseAsks'
      <4> SUFFICES ASSUME NEW fd \in Fd, sock'[fd].kind # "client"
                   PROVE  asked[fd] = 0 /\ got[fd] = << >>
        BY <2>2 DEF NobodyElseAsks
      <4>1. fd # client
        BY <2>8
      <4>2. sock[fd].kind # "client"
        BY <1>1, <2>7, <4>1, EntryIs DEF MayForward, QuietInv
      <4> QED BY <4>2 DEF QuietInv, Separate, NobodyElseAsks
    <3>3. WaitOnce' /\ PlayersAreKnown'
      BY <2>1, <2>2 DEF QuietInv, Separate, WaitOnce, PlayersAreKnown
    <3>4. ASSUME NEW other \in clients' PROVE Owned(other)'
      <4>1. Owned(ip)' /\ OnlyEntry(ip)
        BY <2>3 DEF EntryStep
      <4>2. Alive
        BY <2>2 DEF Alive, Phases
      <4> QED BY <1>1, <4>1, <4>2, OthersKept DEF QuietInv
    <3> QED BY <3>1, <3>2, <3>3, <3>4 DEF Separate, SocketsInUse
  <2>10. Handles(ip, entry)
    <3>1. \A fd \in Fd \ Mine(ip) : sock[fd].kind # "free" => sock'[fd] = sock[fd]
      <4> SUFFICES ASSUME NEW fd \in Fd, fd \notin Mine(ip), sock[fd].kind # "free"
                   PROVE  fd \notin { client, server }
        BY <2>7
      <4> QED BY DEF Mine, MayForward
    <3> QED BY <1>1, <2>1, <2>2, <3>1 DEF Handles
  <2>11. PICK t : t = Situation(ip)'
    OBVIOUS
  <2>12. /\ s.out = << >> /\ s.back = << >> /\ s.down = << >> /\ s.len = 0
         /\ s.no_list = << >>
    BY <1>6 DEF AtProxy
  <2>13. Out(ip) = << >> /\ c.server_message \o In(ip) = << >>
         /\ Delivered(client) \o Unsent(client) = << >>
    BY <1>3, <2>12 DEF Situation
  <2>14. t.n = s.n /\ t.no_list = NoListMessage(msg, s.no_list) /\ t.len = s.len
         /\ t.stream = st /\ t.player = s.player
    BY <1>3, <2>2, <2>6, <2>7, <2>11 DEF Situation
  <2>15. t.up = << >>
    <3>1. t.up = << >> \o << >>
      BY <2>6, <2>7, <2>8, <2>11 DEF Situation
    <3> QED BY <3>1, EmptySeq, ConcatEmptySeq
  <2>16. t.out = Rewritten(st, msg)
    <3>1. t.out = << >> \o Rewritten(st, msg)
      BY <2>5, <2>6, <2>7, <2>11, <2>13 DEF Situation, Out
    <3> QED BY <2>4, <3>1, ConcatEmptySeq DEF Message
  <2>17. t.back = << >>
    BY <2>5, <2>6, <2>7, <2>11, <2>13 DEF Situation, In
  <2>18. t.down = << >>
    <3> QED BY <2>2, <2>6, <2>7, <2>8, <2>11, <2>13 DEF Situation, Delivered, Unsent
  <2>19. Orderly(ip, t)
    <3>1. s.stream \in Stream /\ st = ParseBitrate(s.stream, s.up)
      BY <1>2, <1>4, <1>5
    <3> HIDE DEF st
    <3>2. /\ Orderly(ip, s) /\ Asking(ip, s, u) /\ AtProxy(s, u)
          /\ t.n = s.n /\ t.up = << >> /\ t.out = Rewritten(st, s.up)
          /\ t.back = << >> /\ t.down = << >> /\ t.no_list = NoListMessage(s.up, s.no_list)
          /\ t.len = 0 /\ t.stream = st /\ t.player = s.player
      BY <1>4, <1>6, <2>12, <2>14, <2>15, <2>16, <2>17, <2>18
    <3> QED BY <3>1, <3>2, ForwardedIs
  <2>20. Lockstep'
    BY <2>10, <2>11, <2>19, HandlesLockstep
  <2> QED BY <2>1, <2>2, <2>9, <2>20 DEF QuietInv, SendingOn, LogMatchesResponse
<1> QED BY <1>7, <1>8

LEMMA ClientRequestQuiet ==
  ASSUME QuietInv, NEW ip, ClientRequest(ip)
  PROVE  Separate' /\ SendingOn' /\ Lockstep' /\ LogMatchesResponse'
<1> DEFINE fd == conn[ip].client_socket
           msg(k) == conn[ip].client_message \o Taken(sock[fd], k)
           rest(k) == [sock EXCEPT ![fd] = Read(sock[fd], k)]
<1>1. ClientTurn(ip) /\ IsNext(ip)
  BY DEF ClientRequest, ClientTurn
<1>2. ip \in clients /\ ip \in Client /\ Owned(ip) /\ sock[fd] \in Socket /\ fd \in Fd
  BY <1>1, TurnOwns DEF QuietInv, Owned
<1>3. sock \in [Fd -> Socket]
  BY DEF QuietInv, Inv, TypeOK
<1>4. PICK k \in Reads(sock[fd]) :
        /\ Has(msg(k), "end")
        /\ \/ /\ conn[ip].server_socket # None
              /\ ForwardRequest(ip, msg(k), rest(k), conn[ip].server_socket)
           \/ /\ conn[ip].server_socket = None
              /\ \E server \in LowestFree(rest(k)) :
                   ForwardRequest(ip, msg(k),
                     [rest(k) EXCEPT ![server] = NewSocket("server", ip)], server)
           \/ Dies("connect failed")
           \/ Dies("socket failed")
  BY DEF ClientRequest
<1>5. /\ Read(sock[fd], k) \in Socket
      /\ Read(sock[fd], k).kind = "client" /\ Read(sock[fd], k).ip = ip
  BY <1>1, ClientReads DEF QuietInv
<1>6. rest(k) \in [Fd -> Socket] /\ rest(k)[fd] = Read(sock[fd], k)
      /\ \A g \in Fd : g # fd => rest(k)[g] = sock[g]
  BY <1>2, <1>3, <1>5
<1>7. CASE conn[ip].server_socket # None
           /\ ForwardRequest(ip, msg(k), rest(k), conn[ip].server_socket)
  <2> DEFINE server == conn[ip].server_socket
  <2>1. server \in Fd /\ server # fd /\ rest(k)[server] = sock[server]
        /\ sock[server].kind = "server" /\ sock[server].ip = ip /\ sock[server].peer = "open"
    BY <1>2, <1>6, <1>7, EntryIs DEF QuietInv
  <2>2. MayForward(ip, rest(k), server)
    BY <1>5, <1>6, <2>1 DEF MayForward
  <2>3. rest(k)[server].outq = Out(ip) /\ rest(k)[server].inq = In(ip)
    BY <1>7, <2>1 DEF Out, In
  <2>4. PICK m, r : m = msg(k) /\ r = rest(k)
    OBVIOUS
  <2> HIDE DEF msg, rest
  <2>5. m = conn[ip].client_message \o Taken(sock[fd], k)
    BY <2>4 DEF msg
  <2> QED BY <1>1, <1>4, <1>6, <1>7, <2>1, <2>2, <2>3, <2>4, <2>5, ForwardRequestQuiet
<1>8. ASSUME NEW server \in LowestFree(rest(k)), conn[ip].server_socket = None,
             ForwardRequest(ip, msg(k),
               [rest(k) EXCEPT ![server] = NewSocket("server", ip)], server)
      PROVE  Separate' /\ SendingOn' /\ Lockstep' /\ LogMatchesResponse'
  <2> DEFINE new == [rest(k) EXCEPT ![server] = NewSocket("server", ip)]
  <2>1. server \in Fd /\ rest(k)[server].kind = "free"
    BY <1>6 DEF LowestFree
  <2>2. server # fd /\ sock[server].kind = "free"
    BY <1>5, <1>6, <2>1
  <2>3. /\ NewSocket("server", ip) \in Socket /\ NewSocket("server", ip).kind = "server"
        /\ NewSocket("server", ip).ip = ip
    BY <1>2, NewSocketIs
  <2>4. /\ NewSocket("server", ip).peer = "open"
        /\ NewSocket("server", ip).outq = << >> /\ NewSocket("server", ip).inq = << >>
    BY DEF NewSocket, FreeSocket
  <2>5. /\ new \in [Fd -> Socket] /\ new[server] = NewSocket("server", ip)
        /\ new[fd] = Read(sock[fd], k)
        /\ \A g \in Fd : g \notin { fd, server } => new[g] = sock[g]
    BY <1>2, <1>6, <2>1, <2>2, <2>3
  <2>6. MayForward(ip, new, server)
    BY <1>5, <1>8, <2>1, <2>2, <2>3, <2>5 DEF MayForward
  <2>7. new[server].peer = "open" /\ new[server].outq = Out(ip) /\ new[server].inq = In(ip)
    BY <1>8, <2>4, <2>5 DEF Out, In
  <2>8. PICK m, r : m = msg(k) /\ r = new
    OBVIOUS
  <2>9. ForwardRequest(ip, m, r, server)
    BY <1>8, <2>8
  <2> HIDE DEF msg, rest, new
  <2>10. m = conn[ip].client_message \o Taken(sock[fd], k)
    BY <2>8 DEF msg
  <2> QED BY <1>1, <1>4, <1>8, <2>5, <2>6, <2>7, <2>8, <2>9, <2>10, ForwardRequestQuiet
<1>9. CASE Dies("connect failed") \/ Dies("socket failed")
  <2>1. Ends
    BY <1>9 DEF Ends, Deaths
  <2> QED BY <2>1, LoopSteps
<1> HIDE DEF msg, rest
<1> QED BY <1>4, <1>7, <1>8, <1>9

-----------------------------------------------------------------------------

(* What has been read is msg, what has not is r, of the answer to u. *)
Coming(ip, s, u, msg, r) ==
  /\ Asking(ip, s, u) /\ OnItsWay(s, u)
  /\ msg \o r = s.back
  /\ Started(conn[ip], sock[conn[ip].server_socket]) = u.n

(***************************************************************************)
(* What handle_server_connection finds when it has read from the web       *)
(* server: the answer to the request of the entry's browser, or the        *)
(* beginning of it, which goes on in the queue.                            *)
(***************************************************************************)
LEMMA ResponseComes ==
  ASSUME QuietInv, NEW ip, ServerTurn(ip),
         NEW k \in Reads(sock[conn[ip].server_socket]),
         NEW msg, msg = conn[ip].server_message \o Taken(sock[conn[ip].server_socket], k),
         NEW r, r = Read(sock[conn[ip].server_socket], k).inq,
         NEW s, s = Situation(ip)
  PROVE  /\ msg \in Message /\ r \in Message /\ msg # << >> /\ Orderly(ip, s)
         /\ \E u \in Unit : Coming(ip, s, u, msg, r)
<1> DEFINE fd == conn[ip].server_socket
           p == conn[ip].server_message
           q == sock[fd].inq
<1>1. fd # None /\ IsNext(ip) /\ fd \in Fd /\ sock[fd] \in Socket
  BY ServerTurnOwns DEF ServerTurn, QuietInv
<1>2. ip \in clients /\ ip \in Client /\ conn[ip] \in Connection /\ p \in Message
  BY <1>1, TurnOwns DEF QuietInv, Connection
<1>3. /\ msg \in Message /\ r \in Message /\ msg # << >>
      /\ msg \o r = p \o q /\ p \o q # << >> /\ q # << >> /\ Len(q) \in Nat \ {0}
      /\ q \in Message
  BY <1>1, <1>2, ReadIs DEF Socket
<1>4. Orderly(ip, s) /\ s.back = p \o q
  BY <1>1, <1>2 DEF QuietInv, Lockstep, Situation, In
<1>5. PICK u \in Unit : Asking(ip, s, u) /\ OnItsWay(s, u)
  BY <1>3, <1>4, PlaceTells DEF Orderly
<1>6. Started(conn[ip], sock[fd]) = u.n
  <2>1. CASE p = << >>
    <3>1. p \o q = q
      BY <1>3, <2>1, ConcatEmptySeq DEF Message
    <3>2. PICK parts \in Shapes(u.kind) : s.back = Whole(u, parts)
      BY <1>5 DEF OnItsWay
    <3>3. parts \in Seq(Parts) /\ 1 \in 1 .. Len(parts)
      BY ShapesAre
    <3>4. Whole(u, parts)[1].n = u.n
      BY <3>3, WholeIs
    <3>5. q[1].n = u.n
      BY <1>4, <3>1, <3>2, <3>4
    <3> QED BY <2>1, <3>5 DEF Started
  <2>2. CASE p # << >>
    <3>1. s.begun = conn[ip].server_conn_start
      BY <2>2 DEF Situation
    <3> QED BY <1>5, <2>2, <3>1 DEF Started, OnItsWay
  <2> QED BY <2>1, <2>2
<1> QED BY <1>3, <1>4, <1>5, <1>6 DEF Coming

(* What it takes for complete is the answer, and nothing follows it. *)
Arrived(ip, s, u, msg, r) ==
  /\ Asking(ip, s, u) /\ OnItsWay(s, u)
  /\ Started(conn[ip], sock[conn[ip].server_socket]) = u.n
  /\ r = << >> /\ msg = Whole(u, ResponseParts(u.kind))

LEMMA ResponseArrives ==
  ASSUME QuietInv, NEW ip, ServerTurn(ip),
         NEW k \in Reads(sock[conn[ip].server_socket]),
         NEW msg, msg = conn[ip].server_message \o Taken(sock[conn[ip].server_socket], k),
         NEW r, r = Read(sock[conn[ip].server_socket], k).inq,
         NEW s, s = Situation(ip),
         IsComplete(conn[ip], msg)
  PROVE  Orderly(ip, s) /\ \E u \in Unit : Arrived(ip, s, u, msg, r)
<1>1. /\ msg \in Message /\ r \in Message /\ Orderly(ip, s)
      /\ \E u \in Unit : Coming(ip, s, u, msg, r)
  BY ResponseComes
<1>2. PICK u \in Unit : Coming(ip, s, u, msg, r)
  BY <1>1
<1>3. PICK parts \in Shapes(u.kind) : s.back = Whole(u, parts) /\ (parts = NoBodyParts => s.len = 0)
  BY <1>2 DEF Coming, OnItsWay
<1>4. s.len = conn[ip].server_message_len /\ s.len \in { 0, Len(ResponseParts(u.kind)) }
  BY <1>2 DEF Coming, OnItsWay, Situation
<1>5. PICK c : c = conn[ip]
  OBVIOUS
<1>6. /\ IsComplete(c, msg) /\ c.server_message_len \in { 0, Len(ResponseParts(u.kind)) }
      /\ parts = NoBodyParts => c.server_message_len = 0
  BY <1>3, <1>4, <1>5
<1>7. /\ msg \in Message /\ r \in Message /\ u \in Unit /\ parts \in Shapes(u.kind)
      /\ msg \o r = Whole(u, parts)
  BY <1>1, <1>2, <1>3 DEF Coming
<1>8. r = << >> /\ msg = Whole(u, ResponseParts(u.kind))
  <2>1. PICK p, q : p = msg /\ q = r
    OBVIOUS
  <2>2. /\ p \in Message /\ q \in Message /\ p \o q = Whole(u, parts)
        /\ IsComplete(c, p) /\ c.server_message_len \in { 0, Len(ResponseParts(u.kind)) }
        /\ parts = NoBodyParts => c.server_message_len = 0
    BY <1>6, <1>7, <2>1
  <2>3. IsAll(u, p, q)
    BY ONLY <1>7, <2>2, CompleteWhole
  <2> QED BY <2>1, <2>3 DEF IsAll
<1> QED BY <1>1, <1>2, <1>8 DEF Coming, Arrived

(* A handler that keeps the descriptors, and leaves its dialogue orderly. *)
LEMMA ServesQuiet ==
  ASSUME QuietInv, NEW ip, IsNext(ip), NEW entry,
         UNCHANGED << clients, backlog, browserVars >>,
         conn' = [conn EXCEPT ![ip] = entry],
         entry.client_socket = conn[ip].client_socket,
         entry.server_socket = conn[ip].server_socket,
         \A fd \in Fd : /\ sock'[fd].kind = sock[fd].kind
                        /\ sock'[fd].ip = sock[fd].ip
                        /\ sock'[fd].peer = sock[fd].peer
                        /\ fd \notin Mine(ip) => sock'[fd] = sock[fd],
         sending' = NotSending \/ sending'.fd = conn[ip].client_socket,
         NEW t, t = Situation(ip)', Orderly(ip, t)
  PROVE  Separate' /\ Lockstep'
<1>1. ip \in clients /\ ip \in Client /\ conn \in [Client -> Connection]
  BY TurnOwns DEF QuietInv, Inv, TypeOK
<1>2. clients \subseteq Client
  BY DEF QuietInv, Inv, TypeOK
<1>3. SameSockets
  BY <1>1, <1>2 DEF SameSockets, browserVars
<1>4. Separate'
  BY <1>3, SeparateKept DEF QuietInv
<1>5. Handles(ip, entry)
  BY DEF Handles
<1>6. Lockstep'
  BY <1>5, HandlesLockstep
<1> QED BY <1>4, <1>6

(* Part of a response has come: it is still on its way. *)
LEMMA ServerPartialQuiet ==
  ASSUME QuietInv, NEW ip, ServerPartial(ip)
  PROVE  Separate' /\ SendingOn' /\ Lockstep' /\ LogMatchesResponse'
<1> DEFINE c == conn[ip]
           fd == c.server_socket
           client == c.client_socket
<1>1. /\ ServerTurn(ip) /\ IsNext(ip) /\ fd \in Fd /\ fd # None /\ sock[fd] \in Socket
      /\ Visited(ip) /\ UNCHANGED << clients, dns_socket, log, backlog, browserVars >>
  BY ServerTurnOwns DEF ServerPartial, ServerTurn, QuietInv
<1>2. /\ ip \in clients /\ ip \in Client /\ c \in Connection /\ client \in Fd /\ client # fd
      /\ conn \in [Client -> Connection] /\ sock \in [Fd -> Socket]
  BY <1>1, TurnOwns, ServerTurnOwns DEF QuietInv, Inv, TypeOK, Owned
<1>3. PICK k \in Reads(sock[fd]) :
        LET msg == c.server_message \o Taken(sock[fd], k)
        IN  /\ ~ IsComplete(c, msg)
            /\ conn' = [conn EXCEPT ![ip] =
                          [Timed(c, sock[fd]) EXCEPT
                             !.server_message = msg,
                             !.server_message_len = Expected(c, msg)]]
            /\ sock' = [sock EXCEPT ![fd] = Read(sock[fd], k)]
  BY <1>2 DEF ServerPartial
<1>4. PICK msg : msg = c.server_message \o Taken(sock[fd], k)
  OBVIOUS
<1>5. PICK r : r = Read(sock[fd], k).inq
  OBVIOUS
<1>6. PICK s : s = Situation(ip)
  OBVIOUS
<1>7. /\ msg \in Message /\ r \in Message /\ msg # << >> /\ Orderly(ip, s)
      /\ \E u \in Unit : Coming(ip, s, u, msg, r)
  BY <1>1, <1>4, <1>5, <1>6, ResponseComes
<1>8. PICK u \in Unit : /\ Asking(ip, s, u) /\ OnItsWay(s, u) /\ msg \o r = s.back
                        /\ Started(c, sock[fd]) = u.n
  BY <1>7 DEF Coming
<1>9. PICK parts \in Shapes(u.kind) : s.back = Whole(u, parts) /\ (parts = NoBodyParts => s.len = 0)
  BY <1>8 DEF OnItsWay
<1>10. s.len = c.server_message_len /\ s.len \in { 0, Len(ResponseParts(u.kind)) }
  BY <1>6, <1>8 DEF OnItsWay, Situation
<1>11. PICK e : e = Expected(c, msg)
  OBVIOUS
<1>12. e \in { 0, Len(ResponseParts(u.kind)) } /\ (parts = NoBodyParts => e = 0)
  <2>1. msg \o r = Whole(u, parts)
    BY <1>8, <1>9
  <2>2. PICK d : d = c
    OBVIOUS
  <2>3. /\ e = Expected(d, msg) /\ d.server_message_len \in { 0, Len(ResponseParts(u.kind)) }
        /\ parts = NoBodyParts => d.server_message_len = 0
    BY <1>9, <1>10, <1>11, <2>2
  <2>4. /\ Expected(d, msg) \in { 0, Len(ResponseParts(u.kind)) }
        /\ parts = NoBodyParts => Expected(d, msg) = 0
    <3>1. msg \in Message /\ r \in Message /\ u \in Unit /\ parts \in Shapes(u.kind)
      BY <1>7
    <3> QED BY <2>1, <2>3, <3>1, CompleteIs
  <2> QED BY <2>3, <2>4
<1> DEFINE entry == [Timed(c, sock[fd]) EXCEPT !.server_message = msg,
                                               !.server_message_len = e]
           there == Read(sock[fd], k)
<1>13. conn' = [conn EXCEPT ![ip] = entry] /\ sock' = [sock EXCEPT ![fd] = there]
  BY <1>3, <1>4, <1>11
<1>14. /\ entry.client_socket = client /\ entry.server_socket = fd
       /\ entry.client_message = c.client_message /\ entry.server_message = msg
       /\ entry.server_message_len = e /\ entry.server_conn_start = u.n
       /\ entry.no_list_message = c.no_list_message /\ entry.stream = c.stream
  BY <1>2, <1>8 DEF Timed, Connection
<1>15. /\ there.kind = sock[fd].kind /\ there.ip = sock[fd].ip /\ there.peer = sock[fd].peer
       /\ there.outq = sock[fd].outq /\ there.inq = r
  BY <1>1, <1>5 DEF Read, Socket
<1> HIDE DEF entry, there
<1>16. /\ conn'[ip] = entry /\ sock'[fd] = there
       /\ \A g \in Fd : g # fd => sock'[g] = sock[g]
  BY <1>1, <1>2, <1>13
<1>17. pc = "scan" /\ pc' = pc /\ sending = NotSending /\ sending' = sending
       /\ UNCHANGED << asked, got, player >>
  BY <1>1 DEF QuietInv, SendingOn, IsNext, Visited, browserVars
<1>18. PICK t : t = Situation(ip)'
  OBVIOUS
<1>19. /\ t.n = s.n /\ t.up = s.up /\ t.out = s.out /\ t.back = msg \o r /\ t.down = s.down
       /\ t.begun = u.n /\ t.len = e /\ t.no_list = s.no_list /\ t.stream = s.stream
       /\ t.player = s.player
  <2>1. t.up = s.up /\ t.n = s.n /\ t.player = s.player /\ t.no_list = s.no_list
        /\ t.stream = s.stream /\ t.len = e /\ t.begun = u.n
    BY <1>2, <1>6, <1>7, <1>14, <1>16, <1>17, <1>18 DEF Situation
  <2>2. t.out = s.out /\ t.back = msg \o r
    BY <1>1, <1>6, <1>14, <1>15, <1>16, <1>18 DEF Situation, Out, In
  <2>3. t.down = s.down
    BY <1>2, <1>6, <1>14, <1>16, <1>17, <1>18 DEF Situation, Delivered, Unsent
  <2> QED BY <2>1, <2>2, <2>3
<1>20. Orderly(ip, t)
  <2>1. Asking(ip, t, u) /\ Sought(t, u)
    BY <1>8, <1>19 DEF Asking, OnItsWay, Sought, Known
  <2>2. OnItsWay(t, u)
    BY <1>8, <1>9, <1>12, <1>19, <2>1 DEF OnItsWay
  <2> QED BY <1>7, <1>19, <2>1, <2>2 DEF Orderly, Proceeds, Known
<1>21. Separate' /\ Lockstep'
  BY <1>1, <1>2, <1>13, <1>14, <1>15, <1>16, <1>17, <1>18, <1>20, ServesQuiet DEF Mine
<1> QED BY <1>1, <1>17, <1>21 DEF QuietInv, SendingOn, LogMatchesResponse

-----------------------------------------------------------------------------

(* Reading the manifest, again or for the first time, fills the vector. *)
LEMMA LearnKeeps ==
  ASSUME NEW old \in Stream, Learnt(old), old.available_bitrates \o Listing # << >>,
         NEW st \in Learn(old, Listing)
  PROVE  st.available_bitrates # << >> /\ Learnt(st)
<1> DEFINE avail == old.available_bitrates
<1>1. avail \in Seq(Nat) /\ Listing \in Seq(Nat) /\ avail \o Listing \in Seq(Nat)
  BY MiProxyAssumption, ConcatProperties DEF Stream
<1>2. PICK t \in Sortings(avail \o Listing) :
        st = [old EXCEPT !.available_bitrates = t, !.current_throughput = 3 * t[1]]
  BY DEF Learn
<1>3. st.available_bitrates = t
  BY <1>2 DEF Stream
<1>4. /\ t \in Seq(Nat) /\ Len(t) = Len(avail \o Listing) /\ IsAscending(t)
      /\ Elements(t) = Elements(avail \o Listing)
  BY <1>1, <1>2, SortingKeeps
<1>5. t # << >>
  <2>1. Len(avail \o Listing) # 0
    BY <1>1, EmptySeq
  <2> QED BY <1>4, <2>1, EmptySeq
<1>6. Elements(avail \o Listing) = Elements(avail) \cup Elements(Listing)
  BY <1>1, ElementsOfConcat
<1>7. Elements(avail) \subseteq Elements(Listing)
  <2>1. CASE avail = << >>
    BY <2>1 DEF Elements
  <2>2. CASE avail # << >>
    BY <2>2 DEF Learnt
  <2> QED BY <2>1, <2>2
<1> QED BY <1>3, <1>4, <1>5, <1>6, <1>7 DEF Learnt

(* The manifest has come, and the request for the other one is sent. *)
LEMMA ManifestSought ==
  ASSUME NEW ip, NEW s, Orderly(ip, s), NEW u \in Unit, Asking(ip, s, u), OnItsWay(s, u),
         s.no_list # << >>, u.kind # "page",
         NEW t, t.n = s.n, t.up = s.up, t.out = s.no_list, t.back = << >>, t.down = s.down,
         t.no_list = << >>, t.len = 0, t.player = s.player,
         Learnt(t.stream), Known(t)
  PROVE  Orderly(ip, t)
<1> DEFINE v == [u EXCEPT !.kind = "nolist"]
<1>1. /\ IsRequest(s.no_list, v) /\ u.kind = "manifest" /\ s.up = << >> /\ s.down = << >>
      /\ "notFound" \notin Faults => u.br = 0
  BY DEF OnItsWay, Sought
<1>2. /\ v \in Unit /\ v.ip = u.ip /\ v.n = u.n /\ v.kind = "nolist" /\ v.br = u.br
      /\ v.part = u.part
  BY DEF Unit, Kinds
<1> HIDE DEF v
<1>3. AtServer(t, v) /\ Asking(ip, t, v)
  BY <1>1, <1>2 DEF AtServer, Sought, Asking
<1> QED BY <1>2, <1>3 DEF Orderly, Proceeds

LEMMA ServerManifestQuiet ==
  ASSUME QuietInv, NEW ip, ServerManifest(ip)
  PROVE  Separate' /\ SendingOn' /\ Lockstep' /\ LogMatchesResponse'
<1> DEFINE c == conn[ip]
           fd == c.server_socket
           client == c.client_socket
           rest(k) == [sock EXCEPT ![fd] = Read(sock[fd], k)]
<1>1. /\ ServerTurn(ip) /\ IsNext(ip) /\ fd \in Fd /\ fd # None /\ sock[fd] \in Socket
      /\ c.no_list_message # << >>
  BY ServerTurnOwns DEF ServerManifest, ServerTurn, QuietInv
<1>2. /\ ip \in clients /\ ip \in Client /\ c \in Connection /\ client \in Fd /\ client # fd
      /\ conn \in [Client -> Connection] /\ sock \in [Fd -> Socket]
      /\ c.stream \in Stream /\ c.no_list_message \in Message
  BY <1>1, TurnOwns, ServerTurnOwns DEF QuietInv, Inv, TypeOK, Owned, Connection
<1>3. PICK k \in Reads(sock[fd]) :
        LET msg == c.server_message \o Taken(sock[fd], k)
        IN  /\ IsComplete(c, msg)
            /\ IF ~ IsXml(msg) THEN Dies("not text/xml")
               ELSE IF c.stream.available_bitrates \o Listed(msg) = << >>
               THEN Dies("no bitrates")
               ELSE IF ~ CanSend(rest(k)[fd]) THEN Dies("send failed")
               ELSE /\ sock' = [rest(k) EXCEPT ![fd] = Sent(@, c.no_list_message)]
                    /\ \E st \in Learn(c.stream, Listed(msg)) :
                         conn' = [conn EXCEPT ![ip] =
                           ResponseDone([Timed(c, sock[fd]) EXCEPT
                                           !.no_list_message = << >>], st)]
                    /\ Visited(ip)
                    /\ UNCHANGED << clients, dns_socket, log, backlog, browserVars >>
  BY DEF ServerManifest
<1>4. PICK msg : msg = c.server_message \o Taken(sock[fd], k)
  OBVIOUS
<1>5. PICK r : r = Read(sock[fd], k).inq
  OBVIOUS
<1>6. PICK s : s = Situation(ip)
  OBVIOUS
<1>7. Orderly(ip, s) /\ \E u \in Unit : Arrived(ip, s, u, msg, r)
  <2>1. IsComplete(c, msg)
    BY <1>3, <1>4
  <2> QED BY <1>1, <1>4, <1>5, <1>6, <2>1, ResponseArrives
<1>8. PICK u \in Unit : /\ Asking(ip, s, u) /\ OnItsWay(s, u) /\ Started(c, sock[fd]) = u.n
                        /\ r = << >> /\ msg = Whole(u, ResponseParts(u.kind))
  BY <1>7 DEF Arrived
<1>9. msg \in Message
  BY <1>8, ResponseIs
<1>10. s.no_list = c.no_list_message /\ s.no_list # << >> /\ s.stream = c.stream
  BY <1>1, <1>6 DEF Situation
<1>11. s.out = << >>
  BY <1>8 DEF OnItsWay
<1>12. CASE Ends
  BY <1>12, LoopSteps
<1>13. CASE ~ Ends
  <2>1. /\ IsXml(msg)
        /\ c.stream.available_bitrates \o Listed(msg) # << >>
        /\ sock' = [rest(k) EXCEPT ![fd] = Sent(@, c.no_list_message)]
        /\ \E st \in Learn(c.stream, Listed(msg)) :
             conn' = [conn EXCEPT ![ip] =
               ResponseDone([Timed(c, sock[fd]) EXCEPT !.no_list_message = << >>], st)]
        /\ Visited(ip)
        /\ UNCHANGED << clients, dns_socket, log, backlog, browserVars >>
    <3>1. /\ "not text/xml" \in Deaths /\ "no bitrates" \in Deaths /\ "send failed" \in Deaths
      BY DEF Deaths
    <3>2. ~ Dies("not text/xml") /\ ~ Dies("no bitrates") /\ ~ Dies("send failed")
      BY <1>13, <3>1 DEF Ends
    <3> HIDE DEF c, fd, rest
    <3> QED BY <1>3, <1>4, <3>2
  <2>2. u.kind = "manifest"
    <3>1. u.kind \in { "manifest", "nolist" }
      BY <1>8, <2>1, ResponseIs
    <3> QED BY <1>8, <1>10, <3>1 DEF OnItsWay, Sought
  <2>3. Listed(msg) = Listing
    BY <1>8, <2>2, ListedOnce
  <2>4. PICK st \in Learn(c.stream, Listing) :
          conn' = [conn EXCEPT ![ip] =
            ResponseDone([Timed(c, sock[fd]) EXCEPT !.no_list_message = << >>], st)]
    BY <2>1, <2>3
  <2>5. st.available_bitrates # << >> /\ Learnt(st)
    BY <1>2, <1>7, <1>10, <2>1, <2>3, <2>4, LearnKeeps DEF Orderly
  <2> DEFINE entry == ResponseDone([Timed(c, sock[fd]) EXCEPT !.no_list_message = << >>], st)
             there == Sent(Read(sock[fd], k), c.no_list_message)
  <2>6. conn' = [conn EXCEPT ![ip] = entry] /\ sock' = [sock EXCEPT ![fd] = there]
    BY <1>1, <1>2, <2>1, <2>4
  <2>7. /\ entry.client_socket = client /\ entry.server_socket = fd
        /\ entry.client_message = c.client_message /\ entry.server_message = << >>
        /\ entry.server_message_len = 0
        /\ entry.no_list_message = << >> /\ entry.stream = st
    BY <1>2 DEF ResponseDone, Timed, Connection
  <2>8. /\ there.kind = sock[fd].kind /\ there.ip = sock[fd].ip /\ there.peer = sock[fd].peer
        /\ there.outq = sock[fd].outq \o c.no_list_message /\ there.inq = r
    <3>1. sock[fd].peer = "open"
      BY <1>1, <1>2, EntryIs DEF QuietInv
    <3> QED BY <1>1, <1>5, <3>1 DEF Read, Socket, Sent
  <2> HIDE DEF entry, there
  <2>9. /\ conn'[ip] = entry /\ sock'[fd] = there
        /\ \A g \in Fd : g # fd => sock'[g] = sock[g]
    BY <1>1, <1>2, <2>6
  <2>10. pc = "scan" /\ pc' = pc /\ sending = NotSending /\ sending' = sending
        /\ UNCHANGED << asked, got, player >>
    BY <1>1, <2>1 DEF QuietInv, SendingOn, IsNext, Visited, browserVars
  <2>11. PICK t : t = Situation(ip)'
    OBVIOUS
  <2>12. t.up = s.up /\ t.n = s.n /\ t.player = s.player /\ t.no_list = << >>
        /\ t.stream = st /\ t.len = 0
    BY <1>2, <1>6, <2>7, <2>9, <2>10, <2>11 DEF Situation
  <2>13. t.out = s.no_list
    <3>1. sock[fd].outq = << >>
      BY <1>1, <1>6, <1>11 DEF Situation, Out
    <3>2. t.out = << >> \o s.no_list
      BY <1>1, <1>10, <2>7, <2>8, <2>9, <2>11, <3>1 DEF Situation, Out
    <3> QED BY <1>2, <1>10, <3>2, ConcatEmptySeq DEF Message
  <2>14. t.back = << >>
    <3>1. t.back = << >> \o << >>
      BY <1>1, <1>8, <2>7, <2>8, <2>9, <2>11 DEF Situation, In
    <3> QED BY <3>1, EmptySeq, ConcatEmptySeq
  <2>15. t.down = s.down
    BY <1>2, <1>6, <2>7, <2>9, <2>10, <2>11 DEF Situation, Delivered, Unsent
  <2>16. Orderly(ip, t)
    BY <1>7, <1>8, <1>10, <2>2, <2>5, <2>12, <2>13, <2>14, <2>15, ManifestSought DEF Known
  <2>17. Separate' /\ Lockstep'
    BY <1>1, <1>2, <2>1, <2>6, <2>7, <2>8, <2>9, <2>10, <2>11, <2>16, ServesQuiet DEF Mine
  <2> QED BY <2>1, <2>10, <2>17 DEF QuietInv, SendingOn, LogMatchesResponse
<1> QED BY <1>12, <1>13

-----------------------------------------------------------------------------

(* What a whole response changes of the stream and of the log. *)
LEMMA UpdateKeeps ==
  ASSUME NEW c \in Connection, NEW ip, NEW msg, NEW result \in UpdateThroughput(c, ip, msg)
  PROVE  /\ result[1].available_bitrates = c.stream.available_bitrates
         /\ result[2] = log \/ /\ IsVideo(msg)
                               /\ result[2].chunkname = c.stream.chunkname
                               /\ result[2].bitrate = c.stream.current_bitrate
                               /\ result[2].start = c.server_conn_start
                               /\ result[2].n = msg[Len(msg)].n
                               /\ result[2].br = msg[Len(msg)].br
<1>1. CASE ~ IsVideo(msg)
  BY <1>1 DEF UpdateThroughput
<1>2. CASE IsVideo(msg)
  <2>1. PICK new \in Measured :
          result = << Measure(c.stream, new),
                      [ ip        |-> ip,
                        chunkname |-> c.stream.chunkname,
                        bitrate   |-> c.stream.current_bitrate,
                        start     |-> c.server_conn_start,
                        n         |-> msg[Len(msg)].n,
                        br        |-> msg[Len(msg)].br ] >>
    BY <1>2 DEF UpdateThroughput
  <2>2. Measure(c.stream, new).available_bitrates = c.stream.available_bitrates
    BY DEF Measure, Connection, Stream
  <2> HIDE DEF Measure
  <2> QED BY <1>2, <2>1, <2>2
<1> QED BY <1>1, <1>2

(* A whole response is on its way to its browser. *)
LEMMA ResponseSentOn ==
  ASSUME NEW ip, NEW s, Orderly(ip, s), NEW u \in Unit, Asking(ip, s, u), OnItsWay(s, u),
         s.no_list = << >>,
         NEW t, t.n = s.n, t.up = s.up, t.out = s.out, t.back = << >>,
         t.down = Whole(u, ResponseParts(u.kind)), t.no_list = << >>, t.len = 0,
         t.player = s.player,
         t.stream.available_bitrates = s.stream.available_bitrates
  PROVE  Orderly(ip, t)
<1>1. u.kind = "chunk" => u.br \in Elements(Listing)
  BY DEF OnItsWay, Sought, IsBest
<1>2. AtBrowser(t, u) /\ Asking(ip, t, u)
  BY <1>1 DEF OnItsWay, Sought, AtBrowser, Asking, Known
<1> QED BY <1>2 DEF Orderly, Proceeds, Learnt, Known

(* What is sent now and what is sent later. *)
LEMMA SendsAll ==
  ASSUME NEW msg \in Message, NEW s, NEW m \in Fits(s, msg), NEW p \in Message
  PROVE  /\ Before(msg, m) \in Message /\ Behind(msg, m) \in Message
         /\ (p \o Before(msg, m)) \o Behind(msg, m) = p \o msg
<1>1. m \in 0 .. Len(msg)
  BY DEF Fits, Room
<1>2. /\ Before(msg, m) = SubSeq(msg, 1, m) /\ Behind(msg, m) = SubSeq(msg, m + 1, Len(msg))
  BY DEF Before, Behind
<1> QED BY <1>1, <1>2, MovedOn

LEMMA LeavesUnsent ==
  ASSUME NEW fd \in Fd, NEW rest, SendsOn(fd, rest)
  PROVE  /\ Unsent(fd)' = rest
         /\ sending' = NotSending \/ sending'.fd = fd
         /\ \/ sending' = NotSending
            \/ pc' = "send" /\ sending'.fd = fd /\ sending'.rest # << >>
<1>1. fd # None
  BY MiProxyAssumption DEF Fd, None
<1> QED BY <1>1 DEF SendsOn, Unsent, NotSending

LEMMA ServerForwardQuiet ==
  ASSUME QuietInv, NEW ip, ServerForward(ip)
  PROVE  Separate' /\ SendingOn' /\ Lockstep' /\ LogMatchesResponse'
<1> DEFINE c == conn[ip]
           fd == c.server_socket
           client == c.client_socket
           d == Timed(c, sock[fd])
<1>1. /\ ServerTurn(ip) /\ IsNext(ip) /\ fd \in Fd /\ fd # None /\ sock[fd] \in Socket
      /\ c.no_list_message = << >>
  BY ServerTurnOwns DEF ServerForward, ServerTurn, QuietInv
<1>2. /\ ip \in clients /\ ip \in Client /\ c \in Connection /\ client \in Fd /\ client # fd
      /\ conn \in [Client -> Connection] /\ sock \in [Fd -> Socket]
      /\ sock[client] \in Socket
  BY <1>1, TurnOwns, ServerTurnOwns DEF QuietInv, Inv, TypeOK, Owned
<1>3. PICK k \in Reads(sock[fd]) :
        LET msg == c.server_message \o Taken(sock[fd], k)
        IN  /\ IsComplete(c, msg)
            /\ IF ~ CanSend(sock[client]) THEN Dies("send failed")
               ELSE \E result \in UpdateThroughput(d, ip, msg), m \in Fits(sock[client], msg) :
                      /\ conn' = [conn EXCEPT ![ip] = ResponseDone(d, result[1])]
                      /\ log' = result[2]
                      /\ sock' = [sock EXCEPT ![fd] = Read(@, k),
                                              ![client] = Sent(@, Before(msg, m))]
                      /\ SendsOn(client, Behind(msg, m))
                      /\ todo' = todo \ { ip }
                      /\ UNCHANGED << readfds, clients, dns_socket, backlog, browserVars >>
  BY DEF ServerForward
<1>4. PICK msg : msg = c.server_message \o Taken(sock[fd], k)
  OBVIOUS
<1>5. PICK r : r = Read(sock[fd], k).inq
  OBVIOUS
<1>6. PICK s : s = Situation(ip)
  OBVIOUS
<1>7. Orderly(ip, s) /\ \E u \in Unit : Arrived(ip, s, u, msg, r)
  <2>1. IsComplete(c, msg)
    BY <1>3, <1>4
  <2> QED BY <1>1, <1>4, <1>5, <1>6, <2>1, ResponseArrives
<1>8. PICK u \in Unit : /\ Asking(ip, s, u) /\ OnItsWay(s, u) /\ Started(c, sock[fd]) = u.n
                        /\ r = << >> /\ msg = Whole(u, ResponseParts(u.kind))
  BY <1>7 DEF Arrived
<1>9. msg \in Message
  BY <1>8, ResponseIs
<1>10. s.no_list = << >> /\ s.stream = c.stream
  BY <1>1, <1>6 DEF Situation
<1>11. s.down = << >>
  BY <1>8 DEF OnItsWay
<1>12. CASE Ends
  BY <1>12, LoopSteps
<1>13. CASE ~ Ends
  <2>1. PICK result \in UpdateThroughput(d, ip, msg), m \in Fits(sock[client], msg) :
          /\ conn' = [conn EXCEPT ![ip] = ResponseDone(d, result[1])]
          /\ log' = result[2]
          /\ sock' = [sock EXCEPT ![fd] = Read(@, k), ![client] = Sent(@, Before(msg, m))]
          /\ SendsOn(client, Behind(msg, m))
          /\ todo' = todo \ { ip }
          /\ UNCHANGED << readfds, clients, dns_socket, backlog, browserVars >>
    <3>1. "send failed" \in Deaths
      BY DEF Deaths
    <3>2. ~ Dies("send failed")
      BY <1>13, <3>1 DEF Ends
    <3> HIDE DEF c, fd, client, d
    <3> QED BY <1>3, <1>4, <3>2
  <2>2. d \in Connection /\ d.stream = c.stream /\ d.server_conn_start = u.n
    <3>1. d \in Connection
      BY <1>1, <1>2, TimedIs
    <3> QED BY <1>2, <1>8, <3>1 DEF Timed, Connection
  <2>3. PICK st : st = result[1]
    OBVIOUS
  <2> DEFINE entry == ResponseDone(d, st)
             there == Read(sock[fd], k)
             here == Sent(sock[client], Before(msg, m))
  <2>4. conn' = [conn EXCEPT ![ip] = entry]
        /\ sock' = [sock EXCEPT ![fd] = there, ![client] = here]
    BY <2>1, <2>3
  <2>5. /\ entry.client_socket = client /\ entry.server_socket = fd
        /\ entry.client_message = c.client_message /\ entry.server_message = << >>
        /\ entry.server_message_len = 0
        /\ entry.no_list_message = << >> /\ entry.stream = st
    BY <1>1, <1>2 DEF ResponseDone, Timed, Connection
  <2>6. /\ there.kind = sock[fd].kind /\ there.ip = sock[fd].ip /\ there.peer = sock[fd].peer
        /\ there.outq = sock[fd].outq /\ there.inq = r
    BY <1>1, <1>5 DEF Read, Socket
  <2>7. /\ here.kind = sock[client].kind /\ here.ip = sock[client].ip
        /\ here.peer = sock[client].peer
        /\ here.outq = sock[client].outq \o Before(msg, m) /\ here.inq = sock[client].inq
    <3>1. sock[client].peer = "open"
      BY <1>2, EntryIs DEF QuietInv
    <3> QED BY <1>2, <3>1 DEF Socket, Sent
  <2> HIDE DEF entry, there, here
  <2>8. /\ conn'[ip] = entry /\ sock'[fd] = there /\ sock'[client] = here
        /\ \A g \in Fd : g \notin { fd, client } => sock'[g] = sock[g]
    BY <1>1, <1>2, <2>4
  <2>9. pc = "scan" /\ sending = NotSending /\ UNCHANGED << asked, got, player >>
    BY <1>1, <2>1 DEF QuietInv, SendingOn, IsNext, browserVars
  <2>10. PICK rest : rest = Behind(msg, m)
    OBVIOUS
  <2>11. /\ (IF sending'.fd = client THEN sending'.rest ELSE << >>) = rest
         /\ sending' = NotSending \/ sending'.fd = client
         /\ \/ sending' = NotSending
            \/ pc' = "send" /\ sending'.fd = client /\ sending'.rest # << >>
    <3>1. PICK g \in Fd : g = client
      BY <1>2
    <3>2. SendsOn(g, rest)
      BY <2>1, <2>10, <3>1
    <3>3. /\ Unsent(g)' = rest
          /\ sending' = NotSending \/ sending'.fd = g
          /\ \/ sending' = NotSending
             \/ pc' = "send" /\ sending'.fd = g /\ sending'.rest # << >>
      BY <3>2, LeavesUnsent
    <3> QED BY <3>1, <3>3 DEF Unsent
  <2>12. PICK t : t = Situation(ip)'
    OBVIOUS
  <2>13. t.up = s.up /\ t.n = s.n /\ t.player = s.player /\ t.no_list = << >>
         /\ t.stream = st /\ t.len = 0
    BY <1>2, <1>6, <2>5, <2>7, <2>8, <2>9, <2>12 DEF Situation
  <2>14. t.out = s.out
    BY <1>1, <1>6, <2>5, <2>6, <2>8, <2>12 DEF Situation, Out
  <2>15. t.back = << >>
    <3>1. t.back = << >> \o << >>
      BY <1>1, <1>8, <2>5, <2>6, <2>8, <2>12 DEF Situation, In
    <3> QED BY <3>1, EmptySeq, ConcatEmptySeq
  <2>16. t.down = msg
    <3>1. /\ << >> \in Message /\ (<< >> \o Before(msg, m)) \o rest = << >> \o msg
          /\ Before(msg, m) \in Message /\ rest \in Message
      BY <1>9, <2>10, EmptySeq, SendsAll DEF Message
    <3>2. Delivered(client) \o Unsent(client) = << >>
      BY <1>6, <1>11 DEF Situation
    <3>3. got[client] = << >> /\ sock[client].outq = << >>
      <4>1. /\ got[client] \in Message /\ sock[client].outq \in Message
            /\ Unsent(client) \in Message
        BY <1>2, <2>9, NothingUnsent, EmptySeq DEF QuietInv, Inv, TypeOK, Socket, Message
      <4>2. Delivered(client) \in Message
        BY <4>1, ConcatIsMessage DEF Delivered
      <4>3. Delivered(client) = << >>
        BY <3>2, <4>1, <4>2, ConcatEqualIffEmpty DEF Message
      <4> QED BY <4>1, <4>3, ConcatEqualIffEmpty DEF Message, Delivered
    <3>4. t.down = (got'[client] \o sock'[client].outq)
                     \o (IF sending'.fd = client THEN sending'.rest ELSE << >>)
      BY <2>5, <2>8, <2>12 DEF Situation, Delivered, Unsent
    <3>5. t.down = (<< >> \o (<< >> \o Before(msg, m))) \o rest
      BY <2>7, <2>8, <2>9, <2>11, <3>3, <3>4
    <3>6. << >> \o (<< >> \o Before(msg, m)) = << >> \o Before(msg, m) /\ << >> \o msg = msg
      BY <1>7, <3>1, ConcatEmptySeq DEF Message
    <3> QED BY <3>1, <3>5, <3>6
  <2>17. /\ st.available_bitrates = c.stream.available_bitrates
         /\ \/ log' = log
            \/ /\ IsVideo(msg)
               /\ log'.chunkname = c.stream.chunkname /\ log'.bitrate = c.stream.current_bitrate
               /\ log'.start = u.n
               /\ log'.n = msg[Len(msg)].n /\ log'.br = msg[Len(msg)].br
    <3> HIDE DEF d
    <3> QED BY <2>1, <2>2, <2>3, UpdateKeeps
  <2>18. Orderly(ip, t)
    BY <1>7, <1>8, <1>9, <1>10, <2>13, <2>14, <2>15, <2>16, <2>17, ResponseSentOn
  <2>19. LogMatchesResponse'
    <3>1. CASE log' = log
      BY <3>1 DEF QuietInv, LogMatchesResponse
    <3>2. CASE log' # log
      <4>1. u.kind = "chunk" /\ msg[Len(msg)].n = u.n /\ msg[Len(msg)].br = u.br
        BY <1>8, <2>17, <3>2, ResponseIs
      <4>2. c.stream.chunkname = u.n /\ c.stream.current_bitrate = u.br
        BY <1>8, <1>10, <4>1 DEF OnItsWay, Sought
      <4> QED BY <2>17, <3>2, <4>1, <4>2 DEF LogMatchesResponse
    <3> QED BY <3>1, <3>2
  <2>20. Separate' /\ Lockstep'
    <3>1. \A g \in Fd : /\ sock'[g].kind = sock[g].kind
                        /\ sock'[g].ip = sock[g].ip
                        /\ sock'[g].peer = sock[g].peer
                        /\ g \notin Mine(ip) => sock'[g] = sock[g]
      BY <2>6, <2>7, <2>8 DEF Mine
    <3> QED BY <1>1, <1>2, <2>1, <2>4, <2>5, <2>11, <2>12, <2>18, <3>1, ServesQuiet
  <2>21. SendingOn'
    BY <1>2, <2>7, <2>8, <2>11, EntryIs DEF SendingOn, QuietInv
  <2> QED BY <2>19, <2>20, <2>21
<1> QED BY <1>12, <1>13

-----------------------------------------------------------------------------

(* Nobody closes: a read on a connection of an entry finds something. *)
LEMMA NobodyCloses ==
  ASSUME QuietInv, NEW ip,
         ClientGone(ip) \/ ClientReset(ip) \/ ServerGone(ip) \/ ServerReset(ip)
  PROVE  FALSE
<1>1. CASE ClientGone(ip) \/ ClientReset(ip)
  <2>1. ip \in clients
    BY <1>1, TurnOwns DEF ClientGone, ClientReset, ClientTurn, QuietInv
  <2>2. sock[conn[ip].client_socket].peer = "open"
    BY <2>1, EntryIs DEF QuietInv
  <2> QED BY <1>1, <2>2 DEF ClientGone, ClientReset, AtEnd, IsReset
<1>2. CASE ServerGone(ip) \/ ServerReset(ip)
  <2>1. ServerTurn(ip) /\ ip \in clients /\ conn[ip].server_socket # None
    BY <1>2, TurnOwns DEF ServerGone, ServerReset, ServerTurn, QuietInv
  <2>2. sock[conn[ip].server_socket].peer = "open"
    BY <2>1, EntryIs DEF QuietInv
  <2> QED BY <1>2, <2>2 DEF ServerGone, ServerReset, AtEnd, IsReset
<1> QED BY <1>1, <1>2

(* A step on one connection, after which its dialogue is orderly. *)
LEMMA OneConnectionQuiet ==
  ASSUME QuietInv, NEW ip \in clients, NEW fd \in Mine(ip) \cap Fd, NEW here,
         UNCHANGED << proxyVars, backlog >>,
         sock' = [sock EXCEPT ![fd] = here],
         here.kind = sock[fd].kind, here.ip = sock[fd].ip, here.peer = sock[fd].peer,
         \A g \in Fd : g # fd => /\ asked'[g] = asked[g] /\ got'[g] = got[g]
                                 /\ Unsent(g)' = Unsent(g),
         sock[fd].kind # "client" => asked'[fd] = asked[fd] /\ got'[fd] = got[fd],
         \A other \in Client \ { ip } : player'[other] = player[other],
         NEW s, s = Situation(ip)', Orderly(ip, s)
  PROVE  Separate' /\ Lockstep' /\ LogMatchesResponse'
<1>1. sock \in [Fd -> Socket] /\ clients \subseteq Client /\ Separate /\ Lockstep
  BY DEF QuietInv, Inv, TypeOK
<1>2. UNCHANGED << clients, conn, log >>
  BY DEF proxyVars
<1>3. sock'[fd] = here /\ \A g \in Fd : g # fd => sock'[g] = sock[g]
  BY <1>1
<1>4. SameSockets
  BY <1>1, <1>2, <1>3 DEF SameSockets
<1>5. \A other \in clients' \ { ip } : other \in clients /\ SameDialogue(other)
  <2>1. \A other \in clients \ { ip } : conn'[other] = conn[other] /\ player'[other] = player[other]
    BY <1>1, <1>2
  <2>2. \A g \in Fd \ Mine(ip) : /\ sock[g].kind # "free" => sock'[g] = sock[g]
                                 /\ asked'[g] = asked[g] /\ got'[g] = got[g]
                                 /\ Unsent(g)' = Unsent(g)
    BY <1>3
  <2> QED BY <1>1, <1>2, <2>1, <2>2, OthersDialogue
<1>6. Lockstep'
  BY <1>1, <1>5, LockstepKept
<1> QED BY <1>1, <1>2, <1>4, <1>6, SeparateKept DEF QuietInv, LogMatchesResponse

(* More of a response is sent: what was not sent follows what was. *)
LEMMA SendMoreQuiet ==
  ASSUME QuietInv, SendMore
  PROVE  Separate' /\ SendingOn' /\ Lockstep' /\ LogMatchesResponse'
<1> DEFINE fd == sending.fd
           msg == sending.rest
<1>1. /\ pc = "send" /\ fd \in Fd /\ fd # None /\ msg \in Message
      /\ sock \in [Fd -> Socket] /\ sock[fd] \in Socket /\ got[fd] \in Message
  <2>1. \A g \in Fd : g # None
    BY MiProxyAssumption DEF Fd, None
  <2>2. /\ pc = "send" /\ fd \in Fd
        /\ sending \in [ fd : Fd \cup { None }, rest : Message ]
        /\ sock \in [Fd -> Socket] /\ got \in [Fd -> Message]
    BY DEF QuietInv, Inv, TypeOK, SendsSome, SendMore
  <2> QED BY <2>1, <2>2
<1>2. sock[fd].kind = "client"
  BY <1>1 DEF QuietInv, SendingOn, NotSending
<1>3. PICK ip : ip = sock[fd].ip
  OBVIOUS
<1>4. ip \in clients /\ conn[ip].client_socket = fd /\ sock[fd].peer = "open"
  BY <1>1, <1>2, <1>3 DEF QuietInv, Separate, SocketsInUse, InUse
<1>5. PICK m \in Fits(sock[fd], msg) :
        /\ sock' = [sock EXCEPT ![fd] = Sent(@, Before(msg, m))]
        /\ SendsOn(fd, Behind(msg, m))
        /\ UNCHANGED << readfds, todo, proxyVars, backlog, browserVars >>
  <2>1. CanSend(sock[fd])
    BY <1>4 DEF CanSend
  <2> QED BY <2>1 DEF SendMore
<1> DEFINE here == Sent(sock[fd], Before(msg, m))
<1>6. sock' = [sock EXCEPT ![fd] = here]
  BY <1>5
<1>7. /\ here.kind = sock[fd].kind /\ here.ip = sock[fd].ip /\ here.peer = sock[fd].peer
      /\ here.outq = sock[fd].outq \o Before(msg, m) /\ here.inq = sock[fd].inq
  BY <1>1, <1>4 DEF Socket, Sent
<1>8. /\ Before(msg, m) \in Message /\ Behind(msg, m) \in Message
      /\ (Delivered(fd) \o Before(msg, m)) \o Behind(msg, m) = Delivered(fd) \o msg
  <2>1. Delivered(fd) \in Message
    BY <1>1, ConcatIsMessage DEF Delivered, Socket
  <2> QED BY <1>1, <2>1, SendsAll
<1>9. got[fd] \o (sock[fd].outq \o Before(msg, m)) = Delivered(fd) \o Before(msg, m)
  <2>1. \A p, q, r \in Seq(Unit) : (p \o q) \o r = p \o (q \o r)
    BY ConcatAssociative
  <2> QED BY <1>1, <1>8, <2>1 DEF Delivered, Socket, Message
<1>10. PICK rest : rest = Behind(msg, m)
  OBVIOUS
<1>11. PICK g \in Fd : g = fd
  BY <1>1
<1>12. /\ (IF sending'.fd = fd THEN sending'.rest ELSE << >>) = rest
       /\ sending' = NotSending \/ sending'.fd = fd
       /\ \/ sending' = NotSending
          \/ pc' = "send" /\ sending'.fd = fd /\ sending'.rest # << >>
  <2>1. SendsOn(g, rest)
    BY <1>5, <1>10, <1>11
  <2>2. /\ Unsent(g)' = rest
        /\ sending' = NotSending \/ sending'.fd = g
        /\ \/ sending' = NotSending
           \/ pc' = "send" /\ sending'.fd = g /\ sending'.rest # << >>
    BY <2>1, LeavesUnsent
  <2> QED BY <1>11, <2>2 DEF Unsent
<1> HIDE DEF here
<1>13. sock'[fd] = here /\ \A h \in Fd : h # fd => sock'[h] = sock[h]
  BY <1>1, <1>6
<1>14. UNCHANGED << clients, conn, asked, got, player, proxyVars, backlog >>
  BY <1>5 DEF proxyVars, browserVars
<1>15. PICK s : s = Situation(ip)
  OBVIOUS
<1>16. PICK t : t = Situation(ip)'
  OBVIOUS
<1>17. t.down = s.down
  <2>1. t.down = (got[fd] \o here.outq) \o (IF sending'.fd = fd THEN sending'.rest ELSE << >>)
    BY <1>4, <1>13, <1>14, <1>16 DEF Situation, Delivered, Unsent
  <2>2. t.down = (got[fd] \o (sock[fd].outq \o Before(msg, m))) \o rest
    BY <1>7, <1>12, <2>1
  <2>3. s.down = Delivered(fd) \o msg
    BY <1>4, <1>15 DEF Situation, Unsent
  <2> QED BY <1>8, <1>9, <1>10, <2>2, <2>3
<1>18. t.up = s.up
  BY <1>4, <1>7, <1>13, <1>14, <1>15, <1>16 DEF Situation
<1>19. t.out = s.out /\ t.back = s.back
  <2>1. conn[ip].server_socket # None =>
          conn[ip].server_socket \in Fd /\ conn[ip].server_socket # fd
    BY <1>4, EntryIs DEF QuietInv
  <2> QED BY <1>13, <1>14, <1>15, <1>16, <2>1 DEF Situation, Out, In
<1>20. t = s
  BY <1>4, <1>14, <1>15, <1>16, <1>17, <1>18, <1>19 DEF Situation
<1>21. Orderly(ip, t)
  BY <1>4, <1>15, <1>20 DEF QuietInv, Lockstep
<1>22. fd \in Mine(ip) \cap Fd
  BY <1>1, <1>4 DEF Mine
<1>23. \A h \in Fd : h # fd => /\ asked'[h] = asked[h] /\ got'[h] = got[h]
                               /\ Unsent(h)' = Unsent(h)
  <2>1. \A h \in Fd : h # None
    BY MiProxyAssumption DEF Fd, None
  <2> QED BY <1>12, <1>14, <2>1 DEF Unsent, NotSending
<1>24. Separate' /\ Lockstep' /\ LogMatchesResponse'
  BY <1>2, <1>4, <1>6, <1>7, <1>14, <1>16, <1>21, <1>22, <1>23, OneConnectionQuiet
<1>25. SendingOn'
  BY <1>1, <1>2, <1>7, <1>12, <1>13 DEF SendingOn
<1> QED BY <1>24, <1>25

-----------------------------------------------------------------------------

(* A browser connects when it has no connection: it has no entry either.   *)
LEMMA OpenConnectionQuiet ==
  ASSUME Quiet, QuietInv, NEW ip \in Client, OpenConnection(ip)
  PROVE  Separate' /\ SendingOn' /\ Lockstep' /\ LogMatchesResponse'
<1>1. /\ backlog' = Append(backlog, ip)
      /\ UNCHANGED << loopVars, proxyVars, sock, asked, got, sent, player >>
      /\ Cardinality(BrowserEnds(ip)) + Cardinality(Waiting(ip)) < MaxOpen
  BY DEF OpenConnection
<1>2. backlog \in Seq(Client) /\ Len(backlog) \in Nat /\ NumFd \in Nat
  BY LenProperties, MiProxyAssumption DEF QuietInv, Inv, TypeOK
<1>3. IsFiniteSet(BrowserEnds(ip)) /\ IsFiniteSet(Waiting(ip))
  <2>1. IsFiniteSet(1 .. NumFd) /\ IsFiniteSet(1 .. Len(backlog))
    BY <1>2, FS_Interval
  <2>2. BrowserEnds(ip) \subseteq 1 .. NumFd /\ Waiting(ip) \subseteq 1 .. Len(backlog)
    BY DEF BrowserEnds, Waiting, Fd
  <2> QED BY <2>1, <2>2, FS_Subset
<1>4. BrowserEnds(ip) = {} /\ Waiting(ip) = {}
  <2>1. Cardinality(BrowserEnds(ip)) \in Nat /\ Cardinality(Waiting(ip)) \in Nat
    BY <1>3, FS_CardinalityType
  <2>2. MaxOpen \in Nat /\ MaxOpen =< 1
    BY MiProxyAssumption DEF Quiet
  <2>3. Cardinality(BrowserEnds(ip)) = 0 /\ Cardinality(Waiting(ip)) = 0
    BY <1>1, <2>1, <2>2
  <2> QED BY <1>3, <2>3, FS_EmptySet
<1>5. ip \notin clients
  BY <1>4, EntryIs DEF QuietInv, BrowserEnds
<1>6. UNCHANGED << clients, conn, log, pc, sending, sock, asked, got, player >>
  BY <1>1 DEF loopVars, proxyVars
<1>7. WaitOnce'
  <2>1. /\ Len(backlog') = Len(backlog) + 1
        /\ \A i \in 1 .. Len(backlog) : backlog'[i] = backlog[i]
        /\ backlog'[Len(backlog) + 1] = ip
    BY <1>1, <1>2, AppendProperties
  <2>2. \A i \in 1 .. Len(backlog') : i \in 1 .. Len(backlog) \/ i = Len(backlog) + 1
    BY <1>2, <2>1
  <2>3. \A i \in 1 .. Len(backlog) : backlog[i] # ip
    BY <1>4 DEF Waiting
  <2>4. WaitOnce
    BY DEF QuietInv, Separate
  <2>5. \A i \in 1 .. Len(backlog') : backlog'[i] \notin clients
    BY <1>5, <2>1, <2>2, <2>4 DEF WaitOnce
  <2>6. \A i, j \in 1 .. Len(backlog') : backlog'[i] = backlog'[j] => i = j
    BY <2>1, <2>2, <2>3, <2>4 DEF WaitOnce
  <2> QED BY <1>6, <2>5, <2>6 DEF WaitOnce
<1>8. Separate'
  BY <1>6, <1>7 DEF QuietInv, Separate, SocketsInUse, InUse, NobodyElseAsks, PlayersAreKnown,
                    Owned
<1>9. Lockstep'
  <2> SUFFICES ASSUME NEW other \in clients, NEW t, t = Situation(other)'
               PROVE  Orderly(other, t)
    BY <1>6 DEF Lockstep
  <2>1. Owned(other) /\ SameDialogue(other)
    BY <1>6 DEF QuietInv, Separate, SameDialogue, Unsent
  <2>2. t = Situation(other)
    BY <2>1, DialogueKept
  <2> QED BY <2>2 DEF QuietInv, Lockstep
<1> QED BY <1>6, <1>8, <1>9 DEF QuietInv, SendingOn, LogMatchesResponse

-----------------------------------------------------------------------------

LEMMA AsksRequest ==
  ASSUME NEW u \in Unit, u.part = "line"
  PROVE  Whole(u, RequestParts) \in Message /\ IsRequest(Whole(u, RequestParts), u)
<1>1. /\ RequestParts \in Seq(Parts) /\ Len(RequestParts) = 2
      /\ RequestParts[1] = "line" /\ RequestParts[2] = "end"
  BY DEF RequestParts, Parts
<1>2. 1 \in 1 .. 2 /\ 2 \in 1 .. 2
  OBVIOUS
<1>3. /\ Whole(u, RequestParts) \in Message /\ Len(Whole(u, RequestParts)) = 2
      /\ Whole(u, RequestParts)[1] = [u EXCEPT !.part = "line"]
      /\ Whole(u, RequestParts)[2].part = "end" /\ Whole(u, RequestParts)[2].n = u.n
  BY <1>1, <1>2, WholeIs
<1> QED BY <1>3 DEF IsRequest

(* A browser asks when it waits for nothing: everything of the dialogue    *)
(* before is over.                                                         *)
LEMMA SendRequestQuiet ==
  ASSUME QuietInv, NEW ip \in Client, NEW fd \in Fd, NEW kind \in Asks,
         SendRequest(ip, fd, kind)
  PROVE  Separate' /\ SendingOn' /\ Lockstep' /\ LogMatchesResponse'
<1> DEFINE n == sent[ip] + 1
           v == [ ip |-> ip, n |-> n, kind |-> kind, br |-> 0, part |-> "line" ]
           here == [sock[fd] EXCEPT !.inq = @ \o Whole(v, RequestParts)]
<1>1. /\ fd \in BrowserEnds(ip) /\ asked[fd] = 0 /\ (kind = "chunk" => player[ip])
      /\ sock' = [sock EXCEPT ![fd].inq = @ \o Whole(v, RequestParts)]
      /\ asked' = [asked EXCEPT ![fd] = n]
      /\ UNCHANGED << loopVars, proxyVars, backlog, got, opened, player >>
  BY DEF SendRequest
<1>2. ip \in clients /\ conn[ip].client_socket = fd
  BY <1>1, BrowserEndIs DEF QuietInv
<1>3. /\ sock \in [Fd -> Socket] /\ sock[fd] \in Socket /\ asked \in [Fd -> Nat]
      /\ sent[ip] \in Nat /\ sock[fd].kind = "client" /\ conn[ip].client_message \in Message
      /\ sock[fd].inq \in Message
  BY <1>1 DEF QuietInv, Inv, TypeOK, BrowserEnds, Socket, Connection
<1>4. n \in Nat /\ n # 0
  BY <1>3
<1> HIDE DEF n
<1>5. v \in Unit /\ v.part = "line" /\ v.ip = ip /\ v.n = n /\ v.kind = kind /\ v.br = 0
      /\ kind # "nolist"
  BY <1>4, MiProxyAssumption DEF Unit, Kinds, Parts
<1>6. PICK u : u = v
  OBVIOUS
<1>7. sock' = [sock EXCEPT ![fd] = here]
  BY <1>1
<1>8. /\ here.kind = sock[fd].kind /\ here.ip = sock[fd].ip /\ here.peer = sock[fd].peer
      /\ here.outq = sock[fd].outq /\ here.inq = sock[fd].inq \o Whole(u, RequestParts)
  BY <1>3, <1>6 DEF Socket
<1> HIDE DEF v, here
<1>9. /\ sock'[fd] = here /\ \A g \in Fd : g # fd => sock'[g] = sock[g]
      /\ asked'[fd] = n /\ \A g \in Fd : g # fd => asked'[g] = asked[g]
  BY <1>1, <1>3, <1>7
<1>10. UNCHANGED << pc, sending, clients, conn, got, player, proxyVars, backlog >>
  BY <1>1 DEF loopVars, proxyVars
<1>11. PICK s : s = Situation(ip)
  OBVIOUS
<1>12. PICK t : t = Situation(ip)'
  OBVIOUS
<1>13. Orderly(ip, s) /\ Idle(s)
  <2>1. Orderly(ip, s)
    BY <1>2, <1>11 DEF QuietInv, Lockstep
  <2>2. s.n = 0
    BY <1>1, <1>2, <1>11 DEF Situation
  <2> QED BY <2>1, <2>2, PlaceTells DEF Orderly
<1>14. Whole(u, RequestParts) \in Message /\ IsRequest(Whole(u, RequestParts), u)
  BY <1>5, <1>6, AsksRequest
<1>15. t.up = Whole(u, RequestParts)
  <2>1. t.up = conn[ip].client_message \o (sock[fd].inq \o Whole(u, RequestParts))
    BY <1>2, <1>8, <1>9, <1>10, <1>12 DEF Situation
  <2>2. conn[ip].client_message \o sock[fd].inq = << >>
    BY <1>2, <1>11, <1>13 DEF Situation, Idle
  <2>3. conn[ip].client_message = << >> /\ sock[fd].inq = << >>
    BY <1>3, <2>2, BeginningIs
  <2>4. << >> \o Whole(u, RequestParts) = Whole(u, RequestParts)
    BY <1>14, ConcatEmptySeq DEF Message
  <2> QED BY <2>1, <2>3, <2>4
<1>16. t.n = n /\ t.down = s.down /\ t.no_list = s.no_list /\ t.len = s.len
       /\ t.stream = s.stream /\ t.player = s.player
  BY <1>2, <1>8, <1>9, <1>10, <1>11, <1>12 DEF Situation, Delivered, Unsent
<1>17. t.out = s.out /\ t.back = s.back
  <2>1. conn[ip].server_socket # None =>
          conn[ip].server_socket \in Fd /\ conn[ip].server_socket # fd
    BY <1>2, EntryIs DEF QuietInv
  <2> QED BY <1>9, <1>10, <1>11, <1>12, <2>1 DEF Situation, Out, In
<1>18. kind = "chunk" => Known(t)
  <2>1. s.player = player[ip]
    BY <1>11 DEF Situation
  <2> QED BY <1>1, <1>13, <1>16, <2>1 DEF Orderly, Known
<1>19. AtProxy(t, u) /\ Asking(ip, t, u)
  BY <1>4, <1>5, <1>6, <1>13, <1>14, <1>15, <1>16, <1>17, <1>18 DEF AtProxy, Asking, Idle
<1>20. Orderly(ip, t)
  <2>1. Proceeds(ip, t)
    BY <1>5, <1>6, <1>19 DEF Proceeds
  <2> QED BY <1>13, <1>16, <2>1 DEF Orderly, Known
<1>21. fd \in Mine(ip) \cap Fd
  BY <1>2 DEF Mine
<1>22. \A g \in Fd : g # fd => /\ asked'[g] = asked[g] /\ got'[g] = got[g]
                               /\ Unsent(g)' = Unsent(g)
  BY <1>9, <1>10 DEF Unsent
<1>23. Separate' /\ Lockstep' /\ LogMatchesResponse'
  BY <1>2, <1>3, <1>7, <1>8, <1>10, <1>12, <1>20, <1>21, <1>22, OneConnectionQuiet
<1>24. SendingOn'
  <2>1. \A g \in Fd : sock'[g].kind = sock[g].kind
    BY <1>8, <1>9
  <2> QED BY <1>10, <2>1 DEF QuietInv, SendingOn
<1> QED BY <1>23, <1>24

-----------------------------------------------------------------------------

(* A browser reads: it takes a part of its answer, or all of it, and then  *)
(* nothing of the dialogue is left.                                        *)
LEMMA ReceiveQuiet ==
  ASSUME QuietInv, NEW ip \in Client, NEW fd \in Fd, Receive(ip, fd)
  PROVE  Separate' /\ SendingOn' /\ Lockstep' /\ LogMatchesResponse'
<1>1. /\ fd \in BrowserEnds(ip) /\ asked[fd] # 0 /\ sock[fd].outq # << >>
      /\ UNCHANGED << loopVars, proxyVars, backlog, sent, opened >>
  BY DEF Receive
<1>2. PICK all : all = Delivered(fd)
  OBVIOUS
<1>3. \/ /\ ResponseLength(all) = {}
         /\ sock' = [sock EXCEPT ![fd].outq = << >>]
         /\ got' = [got EXCEPT ![fd] = all]
         /\ UNCHANGED << asked, player >>
      \/ \E len \in ResponseLength(all) :
           /\ sock' = [sock EXCEPT ![fd].outq = Behind(all, len)]
           /\ got' = [got EXCEPT ![fd] = << >>]
           /\ asked' = [asked EXCEPT ![fd] = 0]
           /\ player' = [player EXCEPT ![ip] = @ \/ all[1].kind \in { "manifest", "nolist" }]
  BY <1>2 DEF Receive
<1>4. ip \in clients /\ conn[ip].client_socket = fd
  BY <1>1, BrowserEndIs DEF QuietInv
<1>5. /\ sock \in [Fd -> Socket] /\ sock[fd] \in Socket /\ asked \in [Fd -> Nat]
      /\ got \in [Fd -> Message] /\ player \in [Client -> BOOLEAN]
      /\ sock[fd].kind = "client"
      /\ got[fd] \in Message /\ sock[fd].outq \in Message /\ << >> \in Message
      /\ Unsent(fd) \in Message
  <2>1. /\ sock \in [Fd -> Socket] /\ asked \in [Fd -> Nat] /\ got \in [Fd -> Message]
        /\ player \in [Client -> BOOLEAN]
        /\ sending \in [ fd : Fd \cup { None }, rest : Message ]
    BY DEF QuietInv, Inv, TypeOK
  <2>2. << >> \in Message
    BY EmptySeq DEF Message
  <2> QED BY <1>1, <2>1, <2>2 DEF BrowserEnds, Socket, Unsent
<1>6. all \in Message /\ all # << >> /\ all = got[fd] \o sock[fd].outq
  BY <1>1, <1>2, <1>5, BeginningIs DEF Delivered
<1>7. PICK r : r = Unsent(fd)
  OBVIOUS
<1>8. PICK s : s = Situation(ip)
  OBVIOUS
<1>9. PICK t : t = Situation(ip)'
  OBVIOUS
<1>10. Orderly(ip, s)
  BY <1>4, <1>8 DEF QuietInv, Lockstep
<1>11. s.down = all \o r /\ s.n = asked[fd] /\ s.player = player[ip] /\ s.stream = conn[ip].stream
  BY <1>2, <1>4, <1>7, <1>8 DEF Situation
<1>12. s.down # << >>
  BY <1>5, <1>6, <1>7, <1>11, BeginningIs
<1>13. PICK u \in Unit : Asking(ip, s, u) /\ AtBrowser(s, u)
  BY <1>10, <1>12, PlaceTells DEF Orderly
<1>14. all \o r = Whole(u, ResponseParts(u.kind)) /\ r \in Message
  BY <1>5, <1>7, <1>11, <1>13 DEF AtBrowser
<1>15. \A len \in ResponseLength(all) :
         r = << >> /\ all = Whole(u, ResponseParts(u.kind)) /\ Behind(all, len) = << >>
  BY <1>6, <1>14, HeardIs
<1>16. UNCHANGED << pc, sending, clients, conn, proxyVars, backlog >>
  BY <1>1 DEF loopVars, proxyVars
<1>17. PICK out : sock' = [sock EXCEPT ![fd].outq = out]
  BY <1>3
<1> DEFINE here == [sock[fd] EXCEPT !.outq = out]
<1>18. sock' = [sock EXCEPT ![fd] = here]
  BY <1>17
<1>19. /\ here.kind = sock[fd].kind /\ here.ip = sock[fd].ip /\ here.peer = sock[fd].peer
       /\ here.outq = out /\ here.inq = sock[fd].inq
  BY <1>5 DEF Socket
<1> HIDE DEF here
<1>20. sock'[fd] = here /\ \A g \in Fd : g # fd => sock'[g] = sock[g]
  BY <1>5, <1>18
<1>21. /\ \A g \in Fd : g # fd => /\ asked'[g] = asked[g] /\ got'[g] = got[g]
                                  /\ Unsent(g)' = Unsent(g)
       /\ \A other \in Client \ { ip } : player'[other] = player[other]
  <2>1. \A g \in Fd : g # fd => asked'[g] = asked[g] /\ got'[g] = got[g]
    BY <1>3, <1>5
  <2>2. \A other \in Client \ { ip } : player'[other] = player[other]
    BY <1>3, <1>5
  <2> QED BY <1>16, <2>1, <2>2 DEF Unsent
<1>22. t.up = s.up
  BY <1>4, <1>8, <1>9, <1>16, <1>19, <1>20 DEF Situation
<1>23. t.out = s.out /\ t.back = s.back
  <2>1. conn[ip].server_socket # None =>
          conn[ip].server_socket \in Fd /\ conn[ip].server_socket # fd
    BY <1>4, EntryIs DEF QuietInv
  <2> QED BY <1>8, <1>9, <1>16, <1>20, <2>1 DEF Situation, Out, In
<1>24. t.no_list = s.no_list /\ t.len = s.len /\ t.stream = s.stream
       /\ t.n = asked'[fd] /\ t.player = player'[ip]
       /\ t.down = (got'[fd] \o out) \o r
  BY <1>4, <1>7, <1>8, <1>9, <1>16, <1>19, <1>20 DEF Situation, Delivered, Unsent
<1>25. ASSUME ResponseLength(all) = {} PROVE Orderly(ip, t)
  <2>0. /\ sock' = [sock EXCEPT ![fd].outq = << >>]
        /\ got' = [got EXCEPT ![fd] = all]
        /\ UNCHANGED << asked, player >>
    BY <1>3, <1>25
  <2>1. got'[fd] = all /\ UNCHANGED << asked, player >> /\ sock'[fd].outq = << >>
    BY <1>5, <2>0 DEF Socket
  <2>2. out = << >>
    BY <1>19, <1>20, <2>1
  <2>3. t.down = s.down
    <3>1. all \o << >> = all
      BY <1>6, ConcatEmptySeq DEF Message
    <3> QED BY <1>11, <1>24, <2>1, <2>2, <3>1
  <2>4. t.n = s.n /\ t.player = s.player
    BY <1>11, <1>24, <2>1
  <2>5. AtBrowser(t, u) /\ Asking(ip, t, u)
    BY <1>13, <1>22, <1>23, <1>24, <2>3, <2>4 DEF AtBrowser, Asking, Known
  <2> QED BY <1>10, <1>24, <2>4, <2>5 DEF Orderly, Proceeds, Known
<1>26. ASSUME ResponseLength(all) # {} PROVE Orderly(ip, t)
  <2>1. PICK len \in ResponseLength(all) :
          /\ sock' = [sock EXCEPT ![fd].outq = Behind(all, len)]
          /\ got' = [got EXCEPT ![fd] = << >>]
          /\ asked' = [asked EXCEPT ![fd] = 0]
          /\ player' = [player EXCEPT ![ip] = @ \/ all[1].kind \in { "manifest", "nolist" }]
    BY <1>3, <1>26
  <2>2. r = << >> /\ all = Whole(u, ResponseParts(u.kind)) /\ Behind(all, len) = << >>
    BY <1>15
  <2>3. got'[fd] = << >> /\ asked'[fd] = 0 /\ sock'[fd].outq = << >>
        /\ player'[ip] = (player[ip] \/ all[1].kind \in { "manifest", "nolist" })
    BY <1>5, <2>1, <2>2
  <2>4. out = << >>
    BY <1>19, <1>20, <2>3
  <2>5. t.n = 0 /\ t.down = << >>
    <3>1. << >> \o << >> = << >>
      BY <1>5, ConcatEmptySeq DEF Message
    <3> QED BY <1>24, <2>2, <2>3, <2>4, <3>1
  <2>6. Idle(t)
    BY <1>13, <1>22, <1>23, <1>24, <2>5 DEF AtBrowser, Idle
  <2>7. all[1].kind = u.kind
    <3>1. \A w : w = Whole(u, ResponseParts(u.kind)) =>
            /\ Len(w) \in Nat /\ 2 =< Len(w)
            /\ \A i \in 1 .. Len(w) : w[i].kind = u.kind
      BY ResponseIs
    <3>2. /\ Len(all) \in Nat /\ 2 =< Len(all)
          /\ \A i \in 1 .. Len(all) : all[i].kind = u.kind
      BY <2>2, <3>1
    <3>3. 1 \in 1 .. Len(all)
      BY <3>2
    <3> QED BY <3>2, <3>3
  <2>8. t.player => Known(t)
    <3>1. CASE player[ip]
      BY <1>10, <1>11, <1>24, <3>1 DEF Orderly, Known
    <3>2. CASE ~ player[ip]
      BY <1>11, <1>13, <1>24, <2>3, <2>7, <3>2 DEF AtBrowser, Known
    <3> QED BY <3>1, <3>2
  <2> QED BY <1>10, <1>24, <2>6, <2>8 DEF Orderly, Proceeds
<1>27. Orderly(ip, t)
  BY <1>25, <1>26
<1>28. fd \in Mine(ip) \cap Fd
  BY <1>4 DEF Mine
<1>29. Separate' /\ Lockstep' /\ LogMatchesResponse'
  BY <1>4, <1>5, <1>9, <1>16, <1>18, <1>19, <1>21, <1>27, <1>28, OneConnectionQuiet
<1>30. SendingOn'
  <2>1. \A g \in Fd : sock'[g].kind = sock[g].kind
    BY <1>19, <1>20
  <2> QED BY <1>16, <2>1 DEF QuietInv, SendingOn
<1> QED BY <1>29, <1>30

-----------------------------------------------------------------------------

(* Whatever the web server answers, the answer is on its way. *)
LEMMA AnswerOnItsWay ==
  ASSUME NEW ip, NEW s, Orderly(ip, s), NEW u \in Unit, Asking(ip, s, u), AtServer(s, u),
         NEW answer \in Answers(u),
         NEW t, t.n = s.n, t.up = s.up, t.out = << >>, t.back = answer, t.down = s.down,
         t.begun = s.n, t.len = s.len, t.no_list = s.no_list, t.stream = s.stream,
         t.player = s.player
  PROVE  Orderly(ip, t)
<1>1. t.up = << >> /\ t.down = << >> /\ t.len = 0 /\ t.n = u.n /\ t.begun = u.n
  BY DEF AtServer, Asking
<1>2. Sought(t, u)
  BY DEF AtServer, Sought, Known
<1>3. CASE answer = Whole(u, ResponseParts(u.kind))
  <2>1. OnItsWay(t, u)
    <3>1. ResponseParts(u.kind) \in Shapes(u.kind)
      BY DEF Shapes
    <3> QED BY <1>1, <1>2, <1>3, <3>1 DEF OnItsWay
  <2>2. Asking(ip, t, u)
    BY DEF Asking
  <2> QED BY <2>1, <2>2 DEF Orderly, Proceeds, Known
<1>4. CASE answer = Whole(u, NoBodyParts)
  <2>1. OnItsWay(t, u)
    <3>1. NoBodyParts \in Shapes(u.kind)
      BY DEF Shapes
    <3> QED BY <1>1, <1>2, <1>4, <3>1 DEF OnItsWay
  <2>2. Asking(ip, t, u)
    BY DEF Asking
  <2> QED BY <2>1, <2>2 DEF Orderly, Proceeds, Known
<1>5. CASE /\ "notFound" \in Faults
           /\ answer = Whole([u EXCEPT !.kind = "page"], ResponseParts("page"))
  <2>1. PICK v : v = [u EXCEPT !.kind = "page"]
    OBVIOUS
  <2>2. v \in Unit /\ v.kind = "page" /\ v.ip = u.ip /\ v.n = u.n /\ v.part = u.part
        /\ [v EXCEPT !.kind = "nolist"] = [u EXCEPT !.kind = "nolist"]
    BY <2>1 DEF Unit, Kinds
  <2>3. Sought(t, v)
    <3>1. t.no_list # << >> => IsRequest(t.no_list, [v EXCEPT !.kind = "nolist"])
      BY <1>2, <2>2 DEF Sought
    <3> QED BY <1>5, <2>2, <3>1 DEF Sought
  <2>4. OnItsWay(t, v)
    <3>1. ResponseParts(v.kind) \in Shapes(v.kind)
      BY DEF Shapes
    <3>2. t.back = Whole(v, ResponseParts(v.kind))
      BY <1>5, <2>1, <2>2
    <3> QED BY <1>1, <2>2, <2>3, <3>1, <3>2 DEF OnItsWay, AtServer
  <2>5. Asking(ip, t, v)
    BY <2>2 DEF Asking
  <2> QED BY <2>2, <2>4, <2>5 DEF Orderly, Proceeds, Known
<1> QED BY <1>3, <1>4, <1>5 DEF Answers

(* The web server answers: the request that was there has become its       *)
(* answer.                                                                 *)
LEMMA RespondQuiet ==
  ASSUME QuietInv, NEW fd \in Fd, Respond(fd)
  PROVE  Separate' /\ SendingOn' /\ Lockstep' /\ LogMatchesResponse'
<1>1. /\ sock[fd].kind = "server" /\ Has(sock[fd].outq, "end")
      /\ UNCHANGED << loopVars, proxyVars, backlog, browserVars >>
  BY DEF Respond, ServerEnd
<1>2. /\ sock \in [Fd -> Socket] /\ sock[fd] \in Socket
      /\ sock[fd].inq \in Message /\ sock[fd].outq \in Message
  BY DEF QuietInv, Inv, TypeOK, Socket
<1>3. PICK ip : ip = sock[fd].ip
  OBVIOUS
<1>4. /\ ip \in clients /\ conn[ip].server_socket = fd /\ conn[ip] \in Connection
      /\ conn[ip].server_message \in Message /\ fd # None
      /\ conn[ip].client_socket \in Fd /\ conn[ip].client_socket # fd
  <2>1. ip \in clients /\ conn[ip].server_socket = fd
    BY <1>1, <1>3 DEF QuietInv, Separate, SocketsInUse, InUse
  <2>2. conn[ip] \in Connection /\ conn[ip].server_message \in Message
    BY <2>1 DEF QuietInv, Inv, TypeOK, Connection
  <2>3. \A g \in Fd : g # None
    BY MiProxyAssumption DEF Fd, None
  <2> QED BY <1>1, <2>1, <2>2, <2>3, EntryIs DEF QuietInv
<1>5. PICK q : q = sock[fd].outq
  OBVIOUS
<1>6. PICK s : s = Situation(ip)
  OBVIOUS
<1>7. PICK t : t = Situation(ip)'
  OBVIOUS
<1>8. Orderly(ip, s) /\ s.out = q
  BY <1>4, <1>5, <1>6 DEF QuietInv, Lockstep, Situation, Out
<1>9. q # << >>
  BY <1>1, <1>5 DEF Has
<1>10. PICK u \in Unit : Asking(ip, s, u) /\ AtServer(s, u)
  BY <1>8, <1>9, PlaceTells DEF Orderly
<1>11. q[1] = u /\ AfterRequest(q) = << >>
  <2>1. IsRequest(q, u)
    BY <1>8, <1>10 DEF AtServer
  <2>2. q[1] = [u EXCEPT !.part = "line"] /\ AfterRequest(q) = << >>
    BY <2>1, RequestIs
  <2>3. u.part = "line"
    BY <1>10 DEF Asking
  <2> QED BY <2>2, <2>3 DEF Unit
<1>12. PICK answer \in Answers(u) :
         sock' = [sock EXCEPT ![fd].inq = @ \o answer, ![fd].outq = AfterRequest(@)]
  BY <1>5, <1>11 DEF Respond
<1>13. answer \in Message
  BY <1>1, <1>2, <1>5, <1>11, AnswersAreMessages
<1> DEFINE here == [sock[fd] EXCEPT !.inq = @ \o answer, !.outq = AfterRequest(@)]
<1>14. sock' = [sock EXCEPT ![fd] = here]
  BY <1>2, <1>12
<1>15. /\ here.kind = sock[fd].kind /\ here.ip = sock[fd].ip /\ here.peer = sock[fd].peer
       /\ here.outq = << >> /\ here.inq = sock[fd].inq \o answer
  BY <1>2, <1>5, <1>11 DEF Socket
<1> HIDE DEF here
<1>16. sock'[fd] = here /\ \A g \in Fd : g # fd => sock'[g] = sock[g]
  BY <1>2, <1>14
<1>17. UNCHANGED << pc, sending, clients, conn, proxyVars, backlog, asked, got, player >>
  BY <1>1 DEF loopVars, proxyVars, browserVars
<1>18. conn[ip].server_message = << >> /\ sock[fd].inq = << >>
  <2>1. conn[ip].server_message \o sock[fd].inq = << >>
    BY <1>4, <1>6, <1>10 DEF AtServer, Situation, In
  <2> QED BY <1>2, <1>4, <2>1, BeginningIs
<1>19. t.back = answer
  <2>1. t.back = << >> \o (<< >> \o answer)
    BY <1>4, <1>7, <1>15, <1>16, <1>17, <1>18 DEF Situation, In
  <2> QED BY <1>13, <2>1, ConcatEmptySeq DEF Message
<1>20. /\ t.n = s.n /\ t.up = s.up /\ t.down = s.down /\ t.len = s.len
       /\ t.no_list = s.no_list /\ t.stream = s.stream /\ t.player = s.player
       /\ t.begun = s.n
  BY <1>4, <1>6, <1>7, <1>16, <1>17, <1>18 DEF Situation, Delivered, Unsent
<1>21. t.out = << >>
  BY <1>4, <1>7, <1>15, <1>16, <1>17 DEF Situation, Out
<1>22. Orderly(ip, t)
  BY <1>8, <1>10, <1>19, <1>20, <1>21, AnswerOnItsWay
<1>23. fd \in Mine(ip) \cap Fd
  BY <1>4 DEF Mine
<1>24. \A g \in Fd : /\ asked'[g] = asked[g] /\ got'[g] = got[g]
                     /\ Unsent(g)' = Unsent(g)
  BY <1>17 DEF Unsent
<1>25. Separate' /\ Lockstep' /\ LogMatchesResponse'
  BY <1>4, <1>7, <1>14, <1>15, <1>17, <1>22, <1>23, <1>24, OneConnectionQuiet
<1>26. SendingOn'
  <2>1. \A g \in Fd : sock'[g].kind = sock[g].kind
    BY <1>15, <1>16
  <2> QED BY <1>17, <2>1 DEF QuietInv, SendingOn
<1> QED BY <1>25, <1>26

-----------------------------------------------------------------------------

(* The invariant of a quiet setting is inductive. *)
LEMMA NextQuiet ==
  ASSUME Quiet
  PROVE  QuietInv /\ [Next]_vars => QuietInv'
<1> SUFFICES ASSUME QuietInv, [Next]_vars PROVE QuietInv'
  OBVIOUS
<1>1. Inv'
  BY NextInv DEF QuietInv
<1> DEFINE Kept == Separate' /\ SendingOn' /\ Lockstep' /\ LogMatchesResponse'
<1>2. CASE UNCHANGED vars \/ Select \/ ScanEnds
  <2>1. Kept
    BY <1>2, LoopSteps
  <2> QED BY <1>1, <2>1 DEF QuietInv
<1>3. CASE Accept \/ SendMore
  <2>1. Kept
    BY <1>3, AcceptQuiet, SendMoreQuiet
  <2> QED BY <1>1, <2>1 DEF QuietInv
<1>4. ASSUME NEW ip \in Client, Skip(ip) \/ HandleClient(ip) \/ HandleServer(ip)
      PROVE  QuietInv'
  <2>1. CASE Skip(ip)
    BY <1>1, <2>1, LoopSteps DEF QuietInv
  <2>2. CASE HandleClient(ip)
    <3>1. ClientPartial(ip) \/ ClientRequest(ip)
      BY <2>2, NobodyCloses DEF HandleClient
    <3>2. Kept
      BY <3>1, ClientPartialQuiet, ClientRequestQuiet
    <3> QED BY <1>1, <3>2 DEF QuietInv
  <2>3. CASE HandleServer(ip)
    <3>1. ServerPartial(ip) \/ ServerManifest(ip) \/ ServerForward(ip)
      BY <2>3, NobodyCloses DEF HandleServer
    <3>2. Kept
      BY <3>1, ServerPartialQuiet, ServerManifestQuiet, ServerForwardQuiet
    <3> QED BY <1>1, <3>2 DEF QuietInv
  <2> QED BY <1>4, <2>1, <2>2, <2>3
<1>5. ASSUME NEW ip \in Client, Browser(ip) PROVE QuietInv'
  <2>1. CASE OpenConnection(ip)
    <3>1. Kept
      BY <2>1, OpenConnectionQuiet
    <3> QED BY <1>1, <3>1 DEF QuietInv
  <2>2. ASSUME NEW fd \in Fd, NEW kind \in Asks, SendRequest(ip, fd, kind) PROVE QuietInv'
    <3>1. Kept
      BY <2>2, SendRequestQuiet
    <3> QED BY <1>1, <3>1 DEF QuietInv
  <2>3. ASSUME NEW fd \in Fd, Receive(ip, fd) PROVE QuietInv'
    <3>1. Kept
      BY <2>3, ReceiveQuiet
    <3> QED BY <1>1, <3>1 DEF QuietInv
  <2>4. \A fd \in Fd : ~ CloseConnection(ip, fd)
    BY DEF Quiet, CloseConnection
  <2> QED BY <1>5, <2>1, <2>2, <2>3, <2>4 DEF Browser
<1>6. ASSUME WebServer PROVE QuietInv'
  <2>1. PICK fd \in Fd : Respond(fd)
    BY <1>6 DEF WebServer, Quiet, ServerClose, ServerAbort
  <2>2. Kept
    BY <2>1, RespondQuiet
  <2> QED BY <1>1, <2>2 DEF QuietInv
<1> QED BY <1>2, <1>3, <1>4, <1>5, <1>6 DEF Next, Proxy

LEMMA QuietAlways ==
  ASSUME Quiet
  PROVE  Spec => []QuietInv
<1>1. Init => QuietInv
  BY InitInv, InitQuiet DEF QuietInv
<1>2. QuietInv /\ [Next]_vars => QuietInv'
  BY NextQuiet
<1> QED BY <1>1, <1>2, PTL DEF Spec

-----------------------------------------------------------------------------

(* What a browser has of an answer, and what is on its way to it. *)
LEMMA DeliveredIs ==
  ASSUME QuietInv, NEW fd \in Fd, sock[fd].kind = "client"
  PROVE  /\ got[fd] \in Message /\ sock[fd].outq \in Message
         /\ \A i \in 1 .. Len(Delivered(fd)) :
              /\ Delivered(fd)[i].ip = sock[fd].ip
              /\ Delivered(fd)[i].n = asked[fd]
              /\ Delivered(fd)[i].kind # "manifest"
<1>1. /\ got[fd] \in Message /\ sock[fd].outq \in Message /\ Unsent(fd) \in Message
  <2>1. /\ sock \in [Fd -> Socket] /\ got \in [Fd -> Message]
        /\ sending \in [ fd : Fd \cup { None }, rest : Message ] /\ << >> \in Message
    BY EmptySeq DEF QuietInv, Inv, TypeOK, Message
  <2> QED BY <2>1 DEF Socket, Unsent
<1>2. PICK p : p = Delivered(fd)
  OBVIOUS
<1>3. PICK r : r = Unsent(fd)
  OBVIOUS
<1>4. PICK ip : ip = sock[fd].ip
  OBVIOUS
<1>5. ip \in clients /\ conn[ip].client_socket = fd
  BY <1>4 DEF QuietInv, Separate, SocketsInUse, InUse
<1>6. PICK s : s = Situation(ip)
  OBVIOUS
<1>7. Orderly(ip, s) /\ s.down = p \o r /\ s.n = asked[fd]
  BY <1>2, <1>3, <1>5, <1>6 DEF QuietInv, Lockstep, Situation
<1>8. p \in Message /\ r \in Message
  BY <1>1, <1>2, <1>3, ConcatIsMessage DEF Delivered
<1>9. ASSUME NEW i \in 1 .. Len(p)
      PROVE  p[i].ip = ip /\ p[i].n = asked[fd] /\ p[i].kind # "manifest"
  <2>1. i \in 1 .. Len(p \o r) /\ (p \o r)[i] = p[i] /\ Len(p) \in Nat
    BY <1>8, <1>9, BeginningIs
  <2>2. s.down # << >>
    <3>1. p # << >>
      BY <1>9
    <3> QED BY <1>7, <1>8, <3>1, BeginningIs
  <2>3. PICK u \in Unit : Asking(ip, s, u) /\ AtBrowser(s, u)
    BY <1>7, <2>2, PlaceTells DEF Orderly
  <2>4. p \o r = Whole(u, ResponseParts(u.kind)) /\ u.kind # "manifest"
    BY <1>7, <2>3 DEF AtBrowser
  <2>5. PICK w : w = p \o r
    OBVIOUS
  <2>6. \A j \in 1 .. Len(w) : w[j].ip = u.ip /\ w[j].n = u.n /\ w[j].kind = u.kind
    <3>1. u \in Unit /\ w = Whole(u, ResponseParts(u.kind))
      BY <2>3, <2>4, <2>5
    <3>2. AnswerTo(u, w)
      BY <3>1, AnswerUnits
    <3> QED BY <3>2 DEF AnswerTo
  <2> QED BY <1>7, <2>1, <2>3, <2>4, <2>5, <2>6 DEF Asking
<1> QED BY <1>1, <1>2, <1>4, <1>9

LEMMA QuietAnswers ==
  ASSUME QuietInv
  PROVE  AnswersGoToAsker /\ PlayerNeverSeesBitrates
<1>1. AnswersGoToAsker
  BY DeliveredIs DEF AnswersGoToAsker
<1>2. PlayerNeverSeesBitrates
  <2> SUFFICES ASSUME NEW fd \in Fd, sock[fd].kind = "client",
                      NEW i \in 1 .. Len(sock[fd].outq)
               PROVE  sock[fd].outq[i].kind # "manifest"
    BY DEF PlayerNeverSeesBitrates
  <2>1. PICK p : p = got[fd]
    OBVIOUS
  <2>2. PICK q : q = sock[fd].outq
    OBVIOUS
  <2>3. /\ p \in Message /\ q \in Message
        /\ \A j \in 1 .. Len(p \o q) : (p \o q)[j].kind # "manifest"
    BY <2>1, <2>2, DeliveredIs DEF Delivered
  <2>4. /\ Len(p) \in Nat /\ Len(q) \in Nat /\ Len(p \o q) = Len(p) + Len(q)
        /\ \A j \in 1 .. Len(p) + Len(q) :
             (p \o q)[j] = IF j =< Len(p) THEN p[j] ELSE q[j - Len(p)]
    BY <2>3, ConcatProperties, LenProperties DEF Message
  <2>5. i \in 1 .. Len(q)
    BY <2>2
  <2>6. PICK j : j = Len(p) + i
    OBVIOUS
  <2>7. j \in 1 .. Len(p) + Len(q) /\ ~ (j =< Len(p)) /\ j - Len(p) = i
    BY <2>4, <2>5, <2>6
  <2> QED BY <2>2, <2>3, <2>4, <2>7
<1> QED BY <1>1, <1>2

LEMMA QuietChoices ==
  ASSUME QuietInv
  PROVE  ChunkAtBestBitrate /\ LearntBitratesKept
<1>1. ASSUME NEW ip \in clients, conn[ip].server_socket # None,
             NEW q, q = sock[conn[ip].server_socket].outq,
             NEW i \in 1 .. Len(q), q[i].part = "line", q[i].kind = "chunk"
      PROVE  IsBest(q[i].br, Elements(Listing), conn[ip].stream.current_throughput)
  <2>1. PICK s : s = Situation(ip)
    OBVIOUS
  <2>2. Orderly(ip, s) /\ s.out = q /\ s.stream = conn[ip].stream
    BY <1>1, <2>1 DEF QuietInv, Lockstep, Situation, Out
  <2>3. q # << >>
    BY <1>1
  <2>4. PICK u \in Unit : Asking(ip, s, u) /\ AtServer(s, u)
    BY <2>2, <2>3, PlaceTells DEF Orderly
  <2>5. IsRequest(q, u) /\ Sought(s, u)
    BY <2>2, <2>4 DEF AtServer
  <2>6. Len(q) = 2 /\ q[2].part = "end" /\ q[1].kind = u.kind /\ q[1].br = u.br
    BY <2>5, RequestIs DEF IsRequest
  <2>7. i = 1
    <3>1. i \in 1 .. 2
      BY <1>1, <2>6
    <3>2. i = 1 \/ i = 2
      BY <3>1
    <3> QED BY <1>1, <2>6, <3>2
  <2>8. u.kind = "chunk" /\ q[i].br = u.br
    BY <1>1, <2>6, <2>7
  <2> QED BY <2>2, <2>5, <2>8 DEF Sought
<1>2. ChunkAtBestBitrate
  BY <1>1 DEF ChunkAtBestBitrate
<1>3. LearntBitratesKept
  <2> SUFFICES ASSUME NEW ip \in clients, player[ip]
               PROVE  conn[ip].stream.available_bitrates # << >>
    BY DEF LearntBitratesKept
  <2>1. PICK s : s = Situation(ip)
    OBVIOUS
  <2>2. Orderly(ip, s) /\ s.player = player[ip] /\ s.stream = conn[ip].stream
    BY <2>1 DEF QuietInv, Lockstep, Situation
  <2> QED BY <2>2 DEF Orderly, Known
<1> QED BY <1>2, <1>3

-----------------------------------------------------------------------------

(* Of four places, the one that is not empty mentions the request. *)
LEMMA MentionedThere ==
  ASSUME NEW n, NEW k \in 1 .. 4, NEW there,
         Mentions(there[k], n), \A p \in 1 .. 4 : p # k => there[p] = << >>
  PROVE  Cardinality({ p \in 1 .. 4 : Mentions(there[p], n) }) = 1
<1>1. ~ Mentions(<< >>, n)
  BY DEF Mentions
<1>2. { p \in 1 .. 4 : Mentions(there[p], n) } = { k }
  BY <1>1
<1> QED BY <1>2, FS_Singleton

LEMMA QuietPlaces ==
  ASSUME QuietInv
  PROVE  RequestInOnePlace
<1> SUFFICES ASSUME NEW ip \in clients, asked[conn[ip].client_socket] # 0
             PROVE  Cardinality(Places(ip, asked[conn[ip].client_socket])) = 1
  BY DEF RequestInOnePlace
<1> DEFINE c == conn[ip]
           fd == c.client_socket
           up == sock[fd].inq \o c.client_message
           out == IF c.server_socket = None THEN << >> ELSE sock[c.server_socket].outq
           back == IF c.server_socket = None THEN c.server_message
                   ELSE c.server_message \o sock[c.server_socket].inq
           down == Delivered(fd) \o (IF sending.fd = fd THEN sending.rest ELSE << >>)
<1>1. PICK n : n = asked[fd]
  OBVIOUS
<1>2. PICK s : s = Situation(ip)
  OBVIOUS
<1>3. /\ c.client_message \in Message /\ c.server_message \in Message /\ fd \in Fd
      /\ sock[fd].inq \in Message
  <2>1. conn \in [Client -> Connection] /\ clients \subseteq Client /\ sock \in [Fd -> Socket]
    BY DEF QuietInv, Inv, TypeOK
  <2>2. fd \in Fd
    BY EntryIs DEF QuietInv
  <2> QED BY <2>1, <2>2 DEF Connection, Socket
<1>4. Orderly(ip, s) /\ s.n = n /\ n # 0
  BY <1>1, <1>2 DEF QuietInv, Lockstep, Situation
<1>5. s.up = c.client_message \o sock[fd].inq /\ s.out = out /\ s.down = down
  BY <1>2 DEF Situation, Out, Unsent
<1>6. s.back = back
  <2>1. c.server_message \o << >> = c.server_message
    BY <1>3, ConcatEmptySeq DEF Message
  <2> QED BY <1>2, <2>1 DEF Situation, In
<1>7. s.up = << >> => up = << >>
  <2>1. s.up = << >> => c.client_message = << >> /\ sock[fd].inq = << >>
    <3>1. \A p, q \in Message : p \o q = << >> => p = << >> /\ q = << >>
      BY BeginningIs
    <3> QED BY <1>3, <1>5, <3>1
  <2>2. << >> \o << >> = << >>
    BY EmptySeq, ConcatEmptySeq
  <2> QED BY <2>1, <2>2
<1>8. Mentions(s.up, n) => Mentions(up, n)
  <2> SUFFICES ASSUME NEW p \in Message, NEW q \in Message, Mentions(p \o q, n)
               PROVE  Mentions(q \o p, n)
    BY <1>3, <1>5
  <2>1. /\ Len(p) \in Nat /\ Len(q) \in Nat
        /\ Len(p \o q) = Len(p) + Len(q) /\ Len(q \o p) = Len(q) + Len(p)
        /\ \A i \in 1 .. Len(p) + Len(q) :
             (p \o q)[i] = IF i =< Len(p) THEN p[i] ELSE q[i - Len(p)]
        /\ \A i \in 1 .. Len(q) + Len(p) :
             (q \o p)[i] = IF i =< Len(q) THEN q[i] ELSE p[i - Len(q)]
    BY ConcatProperties, LenProperties DEF Message
  <2>2. PICK i \in 1 .. Len(p) + Len(q) : (p \o q)[i].n = n
    BY <2>1 DEF Mentions
  <2>3. CASE i =< Len(p)
    <3>1. PICK j : j = Len(q) + i
      OBVIOUS
    <3>2. j \in 1 .. Len(q) + Len(p) /\ ~ (j =< Len(q)) /\ j - Len(q) = i
      BY <2>1, <2>2, <2>3, <3>1
    <3>3. (q \o p)[j].n = n
      BY <2>1, <2>2, <2>3, <3>2
    <3> QED BY <2>1, <3>2, <3>3 DEF Mentions
  <2>4. CASE ~ (i =< Len(p))
    <3>1. PICK j : j = i - Len(p)
      OBVIOUS
    <3>2. j \in 1 .. Len(q) + Len(p) /\ j =< Len(q)
      BY <2>1, <2>2, <2>4, <3>1
    <3>3. (q \o p)[j].n = n
      BY <2>1, <2>2, <2>4, <3>1, <3>2
    <3> QED BY <2>1, <3>2, <3>3 DEF Mentions
  <2> QED BY <2>3, <2>4
<1>9. PICK there : there = << up, out, back, down >>
  OBVIOUS
<1>10. Places(ip, n) = { p \in 1 .. 4 : Mentions(there[p], n) }
  BY <1>9 DEF Places
<1> HIDE DEF up, out, back, down
<1>11. there[1] = up /\ there[2] = out /\ there[3] = back /\ there[4] = down
  BY <1>9
<1>12. \A p \in 1 .. 4 : p = 1 \/ p = 2 \/ p = 3 \/ p = 4
  OBVIOUS
<1>13. PICK u \in Unit :
         Asking(ip, s, u) /\ (AtProxy(s, u) \/ AtServer(s, u) \/ OnItsWay(s, u) \/ AtBrowser(s, u))
  BY <1>4 DEF Orderly, Proceeds, Idle
<1>14. u.n = n
  BY <1>4, <1>13 DEF Asking
<1>15. \A q : IsRequest(q, u) => Mentions(q, n)
  <2> SUFFICES ASSUME NEW q, IsRequest(q, u) PROVE Mentions(q, n)
    OBVIOUS
  <2>1. Len(q) = 2 /\ q[1].n = u.n
    BY RequestIs DEF IsRequest
  <2>2. 1 \in 1 .. 2
    OBVIOUS
  <2> QED BY <1>14, <2>1, <2>2 DEF Mentions
<1>16. \A parts \in Shapes(u.kind) : Mentions(Whole(u, parts), n)
  <2> SUFFICES ASSUME NEW parts \in Shapes(u.kind) PROVE Mentions(Whole(u, parts), n)
    OBVIOUS
  <2>1. parts \in Seq(Parts) /\ Len(parts) \in Nat /\ 2 =< Len(parts)
    BY ShapesAre
  <2>2. 1 \in 1 .. Len(parts)
    BY <2>1
  <2>3. Len(Whole(u, parts)) = Len(parts) /\ Whole(u, parts)[1].n = u.n
    BY <2>1, <2>2, WholeIs
  <2> QED BY <1>14, <2>2, <2>3 DEF Mentions
<1>17. PICK k \in 1 .. 4 : Mentions(there[k], n) /\ \A p \in 1 .. 4 : p # k => there[p] = << >>
  <2>1. CASE AtProxy(s, u)
    <3>1. Mentions(up, n) /\ out = << >> /\ back = << >> /\ down = << >>
      BY <1>5, <1>6, <1>8, <1>15, <2>1 DEF AtProxy
    <3>2. 1 \in 1 .. 4
      OBVIOUS
    <3> QED BY <1>11, <1>12, <3>1, <3>2
  <2>2. CASE AtServer(s, u)
    <3>1. Mentions(out, n) /\ up = << >> /\ back = << >> /\ down = << >>
      BY <1>5, <1>6, <1>7, <1>15, <2>2 DEF AtServer
    <3>2. 2 \in 1 .. 4
      OBVIOUS
    <3> QED BY <1>11, <1>12, <3>1, <3>2
  <2>3. CASE OnItsWay(s, u)
    <3>1. Mentions(back, n) /\ up = << >> /\ out = << >> /\ down = << >>
      BY <1>5, <1>6, <1>7, <1>16, <2>3 DEF OnItsWay
    <3>2. 3 \in 1 .. 4
      OBVIOUS
    <3> QED BY <1>11, <1>12, <3>1, <3>2
  <2>4. CASE AtBrowser(s, u)
    <3>1. Mentions(down, n) /\ up = << >> /\ out = << >> /\ back = << >>
      BY <1>5, <1>6, <1>7, <1>16, <2>4 DEF AtBrowser, Shapes
    <3>2. 4 \in 1 .. 4
      OBVIOUS
    <3> QED BY <1>11, <1>12, <3>1, <3>2
  <2> QED BY <1>13, <2>1, <2>2, <2>3, <2>4
<1>18. Cardinality(Places(ip, n)) = 1
  BY <1>10, <1>17, MentionedThere
<1> QED BY <1>1, <1>18

-----------------------------------------------------------------------------

(***************************************************************************)
(* A browser's connection carries answers to the request it waits for, and *)
(* nothing else: handle_response_message sends the buffer to the           *)
(* client_socket the entry holds at that moment, and the buffer and the    *)
(* descriptor always belong to the same request.                           *)
(***************************************************************************)
THEOREM AnswersGoToAskerAlways ==
  ASSUME Quiet
  PROVE  Spec => []AnswersGoToAsker
<1>1. QuietInv => AnswersGoToAsker
  BY QuietAnswers
<1> QED BY <1>1, QuietAlways, PTL

(***************************************************************************)
(* The manifest with the bitrates never reaches a browser, although the    *)
(* proxy asks for it under the name the browser used, on the connection    *)
(* all answers come from: no_list_message is set as long as that answer is *)
(* on its way.                                                             *)
(***************************************************************************)
THEOREM PlayerNeverSeesBitratesAlways ==
  ASSUME Quiet
  PROVE  Spec => []PlayerNeverSeesBitrates
<1>1. QuietInv => PlayerNeverSeesBitrates
  BY QuietAnswers
<1> QED BY <1>1, QuietAlways, PTL

(***************************************************************************)
(* A chunk is asked for at the best bitrate for the throughput the entry   *)
(* knows while the request is on its way to the web server: no response    *)
(* is measured between parse_bitrate and the send.                         *)
(***************************************************************************)
THEOREM ChunkAtBestBitrateAlways ==
  ASSUME Quiet
  PROVE  Spec => []ChunkAtBestBitrate
<1>1. QuietInv => ChunkAtBestBitrate
  BY QuietChoices
<1> QED BY <1>1, QuietAlways, PTL

(***************************************************************************)
(* The log names the chunk and the bitrate of the response it was written  *)
(* for, and times it from its own beginning: chunkname, current_bitrate    *)
(* and server_conn_start of the entry are not overwritten before.          *)
(***************************************************************************)
THEOREM LogMatchesResponseAlways ==
  ASSUME Quiet
  PROVE  Spec => []LogMatchesResponse
<1>1. QuietInv => LogMatchesResponse
  BY DEF QuietInv
<1> QED BY <1>1, QuietAlways, PTL

(***************************************************************************)
(* While a browser waits, its request or the answer is in exactly one of   *)
(* the places it passes: no buffer and no queue loses it or keeps a copy.  *)
(***************************************************************************)
THEOREM RequestInOnePlaceAlways ==
  ASSUME Quiet
  PROVE  Spec => []RequestInOnePlace
<1>1. QuietInv => RequestInOnePlace
  BY QuietPlaces
<1> QED BY <1>1, QuietAlways, PTL

(***************************************************************************)
(* A browser that was given a manifest has an entry that knows the         *)
(* bitrates: parse_bitrate does not meet an empty vector.                  *)
(***************************************************************************)
THEOREM LearntBitratesKeptAlways ==
  ASSUME Quiet
  PROVE  Spec => []LearntBitratesKept
<1>1. QuietInv => LearntBitratesKept
  BY QuietChoices
<1> QED BY <1>1, QuietAlways, PTL

-----------------------------------------------------------------------------

(***************************************************************************)
(* What a browser sees (module Forwarder): the request it waits for and    *)
(* what it has read of the answer are those of its one connection, which   *)
(* is the one of its entry.                                                *)
(***************************************************************************)
AskedBy(ip) == IF ip \in clients THEN asked[conn[ip].client_socket] ELSE 0
HasRead(ip) == IF ip \in clients THEN got[conn[ip].client_socket] ELSE << >>

LEMMA OnlyOne ==
  ASSUME NEW S, NEW x, S = { x }
  PROVE  S # {} /\ (CHOOSE y \in S : TRUE) = x
OBVIOUS

SeenRight ==
  \A ip \in Client : /\ OfBrowser(ip, asked, 0) = AskedBy(ip)
                     /\ OfBrowser(ip, got, << >>) = HasRead(ip)

LEMMA SeenOnce == QuietInv => SeenRight
<1> SUFFICES ASSUME QuietInv, NEW ip \in Client
             PROVE  /\ OfBrowser(ip, asked, 0) = AskedBy(ip)
                    /\ OfBrowser(ip, got, << >>) = HasRead(ip)
  BY DEF SeenRight
<1>1. CASE ip \notin clients
  <2>1. BrowserEnds(ip) = {}
    BY <1>1, BrowserEndIs DEF QuietInv
  <2> QED BY <1>1, <2>1 DEF OfBrowser, AskedBy, HasRead
<1>2. CASE ip \in clients
  <2>1. PICK fd : fd = conn[ip].client_socket
    OBVIOUS
  <2>2. fd \in BrowserEnds(ip)
    BY <1>2, <2>1, EntryIs DEF QuietInv, BrowserEnds
  <2>3. \A g \in BrowserEnds(ip) : g = fd
    BY <2>1, BrowserEndIs DEF QuietInv
  <2>4. BrowserEnds(ip) = { fd }
    BY <2>2, <2>3
  <2>5. BrowserEnds(ip) # {} /\ (CHOOSE y \in BrowserEnds(ip) : TRUE) = fd
    BY <2>4, OnlyOne
  <2>6. OfBrowser(ip, asked, 0) = asked[fd] /\ OfBrowser(ip, got, << >>) = got[fd]
    BY <2>5 DEF OfBrowser
  <2> QED BY <1>2, <2>1, <2>6 DEF AskedBy, HasRead
<1> QED BY <1>1, <1>2

LEMMA SeenAfter == QuietInv' => SeenRight'
BY SeenOnce, PTL

(* A step that changes none of it is not seen. *)
LEMMA Unseen ==
  ASSUME QuietInv, QuietInv', sent' = sent,
         \A ip \in Client : AskedBy(ip)' = AskedBy(ip) /\ HasRead(ip)' = HasRead(ip)
  PROVE  UNCHANGED Service!vars
<1>1. \A ip \in Client : /\ OfBrowser(ip, asked, 0)' = OfBrowser(ip, asked, 0)
                         /\ OfBrowser(ip, got, << >>)' = OfBrowser(ip, got, << >>)
  BY SeenOnce, SeenAfter DEF SeenRight
<1>2. [ip \in Client |-> OfBrowser(ip, asked, 0)]' = [ip \in Client |-> OfBrowser(ip, asked, 0)]
  BY <1>1
<1>3. [ip \in Client |-> OfBrowser(ip, got, << >>)]' = [ip \in Client |-> OfBrowser(ip, got, << >>)]
  BY <1>1
<1> QED BY <1>2, <1>3 DEF Service!vars

LEMMA SameEndsUnseen ==
  ASSUME QuietInv, QuietInv', UNCHANGED << clients, asked, got, sent >>,
         \A ip \in clients : conn'[ip].client_socket = conn[ip].client_socket
  PROVE  UNCHANGED Service!vars
<1>1. \A ip \in Client : AskedBy(ip)' = AskedBy(ip) /\ HasRead(ip)' = HasRead(ip)
  BY DEF AskedBy, HasRead
<1> QED BY <1>1, Unseen

(* A handler that reads or sends, or the end of the process. *)
LEMMA HandlersUnseen ==
  ASSUME QuietInv, QuietInv', NEW ip, HandleClient(ip) \/ HandleServer(ip)
  PROVE  UNCHANGED Service!vars
<1>1. conn \in [Client -> Connection] /\ clients \subseteq Client
  BY DEF QuietInv, Inv, TypeOK
<1>2. CASE Ends
  <2>1. UNCHANGED << clients, conn, asked, got, sent >>
    BY <1>2 DEF Ends, Dies, proxyVars, browserVars
  <2> QED BY <2>1, SameEndsUnseen
<1>3. CASE ~ Ends
  <2>1. EntryStep(ip)
    <3>1. ClientPartial(ip) \/ ClientRequest(ip) \/ ServerPartial(ip) \/ ServerManifest(ip)
          \/ ServerForward(ip)
      BY NobodyCloses DEF HandleClient, HandleServer
    <3> QED BY <1>3, <3>1, HandlerStep, NobodyCloses DEF QuietInv
  <2>2. UNCHANGED << clients, asked, got, sent >>
    BY <2>1 DEF EntryStep, browserVars
  <2>3. ip \in clients /\ ip \in Client /\ conn[ip] \in Connection
    BY <1>1, <2>1, TurnOwns DEF QuietInv, EntryStep, Serves
  <2>4. PICK c : c = conn[ip]
    OBVIOUS
  <2>5. c \in Connection
    BY <2>3, <2>4
  <2>6. conn' = [conn EXCEPT ![ip] = conn'[ip]] /\ conn'[ip].client_socket = c.client_socket
    <3>1. CASE ClientPartial(ip)
      BY <1>1, <2>3, <2>4, <3>1 DEF ClientPartial, Connection
    <3>2. CASE ClientRequest(ip)
      <4>1. PICK msg, rest, server : ForwardRequest(ip, msg, rest, server)
        BY <1>3, <3>2 DEF ClientRequest, Ends, Deaths
      <4>2. PICK st : conn' = [conn EXCEPT ![ip] = RequestSent(c, msg, st, server)]
        BY <1>1, <1>3, <2>3, <2>4, <4>1 DEF ForwardRequest, Ends, Deaths
      <4>3. RequestSent(c, msg, st, server).client_socket = c.client_socket
        BY <2>5 DEF RequestSent, Connection
      <4> QED BY <1>1, <2>3, <4>2, <4>3
    <3>3. CASE ServerPartial(ip)
      <4>1. PICK msg, k : conn' = [conn EXCEPT ![ip] =
                             [Timed(c, sock[conn[ip].server_socket]) EXCEPT
                                !.server_message = msg,
                                !.server_message_len = k]]
        BY <1>1, <2>3, <2>4, <3>3 DEF ServerPartial
      <4> QED BY <1>1, <2>3, <2>5, <4>1 DEF Timed, Connection
    <3>4. CASE ServerManifest(ip)
      <4>1. PICK st : conn' = [conn EXCEPT ![ip] =
                         ResponseDone([Timed(c, sock[conn[ip].server_socket]) EXCEPT
                                              !.no_list_message = << >>], st)]
        BY <1>1, <1>3, <2>3, <2>4, <3>4 DEF ServerManifest, Ends, Deaths
      <4> QED BY <1>1, <2>3, <2>5, <4>1 DEF Timed, ResponseDone, Connection
    <3>5. CASE ServerForward(ip)
      <4>1. PICK st : conn' = [conn EXCEPT ![ip] =
                         ResponseDone(Timed(c, sock[conn[ip].server_socket]), st)]
        BY <1>1, <1>3, <2>3, <2>4, <3>5 DEF ServerForward, Ends, Deaths
      <4> QED BY <1>1, <2>3, <2>5, <4>1 DEF Timed, ResponseDone, Connection
    <3> QED BY <3>1, <3>2, <3>3, <3>4, <3>5, NobodyCloses DEF HandleClient, HandleServer
  <2>7. \A other \in clients : conn'[other].client_socket = conn[other].client_socket
    BY <1>1, <2>3, <2>4, <2>6
  <2> QED BY <2>2, <2>7, SameEndsUnseen
<1> QED BY <1>2, <1>3

(* A new connection: nothing was asked on it yet, and nothing read. *)
LEMMA AcceptUnseen ==
  ASSUME QuietInv, QuietInv', Accept
  PROVE  UNCHANGED Service!vars
<1>1. CASE AcceptWithoutAddress \/ AcceptFails
  <2>1. UNCHANGED << clients, conn, asked, got, sent >>
    BY <1>1 DEF AcceptWithoutAddress, AcceptFails, Dies, proxyVars, browserVars
  <2> QED BY <2>1, SameEndsUnseen
<1>2. CASE AcceptKnown \/ AcceptNew
  <2>1. PICK ip : ip = Head(backlog)
    OBVIOUS
  <2>2. ip \in Client /\ ip \notin clients
    <3>1. backlog # << >> /\ backlog \in Seq(Client)
      BY <1>2 DEF AcceptKnown, AcceptNew, QuietInv, Inv, TypeOK, Waits
    <3>2. Len(backlog) \in Nat \ {0}
      BY <3>1, LenProperties, EmptySeq
    <3>3. Head(backlog) = backlog[1] /\ 1 \in 1 .. Len(backlog) /\ Head(backlog) \in Client
      BY <3>1, <3>2, HeadTailProperties
    <3> QED BY <2>1, <3>3 DEF QuietInv, Separate, WaitOnce
  <2>3. PICK fd \in LowestFree(sock) :
          /\ Accepted(ip, fd)
          /\ conn' = [conn EXCEPT ![ip] = [NoConnection EXCEPT !.client_socket = fd]]
    BY <1>2, <2>1, <2>2 DEF AcceptKnown, AcceptNew
  <2>4. /\ sock \in [Fd -> Socket] /\ conn \in [Client -> Connection] /\ clients \subseteq Client
        /\ fd \in Fd /\ sock[fd].kind = "free"
    BY <2>3 DEF QuietInv, Inv, TypeOK, LowestFree
  <2>5. clients' = clients \cup { ip } /\ UNCHANGED << asked, got, sent >>
    BY <2>3 DEF Accepted, browserVars
  <2>6. asked[fd] = 0 /\ got[fd] = << >>
    BY <2>4 DEF QuietInv, Separate, NobodyElseAsks
  <2>7. conn'[ip].client_socket = fd /\ \A other \in Client \ { ip } : conn'[other] = conn[other]
    BY <2>2, <2>3, <2>4 DEF NoConnection
  <2>8. \A other \in Client : AskedBy(other)' = AskedBy(other) /\ HasRead(other)' = HasRead(other)
    BY <2>2, <2>5, <2>6, <2>7 DEF AskedBy, HasRead
  <2> QED BY <2>5, <2>8, Unseen
<1> QED BY <1>1, <1>2 DEF Accept

(* Nor does a browser see what the loop does, or the web server. *)
LEMMA OthersUnseen ==
  ASSUME QuietInv, QuietInv',
         \/ Select \/ ScanEnds \/ SendMore \/ UNCHANGED vars
         \/ \E ip \in Client : Skip(ip) \/ OpenConnection(ip)
         \/ \E fd \in Fd : Respond(fd)
  PROVE  UNCHANGED Service!vars
<1>1. UNCHANGED << clients, conn, asked, got, sent >>
  BY DEF Select, ScanEnds, SendMore, vars, Skip, OpenConnection, Respond, Dies, Visited,
         loopVars, proxyVars, browserVars
<1> QED BY <1>1, SameEndsUnseen

(* A browser's own steps: it asks, ... *)
LEMMA AskSeen ==
  ASSUME QuietInv, QuietInv', NEW ip \in Client, NEW fd \in Fd, NEW kind \in Asks,
         SendRequest(ip, fd, kind)
  PROVE  Service!Ask(ip)
<1>1. /\ fd \in BrowserEnds(ip) /\ asked[fd] = 0
      /\ asked' = [asked EXCEPT ![fd] = sent[ip] + 1]
      /\ sent' = [sent EXCEPT ![ip] = sent[ip] + 1]
      /\ UNCHANGED << clients, conn, got >>
  BY DEF SendRequest, proxyVars
<1>2. ip \in clients /\ conn[ip].client_socket = fd /\ asked \in [Fd -> Nat]
  BY <1>1, BrowserEndIs DEF QuietInv, Inv, TypeOK
<1>3. \A other \in clients \ { ip } : conn[other].client_socket \in Fd \ { fd }
  BY <1>2, EntryIs DEF QuietInv
<1>4. /\ AskedBy(ip) = 0 /\ AskedBy(ip)' = sent[ip] + 1
      /\ \A other \in Client \ { ip } : AskedBy(other)' = AskedBy(other)
      /\ \A other \in Client : HasRead(other)' = HasRead(other)
  BY <1>1, <1>2, <1>3 DEF AskedBy, HasRead
<1>5. [i \in Client |-> OfBrowser(i, asked, 0)][ip] = 0
  BY <1>4, SeenOnce DEF SeenRight
<1>6. [i \in Client |-> OfBrowser(i, asked, 0)]'
        = [[i \in Client |-> OfBrowser(i, asked, 0)] EXCEPT ![ip] = sent[ip] + 1]
  BY <1>4, SeenOnce, SeenAfter DEF SeenRight
<1>7. [i \in Client |-> OfBrowser(i, got, << >>)]' = [i \in Client |-> OfBrowser(i, got, << >>)]
  BY <1>4, SeenOnce, SeenAfter DEF SeenRight
<1> QED BY <1>1, <1>5, <1>6, <1>7 DEF Service!Ask

(* What was read before is the beginning of what is read after. *)
LEMMA PrefixIs ==
  ASSUME NEW p \in Message, NEW q \in Message
  PROVE  SubSeq(p \o q, 1, Len(p)) = p
<1>1. Len(p) \in Nat /\ 1 \in 1 .. Len(p) + 1 /\ Len(p) \in 1 - 1 .. Len(p)
  BY LenProperties DEF Message
<1>2. SubSeq(p \o q, 1, Len(p)) = SubSeq(p, 1, Len(p))
  BY <1>1, SubSeqOfConcat1 DEF Message
<1> QED BY <1>2, SubSeqFull DEF Message

(***************************************************************************)
(* ... and reads: w is the whole answer, p what it had read before, q what *)
(* it reads, and r what is not there yet.                                  *)
(***************************************************************************)
HeardOf(p, q, w) ==
  /\ p = Before(w, Len(p)) /\ p \o q = Before(w, Len(p \o q))
  /\ Len(p \o q) \in Len(p) + 1 .. Len(w)
  /\ Len(p \o q) = Len(w) => p \o q = w

LEMMA HeardPart ==
  ASSUME NEW p \in Message, NEW q \in Message, NEW r \in Message, q # << >>,
         NEW w, w = (p \o q) \o r
  PROVE  HeardOf(p, q, w)
<1>1. /\ Len(p) \in Nat /\ Len(q) \in Nat /\ p \o q \in Message
      /\ Len(p \o q) = Len(p) + Len(q) /\ Len(q) # 0
  BY ConcatProperties, LenProperties, EmptySeq DEF Message
<1>2. PICK a : a = p \o q
  OBVIOUS
<1>3. /\ a \in Message /\ w = a \o r /\ Len(a) \in Nat /\ Len(a) =< Len(w)
      /\ Len(a) = Len(w) => a = w
      /\ SubSeq(w, 1, Len(a)) = a /\ Len(w) \in Nat
  <2>1. a \in Message /\ w = a \o r
    BY <1>1, <1>2
  <2>2. w \in Message /\ Len(w) \in Nat
    BY <2>1, BeginningIs, LenProperties DEF Message
  <2> QED BY <2>1, <2>2, BeginningIs, PrefixIs
<1>4. p = SubSeq(w, 1, Len(p))
  <2>1. w = p \o (q \o r) /\ q \o r \in Message
    BY ConcatAssociative, ConcatIsMessage DEF Message
  <2> QED BY <2>1, PrefixIs
<1> QED BY <1>1, <1>2, <1>3, <1>4 DEF Before, HeardOf

(* The answers that Forwarder allows. *)
LEMMA AnswerAllowed ==
  ASSUME "notFound" \notin Faults, NEW ip, NEW s, NEW u \in Unit, Asking(ip, s, u), AtBrowser(s, u)
  PROVE  /\ << u.kind, u.br >> \in Service!Contents
         /\ Service!Response(ip, s.n, << u.kind, u.br >>) = s.down
<1>1. /\ u.kind \in { "page", "nolist", "chunk" }
      /\ u.kind # "chunk" => u.br = 0
      /\ u.kind = "chunk" => u.br \in Elements(Listing)
  BY DEF AtBrowser, Unit, Kinds
<1>2. << u.kind, u.br >> \in Service!Contents
  BY <1>1 DEF Service!Contents
<1>3. [ ip |-> ip, n |-> s.n, kind |-> u.kind, br |-> u.br, part |-> "line" ] = u
  BY DEF Asking, Unit
<1>4. \A v, parts : Service!Whole(v, parts) = Whole(v, parts)
  BY DEF Service!Whole, Whole
<1>5. \A kind : Service!ResponseParts(kind) = ResponseParts(kind)
  BY DEF Service!ResponseParts, ResponseParts, Service!BodyLength, BodyLength
<1>6. Service!Response(ip, s.n, << u.kind, u.br >>) = Whole(u, ResponseParts(u.kind))
  BY <1>3, <1>4, <1>5 DEF Service!Response
<1> QED BY <1>2, <1>6 DEF AtBrowser

LEMMA HearSeen ==
  ASSUME QuietInv, QuietInv', "notFound" \notin Faults, NEW ip \in Client, NEW fd \in Fd,
         Receive(ip, fd)
  PROVE  Service!HearSome(ip)
<1>1. /\ fd \in BrowserEnds(ip) /\ asked[fd] # 0 /\ sock[fd].outq # << >>
      /\ UNCHANGED << clients, conn, sent >>
  BY DEF Receive, proxyVars
<1>2. PICK q : q = sock[fd].outq
  OBVIOUS
<1>3. PICK p : p = got[fd]
  OBVIOUS
<1>4. PICK r : r = Unsent(fd)
  OBVIOUS
<1>5. PICK all : all = p \o q
  OBVIOUS
<1>6. \/ /\ ResponseLength(all) = {}
         /\ got' = [got EXCEPT ![fd] = all]
         /\ asked' = asked
      \/ /\ ResponseLength(all) # {}
         /\ got' = [got EXCEPT ![fd] = << >>]
         /\ asked' = [asked EXCEPT ![fd] = 0]
  BY <1>2, <1>3, <1>5 DEF Receive, Delivered
<1>7. ip \in clients /\ conn[ip].client_socket = fd /\ asked \in [Fd -> Nat]
      /\ got \in [Fd -> Message]
  BY <1>1, BrowserEndIs DEF QuietInv, Inv, TypeOK
<1>8. p \in Message /\ q \in Message /\ r \in Message /\ all \in Message
  <2>1. /\ sock \in [Fd -> Socket] /\ sending \in [ fd : Fd \cup { None }, rest : Message ]
        /\ << >> \in Message
    BY EmptySeq DEF QuietInv, Inv, TypeOK, Message
  <2>2. p \in Message /\ q \in Message /\ r \in Message
    BY <1>2, <1>3, <1>4, <1>7, <2>1 DEF Socket, Unsent
  <2> QED BY <1>5, <2>2, ConcatIsMessage
<1>9. PICK s : s = Situation(ip)
  OBVIOUS
<1>10. PICK w : w = s.down
  OBVIOUS
<1>11. Orderly(ip, s) /\ w = all \o r /\ s.n = asked[fd]
  BY <1>2, <1>3, <1>4, <1>5, <1>7, <1>9, <1>10
     DEF QuietInv, Lockstep, Situation, Delivered
<1>12. w # << >>
  <2>1. all # << >>
    BY <1>1, <1>2, <1>5, <1>8, BeginningIs
  <2> QED BY <1>8, <1>11, <2>1, BeginningIs
<1>13. PICK u \in Unit : Asking(ip, s, u) /\ AtBrowser(s, u)
  BY <1>10, <1>11, <1>12, PlaceTells DEF Orderly
<1>14. PICK what : what = << u.kind, u.br >>
  OBVIOUS
<1>15. what \in Service!Contents /\ Service!Response(ip, asked[fd], what) = w
  BY <1>10, <1>11, <1>13, <1>14, AnswerAllowed
<1>16. PICK k : k = Len(all)
  OBVIOUS
<1>17. /\ p = Before(w, Len(p)) /\ all = Before(w, k) /\ k \in Len(p) + 1 .. Len(w)
       /\ k = Len(w) => all = w
  <2>1. q # << >> /\ w = (p \o q) \o r
    BY <1>1, <1>2, <1>5, <1>11
  <2>2. HeardOf(p, q, w)
    BY <1>8, <2>1, HeardPart
  <2> QED BY <1>5, <1>16, <2>2 DEF HeardOf
<1>18. Len(p) \in Nat /\ Len(w) \in Nat /\ k \in Nat
  BY <1>8, <1>11, <1>16, BeginningIs
<1>19. w = Whole(u, ResponseParts(u.kind))
  BY <1>10, <1>13 DEF AtBrowser
<1>20. ResponseLength(all) = {} <=> k < Len(w)
  <2>1. /\ \A len \in ResponseLength(all) : all = w
        /\ all = w => ResponseLength(all) # {}
    BY <1>8, <1>11, <1>19, HeardIs
  <2>2. all = w <=> k = Len(w)
    BY <1>16, <1>17
  <2>3. k < Len(w) <=> k # Len(w)
    BY <1>17, <1>18
  <2> QED BY <2>1, <2>2, <2>3
<1>21. \A other \in clients \ { ip } : conn[other].client_socket \in Fd \ { fd }
  BY <1>7, EntryIs DEF QuietInv
<1>22. /\ AskedBy(ip) = asked[fd] /\ HasRead(ip) = p
       /\ AskedBy(ip)' = (IF k < Len(w) THEN asked[fd] ELSE 0)
       /\ HasRead(ip)' = (IF k < Len(w) THEN all ELSE << >>)
       /\ \A other \in Client \ { ip } :
            AskedBy(other)' = AskedBy(other) /\ HasRead(other)' = HasRead(other)
  BY <1>1, <1>3, <1>6, <1>7, <1>20, <1>21 DEF AskedBy, HasRead
<1> DEFINE waiting == [i \in Client |-> OfBrowser(i, asked, 0)]
           read == [i \in Client |-> OfBrowser(i, got, << >>)]
<1>23. waiting[ip] = asked[fd] /\ read[ip] = p
  BY <1>22, SeenOnce DEF SeenRight
<1>24. waiting' = [waiting EXCEPT ![ip] = IF k < Len(w) THEN @ ELSE 0]
  BY <1>22, SeenOnce, SeenAfter DEF SeenRight
<1>25. read' = [read EXCEPT ![ip] = IF k < Len(w) THEN Before(w, k) ELSE << >>]
  BY <1>17, <1>22, SeenOnce, SeenAfter DEF SeenRight
<1>26. \A m, n : Service!Before(m, n) = Before(m, n)
  BY DEF Service!Before, Before
<1>27. Service!Hear(ip, w)
  BY <1>1, <1>17, <1>23, <1>24, <1>25, <1>26 DEF Service!Hear
<1> QED BY <1>1, <1>15, <1>23, <1>27 DEF Service!HearSome

LEMMA StepForwards ==
  ASSUME Quiet, "notFound" \notin Faults, QuietInv, [Next]_vars
  PROVE  [Service!Next]_(Service!vars)
<1>1. QuietInv'
  BY NextQuiet
<1>2. CASE UNCHANGED vars \/ Select \/ ScanEnds \/ SendMore
  BY <1>1, <1>2, OthersUnseen
<1>3. CASE Accept
  BY <1>1, <1>3, AcceptUnseen
<1>4. ASSUME NEW ip \in Client, Skip(ip) \/ HandleClient(ip) \/ HandleServer(ip)
      PROVE  UNCHANGED Service!vars
  BY <1>1, <1>4, OthersUnseen, HandlersUnseen
<1>5. ASSUME NEW ip \in Client, Browser(ip)
      PROVE  [Service!Next]_(Service!vars)
  <2>1. CASE OpenConnection(ip)
    BY <1>1, <2>1, OthersUnseen
  <2>2. ASSUME NEW fd \in Fd, NEW kind \in Asks, SendRequest(ip, fd, kind) PROVE Service!Next
    BY <1>1, <2>2, AskSeen DEF Service!Next
  <2>3. ASSUME NEW fd \in Fd, Receive(ip, fd) PROVE Service!Next
    BY <1>1, <2>3, HearSeen DEF Service!Next
  <2>4. \A fd \in Fd : ~ CloseConnection(ip, fd)
    BY DEF Quiet, CloseConnection
  <2> QED BY <1>5, <2>1, <2>2, <2>3, <2>4 DEF Browser
<1>6. WebServer => \E fd \in Fd : Respond(fd)
  BY DEF WebServer, Quiet, ServerClose, ServerAbort
<1>7. CASE WebServer
  BY <1>1, <1>6, <1>7, OthersUnseen
<1> QED BY <1>2, <1>3, <1>4, <1>5, <1>7 DEF Next, Proxy

(***************************************************************************)
(* miProxy, its buffers, its scan and its partial reads and sends, and the *)
(* manifest it asks for twice, implement Forwarder: a browser asks, and    *)
(* reads one response to its own request, in order, nothing twice, never   *)
(* the manifest with the bitrates, and chunks at bitrates on offer         *)
(* (handle_client_connection, handle_server_connection and what they       *)
(* call).  A web server that knows no resource may answer a chunk's        *)
(* request with a page, which still has its bitrate: hence the assumption. *)
(***************************************************************************)
THEOREM ForwardsAlways ==
  ASSUME Quiet, "notFound" \notin Faults
  PROVE  Spec => Forwards
<1>1. Init => Service!Init
  <2> SUFFICES ASSUME Init PROVE Service!Init
    OBVIOUS
  <2>1. QuietInv
    BY InitInv, InitQuiet DEF QuietInv
  <2>2. \A ip \in Client : OfBrowser(ip, asked, 0) = 0 /\ OfBrowser(ip, got, << >>) = << >>
    BY <2>1, SeenOnce DEF Init, SeenRight, AskedBy, HasRead
  <2> QED BY <2>2 DEF Init, Service!Init
<1>2. QuietInv /\ [Next]_vars => [Service!Next]_(Service!vars)
  BY StepForwards
<1> QED BY <1>1, <1>2, QuietAlways, PTL DEF Spec, Forwards, Service!Spec

-----------------------------------------------------------------------------

(***************************************************************************)
(* Nothing is refused, and there is room for every browser: two            *)
(* descriptors for each.  A proxy that looks the web server's address up   *)
(* is given it once, and so has one browser.                               *)
(***************************************************************************)
Smooth ==
  /\ Quiet
  /\ { "refuse", "notFound", "noAddress" } \cap Faults = {}
  /\ Listing # << >>
  /\ IsFiniteSet(Client) /\ 2 * Cardinality(Client) =< NumFd
  /\ TRUE \in DnsModes => \A a, b \in Client : a = b

Held(kind) == { fd \in Fd : sock[fd].kind = kind }

(* No two descriptors of a kind belong to one browser. *)
LEMMA HeldIs ==
  ASSUME QuietInv, NEW kind \in { "client", "server" },
         NEW T, IsFiniteSet(T), \A fd \in Held(kind) : sock[fd].ip \in T
  PROVE  /\ IsFiniteSet(Held(kind)) /\ Cardinality(Held(kind)) \in Nat
         /\ Cardinality(T) \in Nat /\ Cardinality(Held(kind)) =< Cardinality(T)
<1> DEFINE S == Held(kind)
           f == [fd \in S |-> sock[fd].ip]
<1>1. IsFiniteSet(S)
  <2>1. IsFiniteSet(Fd)
    BY MiProxyAssumption, FS_Interval DEF Fd
  <2>2. S \in SUBSET Fd
    BY DEF Held
  <2> QED BY <2>1, <2>2, FS_Subset
<1>2. f \in [S -> T]
  OBVIOUS
<1>3. \A x, y \in S : f[x] = f[y] => x = y
  BY DEF Held, QuietInv, Separate, SocketsInUse, InUse
<1> HIDE DEF S, f
<1>4. ~ (Cardinality(T) < Cardinality(S))
  <2> SUFFICES ASSUME Cardinality(T) < Cardinality(S) PROVE FALSE
    OBVIOUS
  <2>1. \E x, y \in S : x # y /\ f[x] = f[y]
    BY <1>1, <1>2, FS_PigeonHole
  <2> QED BY <1>3, <2>1
<1>5. Cardinality(S) \in Nat /\ Cardinality(T) \in Nat
  BY <1>1, FS_CardinalityType
<1>6. Cardinality(S) =< Cardinality(T)
  BY <1>4, <1>5
<1> QED BY <1>1, <1>5, <1>6 DEF S

(* So one is free as long as a browser has not both of its own. *)
LEMMA FreeLeft ==
  ASSUME Smooth, QuietInv, NEW ip \in Client, NEW kind \in { "client", "server" },
         \A fd \in Held(kind) : sock[fd].ip # ip
  PROVE  \E fd \in Fd : sock[fd].kind = "free"
<1> SUFFICES ASSUME \A fd \in Fd : sock[fd].kind # "free" PROVE FALSE
  OBVIOUS
<1>1. sock \in [Fd -> Socket] /\ clients \subseteq Client /\ IsFiniteSet(Client)
      /\ 2 * Cardinality(Client) =< NumFd /\ NumFd \in Nat
  BY MiProxyAssumption DEF QuietInv, Inv, TypeOK, Smooth
<1>2. PICK other \in { "client", "server" } : other # kind
  OBVIOUS
<1>3. \A k \in { "client", "server" } : \A fd \in Held(k) : sock[fd].ip \in Client
  BY <1>1 DEF Held, QuietInv, Separate, SocketsInUse, InUse
<1>4. /\ IsFiniteSet(Held(other)) /\ Cardinality(Held(other)) \in Nat
      /\ Cardinality(Client) \in Nat /\ Cardinality(Held(other)) =< Cardinality(Client)
  BY <1>1, <1>2, <1>3, HeldIs
<1>5. IsFiniteSet(Client \ { ip }) /\ Cardinality(Client \ { ip }) = Cardinality(Client) - 1
  BY <1>1, FS_RemoveElement
<1>6. /\ IsFiniteSet(Held(kind)) /\ Cardinality(Held(kind)) \in Nat
      /\ Cardinality(Held(kind)) =< Cardinality(Client) - 1
  <2>1. \A fd \in Held(kind) : sock[fd].ip \in Client \ { ip }
    BY <1>3
  <2> QED BY <1>5, <2>1, HeldIs
<1>7. Held(kind) \cup Held(other) = Fd /\ Held(kind) \cap Held(other) = {}
  BY <1>1, <1>2 DEF Held, Socket
<1>8. Cardinality(Fd) = Cardinality(Held(kind)) + Cardinality(Held(other)) - 0
  <2>1. Cardinality(Held(kind) \cup Held(other))
          = Cardinality(Held(kind)) + Cardinality(Held(other))
            - Cardinality(Held(kind) \cap Held(other))
    BY <1>4, <1>6, FS_Union
  <2> QED BY <1>7, <2>1, FS_EmptySet
<1>9. Cardinality(Fd) = NumFd
  <2>1. Cardinality(1 .. NumFd) = IF 1 > NumFd THEN 0 ELSE NumFd - 1 + 1
    BY <1>1, FS_Interval
  <2> QED BY <1>1, <2>1 DEF Fd
<1> QED BY <1>1, <1>4, <1>6, <1>8, <1>9

LEMMA LowestIs ==
  ASSUME NEW rest \in [Fd -> Socket], NEW fd \in Fd, rest[fd].kind = "free"
  PROVE  LowestFree(rest) # {}
<1> DEFINE T == { g \in Fd : rest[g].kind = "free" }
<1>1. T # {} /\ T \subseteq Nat
  BY DEF Fd
<1>2. \E x \in T : \A y \in T : ~ (<< y, x >> \in OpToRel(<, Nat))
  BY <1>1, NatLessThanWellFounded, WFMin
<1>3. \E x \in T : \A y \in T : ~ (y < x)
  BY <1>1, <1>2 DEF OpToRel
<1>4. PICK x \in T : \A y \in T : ~ (y < x)
  BY <1>3
<1>5. \A y \in T : x =< y
  BY <1>1, <1>4
<1>6. x \in LowestFree(rest)
  BY <1>4, <1>5 DEF LowestFree
<1> QED BY <1>6

(* The web server's address is looked up for the one entry there will be. *)
Addressed ==
  /\ dns_socket # "none" => TRUE \in DnsModes
  /\ dns_socket = "used" => clients # {}

(* The loop goes on with the entries it had. *)
GoesOn == pc' \in Phases /\ UNCHANGED << clients, dns_socket >>

(* The listening socket is ready only for a browser without an entry, for  *)
(* which there is a descriptor.                                            *)
LEMMA AcceptGoesOn ==
  ASSUME Smooth, QuietInv, Addressed, Accept
  PROVE  pc' \in Phases /\ Addressed'
<1>1. PICK ip : ip = Head(backlog)
  OBVIOUS
<1>2. ip \in Client /\ ip \notin clients
  <2>1. pc = "accept" /\ backlog # << >> /\ backlog \in Seq(Client)
    BY DEF Accept, AcceptKnown, AcceptNew, AcceptWithoutAddress, AcceptFails,
           QuietInv, Inv, TypeOK, Waits
  <2>2. Len(backlog) \in Nat \ {0}
    BY <2>1, LenProperties, EmptySeq
  <2>3. ip = backlog[1] /\ 1 \in 1 .. Len(backlog) /\ ip \in Client
    BY <1>1, <2>1, <2>2, HeadTailProperties
  <2> QED BY <2>3 DEF QuietInv, Separate, WaitOnce
<1>3. LowestFree(sock) # {}
  <2>1. \A fd \in Held("client") : sock[fd].ip # ip
    BY <1>2 DEF Held, QuietInv, Separate, SocketsInUse, InUse
  <2>2. \E fd \in Fd : sock[fd].kind = "free"
    BY <1>2, <2>1, FreeLeft
  <2>3. sock \in [Fd -> Socket]
    BY DEF QuietInv, Inv, TypeOK
  <2> QED BY <2>2, <2>3, LowestIs
<1>4. dns_socket # "used" /\ "noAddress" \notin Faults
  <2>1. clients \subseteq Client
    BY DEF QuietInv, Inv, TypeOK
  <2> QED BY <1>2, <2>1 DEF Addressed, Smooth
<1>5. AcceptNew
  BY <1>1, <1>2, <1>3, <1>4 DEF Accept, AcceptKnown, AcceptWithoutAddress, AcceptFails
<1>6. pc' = "scan" /\ clients' = clients \cup { ip }
      /\ dns_socket' = IF dns_socket = "open" THEN "used" ELSE "none"
  BY <1>1, <1>5 DEF AcceptNew, Accepted
<1>7. clients' # {}
  BY <1>6
<1> QED BY <1>6, <1>7 DEF Addressed, Phases

(* A request that has come whole can be sent on: one for a chunk comes     *)
(* from an entry that knows the bitrates.                                  *)
LEMMA RequestCanGo ==
  ASSUME QuietInv, NEW ip, ClientTurn(ip),
         NEW k \in Reads(sock[conn[ip].client_socket]),
         NEW msg, msg = conn[ip].client_message \o Taken(sock[conn[ip].client_socket], k),
         Has(msg, "end"),
         NEW rest, NEW server, rest[server].peer = "open",
         ForwardRequest(ip, msg, rest, server)
  PROVE  GoesOn
<1>1. PICK s : s = Situation(ip)
  OBVIOUS
<1>2. Comes(ip, k, msg, s)
  BY <1>1, RequestComes
<1>3. PICK u \in Unit : s.up = msg /\ AtProxy(s, u)
  BY <1>2 DEF Comes
<1>4. s.stream = conn[ip].stream
  BY <1>1 DEF Situation
<1>5. CanChoose(ip, msg)
  <2>1. IsRequest(msg, u) /\ (u.kind = "chunk" => Known(s))
    BY <1>3 DEF AtProxy
  <2>2. msg[1].kind = u.kind
    BY <2>1, RequestIs
  <2> QED BY <1>4, <2>1, <2>2 DEF CanChoose, IsChunk, Known
<1>6. CanSend(rest[server])
  BY DEF CanSend
<1>7. Visited(ip) /\ UNCHANGED << clients, dns_socket >>
  BY <1>5, <1>6 DEF ForwardRequest
<1>8. pc \in Phases
  BY DEF ClientTurn, IsNext, Phases
<1> QED BY <1>7, <1>8 DEF GoesOn, Visited

LEMMA RequestGoesOn ==
  ASSUME Smooth, QuietInv, NEW ip, ClientRequest(ip)
  PROVE  GoesOn
<1> DEFINE fd == conn[ip].client_socket
           msg(k) == conn[ip].client_message \o Taken(sock[fd], k)
           rest(k) == [sock EXCEPT ![fd] = Read(sock[fd], k)]
<1>1. ClientTurn(ip) /\ IsNext(ip)
  BY DEF ClientRequest, ClientTurn
<1>2. ip \in clients /\ ip \in Client /\ Owned(ip) /\ sock[fd] \in Socket /\ fd \in Fd
  BY <1>1, TurnOwns DEF QuietInv, Owned
<1>3. sock \in [Fd -> Socket]
  BY DEF QuietInv, Inv, TypeOK
<1>4. PICK k \in Reads(sock[fd]) :
        /\ Has(msg(k), "end")
        /\ \/ /\ conn[ip].server_socket # None
              /\ ForwardRequest(ip, msg(k), rest(k), conn[ip].server_socket)
           \/ /\ conn[ip].server_socket = None
              /\ \E server \in LowestFree(rest(k)) :
                   ForwardRequest(ip, msg(k),
                     [rest(k) EXCEPT ![server] = NewSocket("server", ip)], server)
           \/ conn[ip].server_socket = None /\ LowestFree(rest(k)) = {}
  BY DEF ClientRequest, Smooth
<1>5. Read(sock[fd], k) \in Socket /\ Read(sock[fd], k).kind = "client"
  BY <1>1, ClientReads DEF QuietInv
<1>6. rest(k) \in [Fd -> Socket] /\ rest(k)[fd] = Read(sock[fd], k)
      /\ \A g \in Fd : g # fd => rest(k)[g] = sock[g]
  BY <1>2, <1>3, <1>5
<1>7. CASE conn[ip].server_socket # None
           /\ ForwardRequest(ip, msg(k), rest(k), conn[ip].server_socket)
  <2>1. rest(k)[conn[ip].server_socket].peer = "open"
    BY <1>2, <1>6, <1>7, EntryIs DEF QuietInv
  <2>2. PICK m, r, server : m = msg(k) /\ r = rest(k) /\ server = conn[ip].server_socket
    OBVIOUS
  <2>3. m = conn[ip].client_message \o Taken(sock[fd], k)
        /\ Has(m, "end") /\ r[server].peer = "open" /\ ForwardRequest(ip, m, r, server)
    BY <1>4, <1>7, <2>1, <2>2
  <2> QED BY <1>1, <2>3, RequestCanGo
<1>8. ASSUME NEW server \in LowestFree(rest(k)),
             ForwardRequest(ip, msg(k),
               [rest(k) EXCEPT ![server] = NewSocket("server", ip)], server)
      PROVE  GoesOn
  <2>1. PICK m, r : m = msg(k) /\ r = [rest(k) EXCEPT ![server] = NewSocket("server", ip)]
    OBVIOUS
  <2>2. server \in Fd
    BY <1>6 DEF LowestFree
  <2>3. NewSocket("server", ip).peer = "open"
    BY DEF NewSocket, FreeSocket
  <2>4. r[server].peer = "open"
    BY <1>6, <2>1, <2>2, <2>3
  <2>5. m = conn[ip].client_message \o Taken(sock[fd], k)
        /\ Has(m, "end") /\ ForwardRequest(ip, m, r, server)
    BY <1>4, <1>8, <2>1
  <2> QED BY <1>1, <2>4, <2>5, RequestCanGo
<1>9. ASSUME conn[ip].server_socket = None PROVE LowestFree(rest(k)) # {}
  <2>1. \A g \in Held("server") : sock[g].ip # ip
    <3>1. \A g \in Fd : g # None
      BY MiProxyAssumption DEF Fd, None
    <3> QED BY <1>9, <3>1 DEF Held, QuietInv, Separate, SocketsInUse, InUse
  <2>2. PICK g \in Fd : sock[g].kind = "free"
    BY <1>2, <2>1, FreeLeft
  <2>3. sock[fd].kind = "client"
    BY <1>2, EntryIs DEF QuietInv
  <2>4. rest(k)[g].kind = "free"
    BY <1>6, <2>2, <2>3
  <2> QED BY <1>6, <2>2, <2>4, LowestIs
<1> HIDE DEF msg, rest
<1> QED BY <1>4, <1>7, <1>8, <1>9

(* The answer to a request for a manifest is one, and has bitrates.        *)
LEMMA ManifestGoesOn ==
  ASSUME Smooth, QuietInv, NEW ip, ServerManifest(ip)
  PROVE  GoesOn
<1> DEFINE c == conn[ip]
           fd == c.server_socket
           rest(k) == [sock EXCEPT ![fd] = Read(sock[fd], k)]
<1>1. /\ ServerTurn(ip) /\ IsNext(ip) /\ fd \in Fd /\ fd # None /\ sock[fd] \in Socket
      /\ c.no_list_message # << >>
  BY ServerTurnOwns DEF ServerManifest, ServerTurn, QuietInv
<1>2. /\ ip \in clients /\ sock \in [Fd -> Socket] /\ sock[fd].peer = "open"
      /\ c.stream.available_bitrates \in Seq(Nat)
  <2>1. ip \in clients /\ c \in Connection /\ sock \in [Fd -> Socket]
    BY <1>1, TurnOwns DEF QuietInv, Inv, TypeOK
  <2> QED BY <1>1, <2>1, EntryIs DEF QuietInv, Connection, Stream
<1>3. PICK k \in Reads(sock[fd]) :
        LET msg == c.server_message \o Taken(sock[fd], k)
        IN  /\ IsComplete(c, msg)
            /\ \/ ~ IsXml(msg)
               \/ c.stream.available_bitrates \o Listed(msg) = << >>
               \/ ~ CanSend(rest(k)[fd])
               \/ Visited(ip) /\ UNCHANGED << clients, dns_socket >>
  BY DEF ServerManifest
<1>4. PICK msg : msg = c.server_message \o Taken(sock[fd], k)
  OBVIOUS
<1>5. PICK r : r = Read(sock[fd], k).inq
  OBVIOUS
<1>6. PICK s : s = Situation(ip)
  OBVIOUS
<1>7. \E u \in Unit : Arrived(ip, s, u, msg, r)
  <2>1. IsComplete(c, msg)
    BY <1>3, <1>4
  <2> QED BY <1>1, <1>4, <1>5, <1>6, <2>1, ResponseArrives
<1>8. PICK u \in Unit : OnItsWay(s, u) /\ msg = Whole(u, ResponseParts(u.kind))
  BY <1>7 DEF Arrived
<1>9. u.kind = "manifest"
  <2>1. s.no_list # << >>
    BY <1>1, <1>6 DEF Situation
  <2> QED BY <1>8, <2>1 DEF OnItsWay, Sought, Smooth
<1>10. IsXml(msg)
  BY <1>8, <1>9, ResponseIs
<1>11. c.stream.available_bitrates \o Listed(msg) # << >>
  <2>1. Listed(msg) = Listing /\ Listing \in Seq(Nat) /\ Listing # << >>
    BY <1>8, <1>9, ListedOnce, MiProxyAssumption DEF Smooth
  <2>2. /\ Len(c.stream.available_bitrates) \in Nat /\ Len(Listing) \in Nat \ {0}
        /\ Len(c.stream.available_bitrates \o Listing)
             = Len(c.stream.available_bitrates) + Len(Listing)
    BY <1>2, <2>1, LenProperties, EmptySeq, ConcatProperties
  <2>3. Len(c.stream.available_bitrates \o Listing) # 0
    BY <2>2
  <2> QED BY <2>1, <2>3, EmptySeq
<1>12. CanSend(rest(k)[fd])
  BY <1>1, <1>2 DEF Read, CanSend, Socket
<1>13. Visited(ip) /\ UNCHANGED << clients, dns_socket >>
  BY <1>3, <1>4, <1>10, <1>11, <1>12
<1> QED BY <1>1, <1>13 DEF GoesOn, Visited, IsNext, Phases

(* Every other step of the proxy. *)
LEMMA ProxyGoesOn ==
  ASSUME Smooth, QuietInv,
         \/ Select \/ ScanEnds \/ SendMore
         \/ \E ip \in Client : Skip(ip) \/ HandleClient(ip) \/ HandleServer(ip)
  PROVE  GoesOn
<1>1. CASE Select \/ ScanEnds
  BY <1>1 DEF Select, ScanEnds, GoesOn, Phases, proxyVars
<1>2. CASE SendMore
  <2>1. pc = "send" /\ sending.fd \in Fd /\ sending # NotSending
    <3>1. \A g \in Fd : g # None
      BY MiProxyAssumption DEF Fd, None
    <3>2. pc = "send" /\ sending.fd \in Fd
      BY <1>2 DEF SendMore, QuietInv, Inv, SendsSome
    <3> QED BY <3>1, <3>2 DEF NotSending
  <2>2. sock[sending.fd].peer = "open"
    BY <2>1 DEF QuietInv, SendingOn, Separate, SocketsInUse, InUse
  <2>3. CanSend(sock[sending.fd])
    BY <2>2 DEF CanSend
  <2>4. (\E m : SendsOn(sending.fd, Behind(sending.rest, m))) /\ UNCHANGED proxyVars
    BY <1>2, <2>3 DEF SendMore
  <2> QED BY <2>4 DEF SendsOn, GoesOn, Phases, proxyVars
<1>3. ASSUME NEW ip \in Client, Skip(ip) \/ ClientPartial(ip) \/ ServerPartial(ip)
      PROVE  GoesOn
  <2>1. pc \in Phases
    BY <1>3 DEF Skip, ClientPartial, ServerPartial, ClientTurn, ServerTurn, IsNext, Phases
  <2>2. Visited(ip) /\ UNCHANGED << clients, dns_socket >>
    BY <1>3 DEF Skip, ClientPartial, ServerPartial, proxyVars
  <2> QED BY <2>1, <2>2 DEF Visited, GoesOn
<1>4. ASSUME NEW ip \in Client, ServerForward(ip) PROVE GoesOn
  <2>1. ip \in clients
    BY <1>4, TurnOwns DEF QuietInv, ServerForward, ServerTurn
  <2>2. CanSend(sock[conn[ip].client_socket])
    BY <2>1, EntryIs DEF QuietInv, CanSend
  <2>3. /\ \E m, msg : SendsOn(conn[ip].client_socket, Behind(msg, m))
        /\ UNCHANGED << clients, dns_socket >>
    BY <1>4, <2>2 DEF ServerForward
  <2> QED BY <2>3 DEF SendsOn, GoesOn, Phases
<1>5. ASSUME NEW ip \in Client, HandleClient(ip) \/ HandleServer(ip) PROVE GoesOn
  <2>1. \/ ClientPartial(ip) \/ ClientRequest(ip)
        \/ ServerPartial(ip) \/ ServerManifest(ip) \/ ServerForward(ip)
    BY <1>5, NobodyCloses DEF HandleClient, HandleServer
  <2> QED BY <1>3, <1>4, <2>1, RequestGoesOn, ManifestGoesOn
<1> QED BY <1>1, <1>2, <1>3, <1>5

(***************************************************************************)
(* Nothing the browsers ask for ends the process, as long as each keeps    *)
(* its connection, the web server answers what it is asked, with a         *)
(* manifest that has a bitrate, and the descriptors suffice.  A proxy in   *)
(* dns_mode has one browser: it is the second one's connection that ends   *)
(* it (request_dns).                                                       *)
(***************************************************************************)
THEOREM StaysUpAlways ==
  ASSUME Smooth
  PROVE  Spec => []StaysUp
<1> DEFINE Up == Alive /\ Addressed
<1>1. Quiet
  BY DEF Smooth
<1>2. Init => Up
  BY DEF Init, Alive, Phases, Addressed
<1>3. QuietInv /\ Up /\ [Next]_vars => Up'
  <2> SUFFICES ASSUME QuietInv, Alive, Addressed, [Next]_vars PROVE Alive' /\ Addressed'
    OBVIOUS
  <2>1. CASE Accept
    BY <2>1, AcceptGoesOn DEF Alive
  <2>2. CASE GoesOn
    BY <2>2 DEF GoesOn, Alive, Addressed
  <2>3. CASE UNCHANGED vars
    BY <2>3 DEF vars, loopVars, proxyVars, Alive, Addressed
  <2>4. CASE (\E ip \in Client : Browser(ip)) \/ WebServer
    <3>1. UNCHANGED << loopVars, proxyVars >>
      BY <2>4 DEF Browser, WebServer, OpenConnection, SendRequest, Receive, CloseConnection,
                  Respond, ServerClose, ServerAbort
    <3> QED BY <3>1 DEF loopVars, proxyVars, Alive, Addressed
  <2> QED BY <2>1, <2>2, <2>3, <2>4, ProxyGoesOn DEF Next, Proxy
<1>4. Up => StaysUp
  BY DEF StaysUp
<1> HIDE DEF Up
<1>5. Spec => []QuietInv
  BY <1>1, QuietAlways
<1> QED BY <1>2, <1>3, <1>4, <1>5, PTL DEF Spec
=============================================================================
