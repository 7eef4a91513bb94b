-------------------------- MODULE DnsMessagesProofs --------------------------
(***************************************************************************)
(* What the receiving ends of the lookup rely on: every message that can   *)
(* be encoded fits into the buffer of receive_all, and a message that was  *)
(* read whole is decoded to what was encoded.                              *)
(***************************************************************************)
EXTENDS DnsMessages, TLAPS

(* A number of a message is written with at least one character, and with  *)
(* as many as its type can need at most.                                   *)
LEMMA DigitsOfUshort == \A n \in Ushort : Digits(n) \in 1 .. 5
BY SMT DEF Ushort, Digits, Unsigned, UpToFive

LEMMA DigitsOfFlag == \A n \in 0 .. 1 : Digits(n) = 1
BY DEF Digits, Unsigned, UpToFive

LEMMA DigitsOfChar == \A n \in Char : Digits(n) \in 1 .. 4
BY DEF Char, Digits, Unsigned, UpToFive

LEMMA DigitsOfSigned == \A n \in Int : Digits(n) \in 1 .. 11
<1>1. \A n \in Nat : UpToFive(n) \in 1 .. 5
  BY DEF UpToFive
<1>2. \A n \in Nat : n \div 100000 \in Nat
  BY SMT
<1>3. \A n \in Nat : Unsigned(n) \in 1 .. 10
  BY <1>1, <1>2, SMT DEF Unsigned
<1> QED
  BY <1>3 DEF Digits

-----------------------------------------------------------------------------

LEMMA HeaderFits ==
  ASSUME NEW h \in Header
  PROVE  HeaderSize(h) \in 1 .. MAX_MESSAGE_SIZE - 1
<1>1. /\ h.ID \in Ushort /\ h.QDCOUNT \in Ushort /\ h.ANCOUNT \in Ushort
      /\ h.NSCOUNT \in Ushort /\ h.ARCOUNT \in Ushort
      /\ h.QR \in 0 .. 1 /\ h.AA \in 0 .. 1 /\ h.TC \in 0 .. 1
      /\ h.RD \in 0 .. 1 /\ h.RA \in 0 .. 1
      /\ h.Z \in Char /\ h.RCODE \in Char
      /\ h.OPCODE \in Int
  BY DEF Header, Signed
<1>2. /\ Digits(h.ID) \in 1 .. 5 /\ Digits(h.QDCOUNT) \in 1 .. 5
      /\ Digits(h.ANCOUNT) \in 1 .. 5 /\ Digits(h.NSCOUNT) \in 1 .. 5
      /\ Digits(h.ARCOUNT) \in 1 .. 5
  BY <1>1, DigitsOfUshort
<1>3. /\ Digits(h.QR) = 1 /\ Digits(h.AA) = 1 /\ Digits(h.TC) = 1
      /\ Digits(h.RD) = 1 /\ Digits(h.RA) = 1
  BY <1>1, DigitsOfFlag
<1>4. /\ Digits(h.Z) \in 1 .. 4 /\ Digits(h.RCODE) \in 1 .. 4
      /\ Digits(h.OPCODE) \in 1 .. 11
  BY <1>1, DigitsOfChar, DigitsOfSigned
<1> QED
  BY <1>2, <1>3, <1>4 DEF HeaderSize, MAX_MESSAGE_SIZE

LEMMA QuestionFits ==
  ASSUME NEW q \in Question
  PROVE  /\ QuestionSize(q) \in 1 .. MAX_MESSAGE_SIZE - 1
         /\ QuestionNeeded(q) =< QuestionSize(q)
<1>1. Digits(q.QTYPE) \in 1 .. 5 /\ Digits(q.QCLASS) \in 1 .. 5
  BY DigitsOfUshort DEF Question
<1> QED
  BY <1>1
  DEF QuestionSize, QuestionNeeded, MAX_MESSAGE_SIZE, NameSize, DomainLength

LEMMA RecordFits ==
  ASSUME NEW Address, NEW r \in Record(Address)
  PROVE  /\ RecordSize(r) \in 1 .. MAX_MESSAGE_SIZE - 1
         /\ RecordNeeded(r) =< RecordSize(r)
<1>1. /\ r.TYPE \in Ushort /\ r.CLASS \in Ushort /\ r.TTL \in Ushort
      /\ r.RDLENGTH \in 0 .. 99
  BY DEF Record, NameSize
<1>2. r.RDLENGTH \in Ushort
  <2>1. \A n \in 0 .. 99 : n \in Ushort
    BY SMT DEF Ushort
  <2> QED
    BY <1>1, <2>1
<1>3. /\ Digits(r.TYPE) \in 1 .. 5 /\ Digits(r.CLASS) \in 1 .. 5
      /\ Digits(r.TTL) \in 1 .. 5 /\ Digits(r.RDLENGTH) \in 1 .. 5
  BY <1>1, <1>2, DigitsOfUshort
<1> QED
  BY <1>1, <1>3 DEF RecordSize, RecordNeeded, MAX_MESSAGE_SIZE, NameSize

-----------------------------------------------------------------------------

(***************************************************************************)
(* Whatever the fields of a message hold, its size is positive and less    *)
(* than MAX_MESSAGE_SIZE, so that neither receive_all writes behind its    *)
(* buffer of MAX_MESSAGE_SIZE + 1 bytes, although the nameserver's puts    *)
(* its zero at size + 1; and a message that its recv() returned whole is   *)
(* decoded to the name, or to the address, that was encoded.               *)
(***************************************************************************)
THEOREM MessagesFit ==
  /\ \A h \in Header : HeaderSize(h) \in 1 .. MAX_MESSAGE_SIZE - 1
  /\ \A q \in Question :
       /\ QuestionSize(q) \in 1 .. MAX_MESSAGE_SIZE - 1
       /\ DecodeQuestion(q, QuestionSize(q)) = q.QNAME
  /\ \A Address : \A r \in Record(Address) :
       /\ RecordSize(r) \in 1 .. MAX_MESSAGE_SIZE - 1
       /\ DecodeRecord(r, RecordSize(r)) = r.RDATA
<1>1. ASSUME NEW q \in Question
      PROVE  DecodeQuestion(q, QuestionSize(q)) = q.QNAME
  <2>1. QuestionSize(q) \in Nat /\ QuestionNeeded(q) \in Int
    BY QuestionFits
    DEF QuestionSize, QuestionNeeded, NameSize, DomainLength, MAX_MESSAGE_SIZE
  <2> QED
    BY <2>1, QuestionFits DEF DecodeQuestion
<1>2. ASSUME NEW Address, NEW r \in Record(Address)
      PROVE  DecodeRecord(r, RecordSize(r)) = r.RDATA
  <2>1. RecordSize(r) \in Nat /\ r.RDLENGTH \in Nat
    BY RecordFits DEF MAX_MESSAGE_SIZE, Record, NameSize
  <2>2. RecordNeeded(r) \in Int
    BY <2>1 DEF RecordNeeded, NameSize
  <2> QED
    BY <2>1, <2>2, RecordFits DEF DecodeRecord
<1> QED
  BY <1>1, <1>2, HeaderFits, QuestionFits, RecordFits
=============================================================================
