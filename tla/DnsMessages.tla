----------------------------- MODULE DnsMessages -----------------------------
(***************************************************************************)
(* The three messages of the lookup as the bytes that DNSHeader,           *)
(* DNSQuestion and DNSRecord of both programs write and read: numbers in   *)
(* decimal, one character between two of them, and names in fields of      *)
(* NameSize bytes that are padded with zeros.  A message is sent as it is, *)
(* after its size, and read into a buffer of MAX_MESSAGE_SIZE bytes that a *)
(* recv() may fill in part.                                                *)
(***************************************************************************)
EXTENDS Integers

CONSTANTS
  Domain,   \* the name the proxies ask for, "video.cse.umich.edu"
  Unknown,  \* any other name
  NoHost    \* the empty string

ASSUME DomainAssumption == Domain # Unknown

MAX_MESSAGE_SIZE == 256
NameSize         == 100
DomainLength     == 19
SizeBytes        == 4     \* a size is sent as four bytes

Ushort == 0 .. 65535
Char   == -128 .. 127
MaxInt == 2147483647
Signed == -MaxInt .. MaxInt

(* The characters operator<< writes for a number. *)
UpToFive(n) == IF n < 10 THEN 1
               ELSE IF n < 100 THEN 2
               ELSE IF n < 1000 THEN 3
               ELSE IF n < 10000 THEN 4 ELSE 5

Unsigned(n) == IF n < 100000 THEN UpToFive(n) ELSE 5 + UpToFive(n \div 100000)

Digits(n) == IF n < 0 THEN 1 + Unsigned(-n) ELSE Unsigned(n)

-----------------------------------------------------------------------------

Header ==
  [ ID : Ushort, QR : 0 .. 1, OPCODE : Signed,
    AA : 0 .. 1, TC : 0 .. 1, RD : 0 .. 1, RA : 0 .. 1, Z : Char, RCODE : Char,
    QDCOUNT : Ushort, ANCOUNT : Ushort, NSCOUNT : Ushort, ARCOUNT : Ushort ]

Question == [ QNAME : { Domain, Unknown }, QTYPE : Ushort, QCLASS : Ushort ]

(* The NAME of a record is not looked at.  RDLENGTH is the length of the   *)
(* address in RDATA.                                                       *)
Record(Address) ==
  [ TYPE : Ushort, CLASS : Ushort, TTL : Ushort, RDLENGTH : 0 .. NameSize - 1,
    RDATA : Address ]

HeaderSize(h) ==
  Digits(h.ID) + Digits(h.QR) + Digits(h.OPCODE) + Digits(h.AA) + Digits(h.TC)
    + Digits(h.RD) + Digits(h.RA) + Digits(h.Z) + Digits(h.RCODE)
    + Digits(h.QDCOUNT) + Digits(h.ANCOUNT) + Digits(h.NSCOUNT)
    + Digits(h.ARCOUNT) + 12

QuestionSize(q) == Digits(q.QTYPE) + Digits(q.QCLASS) + 2 + NameSize

RecordSize(r) ==
  Digits(r.TYPE) + Digits(r.CLASS) + Digits(r.TTL) + Digits(r.RDLENGTH) + 4
    + 2 * NameSize

(* The bytes of a question, and of a record, up to the end of its name and *)
(* of its address: the rest of the field is zeros, and so is what a short  *)
(* read leaves of the buffer.                                              *)
QuestionNeeded(q) == QuestionSize(q) - NameSize + DomainLength

RecordNeeded(r) == RecordSize(r) - NameSize + r.RDLENGTH

(* What is decoded when the first k bytes were read.  A part of the name   *)
(* is another name; a part of an address may be an address.                *)
DecodeQuestion(q, k) == IF k >= QuestionNeeded(q) THEN q.QNAME ELSE Unknown

Shortened(address) == << "part of", address >>

DecodeRecord(r, k) ==
  IF k >= RecordNeeded(r) THEN r.RDATA
  ELSE IF k > RecordNeeded(r) - r.RDLENGTH THEN Shortened(r.RDATA)
  ELSE NoHost

-----------------------------------------------------------------------------

(* make_dns_Header, make_dns_Question. *)
QueryHeader ==
  [ ID |-> 1, QR |-> 0, OPCODE |-> 1, AA |-> 0, TC |-> 0, RD |-> 0, RA |-> 0,
    Z |-> 0, RCODE |-> 0, QDCOUNT |-> 1, ANCOUNT |-> 0, NSCOUNT |-> 0,
    ARCOUNT |-> 0 ]

QueryQuestion == [ QNAME |-> Domain, QTYPE |-> 1, QCLASS |-> 1 ]

(* handle_connection: the answer to a header, with or without a record. *)
AnswerHeader(h, found) ==
  [ h EXCEPT !.AA = 1, !.RCODE = IF found THEN @ ELSE 3 ]

AnswerRecord(address, length) ==
  [ TYPE |-> 1, CLASS |-> 1, TTL |-> 0, RDLENGTH |-> length, RDATA |-> address ]
=============================================================================
