----------------------------- MODULE DnsPacket -----------------------------
(***************************************************************************)
(* The bytes of SendDNS.c: create_dns_query and the walk of on_udp_read    *)
(* over an answer.  Of the 12 bytes of a header the fields the code reads  *)
(* are kept apart (qr, rcode, ancount); body is the rest, so that body[1]  *)
(* is response[12].                                                        *)
(*                                                                         *)
(* The server is external: it copies the question and encodes records the  *)
(* way RFC 1035 allows.                                                    *)
(***************************************************************************)
EXTENDS Integers, Sequences, FiniteSets, SequencesExt, FiniteSetsExt

CONSTANTS
    Hosts,      \* host names: sequences of labels, a label a sequence of bytes
    Owners,     \* how a server writes the owner of a record
    Types,      \* the types of record a server sends
    MaxRecords, \* bound: records in an answer
    PacketSize  \* scaled: room for a body in dns_packet; 512 - 12

Bytes == 0..255

(* No label is empty, and 63 bytes are the most it may have. *)
ASSUME HostsAssumption ==
    \A name \in Hosts :
        /\ name \in Seq(Seq(Bytes)) \ {<<>>}
        /\ \A i \in DOMAIN name : Len(name[i]) \in 1..63
ASSUME OwnersAssumption == Owners \subseteq {"pointer", "plain", "mixed"}
ASSUME TypesAssumption == Types \subseteq Bytes
ASSUME MaxRecordsAssumption == MaxRecords \in Bytes
ASSUME PacketSizeAssumption == PacketSize \in Nat

VARIABLES
    host,    \* the name looked up
    query,   \* the body of the query sent
    answer,  \* the records the server answers with, and its packet
    result   \* what on_udp_read puts in dns_response

packetVars == <<host, query, answer, result>>

A     == 1
CNAME == 5
AAAA  == 28

NoPacket == [qr |-> 0, rcode |-> 0, ancount |-> 0, body |-> <<>>]
NoAnswer == [records |-> <<>>, packet |-> NoPacket]
NoResult == [status |-> 0, ip |-> <<>>]

PacketInit ==
    /\ host \in Hosts
    /\ query = <<>>
    /\ answer = NoAnswer
    /\ result = NoResult

-----------------------------------------------------------------------------
(* A label and the byte of its length in front. *)
Label(l) == <<Len(l)>> \o l

(* Mutation of create_dns_query: the name is not ended. *)
create_dns_query_open(name, type) ==
    FlattenSeq([i \in DOMAIN name |-> Label(name[i])]) \o <<0, type, 0, 1>>

create_dns_query(name, type) ==
    FlattenSeq([i \in DOMAIN name |-> Label(name[i])]) \o <<0>> \o <<0, type, 0, 1>>

(* Nothing keeps a name too long for dns_packet from being written over    *)
(* its end; what happens from there on is not defined.                     *)
Overrun == <<"overrun">>

SendQuery ==
    /\ query = <<>>
    /\ LET packet == create_dns_query(host, A)
       IN  query' = (IF Len(packet) <= PacketSize THEN packet ELSE Overrun)
    /\ UNCHANGED <<host, answer, result>>

Asked == query \notin {<<>>, Overrun}

-----------------------------------------------------------------------------
(* Positions in a packet.  One past its end is Lost: what is read there is *)
(* what the buffer happened to hold.                                       *)

Lost == 0

Within(bytes, p) == p # Lost /\ p <= Len(bytes)

(* p + n, if that is still in the packet. *)
Ahead(bytes, p, n) == IF p # Lost /\ p + n <= Len(bytes) + 1 THEN p + n ELSE Lost

(* Label by label from p on, to a byte that ends a name: where it is after *)
(* so many labels.                                                         *)
Walk(bytes, p, ends) ==
    LET at[k \in 0..Len(bytes)] ==
            IF k = 0 THEN p
            ELSE LET q == at[k - 1]
                 IN  IF Within(bytes, q) /\ bytes[q] \notin ends
                     THEN Ahead(bytes, q, bytes[q] + 1)
                     ELSE q
    IN  at

-----------------------------------------------------------------------------
(* The server *)

(* What a server reads in a question: labels up to a zero. *)
LabelsAt(bytes, p) ==
    LET at   == Walk(bytes, p, {0})
        read == {k \in 1..Len(bytes) : at[k] \notin {at[k - 1], Lost}}
    IN  [k \in 1..Cardinality(read) |-> SubSeq(bytes, at[k - 1] + 1, at[k] - 1)]

(* The owner of a record: a pointer to the question, the name in full, or  *)
(* its first label and a pointer to the rest.                              *)
Owner(form) ==
    CASE form = "pointer" -> <<192, 12>>
      [] form = "plain"   -> <<1, 97, 0>>
      [] form = "mixed"   -> <<1, 97, 192, 12>>

Data(type, i) ==
    CASE type = A     -> <<10, 0, 0, i>>
      [] type = AAAA  -> [j \in 1..16 |-> i]
      [] type = CNAME -> <<1, 98, 192, 12>>
      [] OTHER        -> <<0, 1, i>>

Record(r, i) ==
    Owner(r.owner) \o <<0, r.type, 0, 1, 0, 0, 0, 60, 0, Len(Data(r.type, i))>> \o Data(r.type, i)

Records == UNION {[1..n -> [owner : Owners, type : Types]] : n \in 0..MaxRecords}

ServerAnswers ==
    /\ Asked
    /\ answer = NoAnswer
    /\ \E records \in Records, rcode \in {0, 3} :
          answer' = [records |-> records,
                     packet |-> [qr |-> 1, rcode |-> rcode, ancount |-> Len(records),
                                 body |-> query \o FlattenSeq([i \in DOMAIN records |->
                                                                  Record(records[i], i)])]]
    /\ UNCHANGED <<host, query, result>>

-----------------------------------------------------------------------------
(* on_udp_read *)

(* Where a name that starts at p comes to its end. *)
NameEnd(bytes, p, ends) ==
    LET end == Walk(bytes, p, ends)[Len(bytes)]
    IN  IF Within(bytes, end) THEN end ELSE Lost

(* The first byte of a pointer to another place of the packet. *)
Pointers == 192..255

ToZero(bytes, p) == NameEnd(bytes, p, {0})

(* The question: its name may end in a pointer, too. *)
ToQuestionEnd(bytes, p) ==
    LET end == NameEnd(bytes, p, {0} \cup Pointers)
    IN  IF Within(bytes, end) /\ bytes[end] # 0 THEN Ahead(bytes, end, 2) ELSE end

SkipQuestion(bytes) ==
    LET p == ToQuestionEnd(bytes, 1)
    IN  IF ~Within(bytes, p) THEN Lost
        ELSE Ahead(bytes, IF bytes[p] = 0 THEN p + 1 ELSE p, 4)

(* Mutation of SkipName: a name in full is taken for one without its zero. *)
SkipName_short(bytes, p) ==
    IF ~Within(bytes, p) THEN Lost
    ELSE IF bytes[p] \in Pointers THEN Ahead(bytes, p, 2) ELSE ToZero(bytes, p)

(* The owner of a record is a pointer or a name in full. *)
SkipName(bytes, p) ==
    IF ~Within(bytes, p) THEN Lost
    ELSE IF bytes[p] \in Pointers THEN Ahead(bytes, p, 2) ELSE Ahead(bytes, ToZero(bytes, p), 1)

(* The record at p: its type, where its data is, and how much of it. *)
RecordAt(bytes, p) ==
    LET fields == SkipName(bytes, p)
        data   == Ahead(bytes, fields, 10)
    IN  IF data = Lost THEN [type |-> 0, data |-> Lost, size |-> 0]
        ELSE [type |-> 256 * bytes[fields] + bytes[fields + 1],
              data |-> data,
              size |-> 256 * bytes[fields + 8] + bytes[fields + 9]]

(* Where the records from p on start, one behind the other. *)
Starts(bytes, p, n) ==
    LET start[k \in 0..n] ==
            IF k = 0 THEN p
            ELSE LET r == RecordAt(bytes, start[k - 1]) IN Ahead(bytes, r.data, r.size)
    IN  start

(* The first record that is no CNAME, of the n records from p on. *)
FirstRecord(bytes, p, n) ==
    LET start  == Starts(bytes, p, n)
        others == {k \in 1..n : RecordAt(bytes, start[k - 1]).type # CNAME}
    IN  IF others = {} THEN [type |-> 0, data |-> p, size |-> 0]
        ELSE RecordAt(bytes, start[Min(others) - 1])

(* What is printed to ip_address, as bytes; nothing is for other records. *)
Address(bytes, r) ==
    IF (r.type = A /\ r.size = 4) \/ (r.type = AAAA /\ r.size = 16)
    THEN SubSeq(bytes, r.data, r.data + r.size - 1)
    ELSE <<>>

on_udp_read ==
    /\ answer # NoAnswer
    /\ result = NoResult
    /\ LET packet == answer.packet
           first  == FirstRecord(packet.body, SkipQuestion(packet.body), packet.ancount)
       IN  result' = CASE packet.rcode # 0 \/ packet.ancount = 0 -> [status |-> -2, ip |-> <<>>]
                       [] OTHER -> [status |-> 1,
                                    ip |-> IF first.data = Lost THEN <<"lost">>
                                           ELSE Address(packet.body, first)]
    /\ UNCHANGED <<host, query, answer>>

PacketNext == SendQuery \/ ServerAnswers \/ on_udp_read

PacketSpec == PacketInit /\ [][PacketNext]_packetVars

-----------------------------------------------------------------------------
Done == answer # NoAnswer /\ result # NoResult

(* The address records of the answer, and the bytes of the first. *)
AddressRecords == {i \in DOMAIN answer.records : answer.records[i].type \in {A, AAAA}}

FirstAddress ==
    IF AddressRecords = {} THEN <<>>
    ELSE Data(answer.records[Min(AddressRecords)].type, Min(AddressRecords))

(* The question sent is the name looked up, in the form every server reads *)
(* (SendDNS.c:71), up to the name that just fits in dns_packet.            *)
QueryAsksForHost ==
    Asked =>
        LET n == Len(query)
        IN  LabelsAt(query, 1) = host /\ SubSeq(query, n - 4, n) = <<0, 0, A, 0, 1>>

(* Whatever the lengths of names and data before it, the address taken is  *)
(* that of the first address record of the answer (SendDNS.c:138).         *)
FindsAddress == Done /\ result.status = 1 => result.ip = FirstAddress

-----------------------------------------------------------------------------
(* What the code does not keep to; no run checks it (README.md).           *)

(* The walk never leaves the packet (SendDNS.c:159).                       *)
StaysInPacket == Done => result.ip # <<"lost">>

(* Every query fits in dns_packet (SendDNS.c:286).                         *)
QueryInBounds == query # Overrun
=============================================================================
