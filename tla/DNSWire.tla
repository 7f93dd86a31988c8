------------------------------ MODULE DNSWire ------------------------------
(***************************************************************************)
(* How the collector reads a captured DNS message (decodeDNS, parseDNS and *)
(* readDNSName of internal/collector/collector.go).                        *)
(*                                                                         *)
(* The message comes from the network, so any bytes are possible.  A byte  *)
(* is chosen when the parser first looks at it and keeps its value from    *)
(* then on: msg is the part of the message that has been looked at.  The   *)
(* text of a label is never examined; a label is its place and length.     *)
(*                                                                         *)
(* Offsets count from 0, as in the code.  touched and records are history  *)
(* variables.                                                              *)
(***************************************************************************)
EXTENDS Integers, Sequences, FiniteSets

CONSTANTS PayloadLens,  \* values of payload_len in the captured event
          MaxPayload,   \* size of the captured payload, MAX_DNS_PAYLOAD
          MaxSteps,     \* limit on the steps of readDNSName
          NameOctets,   \* what an octet may be, in the question's and in a record's name
          QDCounts, ANCounts,          \* two octets each: counts of the header,
          QTypes, RTypes, RDLengths,   \* types and data lengths;
          TTLs                         \* four octets: times to live

Octet == {n \in Nat : n < 256}
Count == {n \in Nat : n < 65536}

ASSUME WireAssumption ==
  /\ PayloadLens \subseteq Nat /\ MaxPayload \in Nat /\ MaxSteps \in Nat
  /\ NameOctets \in [{"qname", "rname"} -> SUBSET Octet]
  /\ \A S \in {QDCounts, ANCounts, QTypes, RTypes, RDLengths} :
       \A f \in S : f \in Seq(Octet) /\ Len(f) = 2
  /\ \A f \in TTLs : f \in Seq(Octet) /\ Len(f) = 4

VARIABLES msg,      \* the octets looked at so far, by offset
          len,      \* length of the payload handed to parseDNS
          at,       \* where the parser is
          ancount,  \* parseDNS: ancount
          offset,   \* parseDNS: offset; where the name being read starts
          qname,    \* parseDNS: name
          answers,  \* parseDNS: answers, the offsets of the addresses
          minTTL,   \* parseDNS: minTTL
          hasTTL,   \* parseDNS: hasTTL
          i,        \* readDNSName: i
          next,     \* readDNSName: next
          jumped,   \* readDNSName: jumped
          steps,    \* readDNSName: steps
          labels,   \* readDNSName: labels, as <<offset, length>>
          touched,  \* no octet at or after this offset has been looked at
          records   \* the records read in full

nameVars   == <<i, next, jumped, steps, labels>>
resultVars == <<qname, answers, minTTL, hasTTL, records>>
vars == <<msg, len, at, ancount, offset, nameVars, resultVars, touched>>

HeaderSize == 12
A    == <<1, 4>>      \* type and data length of an IPv4 address,
AAAA == <<28, 16>>    \* of an IPv6 address

Word(s)     == 256 * s[1] + s[2]
LongWord(s) == <<Word(s), Word(<<s[3], s[4]>>)>>

(* 32 bits as two words, and their order. *)
Below(a, b) == a[1] < b[1] \/ (a[1] = b[1] /\ a[2] < b[2])
Zero        == <<0, 0>>

(* The octets from offset p on: those known already, the others of one of  *)
(* the forms.                                                              *)
Read(p, forms) == {[k \in 1 .. Len(f) |->
                      IF p + k - 1 \in DOMAIN msg THEN msg[p + k - 1] ELSE f[k]] : f \in forms}

(* msg when the octets s have been found at offset p. *)
Known(m, p, s) == [q \in DOMAIN m \cup p .. (p + Len(s) - 1) |->
                     IF q \in p .. (p + Len(s) - 1) THEN s[q - p + 1] ELSE m[q]]

Larger(a, b) == IF a > b THEN a ELSE b

Unclamped(n) == n

(* decodeDNS: the captured length never exceeds the captured octets. *)
decodeDNS(n) == IF n > MaxPayload THEN MaxPayload ELSE n

Init == /\ msg = [p \in {} |-> 0]
        /\ \E n \in PayloadLens : len = decodeDNS(n)
        /\ at = "header"
        /\ ancount = 0 /\ offset = HeaderSize
        /\ qname = <<>> /\ answers = <<>> /\ records = <<>>
        /\ minTTL = Zero /\ hasTTL = FALSE
        /\ i = HeaderSize /\ next = HeaderSize /\ jumped = FALSE
        /\ steps = 0 /\ labels = <<>>
        /\ touched = 0

-----------------------------------------------------------------------------
(* readDNSName, which reads the name of the question and of every record. *)

ReadingName == at \in {"qname", "rname"}

(* The call: what its variables start from. *)
StartName(p) == /\ offset' = p /\ i' = p /\ next' = p
                /\ jumped' = FALSE /\ steps' = 0 /\ labels' = <<>>

(* A name that cannot be read ends the message if it is the question's,    *)
(* and the list of answers if it is a record's.                            *)
NameFails == /\ at' = IF at = "qname" THEN "failed" ELSE "parsed"
             /\ UNCHANGED <<len, ancount, offset, nameVars, resultVars>>

Beyond == /\ i >= len \/ steps = MaxSteps
          /\ NameFails
          /\ UNCHANGED <<msg, touched>>

(* The two high bits of an octet tell a pointer from a label. *)
PointerAnywhere(l) ==
  \E s \in Read(i, {<<l, o>> : o \in NameOctets[at]}) :
    LET target == 256 * (l % 64) + s[2]
    IN  /\ l >= 192
        /\ msg' = Known(msg, i, s)
        /\ touched' = Larger(touched, i + 2)
        /\ \/ target >= len /\ NameFails
           \/ /\ target < len
              /\ next' = IF jumped THEN next ELSE i + 2
              /\ jumped' = TRUE /\ i' = target /\ steps' = steps + 1
              /\ UNCHANGED <<len, at, ancount, offset, labels, resultVars>>

PointerUncounted(l) ==
  \/ /\ l >= 192 /\ i + 1 >= len
     /\ NameFails
     /\ msg' = Known(msg, i, <<l>>)
     /\ touched' = Larger(touched, i + 1)
  \/ \E s \in Read(i, {<<l, o>> : o \in NameOctets[at]}) :
       LET target == 256 * (l % 64) + s[2]
       IN  /\ l >= 192 /\ i + 1 < len
           /\ msg' = Known(msg, i, s)
           /\ touched' = Larger(touched, i + 2)
           /\ \/ target >= len /\ NameFails
              \/ /\ target < len
                 /\ next' = IF jumped THEN next ELSE i + 2
                 /\ jumped' = TRUE /\ i' = target
                 /\ UNCHANGED <<len, at, ancount, offset, labels, steps, resultVars>>

Pointer(l) ==
  \/ /\ l >= 192 /\ i + 1 >= len
     /\ NameFails
     /\ msg' = Known(msg, i, <<l>>)
     /\ touched' = Larger(touched, i + 1)
  \/ \E s \in Read(i, {<<l, o>> : o \in NameOctets[at]}) :
       LET target == 256 * (l % 64) + s[2]
       IN  /\ l >= 192 /\ i + 1 < len
           /\ msg' = Known(msg, i, s)
           /\ touched' = Larger(touched, i + 2)
           /\ \/ target >= len /\ NameFails
              \/ /\ target < len
                 /\ next' = IF jumped THEN next ELSE i + 2
                 /\ jumped' = TRUE /\ i' = target /\ steps' = steps + 1
                 /\ UNCHANGED <<len, at, ancount, offset, labels, resultVars>>

NextAfterRoot(l) == /\ l = 0
                    /\ msg' = Known(msg, i, <<l>>)
                    /\ touched' = Larger(touched, i + 1)
                    /\ next' = i + 1
                    /\ at' = IF at = "qname" THEN "question" ELSE "record"
                    /\ UNCHANGED <<len, ancount, offset, i, jumped, steps, labels, resultVars>>

Root(l) == /\ l = 0
           /\ msg' = Known(msg, i, <<l>>)
           /\ touched' = Larger(touched, i + 1)
           /\ next' = IF jumped THEN next ELSE i + 1
           /\ at' = IF at = "qname" THEN "question" ELSE "record"
           /\ UNCHANGED <<len, ancount, offset, i, jumped, steps, labels, resultVars>>

Label(l) == /\ l \in 1 .. 191
            /\ msg' = Known(msg, i, <<l>>)
            /\ \/ /\ l > 63 \/ i + 1 + l > len
                  /\ touched' = Larger(touched, i + 1)
                  /\ NameFails
               \/ /\ l <= 63 /\ i + 1 + l <= len
                  /\ touched' = Larger(touched, i + 1 + l)
                  /\ labels' = Append(labels, <<i + 1, l>>)
                  /\ i' = i + 1 + l
                  /\ next' = IF jumped THEN next ELSE i + 1 + l
                  /\ steps' = steps + 1
                  /\ UNCHANGED <<len, at, ancount, offset, jumped, resultVars>>

readDNSName == /\ ReadingName
               /\ \/ Beyond
                  \/ /\ i < len /\ steps < MaxSteps
                     /\ \E s \in Read(i, {<<o>> : o \in NameOctets[at]}) :
                          Pointer(s[1]) \/ Root(s[1]) \/ Label(s[1])

-----------------------------------------------------------------------------
(* parseDNS. *)

(* The next of the announced records, or the end. *)
NextRecord(p, n) == IF n < ancount THEN at' = "rname" /\ StartName(p)
                                   ELSE /\ at' = "parsed" /\ offset' = p
                                        /\ UNCHANGED nameVars

Header == /\ at = "header"
          /\ \/ /\ len < HeaderSize
                /\ at' = "failed"
                /\ UNCHANGED <<msg, ancount, offset, nameVars, touched>>
             \/ /\ len >= HeaderSize
                /\ \E qd \in QDCounts, an \in ANCounts :
                     /\ msg' = Known(Known(msg, 4, qd), 6, an)
                     /\ touched' = 8
                     /\ ancount' = Word(an)
                     /\ \/ /\ Word(qd) = 0 /\ at' = "failed"
                           /\ UNCHANGED <<offset, nameVars>>
                        \/ /\ Word(qd) # 0 /\ at' = "qname"
                           /\ StartName(HeaderSize)
          /\ UNCHANGED <<len, resultVars>>

Question == /\ at = "question"
            /\ \/ /\ next + 4 > len
                  /\ at' = "failed"
                  /\ UNCHANGED <<msg, offset, nameVars, qname, touched>>
               \/ /\ next + 4 <= len
                  /\ \E s \in Read(next, QTypes) : msg' = Known(msg, next, s)
                  /\ touched' = Larger(touched, next + 2)
                  /\ qname' = labels
                  /\ IF ancount > 0 THEN at' = "rname" /\ StartName(next + 4)
                                    ELSE /\ at' = "parsed" /\ offset' = next + 4
                                         /\ UNCHANGED nameVars
            /\ UNCHANGED <<len, ancount, answers, minTTL, hasTTL, records>>

TTLZeroIsNone(form, data, ttl) ==
  IF form \in {A, AAAA}
  THEN /\ answers' = Append(answers, data)
       /\ minTTL' = IF minTTL = Zero \/ Below(ttl, minTTL) THEN ttl ELSE minTTL
       /\ hasTTL' = TRUE
  ELSE UNCHANGED <<answers, minTTL, hasTTL>>

(* A record of an address is an answer and may lower the TTL. *)
Answer(form, data, ttl) ==
  IF form \in {A, AAAA}
  THEN /\ answers' = Append(answers, data)
       /\ minTTL' = IF ~hasTTL \/ Below(ttl, minTTL) THEN ttl ELSE minTTL
       /\ hasTTL' = TRUE
  ELSE UNCHANGED <<answers, minTTL, hasTTL>>

(* The fixed part of a record and its data. *)
ReadRecord(rtype, ttl, rdlen) ==
  LET data == next + 10
  IN  /\ msg' = Known(Known(Known(msg, next, rtype), next + 4, ttl), next + 8, rdlen)
      /\ \/ /\ data + Word(rdlen) > len
            /\ at' = "parsed"
            /\ touched' = Larger(touched, data)
            /\ UNCHANGED <<offset, nameVars, answers, minTTL, hasTTL, records>>
         \/ /\ data + Word(rdlen) <= len
            /\ touched' = Larger(touched, data + Word(rdlen))
            /\ records' = Append(records, [start |-> offset, form |-> <<Word(rtype), Word(rdlen)>>,
                                           data |-> data, ttl |-> LongWord(ttl)])
            /\ Answer(<<Word(rtype), Word(rdlen)>>, data, LongWord(ttl))
            /\ NextRecord(data + Word(rdlen), Len(records) + 1)

Record == /\ at = "record"
          /\ \/ /\ next + 10 > len
                /\ at' = "parsed"
                /\ UNCHANGED <<msg, offset, nameVars, answers, minTTL, hasTTL, records, touched>>
             \/ /\ next + 10 <= len
                /\ \E rtype \in Read(next, RTypes), ttl \in Read(next + 4, TTLs),
                      rdlen \in Read(next + 8, RDLengths) : ReadRecord(rtype, ttl, rdlen)
          /\ UNCHANGED <<len, ancount, qname>>

Next == Header \/ readDNSName \/ Question \/ Record

Spec == Init /\ [][Next]_vars

(* The parser is straight-line code of one goroutine: it keeps running. *)
FairSpec == Spec /\ WF_vars(Next)

Finished == at \in {"parsed", "failed"}

(* What decodeEvent puts into the event: nothing when parseDNS failed. *)
Payload == IF at = "parsed" THEN [QueryName |-> qname, Answers |-> answers, TTL |-> minTTL]
                            ELSE [QueryName |-> <<>>, Answers |-> <<>>, TTL |-> Zero]

-----------------------------------------------------------------------------
Place == Nat \X Nat

RecordType == [start : Nat, form : Nat \X Nat, data : Nat, ttl : Place]

TypeOK == /\ DOMAIN msg \subseteq Nat /\ \A p \in DOMAIN msg : msg[p] \in Octet
          /\ len \in 0 .. MaxPayload
          /\ at \in {"header", "qname", "question", "rname", "record", "parsed", "failed"}
          /\ ancount \in Count
          /\ offset \in Nat /\ i \in Nat /\ next \in Nat
          /\ jumped \in BOOLEAN /\ steps \in 0 .. MaxSteps
          /\ labels \in Seq(Place) /\ qname \in Seq(Place)
          /\ answers \in Seq(Nat) /\ minTTL \in Place /\ hasTTL \in BOOLEAN
          /\ touched \in Nat /\ records \in Seq(RecordType)

(* Whatever the message holds - a label or a pointer cut off by the end, a *)
(* record longer than the rest, names that jump to and fro - the parser    *)
(* looks at no octet beyond the payload it was given: beyond it there is   *)
(* only a panic of the collector's goroutine, or what is left of the       *)
(* captured buffer.                                                        *)
InMessage == touched <= len

(* What names stand for, by the octets of the message m alone: the labels  *)
(* from offset p on, those behind pointers included, and where the name    *)
(* ends in place, following at most n octets.                              *)
LabelsFrom(m) ==
  LET from[n \in Nat] ==
        [p \in Nat |-> IF n = 0 \/ p \notin DOMAIN m THEN <<>>
                       ELSE IF m[p] = 0 THEN <<>>
                       ELSE IF m[p] < 192 THEN <<<<p + 1, m[p]>>>> \o from[n - 1][p + 1 + m[p]]
                       ELSE IF p + 1 \in DOMAIN m THEN from[n - 1][256 * (m[p] % 64) + m[p + 1]]
                       ELSE <<>>]
  IN  from

EndInPlace(m) ==
  LET end[n \in Nat] ==
        [p \in Nat |-> IF n = 0 \/ p \notin DOMAIN m THEN p
                       ELSE IF m[p] = 0 THEN p + 1
                       ELSE IF m[p] < 192 THEN end[n - 1][p + 1 + m[p]]
                       ELSE p + 2]
  IN  end

Unfold == MaxSteps + 1

(* Each record of m starts where the one before it ends, and its data ten  *)
(* octets after the end of its name.                                       *)
Contiguous(m) ==
  \A k \in 1 .. Len(records) :
    LET r == records[k]
    IN  /\ r.data = EndInPlace(m)[Unfold][r.start] + 10
        /\ r.start = IF k = 1 THEN EndInPlace(m)[Unfold][HeaderSize] + 4
                              ELSE records[k - 1].data + records[k - 1].form[2]

(* A name that was read is the one its octets stand for, and reading goes  *)
(* on right after the place where it ends in the record itself, whatever   *)
(* it pointed to; records follow each other without gap or overlap.        *)
NameAgrees ==
  /\ at \in {"question", "record"} =>
       /\ labels = LabelsFrom(msg)[Unfold][offset]
       /\ next = EndInPlace(msg)[Unfold][offset]
  /\ Contiguous(msg)

Addresses == {k \in 1 .. Len(records) : records[k].form \in {A, AAAA}}

(* The event's TTL is the smallest of its address records and of no other, *)
(* a TTL of 0 included, and it has an answer for each of them: a record    *)
(* cut off later in the message takes none of them away.                   *)
MinimumTTL ==
  at = "parsed" =>
    /\ Len(Payload.Answers) = Cardinality(Addresses)
    /\ Addresses = {} => Payload.TTL = Zero
    /\ Addresses # {} => /\ \E k \in Addresses : Payload.TTL = records[k].ttl
                         /\ \A k \in Addresses : ~Below(records[k].ttl, Payload.TTL)

(* No message, however its pointers loop, keeps the collector from its     *)
(* next event.                                                             *)
Terminates == <>Finished
=============================================================================
