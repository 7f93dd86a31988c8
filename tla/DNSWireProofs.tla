--------------------------- MODULE DNSWireProofs ---------------------------
(***************************************************************************)
(* Theorems about DNSWire for messages of any length and any octets, any   *)
(* counts, types, lengths and times to live, and any limit on the steps.   *)
(***************************************************************************)
EXTENDS DNSWire, FiniteSetTheorems, SequenceTheorems, WellFoundedInduction, TLAPS

Octets(m) == DOMAIN m \subseteq Nat /\ \A p \in DOMAIN m : m[p] \in Octet

(* Every octet found is an octet, and what has been found stays found.     *)
LEMMA KnownOctets ==
  ASSUME NEW m, Octets(m), NEW p \in Nat, NEW s \in Seq(Octet)
  PROVE  Octets(Known(m, p, s))
<1> DEFINE new == p .. (p + Len(s) - 1)
<1>1. Len(s) \in Nat
  OBVIOUS
<1>2. new \subseteq Nat
  BY <1>1
<1>3. DOMAIN Known(m, p, s) = DOMAIN m \cup new
  BY DEF Known
<1>4. ASSUME NEW q \in DOMAIN Known(m, p, s) PROVE Known(m, p, s)[q] \in Octet
  <2>1. Known(m, p, s)[q] = IF q \in new THEN s[q - p + 1] ELSE m[q]
    BY <1>4 DEF Known
  <2>2. CASE q \in new
    <3>1. q - p + 1 \in 1 .. Len(s)
      BY <2>2, <1>1
    <3>2. s[q - p + 1] \in Octet
      BY <3>1
    <3>3. QED
      BY <2>1, <2>2, <3>2
  <2>3. CASE q \notin new
    <3>1. q \in DOMAIN m
      BY <1>3, <1>4, <2>3
    <3>2. QED
      BY <2>1, <2>3, <3>1 DEF Octets
  <2>4. QED
    BY <2>2, <2>3
<1>5. DOMAIN Known(m, p, s) \subseteq Nat
  BY <1>2, <1>3 DEF Octets
<1>6. QED
  BY <1>4, <1>5 DEF Octets

(* What the parser finds at an offset has the length it looks for.         *)
LEMMA ReadOctets ==
  ASSUME Octets(msg), NEW p \in Nat, NEW n \in Nat,
         NEW forms, \A f \in forms : f \in Seq(Octet) /\ Len(f) = n,
         NEW s \in Read(p, forms)
  PROVE  s \in Seq(Octet) /\ Len(s) = n
<1>1. PICK f \in forms : s = [k \in 1 .. Len(f) |->
                                IF p + k - 1 \in DOMAIN msg THEN msg[p + k - 1] ELSE f[k]]
  BY DEF Read
<1>2. f \in Seq(Octet) /\ Len(f) = n
  OBVIOUS
<1>3. ASSUME NEW k \in 1 .. n PROVE s[k] \in Octet
  <2>1. f[k] \in Octet
    BY <1>2
  <2>2. s[k] = IF p + k - 1 \in DOMAIN msg THEN msg[p + k - 1] ELSE f[k]
    BY <1>1, <1>2
  <2>3. QED
    BY <2>1, <2>2 DEF Octets
<1>4. DOMAIN s = 1 .. n
  BY <1>1, <1>2
<1>5. s \in [1 .. n -> Octet]
  <2>1. s = [k \in 1 .. n |-> s[k]]
    BY <1>1, <1>2
  <2>2. QED
    BY <2>1, <1>3
<1>6. QED
  BY <1>5

LEMMA WordBound ==
  ASSUME NEW s, s[1] \in Octet, s[2] \in Octet
  PROVE  Word(s) \in Count
  BY DEF Word, Octet, Count

LEMMA LongWordPlace == ASSUME NEW s \in Seq(Octet), Len(s) = 4 PROVE LongWord(s) \in Place
<1>1. s[1] \in Octet /\ s[2] \in Octet /\ s[3] \in Octet /\ s[4] \in Octet
  OBVIOUS
<1>2. Word(s) \in Nat
  BY <1>1, WordBound DEF Count
<1>3. Word(<<s[3], s[4]>>) \in Nat
  BY <1>1, WordBound DEF Count
<1>4. QED
  BY <1>2, <1>3 DEF LongWord, Place

-----------------------------------------------------------------------------
(* TypeOK with its conjuncts named, and InMessage, which follow together.  *)
NameTyped == /\ offset \in Nat /\ i \in Nat /\ next \in Nat
             /\ jumped \in BOOLEAN /\ steps \in 0 .. MaxSteps
             /\ labels \in Seq(Place)

ResultTyped == /\ qname \in Seq(Place) /\ answers \in Seq(Nat)
               /\ minTTL \in Place /\ hasTTL \in BOOLEAN
               /\ records \in Seq(RecordType)

Inside == /\ Octets(msg) /\ len \in 0 .. MaxPayload
          /\ touched \in Nat /\ touched <= len
          /\ at \in {"header", "qname", "question", "rname", "record", "parsed", "failed"}
          /\ ancount \in Count
          /\ NameTyped /\ ResultTyped

LEMMA InsideIsBoth == Inside <=> TypeOK /\ InMessage
  BY DEF Inside, TypeOK, InMessage, NameTyped, ResultTyped, Octets

LEMMA LargerBound ==
  ASSUME NEW a \in Nat, NEW b \in Nat, NEW c \in Nat, a <= c, b <= c
  PROVE  Larger(a, b) \in Nat /\ Larger(a, b) <= c
  BY DEF Larger

LEMMA InsideInit == Init => Inside
<1> SUFFICES ASSUME Init PROVE Inside
  OBVIOUS
<1>1. len \in 0 .. MaxPayload
  BY WireAssumption DEF Init, decodeDNS
<1>2. NameTyped
  <2>1. labels \in Seq(Place)
    BY DEF Init
  <2>2. steps \in 0 .. MaxSteps
    BY WireAssumption DEF Init
  <2>3. i \in Nat /\ next \in Nat /\ offset \in Nat /\ jumped \in BOOLEAN
    BY DEF Init, HeaderSize
  <2>4. QED
    BY <2>1, <2>2, <2>3 DEF NameTyped
<1>3. ResultTyped
  <2>1. qname \in Seq(Place) /\ answers \in Seq(Nat) /\ records \in Seq(RecordType)
    BY DEF Init
  <2>2. minTTL \in Place
    BY DEF Init, Zero, Place
  <2>3. QED
    BY <2>1, <2>2 DEF Init, ResultTyped
<1>4. Octets(msg)
  BY DEF Init, Octets
<1>5. touched \in Nat /\ touched <= len
  BY <1>1, WireAssumption DEF Init
<1>6. ancount \in Count /\ at = "header"
  BY DEF Init, Count
<1>7. QED
  BY <1>1, <1>2, <1>3, <1>4, <1>5, <1>6 DEF Inside

LEMMA Started == ASSUME NEW p \in Nat, StartName(p) PROVE NameTyped'
<1>1. labels' \in Seq(Place)
  BY DEF StartName
<1>2. steps' \in 0 .. MaxSteps
  BY WireAssumption DEF StartName
<1>3. QED
  BY <1>1, <1>2 DEF StartName, NameTyped

(* The assumption, form by form.                                           *)
LEMMA NameForms == ASSUME at \in {"qname", "rname"} PROVE NameOctets[at] \subseteq Octet
<1>1. NameOctets[at] \in SUBSET Octet
  BY WireAssumption
<1>2. QED
  BY <1>1

LEMMA Forms ==
  /\ \A f \in QTypes : f \in Seq(Octet) /\ Len(f) = 2
  /\ \A f \in RTypes : f \in Seq(Octet) /\ Len(f) = 2
  /\ \A f \in RDLengths : f \in Seq(Octet) /\ Len(f) = 2
  /\ \A f \in TTLs : f \in Seq(Octet) /\ Len(f) = 4
  BY WireAssumption

LEMMA OneOctet ==
  ASSUME NEW S, S \subseteq Octet, NEW f \in {<<o>> : o \in S}
  PROVE  f \in Seq(Octet) /\ Len(f) = 1
<1>1. PICK o \in S : f = <<o>>
  OBVIOUS
<1>2. o \in Octet
  OBVIOUS
<1>3. QED
  BY <1>1, <1>2

LEMMA TwoOctets ==
  ASSUME NEW S, S \subseteq Octet, NEW l \in Octet, NEW f \in {<<l, o>> : o \in S}
  PROVE  f \in Seq(Octet) /\ Len(f) = 2
<1>1. PICK o \in S : f = <<l, o>>
  OBVIOUS
<1>2. o \in Octet
  OBVIOUS
<1>3. QED
  BY <1>1, <1>2

LEMMA ReadTTL ==
  ASSUME Octets(msg), NEW p \in Nat, NEW s \in Read(p, TTLs)
  PROVE  s \in Seq(Octet) /\ Len(s) = 4
<1> DEFINE forms == TTLs
           n     == 4
<1>1. n \in Nat /\ s \in Read(p, forms) /\ \A f \in forms : f \in Seq(Octet) /\ Len(f) = n
  BY Forms
<1> HIDE DEF n, forms
<1>2. s \in Seq(Octet) /\ Len(s) = n
  BY <1>1, ReadOctets, SMTT(30)
<1>3. QED
  BY <1>2 DEF n

LEMMA ReadWord ==
  ASSUME Octets(msg), NEW p \in Nat, NEW s, s \in Read(p, RTypes) \/ s \in Read(p, RDLengths)
  PROVE  s \in Seq(Octet) /\ Len(s) = 2 /\ Word(s) \in Nat
<1>1. s \in Seq(Octet) /\ Len(s) = 2
  <2>1. PICK forms \in {RTypes, RDLengths} : s \in Read(p, forms)
    OBVIOUS
  <2>2. \A f \in forms : f \in Seq(Octet) /\ Len(f) = 2
    BY Forms
  <2>3. QED
    BY <2>1, <2>2, ReadOctets, 2 \in Nat
<1>2. s[1] \in Octet /\ s[2] \in Octet
  BY <1>1
<1>3. QED
  BY <1>1, <1>2, WordBound DEF Count

(* The octet a name goes on with, and the two of a pointer.                *)
LEMMA FirstOctet ==
  ASSUME Inside, at \in {"qname", "rname"},
         NEW s \in Read(i, {<<o>> : o \in NameOctets[at]})
  PROVE  s[1] \in Octet
<1> NameOctets[at] \subseteq Octet
  BY NameForms
<1>1. \A f \in {<<o>> : o \in NameOctets[at]} : f \in Seq(Octet) /\ Len(f) = 1
  BY OneOctet
<1>2. s \in Seq(Octet) /\ Len(s) = 1
  BY <1>1, ReadOctets, i \in Nat, Octets(msg), 1 \in Nat DEF Inside, NameTyped
<1>3. QED
  BY <1>2, 1 \in 1 .. Len(s)

LEMMA PointerOctets ==
  ASSUME Inside, at \in {"qname", "rname"}, NEW l \in Octet,
         NEW s \in Read(i, {<<l, o>> : o \in NameOctets[at]})
  PROVE  s \in Seq(Octet) /\ Len(s) = 2 /\ s[2] \in Octet
<1> NameOctets[at] \subseteq Octet
  BY NameForms
<1>1. \A f \in {<<l, o>> : o \in NameOctets[at]} : f \in Seq(Octet) /\ Len(f) = 2
  BY TwoOctets
<1>2. s \in Seq(Octet) /\ Len(s) = 2
  BY <1>1, ReadOctets, i \in Nat, Octets(msg), 2 \in Nat DEF Inside, NameTyped
<1>3. QED
  BY <1>2, 2 \in 1 .. Len(s)

(* A step that only ends the name.                                         *)
LEMMA FailsInside ==
  ASSUME Inside, NameFails, Octets(msg'), touched' \in Nat, touched' <= len
  PROVE  Inside'
<1>1. UNCHANGED <<len, ancount, offset, i, next, jumped, steps, labels,
                  qname, answers, minTTL, hasTTL, records>>
  BY DEF NameFails, nameVars, resultVars
<1>2. NameTyped' /\ ResultTyped'
  BY <1>1 DEF Inside, NameTyped, ResultTyped
<1>3. at' \in {"failed", "parsed"}
  BY DEF NameFails
<1>4. QED
  BY <1>1, <1>2, <1>3 DEF Inside

LEMMA BeyondInside == ASSUME Inside, Beyond PROVE Inside'
  BY FailsInside DEF Beyond, Inside

LEMMA RootInside == ASSUME Inside, NEW l \in Octet, i < len, Root(l) PROVE Inside'
<1>1. i \in Nat /\ len \in Nat /\ touched \in Nat /\ touched <= len /\ Octets(msg)
  BY WireAssumption DEF Inside, NameTyped
<1>2. Octets(msg')
  BY <1>1, KnownOctets, <<l>> \in Seq(Octet) DEF Root
<1>3. touched' \in Nat /\ touched' <= len
  BY <1>1, LargerBound, i + 1 \in Nat, i + 1 <= len DEF Root
<1>4. next' \in Nat
  BY <1>1 DEF Root, Inside, NameTyped
<1>5. UNCHANGED <<len, ancount, offset, i, jumped, steps, labels,
                  qname, answers, minTTL, hasTTL, records>>
  BY DEF Root, resultVars
<1>6. NameTyped' /\ ResultTyped'
  BY <1>4, <1>5 DEF Inside, NameTyped, ResultTyped
<1>7. at' \in {"question", "record"}
  BY DEF Root
<1>8. QED
  BY <1>2, <1>3, <1>5, <1>6, <1>7 DEF Inside

LEMMA LabelInside ==
  ASSUME Inside, NEW l \in Octet, i < len, steps < MaxSteps, Label(l) PROVE Inside'
<1>1. /\ i \in Nat /\ len \in Nat /\ touched \in Nat /\ touched <= len /\ Octets(msg)
      /\ l \in Nat /\ i + 1 \in Nat /\ i + 1 <= len
  BY WireAssumption DEF Inside, NameTyped, Octet
<1>2. Octets(msg')
  BY <1>1, KnownOctets, <<l>> \in Seq(Octet) DEF Label
<1>3. CASE touched' = Larger(touched, i + 1) /\ NameFails
  BY <1>1, <1>2, <1>3, LargerBound, FailsInside
<1>4. CASE /\ i + 1 + l <= len
           /\ touched' = Larger(touched, i + 1 + l)
           /\ labels' = Append(labels, <<i + 1, l>>)
           /\ i' = i + 1 + l
           /\ next' = IF jumped THEN next ELSE i + 1 + l
           /\ steps' = steps + 1
           /\ UNCHANGED <<len, at, ancount, offset, jumped, resultVars>>
  <2>1. /\ i + 1 + l <= len
        /\ touched' = Larger(touched, i + 1 + l)
        /\ labels' = Append(labels, <<i + 1, l>>)
        /\ i' = i + 1 + l /\ next' = (IF jumped THEN next ELSE i + 1 + l)
        /\ steps' = steps + 1
        /\ UNCHANGED <<len, at, ancount, offset, jumped, qname, answers, minTTL, hasTTL, records>>
    BY <1>4 DEF resultVars
  <2>2. touched' \in Nat /\ touched' <= len
    BY <1>1, <2>1, LargerBound, i + 1 + l \in Nat
  <2>3. labels' \in Seq(Place)
    <3>1. <<i + 1, l>> \in Place
      BY <1>1 DEF Place
    <3>2. QED
      BY <2>1, <3>1 DEF Inside, NameTyped
  <2>4. steps' \in 0 .. MaxSteps
    BY <2>1, WireAssumption DEF Inside, NameTyped
  <2>5. NameTyped' /\ ResultTyped'
    BY <1>1, <2>1, <2>3, <2>4 DEF Inside, NameTyped, ResultTyped
  <2>6. QED
    BY <1>2, <2>1, <2>2, <2>5 DEF Inside
<1>5. QED
  BY <1>3, <1>4 DEF Label

LEMMA TargetNat == ASSUME NEW l \in Octet, NEW o \in Octet PROVE 256 * (l % 64) + o \in Nat
<1>1. l % 64 \in Nat
  BY DEF Octet
<1>2. QED
  BY <1>1 DEF Octet

LEMMA PointerInside ==
  ASSUME Inside, at \in {"qname", "rname"}, NEW l \in Octet, i < len, steps < MaxSteps, Pointer(l)
  PROVE  Inside'
<1>1. /\ i \in Nat /\ len \in Nat /\ touched \in Nat /\ touched <= len /\ Octets(msg)
      /\ i + 1 \in Nat /\ i + 1 <= len /\ i + 2 \in Nat
  BY WireAssumption DEF Inside, NameTyped
<1>2. CASE /\ NameFails /\ msg' = Known(msg, i, <<l>>)
           /\ touched' = Larger(touched, i + 1)
  <2>1. Octets(msg')
    BY <1>1, <1>2, KnownOctets, <<l>> \in Seq(Octet)
  <2>2. QED
    BY <1>1, <1>2, <2>1, LargerBound, FailsInside
<1>3. ASSUME NEW s \in Read(i, {<<l, o>> : o \in NameOctets[at]}),
             i + 1 < len, msg' = Known(msg, i, s), touched' = Larger(touched, i + 2),
             LET target == 256 * (l % 64) + s[2]
             IN  \/ target >= len /\ NameFails
                 \/ /\ target < len
                    /\ next' = IF jumped THEN next ELSE i + 2
                    /\ jumped' = TRUE /\ i' = target /\ steps' = steps + 1
                    /\ UNCHANGED <<len, at, ancount, offset, labels, resultVars>>
      PROVE  Inside'
  <2>1. s \in Seq(Octet) /\ s[2] \in Octet
    BY <1>3, PointerOctets
  <2>2. Octets(msg')
    BY <1>1, <1>3, <2>1, KnownOctets
  <2>3. touched' \in Nat /\ touched' <= len
    BY <1>1, <1>3, LargerBound, i + 2 <= len
  <2>4. CASE NameFails
    BY <2>2, <2>3, <2>4, FailsInside
  <2>5. CASE ~NameFails
    <3>1. /\ next' = IF jumped THEN next ELSE i + 2
          /\ jumped' = TRUE /\ i' = 256 * (l % 64) + s[2] /\ steps' = steps + 1
          /\ UNCHANGED <<len, at, ancount, offset, labels, qname, answers, minTTL, hasTTL, records>>
      BY <1>3, <2>5 DEF resultVars
    <3>2. i' \in Nat
      BY <2>1, <3>1, TargetNat
    <3>3. steps' \in 0 .. MaxSteps
      BY <3>1, WireAssumption DEF Inside, NameTyped
    <3>4. NameTyped' /\ ResultTyped'
      BY <1>1, <3>1, <3>2, <3>3 DEF Inside, NameTyped, ResultTyped
    <3>5. QED
      BY <2>2, <2>3, <3>1, <3>4 DEF Inside
  <2>6. QED
    BY <2>4, <2>5
<1>4. QED
  BY <1>2, <1>3 DEF Pointer

LEMMA HeaderInside == ASSUME Inside, Header PROVE Inside'
<1>1. len \in Nat /\ touched \in Nat /\ touched <= len /\ Octets(msg)
  BY WireAssumption DEF Inside
<1>2. UNCHANGED <<len, qname, answers, minTTL, hasTTL, records>>
  BY DEF Header, resultVars
<1>3. ResultTyped'
  BY <1>2 DEF Inside, ResultTyped
<1>4. CASE at' = "failed" /\ UNCHANGED <<msg, ancount, offset, nameVars, touched>>
  BY <1>1, <1>2, <1>3, <1>4 DEF Inside, NameTyped, nameVars
<1>5. ASSUME NEW qd \in QDCounts, NEW an \in ANCounts,
             len >= HeaderSize, msg' = Known(Known(msg, 4, qd), 6, an), touched' = 8,
             ancount' = Word(an),
             \/ /\ Word(qd) = 0 /\ at' = "failed"
                /\ UNCHANGED <<offset, nameVars>>
             \/ /\ Word(qd) # 0 /\ at' = "qname"
                /\ StartName(HeaderSize)
      PROVE  Inside'
  <2>1. /\ qd \in Seq(Octet) /\ an \in Seq(Octet) /\ Len(an) = 2
    BY <1>5, WireAssumption
  <2>2. ancount' \in Count
    BY <1>5, <2>1, WordBound, an[1] \in Octet, an[2] \in Octet
  <2>3. Octets(msg')
    <3>1. Octets(Known(msg, 4, qd))
      BY <1>1, <2>1, KnownOctets, 4 \in Nat
    <3>2. QED
      BY <1>5, <2>1, <3>1, KnownOctets, 6 \in Nat
  <2>4. NameTyped'
    <3>1. CASE UNCHANGED <<offset, nameVars>>
      BY <3>1 DEF Inside, NameTyped, nameVars
    <3>2. CASE StartName(HeaderSize)
      BY <3>2, Started, HeaderSize \in Nat DEF HeaderSize
    <3>3. QED
      BY <1>5, <3>1, <3>2
  <2>5. touched' \in Nat /\ touched' <= len
    BY <1>1, <1>5 DEF HeaderSize
  <2>6. QED
    BY <1>2, <1>3, <1>5, <2>2, <2>3, <2>4, <2>5 DEF Inside
<1>6. QED
  BY <1>4, <1>5 DEF Header

LEMMA QuestionInside == ASSUME Inside, Question PROVE Inside'
<1>1. /\ len \in Nat /\ touched \in Nat /\ touched <= len /\ Octets(msg)
      /\ next \in Nat /\ next + 2 \in Nat /\ next + 4 \in Nat
  BY WireAssumption DEF Inside, NameTyped
<1>2. UNCHANGED <<len, ancount, answers, minTTL, hasTTL, records>>
  BY DEF Question
<1>3. CASE at' = "failed" /\ UNCHANGED <<msg, offset, nameVars, qname, touched>>
  BY <1>1, <1>2, <1>3 DEF Inside, NameTyped, ResultTyped, nameVars
<1>4. ASSUME next + 4 <= len, NEW s \in Read(next, QTypes), msg' = Known(msg, next, s),
             touched' = Larger(touched, next + 2), qname' = labels,
             IF ancount > 0 THEN at' = "rname" /\ StartName(next + 4)
                            ELSE /\ at' = "parsed" /\ offset' = next + 4
                                 /\ UNCHANGED nameVars
      PROVE  Inside'
  <2>1. s \in Seq(Octet)
    BY <1>1, <1>4, ReadOctets, WireAssumption, 2 \in Nat
  <2>2. Octets(msg')
    BY <1>1, <1>4, <2>1, KnownOctets
  <2>3. touched' \in Nat /\ touched' <= len
    BY <1>1, <1>4, LargerBound, next + 2 <= len
  <2>4. NameTyped' /\ at' \in {"rname", "parsed"}
    <3>1. CASE at' = "rname" /\ StartName(next + 4)
      BY <1>1, <3>1, Started
    <3>2. CASE at' = "parsed" /\ offset' = next + 4 /\ UNCHANGED nameVars
      BY <1>1, <3>2 DEF Inside, NameTyped, nameVars
    <3>3. QED
      BY <1>4, <3>1, <3>2
  <2>5. ResultTyped'
    BY <1>2, <1>4 DEF Inside, NameTyped, ResultTyped
  <2>6. QED
    BY <1>2, <2>2, <2>3, <2>4, <2>5 DEF Inside
<1>5. QED
  BY <1>3, <1>4 DEF Question

LEMMA AnswerTyped ==
  ASSUME ResultTyped, NEW form, NEW data \in Nat, NEW ttl \in Place, Answer(form, data, ttl)
  PROVE  answers' \in Seq(Nat) /\ minTTL' \in Place /\ hasTTL' \in BOOLEAN
<1>1. CASE form \in {A, AAAA}
  <2>1. /\ answers' = Append(answers, data) /\ hasTTL' = TRUE
        /\ minTTL' = IF ~hasTTL \/ Below(ttl, minTTL) THEN ttl ELSE minTTL
    BY <1>1 DEF Answer
  <2>2. answers \in Seq(Nat) /\ minTTL \in Place
    BY DEF ResultTyped
  <2>3. answers' \in Seq(Nat)
    BY <2>1, <2>2
  <2>4. QED
    BY <2>1, <2>2, <2>3
<1>2. CASE form \notin {A, AAAA}
  BY <1>2 DEF Answer, ResultTyped
<1>3. QED
  BY <1>1, <1>2

LEMMA RecordInside == ASSUME Inside, Record PROVE Inside'
<1>1. /\ len \in Nat /\ touched \in Nat /\ touched <= len /\ Octets(msg)
      /\ next \in Nat /\ next + 4 \in Nat /\ next + 8 \in Nat /\ next + 10 \in Nat
      /\ offset \in Nat
  BY WireAssumption DEF Inside, NameTyped
<1>2. UNCHANGED <<len, ancount, qname>>
  BY DEF Record
<1>3. CASE at' = "parsed" /\ UNCHANGED <<msg, offset, nameVars, answers, minTTL, hasTTL, records, touched>>
  BY <1>1, <1>2, <1>3 DEF Inside, NameTyped, ResultTyped, nameVars
<1>4. ASSUME next + 10 <= len, NEW rtype \in Read(next, RTypes), NEW ttl \in Read(next + 4, TTLs),
             NEW rdlen \in Read(next + 8, RDLengths), ReadRecord(rtype, ttl, rdlen)
      PROVE  Inside'
  <2>1. rtype \in Seq(Octet) /\ Word(rtype) \in Nat
    BY <1>1, ReadWord
  <2>2. rdlen \in Seq(Octet) /\ Word(rdlen) \in Nat
    BY <1>1, ReadWord
  <2>3. ttl \in Seq(Octet) /\ Len(ttl) = 4
    BY <1>1, ReadTTL
  <2>4. Word(rtype) \in Nat /\ Word(rdlen) \in Nat
    BY <2>1, <2>2
  <2>5. LongWord(ttl) \in Place
    BY <2>3, LongWordPlace
  <2>6. Octets(msg')
    <3>1. Octets(Known(msg, next, rtype))
      BY <1>1, <2>1, KnownOctets
    <3>2. Octets(Known(Known(msg, next, rtype), next + 4, ttl))
      BY <1>1, <2>3, <3>1, KnownOctets
    <3>3. Octets(Known(Known(Known(msg, next, rtype), next + 4, ttl), next + 8, rdlen))
      BY <1>1, <2>2, <3>2, KnownOctets
    <3>4. QED
      BY <1>4, <3>3 DEF ReadRecord
  <2>7. CASE /\ at' = "parsed" /\ touched' = Larger(touched, next + 10)
             /\ UNCHANGED <<offset, nameVars, answers, minTTL, hasTTL, records>>
    <3>1. touched' \in Nat /\ touched' <= len
      BY <1>1, <1>4, <2>7, LargerBound
    <3>2. NameTyped' /\ ResultTyped'
      BY <1>2, <2>7 DEF Inside, NameTyped, ResultTyped, nameVars
    <3>3. QED
      BY <1>2, <2>6, <2>7, <3>1, <3>2 DEF Inside
  <2>8. CASE /\ next + 10 + Word(rdlen) <= len
             /\ touched' = Larger(touched, next + 10 + Word(rdlen))
             /\ records' = Append(records, [start |-> offset, form |-> <<Word(rtype), Word(rdlen)>>,
                                            data |-> next + 10, ttl |-> LongWord(ttl)])
             /\ Answer(<<Word(rtype), Word(rdlen)>>, next + 10, LongWord(ttl))
             /\ NextRecord(next + 10 + Word(rdlen), Len(records) + 1)
    <3>1. next + 10 + Word(rdlen) \in Nat
      BY <1>1, <2>4
    <3>2. touched' \in Nat /\ touched' <= len
      BY <1>1, <2>8, <3>1, LargerBound
    <3>3. records' \in Seq(RecordType)
      <4>1. [start |-> offset, form |-> <<Word(rtype), Word(rdlen)>>,
             data |-> next + 10, ttl |-> LongWord(ttl)] \in RecordType
        BY <1>1, <2>4, <2>5 DEF RecordType
      <4>2. QED
        BY <2>8, <4>1 DEF Inside, ResultTyped
    <3>4. ResultTyped'
      BY <1>1, <1>2, <2>5, <2>8, <3>3, AnswerTyped DEF Inside, ResultTyped
    <3>5. NameTyped' /\ at' \in {"rname", "parsed"}
      <4>1. CASE at' = "rname" /\ StartName(next + 10 + Word(rdlen))
        BY <3>1, <4>1, Started
      <4>2. CASE at' = "parsed" /\ offset' = next + 10 + Word(rdlen) /\ UNCHANGED nameVars
        BY <3>1, <4>2 DEF Inside, NameTyped, nameVars
      <4>3. QED
        BY <2>8, <4>1, <4>2 DEF NextRecord
    <3>6. QED
      BY <1>2, <2>6, <3>2, <3>4, <3>5 DEF Inside
  <2>9. QED
    BY <1>4, <2>7, <2>8 DEF ReadRecord
<1>5. QED
  BY <1>3, <1>4 DEF Record

LEMMA InsideNext == Inside /\ [Next]_vars => Inside'
<1> SUFFICES ASSUME Inside, [Next]_vars PROVE Inside'
  OBVIOUS
<1>1. CASE Header
  BY <1>1, HeaderInside
<1>2. CASE Question
  BY <1>2, QuestionInside
<1>3. CASE Record
  BY <1>3, RecordInside
<1>4. CASE readDNSName
  <2>1. at \in {"qname", "rname"}
    BY <1>4 DEF readDNSName, ReadingName
  <2>2. CASE Beyond
    BY <2>2, BeyondInside
  <2>3. ASSUME i < len, steps < MaxSteps, NEW s \in Read(i, {<<o>> : o \in NameOctets[at]}),
               Pointer(s[1]) \/ Root(s[1]) \/ Label(s[1])
        PROVE  Inside'
    <3>1. s[1] \in Octet
      BY <2>1, FirstOctet
    <3>2. QED
      BY <2>1, <2>3, <3>1, PointerInside, RootInside, LabelInside
  <2>4. QED
    BY <1>4, <2>2, <2>3 DEF readDNSName
<1>5. CASE UNCHANGED vars
  BY <1>5 DEF vars, nameVars, resultVars, Inside, NameTyped, ResultTyped
<1>6. QED
  BY <1>1, <1>2, <1>3, <1>4, <1>5 DEF Next

(* The variables hold what they should, whatever the message holds         *)
(* (parseDNS and readDNSName).                                             *)
THEOREM Typing == Spec => []TypeOK
<1>1. Spec => []Inside
  BY InsideInit, InsideNext, PTL DEF Spec
<1>2. Inside => TypeOK
  BY InsideIsBoth
<1>3. QED
  BY <1>1, <1>2, PTL

(* The parser looks at no octet beyond the payload, for any message        *)
(* (the bound checks of parseDNS and readDNSName).                         *)
THEOREM Bounds == Spec => []InMessage
<1>1. Spec => []Inside
  BY InsideInit, InsideNext, PTL DEF Spec
<1>2. Inside => InMessage
  BY InsideIsBoth
<1>3. QED
  BY <1>1, <1>2, PTL
-----------------------------------------------------------------------------
(* MinimumTTL at every step of the parser, not only at its end: hasTTL     *)
(* tells an address with a time to live of 0 from no address at all.       *)
Minimum == /\ hasTTL <=> Addresses # {}
           /\ Len(answers) = Cardinality(Addresses)
           /\ ~hasTTL => minTTL = Zero
           /\ hasTTL => \E k \in Addresses : minTTL = records[k].ttl
           /\ \A k \in Addresses : ~Below(records[k].ttl, minTTL)

LEMMA BelowOrder ==
  /\ \A a \in Place : ~Below(a, a)
  /\ \A a, b, c \in Place : Below(a, b) /\ ~Below(c, b) => ~Below(c, a)
<1>1. \A a \in Place : a[1] \in Nat /\ a[2] \in Nat
  BY DEF Place
<1>2. ASSUME NEW a \in Place, NEW b \in Place, NEW c \in Place, Below(a, b), ~Below(c, b)
      PROVE  ~Below(c, a)
  <2>1. /\ a[1] \in Nat /\ a[2] \in Nat /\ b[1] \in Nat
        /\ b[2] \in Nat /\ c[1] \in Nat /\ c[2] \in Nat
    BY <1>1
  <2>2. QED
    BY <1>2, <2>1 DEF Below
<1>3. QED
  BY <1>1, <1>2 DEF Below

LEMMA AddressesFinite == ASSUME ResultTyped PROVE IsFiniteSet(Addresses)
<1>1. Len(records) \in Nat
  BY DEF ResultTyped
<1>2. IsFiniteSet(1 .. Len(records))
  BY <1>1, FS_Interval, 1 \in Int, Len(records) \in Int
<1>3. Addresses \subseteq 1 .. Len(records)
  BY DEF Addresses
<1>4. QED
  BY <1>2, <1>3, FS_Subset

LEMMA MinimumInit == Init => Minimum
<1> SUFFICES ASSUME Init PROVE Minimum
  OBVIOUS
<1>1. records = <<>> /\ answers = <<>> /\ hasTTL = FALSE /\ minTTL = Zero
  BY DEF Init
<1>2. Addresses = {}
  BY <1>1 DEF Addresses
<1>3. Cardinality(Addresses) = 0
  BY <1>2, FS_EmptySet
<1>4. QED
  BY <1>1, <1>2, <1>3 DEF Minimum

LEMMA MinimumKept ==
  ASSUME Minimum, UNCHANGED <<answers, minTTL, hasTTL, records>>
  PROVE  Minimum'
  BY DEF Minimum, Addresses

(* One more record, of an address or of something else.                    *)
LEMMA MinimumAnswer ==
  ASSUME Inside, Minimum, NEW r \in RecordType, records' = Append(records, r),
         Answer(r.form, r.data, r.ttl)
  PROVE  Minimum'
<1> DEFINE n == Len(records) + 1
<1>1. /\ records \in Seq(RecordType) /\ answers \in Seq(Nat) /\ minTTL \in Place
      /\ Len(records) \in Nat /\ n \in Nat
  BY DEF Inside, ResultTyped
<1>2. r.ttl \in Place /\ r.data \in Nat
  BY DEF RecordType
<1>3. /\ Len(records') = n /\ records'[n] = r
      /\ \A k \in 1 .. Len(records) : records'[k] = records[k]
  BY <1>1
<1>4. ASSUME NEW k \in Addresses
      PROVE  k # n /\ k \in 1 .. Len(records) /\ records[k].ttl \in Place
  <2>1. k \in 1 .. Len(records)
    BY DEF Addresses
  <2>2. k # n
    BY <1>1, <2>1
  <2>3. records[k] \in RecordType
    BY <1>1, <2>1
  <2>4. records[k].ttl \in Place
    BY <2>3 DEF RecordType
  <2>5. QED
    BY <2>1, <2>2, <2>4
<1>5. CASE r.form \in {A, AAAA}
  <2>1. Addresses' = Addresses \cup {n}
    BY <1>1, <1>3, <1>5 DEF Addresses
  <2>2. Cardinality(Addresses') = Cardinality(Addresses) + 1
    BY <2>1, <1>4, AddressesFinite, FS_AddElement DEF Inside
  <2>3. /\ answers' = Append(answers, r.data) /\ hasTTL' = TRUE
        /\ minTTL' = IF ~hasTTL \/ Below(r.ttl, minTTL) THEN r.ttl ELSE minTTL
    BY <1>5 DEF Answer
  <2>4. Len(answers') = Cardinality(Addresses')
    BY <1>1, <1>2, <2>2, <2>3 DEF Minimum
  <2>5. \A k \in Addresses : records'[k].ttl = records[k].ttl
    BY <1>3, <1>4
  <2>6. CASE ~hasTTL
    <3>1. Addresses' = {n}
      BY <2>1, <2>6 DEF Minimum
    <3>2. minTTL' = r.ttl
      BY <2>3, <2>6
    <3>3. QED
      BY <1>2, <1>3, <2>3, <2>4, <3>1, <3>2, BelowOrder DEF Minimum
  <2>7. CASE hasTTL /\ Below(r.ttl, minTTL)
    <3>1. minTTL' = r.ttl /\ minTTL' = records'[n].ttl
      BY <1>3, <2>3, <2>7
    <3>2. \A k \in Addresses : ~Below(records'[k].ttl, minTTL')
      BY <1>1, <1>2, <1>4, <2>5, <2>7, <3>1, BelowOrder DEF Minimum
    <3>3. ~Below(records'[n].ttl, minTTL')
      BY <1>2, <1>3, <3>1, BelowOrder
    <3>4. QED
      BY <2>1, <2>3, <2>4, <3>1, <3>2, <3>3 DEF Minimum
  <2>8. CASE hasTTL /\ ~Below(r.ttl, minTTL)
    <3>1. minTTL' = minTTL
      BY <2>3, <2>8
    <3>2. \A k \in Addresses' : ~Below(records'[k].ttl, minTTL')
      BY <1>3, <2>1, <2>5, <2>8, <3>1 DEF Minimum
    <3>3. \E k \in Addresses' : minTTL' = records'[k].ttl
      BY <2>1, <2>5, <2>8, <3>1 DEF Minimum
    <3>4. QED
      BY <2>1, <2>3, <2>4, <3>2, <3>3 DEF Minimum
  <2>9. QED
    BY <2>6, <2>7, <2>8
<1>6. CASE r.form \notin {A, AAAA}
  <2>1. UNCHANGED <<answers, minTTL, hasTTL>>
    BY <1>6 DEF Answer
  <2>2. Addresses' = Addresses
    BY <1>1, <1>3, <1>6 DEF Addresses
  <2>3. \A k \in Addresses : records'[k] = records[k]
    BY <1>3, <1>4
  <2>4. QED
    BY <2>1, <2>2, <2>3 DEF Minimum
<1>7. QED
  BY <1>5, <1>6

LEMMA MinimumRecord == ASSUME Inside, Minimum, Record PROVE Minimum'
<1>1. CASE UNCHANGED <<answers, minTTL, hasTTL, records>>
  BY <1>1, MinimumKept
<1>2. ASSUME NEW rtype \in Read(next, RTypes), NEW ttl \in Read(next + 4, TTLs),
             NEW rdlen \in Read(next + 8, RDLengths), ReadRecord(rtype, ttl, rdlen)
      PROVE  Minimum'
  <2>1. next \in Nat /\ next + 4 \in Nat /\ next + 8 \in Nat /\ next + 10 \in Nat
        /\ offset \in Nat /\ Octets(msg)
    BY DEF Inside, NameTyped
  <2>2. Word(rtype) \in Nat /\ Word(rdlen) \in Nat
    BY <2>1, ReadWord
  <2>3. LongWord(ttl) \in Place
    BY <2>1, ReadTTL, LongWordPlace
  <2>4. CASE /\ records' = Append(records, [start |-> offset, form |-> <<Word(rtype), Word(rdlen)>>,
                                            data |-> next + 10, ttl |-> LongWord(ttl)])
             /\ Answer(<<Word(rtype), Word(rdlen)>>, next + 10, LongWord(ttl))
    <3> DEFINE r == [start |-> offset, form |-> <<Word(rtype), Word(rdlen)>>,
                     data |-> next + 10, ttl |-> LongWord(ttl)]
    <3>1. /\ r \in RecordType /\ r.form = <<Word(rtype), Word(rdlen)>>
          /\ r.data = next + 10 /\ r.ttl = LongWord(ttl)
      BY <2>1, <2>2, <2>3 DEF RecordType
    <3>2. records' = Append(records, r) /\ Answer(r.form, r.data, r.ttl)
      BY <2>4, <3>1
    <3> HIDE DEF r
    <3>3. QED
      BY <3>1, <3>2, MinimumAnswer
  <2>5. QED
    BY <1>1, <1>2, <2>4 DEF ReadRecord
<1>3. QED
  BY <1>1, <1>2 DEF Record

LEMMA MinimumNext == Inside /\ Minimum /\ [Next]_vars => Minimum'
<1> SUFFICES ASSUME Inside, Minimum, [Next]_vars PROVE Minimum'
  OBVIOUS
<1>1. CASE Record
  BY <1>1, MinimumRecord
<1>2. CASE Header \/ Question
  BY <1>2, MinimumKept DEF Header, Question, resultVars
<1>3. CASE readDNSName
  BY <1>3, MinimumKept DEF readDNSName, Beyond, Pointer, Root, Label, NameFails, resultVars
<1>4. CASE UNCHANGED vars
  BY <1>4, MinimumKept DEF vars, resultVars
<1>5. QED
  BY <1>1, <1>2, <1>3, <1>4 DEF Next

LEMMA MinimumHolds == Minimum => MinimumTTL
  BY DEF Minimum, MinimumTTL, Payload

(* The event has an answer for each address record of the message and the  *)
(* smallest of their times to live, 0 included (parseDNS).                 *)
THEOREM Smallest == Spec => []MinimumTTL
<1>1. Spec => [](Inside /\ Minimum)
  <2>1. Init => Inside /\ Minimum
    BY InsideInit, MinimumInit
  <2>2. Inside /\ Minimum /\ [Next]_vars => (Inside /\ Minimum)'
    BY InsideNext, MinimumNext
  <2>3. QED
    BY <2>1, <2>2, PTL DEF Spec
<1>2. Inside /\ Minimum => MinimumTTL
  BY MinimumHolds
<1>3. QED
  BY <1>1, <1>2, PTL
-----------------------------------------------------------------------------
(* Functions on the numbers that are defined by recursion.                 *)

(* A set of numbers has a least element.                                   *)
LEMMA Least == \A T \in SUBSET Nat : T # {} => \E x \in T : \A y \in T : x <= y
<1> DEFINE R == {r \in Nat \X Nat : r[1] < r[2]}
<1>1. IsWellFoundedOn(R, Nat)
  BY NatLessThanWellFounded, Zenon DEF OpToRel
<1>2. \A x, y \in Nat : x < y => <<x, y>> \in R
  OBVIOUS
<1> HIDE DEF R
<1>3. ASSUME NEW T \in SUBSET Nat, T # {} PROVE \E x \in T : \A y \in T : x <= y
  <2>1. PICK x \in T : \A y \in T : <<y, x>> \notin R
    BY <1>1, <1>3, WFMin
  <2>2. ASSUME NEW y \in T PROVE x <= y
    <3>1. x \in Nat /\ y \in Nat /\ ~(y < x)
      BY <1>2, <2>1
    <3>2. QED
      BY <3>1
  <2>3. QED
    BY <2>2
<1>4. QED
  BY <1>3

(* There is a function with a given value at 0 and a given step.           *)
LEMMA Iterates ==
  ASSUME NEW W, NEW b \in W, NEW F \in [W -> W]
  PROVE  \E f \in [Nat -> W] : f[0] = b /\ \A n \in Nat \ {0} : f[n] = F[f[n - 1]]
<1> DEFINE Starts(n) == {g \in [0 .. n -> W] : g[0] = b /\ \A k \in 1 .. n : g[k] = F[g[k - 1]]}
<1>1. \A n \in Nat : Starts(n) # {}
  <2> DEFINE T == {n \in Nat : Starts(n) = {}}
  <2>1. SUFFICES ASSUME T # {} PROVE FALSE
    OBVIOUS
  <2>2. PICK n \in T : \A k \in T : n <= k
    BY <2>1, Least
  <2>3. n # 0
    <3>1. [k \in 0 .. 0 |-> b] \in Starts(0)
      OBVIOUS
    <3>2. QED
      BY <3>1
  <2>4. PICK g \in Starts(n - 1) : TRUE
    <3>1. n \in Nat /\ n - 1 \in Nat
      BY <2>3
    <3>2. n - 1 \notin T
      <4>1. n - 1 \in T => n <= n - 1
        BY <2>2
      <4>2. QED
        BY <3>1, <4>1
    <3>3. QED
      BY <3>1, <3>2
  <2>5. [k \in 0 .. n |-> IF k = n THEN F[g[n - 1]] ELSE g[k]] \in Starts(n)
    <3> DEFINE h == [k \in 0 .. n |-> IF k = n THEN F[g[n - 1]] ELSE g[k]]
    <3>1. n \in Nat /\ g \in [0 .. n - 1 -> W] /\ g[0] = b /\ \A k \in 1 .. n - 1 : g[k] = F[g[k - 1]]
      BY <2>4
    <3>2. g[n - 1] \in W /\ F[g[n - 1]] \in W
      BY <2>3, <3>1
    <3>3. h \in [0 .. n -> W] /\ h[0] = b
      BY <2>3, <3>1, <3>2
    <3>4. ASSUME NEW k \in 1 .. n PROVE h[k] = F[h[k - 1]]
      BY <2>3, <3>1
    <3>5. QED
      BY <3>3, <3>4
  <2>6. QED
    BY <2>2, <2>5
<1>2. ASSUME NEW n \in Nat, NEW g \in Starts(n), NEW h \in Starts(n + 1)
      PROVE  \A k \in 0 .. n : g[k] = h[k]
  <2> DEFINE T == {k \in 0 .. n : g[k] # h[k]}
  <2>1. SUFFICES ASSUME T # {} PROVE FALSE
    OBVIOUS
  <2>2. PICK k \in T : \A j \in T : k <= j
    BY <2>1, Least, T \in SUBSET Nat
  <2>3. /\ g[0] = b /\ \A j \in 1 .. n : g[j] = F[g[j - 1]]
        /\ h[0] = b /\ \A j \in 1 .. n + 1 : h[j] = F[h[j - 1]]
    BY <1>2
  <2>4. k \in 1 .. n /\ k - 1 \in 0 .. n
    BY <2>2, <2>3
  <2>5. k - 1 \notin T
    BY <2>2, <2>4
  <2>6. g[k] = F[g[k - 1]] /\ h[k] = F[h[k - 1]] /\ g[k - 1] = h[k - 1]
    BY <2>3, <2>4, <2>5
  <2>7. QED
    BY <2>2, <2>6
<1> DEFINE part(n) == CHOOSE g : g \in Starts(n)
           f       == [n \in Nat |-> part(n)[n]]
<1>3. \A n \in Nat : part(n) \in Starts(n)
  BY <1>1
<1> HIDE DEF part
<1>4. ASSUME NEW n \in Nat PROVE f[n] \in W /\ f[n + 1] = F[f[n]]
  <2>1. part(n) \in [0 .. n -> W] /\ n \in 0 .. n
    BY <1>3
  <2>2. part(n + 1)[n + 1] = F[part(n + 1)[n]]
    <3>1. n + 1 \in Nat /\ n + 1 \in 1 .. n + 1 /\ (n + 1) - 1 = n
      OBVIOUS
    <3>2. QED
      BY <1>3, <3>1
  <2>3. part(n + 1)[n] = part(n)[n]
    <3>1. n + 1 \in Nat /\ n \in 0 .. n
      OBVIOUS
    <3>2. part(n) \in Starts(n) /\ part(n + 1) \in Starts(n + 1)
      BY <1>3, <3>1
    <3>3. \A k \in 0 .. n : part(n)[k] = part(n + 1)[k]
      <4> HIDE DEF Starts
      <4>1. QED
        BY <1>2, <3>2
    <3>4. QED
      BY <3>1, <3>3
  <2>4. QED
    BY <2>1, <2>2, <2>3
<1>5. f[0] = b
  BY <1>3
<1>6. f \in [Nat -> W]
  BY <1>4
<1>7. ASSUME NEW n \in Nat \ {0} PROVE f[n] = F[f[n - 1]]
  <2>1. n - 1 \in Nat /\ (n - 1) + 1 = n
    OBVIOUS
  <2> HIDE DEF f
  <2>2. QED
    BY <1>4, <2>1
<1>8. QED
  BY <1>5, <1>6, <1>7
(* The recursive definitions of LabelsFrom and EndInPlace are what they    *)
(* say: a function with that property exists.                              *)
LabelsStep(m, f) ==
  [p \in Nat |-> IF p \notin DOMAIN m THEN <<>>
                 ELSE IF m[p] = 0 THEN <<>>
                 ELSE IF m[p] < 192 THEN <<<<p + 1, m[p]>>>> \o f[p + 1 + m[p]]
                 ELSE IF p + 1 \in DOMAIN m THEN f[256 * (m[p] % 64) + m[p + 1]]
                 ELSE <<>>]

EndStep(m, f) ==
  [p \in Nat |-> IF p \notin DOMAIN m THEN p
                 ELSE IF m[p] = 0 THEN p + 1
                 ELSE IF m[p] < 192 THEN f[p + 1 + m[p]]
                 ELSE p + 2]

LEMMA Targets == \A l, o \in Octet : 256 * (l % 64) + o \in Nat
  BY TargetNat

(* Sums of this kind are numbers.                                          *)
LEMMA NatSum == \A a, b \in Nat : a + 1 + b \in Nat
  OBVIOUS

LEMMA LabelsStepTyped ==
  \A m : Octets(m) => \A f \in [Nat -> Seq(Place)] : LabelsStep(m, f) \in [Nat -> Seq(Place)]
<1> SUFFICES ASSUME NEW m, Octets(m), NEW f \in [Nat -> Seq(Place)]
             PROVE  LabelsStep(m, f) \in [Nat -> Seq(Place)]
  OBVIOUS
<1>1. SUFFICES ASSUME NEW p \in Nat
               PROVE  (IF p \notin DOMAIN m THEN <<>>
                       ELSE IF m[p] = 0 THEN <<>>
                       ELSE IF m[p] < 192 THEN <<<<p + 1, m[p]>>>> \o f[p + 1 + m[p]]
                       ELSE IF p + 1 \in DOMAIN m THEN f[256 * (m[p] % 64) + m[p + 1]]
                       ELSE <<>>) \in Seq(Place)
  BY DEF LabelsStep
<1>2. <<>> \in Seq(Place)
  OBVIOUS
<1>3. CASE p \in DOMAIN m
  <2>1. m[p] \in Octet /\ m[p] \in Nat /\ p + 1 + m[p] \in Nat
    <3>1. m[p] \in Octet
      BY <1>3 DEF Octets
    <3>2. m[p] \in Nat
      BY <3>1 DEF Octet
    <3>3. p + 1 + m[p] \in Nat
      BY <3>2, NatSum
    <3>4. QED
      BY <3>1, <3>2, <3>3
  <2>2. f[p + 1 + m[p]] \in Seq(Place) /\ <<p + 1, m[p]>> \in Place
    <3>1. p + 1 \in Nat
      OBVIOUS
    <3>2. QED
      BY <2>1, <3>1 DEF Place
  <2>3. <<<<p + 1, m[p]>>>> \o f[p + 1 + m[p]] \in Seq(Place)
    BY <2>2, ConcatProperties
  <2>4. p + 1 \in DOMAIN m => f[256 * (m[p] % 64) + m[p + 1]] \in Seq(Place)
    <3>1. SUFFICES ASSUME p + 1 \in DOMAIN m PROVE f[256 * (m[p] % 64) + m[p + 1]] \in Seq(Place)
      OBVIOUS
    <3>2. 256 * (m[p] % 64) + m[p + 1] \in Nat
      BY <2>1, <3>1, Targets DEF Octets
    <3>3. QED
      BY <3>2
  <2>5. QED
    BY <1>2, <2>3, <2>4
<1>4. QED
  BY <1>2, <1>3

(* What the definition says of the value at n.                             *)
LabelsAt(m, h, n) ==
  [p \in Nat |-> IF n = 0 \/ p \notin DOMAIN m THEN <<>>
                 ELSE IF m[p] = 0 THEN <<>>
                 ELSE IF m[p] < 192 THEN <<<<p + 1, m[p]>>>> \o h[n - 1][p + 1 + m[p]]
                 ELSE IF p + 1 \in DOMAIN m THEN h[n - 1][256 * (m[p] % 64) + m[p + 1]]
                 ELSE <<>>]

LEMMA LabelsAtIs ==
  \A m, h : /\ LabelsAt(m, h, 0) = [p \in Nat |-> <<>>]
            /\ \A n \in Nat \ {0} : LabelsAt(m, h, n) = LabelsStep(m, h[n - 1])
<1> TAKE m, h
<1>1. LabelsAt(m, h, 0) = [p \in Nat |-> <<>>]
  BY Zenon DEF LabelsAt
<1>2. ASSUME NEW n \in Nat \ {0} PROVE LabelsAt(m, h, n) = LabelsStep(m, h[n - 1])
  BY Zenon DEF LabelsAt, LabelsStep
<1>3. QED
  BY <1>1, <1>2

LEMMA LabelsRecursion ==
  ASSUME NEW m, Octets(m)
  PROVE  /\ \A n \in Nat : LabelsFrom(m)[n] \in [Nat -> Seq(Place)]
         /\ LabelsFrom(m)[0] = [p \in Nat |-> <<>>]
         /\ \A n \in Nat \ {0} : LabelsFrom(m)[n] = LabelsStep(m, LabelsFrom(m)[n - 1])
<1> DEFINE W == [Nat -> Seq(Place)]
           b == [p \in Nat |-> <<>>]
           F == [f \in W |-> LabelsStep(m, f)]
<1>1. b \in W
  <2>1. <<>> \in Seq(Place)
    OBVIOUS
  <2>2. QED
    BY <2>1
<1>2. F \in [W -> W]
  BY LabelsStepTyped
<1>3. \A f \in W : F[f] = LabelsStep(m, f)
  OBVIOUS
<1>4. PICK g \in [Nat -> W] : g[0] = b /\ \A n \in Nat \ {0} : g[n] = F[g[n - 1]]
  <2> HIDE DEF W, b, F
  <2>1. QED
    BY <1>1, <1>2, Iterates
<1>5. g = [n \in Nat |-> LabelsAt(m, g, n)]
  <2>1. ASSUME NEW n \in Nat PROVE g[n] = LabelsAt(m, g, n)
    <3>1. CASE n = 0
      BY <1>4, <3>1, LabelsAtIs
    <3>2. CASE n # 0
      <4>1. n \in Nat \ {0} /\ n - 1 \in Nat
        BY <3>2
      <4>2. g[n] = LabelsStep(m, g[n - 1])
        BY <1>3, <1>4, <4>1
      <4>3. LabelsAt(m, g, n) = LabelsStep(m, g[n - 1])
        BY <4>1, LabelsAtIs
      <4>4. QED
        BY <4>2, <4>3, Zenon
    <3>3. QED
      BY <3>1, <3>2
  <2>2. g = [n \in Nat |-> g[n]]
    BY <1>4
  <2>3. QED
    BY <2>1, <2>2, Zenon
<1>6. LabelsFrom(m) = CHOOSE h : h = [n \in Nat |-> LabelsAt(m, h, n)]
  BY DEF LabelsFrom, LabelsAt
<1>7. PICK h : h = LabelsFrom(m) /\ h = [n \in Nat |-> LabelsAt(m, h, n)]
  BY <1>5, <1>6, Zenon
<1>8. h[0] = b
  BY <1>7, LabelsAtIs, 0 \in Nat, Zenon
<1>9. ASSUME NEW n \in Nat \ {0} PROVE h[n] = LabelsStep(m, h[n - 1])
  <2>1. h[n] = LabelsAt(m, h, n)
    BY <1>7
  <2>2. LabelsAt(m, h, n) = LabelsStep(m, h[n - 1])
    BY LabelsAtIs
  <2>3. QED
    BY <2>1, <2>2, Zenon
<1>10. \A n \in Nat : h[n] \in W
  <2> DEFINE T == {n \in Nat : h[n] \notin W}
  <2>1. SUFFICES ASSUME T # {} PROVE FALSE
    OBVIOUS
  <2>2. PICK n \in T : \A k \in T : n <= k
    BY <2>1, Least
  <2>3. n \in Nat \ {0} /\ n - 1 \in Nat
    <3>1. n \in Nat /\ n # 0
      BY <1>1, <1>8
    <3>2. QED
      BY <3>1
  <2>4. h[n - 1] \in W
    <3>1. ~(n <= n - 1)
      BY <2>3
    <3>2. n - 1 \notin T
      BY <2>2, <3>1, Zenon
    <3>3. QED
      BY <2>3, <3>2
  <2>5. h[n] \in W
    <3>1. h[n] = LabelsStep(m, h[n - 1])
      BY <1>9, <2>3, Zenon
    <3>2. LabelsStep(m, h[n - 1]) \in W
      <4> DEFINE f == h[n - 1]
      <4>1. f \in W
        BY <2>4
      <4> HIDE DEF f
      <4>2. LabelsStep(m, f) \in W
        BY <4>1, LabelsStepTyped
      <4>3. QED
        BY <4>2 DEF f
    <3>3. QED
      BY <3>1, <3>2, Zenon
  <2>6. QED
    BY <2>5
<1>11. QED
  BY <1>7, <1>8, <1>9, <1>10

LEMMA EndStepTyped ==
  \A m : Octets(m) => \A f \in [Nat -> Nat] : EndStep(m, f) \in [Nat -> Nat]
<1> SUFFICES ASSUME NEW m, Octets(m), NEW f \in [Nat -> Nat]
             PROVE  EndStep(m, f) \in [Nat -> Nat]
  OBVIOUS
<1>1. SUFFICES ASSUME NEW p \in Nat
               PROVE  (IF p \notin DOMAIN m THEN p
                       ELSE IF m[p] = 0 THEN p + 1
                       ELSE IF m[p] < 192 THEN f[p + 1 + m[p]]
                       ELSE p + 2) \in Nat
  BY DEF EndStep
<1>2. CASE p \in DOMAIN m
  <2>1. m[p] \in Octet
    BY <1>2 DEF Octets
  <2>2. m[p] \in Nat
    BY <2>1 DEF Octet
  <2>3. p + 1 + m[p] \in Nat
    BY <2>2, NatSum
  <2>4. QED
    BY <2>3
<1>3. QED
  BY <1>2

EndAt(m, h, n) ==
  [p \in Nat |-> IF n = 0 \/ p \notin DOMAIN m THEN p
              ELSE IF m[p] = 0 THEN p + 1
              ELSE IF m[p] < 192 THEN h[n - 1][p + 1 + m[p]]
              ELSE p + 2]

LEMMA EndAtIs ==
  \A m, h : /\ EndAt(m, h, 0) = [p \in Nat |-> p]
            /\ \A n \in Nat \ {0} : EndAt(m, h, n) = EndStep(m, h[n - 1])
<1> TAKE m, h
<1>1. EndAt(m, h, 0) = [p \in Nat |-> p]
  BY Zenon DEF EndAt
<1>2. ASSUME NEW n \in Nat \ {0} PROVE EndAt(m, h, n) = EndStep(m, h[n - 1])
  BY Zenon DEF EndAt, EndStep
<1>3. QED
  BY <1>1, <1>2

LEMMA EndRecursion ==
  ASSUME NEW m, Octets(m)
  PROVE  /\ \A n \in Nat : EndInPlace(m)[n] \in [Nat -> Nat]
         /\ EndInPlace(m)[0] = [p \in Nat |-> p]
         /\ \A n \in Nat \ {0} : EndInPlace(m)[n] = EndStep(m, EndInPlace(m)[n - 1])
<1> DEFINE W == [Nat -> Nat]
           b == [p \in Nat |-> p]
           F == [f \in W |-> EndStep(m, f)]
<1>1. b \in W
  OBVIOUS
<1>2. F \in [W -> W]
  BY EndStepTyped
<1>3. \A f \in W : F[f] = EndStep(m, f)
  OBVIOUS
<1>4. PICK g \in [Nat -> W] : g[0] = b /\ \A n \in Nat \ {0} : g[n] = F[g[n - 1]]
  <2> HIDE DEF W, b, F
  <2>1. QED
    BY <1>1, <1>2, Iterates
<1>5. g = [n \in Nat |-> EndAt(m, g, n)]
  <2>1. ASSUME NEW n \in Nat PROVE g[n] = EndAt(m, g, n)
    <3>1. CASE n = 0
      BY <1>4, <3>1, EndAtIs
    <3>2. CASE n # 0
      <4>1. n \in Nat \ {0} /\ n - 1 \in Nat
        BY <3>2
      <4>2. g[n] = EndStep(m, g[n - 1])
        BY <1>3, <1>4, <4>1
      <4>3. EndAt(m, g, n) = EndStep(m, g[n - 1])
        BY <4>1, EndAtIs
      <4>4. QED
        BY <4>2, <4>3, Zenon
    <3>3. QED
      BY <3>1, <3>2
  <2>2. g = [n \in Nat |-> g[n]]
    BY <1>4
  <2>3. QED
    BY <2>1, <2>2, Zenon
<1>6. EndInPlace(m) = CHOOSE h : h = [n \in Nat |-> EndAt(m, h, n)]
  BY DEF EndInPlace, EndAt
<1>7. PICK h : h = EndInPlace(m) /\ h = [n \in Nat |-> EndAt(m, h, n)]
  BY <1>5, <1>6, Zenon
<1>8. h[0] = b
  BY <1>7, EndAtIs, 0 \in Nat, Zenon
<1>9. ASSUME NEW n \in Nat \ {0} PROVE h[n] = EndStep(m, h[n - 1])
  <2>1. h[n] = EndAt(m, h, n)
    BY <1>7
  <2>2. EndAt(m, h, n) = EndStep(m, h[n - 1])
    BY EndAtIs
  <2>3. QED
    BY <2>1, <2>2, Zenon
<1>10. \A n \in Nat : h[n] \in W
  <2> DEFINE T == {n \in Nat : h[n] \notin W}
  <2>1. SUFFICES ASSUME T # {} PROVE FALSE
    OBVIOUS
  <2>2. PICK n \in T : \A k \in T : n <= k
    BY <2>1, Least
  <2>3. n \in Nat \ {0} /\ n - 1 \in Nat
    <3>1. n \in Nat /\ n # 0
      BY <1>1, <1>8
    <3>2. QED
      BY <3>1
  <2>4. h[n - 1] \in W
    <3>1. ~(n <= n - 1)
      BY <2>3
    <3>2. n - 1 \notin T
      BY <2>2, <3>1, Zenon
    <3>3. QED
      BY <2>3, <3>2
  <2>5. h[n] \in W
    <3>1. h[n] = EndStep(m, h[n - 1])
      BY <1>9, <2>3, Zenon
    <3>2. EndStep(m, h[n - 1]) \in W
      <4> DEFINE f == h[n - 1]
      <4>1. f \in W
        BY <2>4
      <4> HIDE DEF f
      <4>2. EndStep(m, f) \in W
        BY <4>1, EndStepTyped
      <4>3. QED
        BY <4>2 DEF f
    <3>3. QED
      BY <3>1, <3>2, Zenon
  <2>6. QED
    BY <2>5
<1>11. QED
  BY <1>7, <1>8, <1>9, <1>10

(* One octet of a name.                                                    *)
LabelsOf(m, n, p) ==
  /\ m[p] = 0 => LabelsFrom(m)[n][p] = <<>>
  /\ m[p] \in 1 .. 191 =>
       LabelsFrom(m)[n][p] = <<<<p + 1, m[p]>>>> \o LabelsFrom(m)[n - 1][p + 1 + m[p]]
  /\ m[p] >= 192 /\ p + 1 \in DOMAIN m =>
       LabelsFrom(m)[n][p] = LabelsFrom(m)[n - 1][256 * (m[p] % 64) + m[p + 1]]

EndOf(m, n, p) ==
  /\ m[p] = 0 => EndInPlace(m)[n][p] = p + 1
  /\ m[p] \in 1 .. 191 => EndInPlace(m)[n][p] = EndInPlace(m)[n - 1][p + 1 + m[p]]
  /\ m[p] >= 192 => EndInPlace(m)[n][p] = p + 2

LEMMA LabelsUnfold ==
  \A m : Octets(m) => \A n \in Nat \ {0} : \A p \in DOMAIN m : LabelsOf(m, n, p)
<1> SUFFICES ASSUME NEW m, Octets(m), NEW n \in Nat \ {0}, NEW p \in DOMAIN m
             PROVE  LabelsOf(m, n, p)
  OBVIOUS
<1> DEFINE f == LabelsFrom(m)[n - 1]
<1>1. p \in Nat /\ m[p] \in Octet
  BY DEF Octets
<1>2. LabelsFrom(m)[n] = LabelsStep(m, f)
  BY LabelsRecursion
<1> HIDE DEF f
<1>3. LabelsFrom(m)[n][p] = IF m[p] = 0 THEN <<>>
                            ELSE IF m[p] < 192 THEN <<<<p + 1, m[p]>>>> \o f[p + 1 + m[p]]
                            ELSE IF p + 1 \in DOMAIN m THEN f[256 * (m[p] % 64) + m[p + 1]]
                            ELSE <<>>
  BY <1>1, <1>2, Zenon DEF LabelsStep
<1>4. /\ m[p] = 0 => LabelsFrom(m)[n][p] = <<>>
      /\ m[p] \in 1 .. 191 => LabelsFrom(m)[n][p] = <<<<p + 1, m[p]>>>> \o f[p + 1 + m[p]]
      /\ m[p] >= 192 /\ p + 1 \in DOMAIN m =>
           LabelsFrom(m)[n][p] = f[256 * (m[p] % 64) + m[p + 1]]
  <2>1. m[p] \in 1 .. 191 => m[p] # 0 /\ m[p] < 192
    OBVIOUS
  <2>2. m[p] >= 192 => m[p] # 0 /\ ~(m[p] < 192)
    BY <1>1 DEF Octet
  <2>3. QED
    BY <1>3, <2>1, <2>2, Zenon
<1>5. QED
  BY <1>4, Zenon DEF f, LabelsOf

LEMMA EndUnfold ==
  \A m : Octets(m) => \A n \in Nat \ {0} : \A p \in DOMAIN m : EndOf(m, n, p)
<1> SUFFICES ASSUME NEW m, Octets(m), NEW n \in Nat \ {0}, NEW p \in DOMAIN m
             PROVE  EndOf(m, n, p)
  OBVIOUS
<1> DEFINE f == EndInPlace(m)[n - 1]
<1>1. p \in Nat /\ m[p] \in Octet
  BY DEF Octets
<1>2. EndInPlace(m)[n] = EndStep(m, f)
  BY EndRecursion
<1> HIDE DEF f
<1>3. EndInPlace(m)[n][p] = IF m[p] = 0 THEN p + 1
                            ELSE IF m[p] < 192 THEN f[p + 1 + m[p]]
                            ELSE p + 2
  BY <1>1, <1>2, Zenon DEF EndStep
<1>4. /\ m[p] = 0 => EndInPlace(m)[n][p] = p + 1
      /\ m[p] \in 1 .. 191 => EndInPlace(m)[n][p] = f[p + 1 + m[p]]
      /\ m[p] >= 192 => EndInPlace(m)[n][p] = p + 2
  <2>1. m[p] \in 1 .. 191 => m[p] # 0 /\ m[p] < 192
    OBVIOUS
  <2>2. m[p] >= 192 => m[p] # 0 /\ ~(m[p] < 192)
    BY <1>1 DEF Octet
  <2>3. QED
    BY <1>3, <2>1, <2>2, Zenon
<1>5. QED
  BY <1>4, Zenon DEF f, EndOf

-----------------------------------------------------------------------------
(* NameAgrees while a name is being read.  A name is followed from its     *)
(* first octet on, the parser goes octet by octet from the other end, and  *)
(* the octets it has not reached yet are not in msg: so the invariant      *)
(* speaks of every message that continues msg, and says that what has been *)
(* read and what is left of the name make up the whole.                    *)
Continues(m) == /\ Octets(m)
                /\ DOMAIN msg \subseteq DOMAIN m
                /\ \A p \in DOMAIN msg : m[p] = msg[p]

Remaining(m) ==
  /\ LabelsFrom(m)[Unfold][offset] = labels \o LabelsFrom(m)[Unfold - steps][i]
  /\ EndInPlace(m)[Unfold][offset] = IF jumped THEN next ELSE EndInPlace(m)[Unfold - steps][i]

Whole(m) == /\ labels = LabelsFrom(m)[Unfold][offset]
            /\ next = EndInPlace(m)[Unfold][offset]

(* Where the record at hand starts.                                        *)
Begins(m) == offset = IF records = <<>> THEN EndInPlace(m)[Unfold][HeaderSize] + 4
                      ELSE records[Len(records)].data + records[Len(records)].form[2]

NameSoFar ==
  /\ \A m : Continues(m) =>
       /\ at \in {"qname", "rname"} => Remaining(m)
       /\ at \in {"question", "record"} => Whole(m)
       /\ at \in {"rname", "record"} => Begins(m)
       /\ Contiguous(m)
  /\ at \in {"header", "qname", "question"} => records = <<>>
  /\ at \in {"qname", "question"} => offset = HeaderSize

(* Octets are only added to msg, so that whatever continues the new one    *)
(* continues the old one.                                                  *)
Kept == /\ DOMAIN msg \subseteq DOMAIN msg'
        /\ \A p \in DOMAIN msg : msg'[p] = msg[p]

LEMMA KeptContinues == ASSUME Kept PROVE \A m : Continues(m)' => Continues(m)
<1> SUFFICES ASSUME NEW m, Continues(m)' PROVE Continues(m)
  OBVIOUS
<1>1. Octets(m) /\ DOMAIN msg' \subseteq DOMAIN m /\ \A p \in DOMAIN msg' : m[p] = msg'[p]
  BY DEF Continues, Octets
<1>2. QED
  BY <1>1 DEF Continues, Kept

(* Octets written over those they were read from change nothing.           *)
Agrees(m, p, n, s) == Len(s) = n /\ \A k \in 1 .. n : p + k - 1 \in DOMAIN m => s[k] = m[p + k - 1]

Adds(m, new, p, n, s) == /\ DOMAIN new = DOMAIN m \cup p .. (p + n - 1)
                         /\ \A q \in DOMAIN m : new[q] = m[q]
                         /\ \A q \in p .. (p + n - 1) : new[q] = s[q - p + 1]

LEMMA KnownKeeps ==
  \A m : \A p \in Nat : \A n \in Nat : \A s \in Seq(Octet) :
    Agrees(m, p, n, s) => Adds(m, Known(m, p, s), p, n, s)
<1> SUFFICES ASSUME NEW m, NEW p \in Nat, NEW n \in Nat, NEW s \in Seq(Octet), Agrees(m, p, n, s)
             PROVE  Adds(m, Known(m, p, s), p, n, s)
  OBVIOUS
<1>1. DOMAIN Known(m, p, s) = DOMAIN m \cup p .. (p + n - 1)
  BY DEF Known, Agrees
<1>2. ASSUME NEW q \in p .. (p + n - 1) PROVE Known(m, p, s)[q] = s[q - p + 1]
  BY DEF Known, Agrees
<1>3. ASSUME NEW q \in DOMAIN m PROVE Known(m, p, s)[q] = m[q]
  <2>1. CASE q \in p .. (p + n - 1)
    <3>1. q - p + 1 \in 1 .. n /\ p + (q - p + 1) - 1 = q
      BY <2>1
    <3>2. s[q - p + 1] = m[q]
      BY <3>1 DEF Agrees
    <3>3. QED
      BY <1>2, <2>1, <3>2
  <2>2. CASE q \notin p .. (p + n - 1)
    BY <2>2 DEF Known, Agrees
  <2>3. QED
    BY <2>1, <2>2
<1>4. QED
  BY <1>1, <1>2, <1>3 DEF Adds

LEMMA ReadAgrees ==
  ASSUME NEW p \in Nat, NEW n \in Nat, NEW forms,
         \A f \in forms : f \in Seq(Octet) /\ Len(f) = n,
         NEW s \in Read(p, forms), Len(s) = n
  PROVE  Agrees(msg, p, n, s)
<1>1. PICK f \in forms : s = [k \in 1 .. Len(f) |->
                                IF p + k - 1 \in DOMAIN msg THEN msg[p + k - 1] ELSE f[k]]
  BY DEF Read
<1>2. Len(f) = n
  OBVIOUS
<1>3. QED
  BY <1>1, <1>2 DEF Agrees

LEMMA PlaceOf == \A a \in Nat : \A l \in Octet : <<a + 1, l>> \in Place
  BY DEF Octet, Place

LEMMA AppendConcat == \A S : \A s, r \in Seq(S) : \A x \in S : Append(s, x) \o r = s \o (<<x>> \o r)
<1> SUFFICES ASSUME NEW S, NEW s \in Seq(S), NEW r \in Seq(S), NEW x \in S
             PROVE  Append(s, x) \o r = s \o (<<x>> \o r)
  OBVIOUS
<1>1. Append(s, x) = s \o <<x>> /\ <<x>> \in Seq(S)
  BY AppendIsConcat
<1>2. QED
  BY <1>1, ConcatAssociative

LEMMA RecordsSame == ASSUME UNCHANGED records PROVE \A m : Contiguous(m)' <=> Contiguous(m)
  BY DEF Contiguous

LEMMA FailsNames == ASSUME NameSoFar, Kept, NameFails PROVE NameSoFar'
<1>1. at' \in {"failed", "parsed"} /\ records' = records
  BY DEF NameFails, resultVars
<1>2. ASSUME NEW m, Continues(m)' PROVE Contiguous(m)'
  BY <1>1, <1>2, KeptContinues, RecordsSame DEF NameSoFar
<1>3. QED
  BY <1>1, <1>2 DEF NameSoFar

(* The octet at i, found now or before.                                    *)
Found(l) == i \in DOMAIN msg => msg[i] = l

LEMMA OneKept ==
  ASSUME Inside, NEW l \in Octet, Found(l), msg' = Known(msg, i, <<l>>)
  PROVE  Kept /\ i \in DOMAIN msg' /\ msg'[i] = l
<1>1. i \in Nat /\ <<l>> \in Seq(Octet) /\ Len(<<l>>) = 1 /\ <<l>>[1] = l
  BY DEF Inside, NameTyped
<1>2. Agrees(msg, i, 1, <<l>>)
  <2>1. \A k \in 1 .. 1 : k = 1 /\ i + k - 1 = i
    BY <1>1
  <2>2. QED
    BY <1>1, <2>1 DEF Found, Agrees
<1>3. Adds(msg, msg', i, 1, <<l>>)
  BY <1>1, <1>2, KnownKeeps, 1 \in Nat
<1>4. i \in i .. (i + 1 - 1) /\ i - i + 1 = 1
  BY <1>1
<1>5. QED
  BY <1>1, <1>3, <1>4 DEF Kept, Adds

LEMMA TwoKept ==
  ASSUME Inside, at \in {"qname", "rname"}, NEW l \in Octet, Found(l),
         NEW s \in Read(i, {<<l, o>> : o \in NameOctets[at]}), msg' = Known(msg, i, s)
  PROVE  /\ Kept /\ i \in DOMAIN msg' /\ i + 1 \in DOMAIN msg'
         /\ msg'[i] = l /\ msg'[i + 1] = s[2] /\ s[2] \in Octet
<1>1. i \in Nat /\ s \in Seq(Octet) /\ Len(s) = 2 /\ s[2] \in Octet
  BY PointerOctets DEF Inside, NameTyped
<1>2. NameOctets[at] \subseteq Octet
  BY NameForms
<1>3. \A f \in {<<l, o>> : o \in NameOctets[at]} : f \in Seq(Octet) /\ Len(f) = 2
  BY <1>2, TwoOctets
<1>4. Agrees(msg, i, 2, s)
  BY <1>1, <1>3, ReadAgrees, 2 \in Nat
<1>5. Adds(msg, msg', i, 2, s)
  BY <1>1, <1>4, KnownKeeps, 2 \in Nat
<1>6. s[1] = l
  <2>1. PICK f \in {<<l, o>> : o \in NameOctets[at]} :
          s = [k \in 1 .. Len(f) |-> IF i + k - 1 \in DOMAIN msg THEN msg[i + k - 1] ELSE f[k]]
    BY DEF Read
  <2>2. f[1] = l /\ Len(f) = 2 /\ 1 \in 1 .. Len(f)
    OBVIOUS
  <2>3. s[1] = IF i + 1 - 1 \in DOMAIN msg THEN msg[i + 1 - 1] ELSE f[1]
    BY <2>1, <2>2
  <2>4. i + 1 - 1 = i
    BY <1>1
  <2>5. QED
    BY <2>2, <2>3, <2>4 DEF Found
<1>7. /\ i \in i .. (i + 2 - 1) /\ i - i + 1 = 1
      /\ i + 1 \in i .. (i + 2 - 1) /\ (i + 1) - i + 1 = 2
  BY <1>1
<1>8. msg'[i] = l /\ msg'[i + 1] = s[2]
  BY <1>5, <1>6, <1>7 DEF Adds
<1>9. QED
  BY <1>1, <1>5, <1>7, <1>8 DEF Kept, Adds

LEMMA RootNames ==
  ASSUME Inside, NameSoFar, at \in {"qname", "rname"}, steps < MaxSteps,
         NEW l \in Octet, Found(l), Root(l)
  PROVE  NameSoFar'
<1>1. Kept /\ i \in DOMAIN msg' /\ msg'[i] = 0
  BY OneKept DEF Root
<1>2. /\ at' = IF at = "qname" THEN "question" ELSE "record"
      /\ next' = IF jumped THEN next ELSE i + 1
      /\ UNCHANGED <<offset, labels, records>>
  BY DEF Root, resultVars
<1>3. ASSUME NEW m, Continues(m)'
      PROVE  Whole(m)' /\ (at' = "record" => Begins(m)') /\ Contiguous(m)'
  <2>1. Continues(m) /\ Octets(m) /\ i \in DOMAIN m /\ m[i] = 0
    BY <1>1, <1>3, KeptContinues DEF Continues
  <2>2. Remaining(m) /\ (at = "rname" => Begins(m)) /\ Contiguous(m)
    BY <2>1 DEF NameSoFar
  <2>3. PICK n \in Nat \ {0} : n = Unfold - steps
    BY WireAssumption DEF Inside, NameTyped, Unfold
  <2>4. LabelsFrom(m)[n][i] = <<>> /\ EndInPlace(m)[n][i] = i + 1
    <3>1. LabelsOf(m, n, i) /\ EndOf(m, n, i)
      BY <2>1, LabelsUnfold, EndUnfold
    <3>2. QED
      BY <2>1, <3>1 DEF LabelsOf, EndOf
  <2>5. labels \o <<>> = labels
    BY DEF Inside, NameTyped
  <2>6. Whole(m)'
    BY <1>2, <2>2, <2>3, <2>4, <2>5 DEF Remaining, Whole, Unfold
  <2>7. Begins(m)' <=> Begins(m)
    BY <1>2 DEF Begins
  <2>8. QED
    BY <1>2, <2>2, <2>6, <2>7, RecordsSame
<1>4. QED
  BY <1>2, <1>3 DEF NameSoFar

LEMMA LabelNames ==
  ASSUME Inside, NameSoFar, at \in {"qname", "rname"}, steps < MaxSteps,
         NEW l \in Octet, Found(l), Label(l)
  PROVE  NameSoFar'
<1>1. Kept /\ i \in DOMAIN msg' /\ msg'[i] = l
  BY OneKept DEF Label
<1>2. CASE NameFails
  BY <1>1, <1>2, FailsNames
<1>3. CASE ~NameFails
  <2>1. /\ l \in 1 .. 191 /\ labels' = Append(labels, <<i + 1, l>>) /\ i' = i + 1 + l
        /\ next' = (IF jumped THEN next ELSE i + 1 + l) /\ steps' = steps + 1
        /\ UNCHANGED <<at, offset, jumped, records>>
    BY <1>3 DEF Label, resultVars
  <2>2. ASSUME NEW m, Continues(m)'
        PROVE  Remaining(m)' /\ (at' = "rname" => Begins(m)') /\ Contiguous(m)'
    <3>1. Continues(m) /\ Octets(m) /\ i \in DOMAIN m /\ m[i] = l
      BY <1>1, <2>2, KeptContinues DEF Continues
    <3>2. Remaining(m) /\ (at = "rname" => Begins(m)) /\ Contiguous(m)
      BY <3>1 DEF NameSoFar
    <3>3. PICK n \in Nat \ {0} : n = Unfold - steps /\ n - 1 = Unfold - steps' /\ n - 1 \in Nat
      BY <2>1, WireAssumption DEF Inside, NameTyped, Unfold
    <3> DEFINE rest == LabelsFrom(m)[n - 1][i']
    <3>4. /\ LabelsFrom(m)[n][i] = <<<<i + 1, l>>>> \o rest
          /\ EndInPlace(m)[n][i] = EndInPlace(m)[n - 1][i']
      <4>1. LabelsOf(m, n, i) /\ EndOf(m, n, i)
        BY <3>1, LabelsUnfold, EndUnfold
      <4>2. QED
        BY <2>1, <3>1, <4>1, Zenon DEF LabelsOf, EndOf
    <3>5. rest \in Seq(Place)
      <4>1. i' \in Nat
        BY <2>1 DEF Inside, NameTyped
      <4>2. QED
        BY <3>1, <3>3, <4>1, LabelsRecursion
    <3>6. labels \o (<<<<i + 1, l>>>> \o rest) = labels' \o rest
      <4>1. labels \in Seq(Place) /\ <<i + 1, l>> \in Place
        BY PlaceOf DEF Inside, NameTyped
      <4> HIDE DEF rest
      <4>2. QED
        BY <2>1, <3>5, <4>1, AppendConcat
    <3>7. Remaining(m)'
      <4>1. /\ LabelsFrom(m)[Unfold][offset] = labels' \o rest
            /\ EndInPlace(m)[Unfold][offset] = IF jumped THEN next ELSE EndInPlace(m)[n - 1][i']
        <5> HIDE DEF rest
        <5>1. QED
          BY <3>2, <3>3, <3>4, <3>6 DEF Remaining
      <4>2. EndInPlace(m)[Unfold][offset] = IF jumped' THEN next' ELSE EndInPlace(m)[n - 1][i']
        BY <2>1, <4>1
      <4>3. QED
        BY <2>1, <3>3, <4>1, <4>2 DEF Remaining, Unfold
    <3>8. Begins(m)' <=> Begins(m)
      BY <2>1 DEF Begins
    <3>9. QED
      BY <2>1, <3>2, <3>7, <3>8, RecordsSame
  <2>3. QED
    BY <2>1, <2>2 DEF NameSoFar
<1>4. QED
  BY <1>2, <1>3

LEMMA PointerNames ==
  ASSUME Inside, NameSoFar, at \in {"qname", "rname"}, steps < MaxSteps,
         NEW l \in Octet, Found(l), Pointer(l)
  PROVE  NameSoFar'
<1>1. CASE NameFails /\ msg' = Known(msg, i, <<l>>)
  BY <1>1, OneKept, FailsNames
<1>2. ASSUME l >= 192, NEW s \in Read(i, {<<l, o>> : o \in NameOctets[at]}), msg' = Known(msg, i, s),
             \/ NameFails
             \/ /\ next' = IF jumped THEN next ELSE i + 2
                /\ jumped' = TRUE /\ i' = 256 * (l % 64) + s[2] /\ steps' = steps + 1
                /\ UNCHANGED <<len, at, ancount, offset, labels, resultVars>>
      PROVE  NameSoFar'
  <2>1. /\ Kept /\ i \in DOMAIN msg' /\ i + 1 \in DOMAIN msg'
        /\ msg'[i] = l /\ msg'[i + 1] = s[2] /\ s[2] \in Octet
    BY <1>2, TwoKept
  <2>2. CASE NameFails
    BY <2>1, <2>2, FailsNames
  <2>3. CASE ~NameFails
    <3>1. /\ next' = (IF jumped THEN next ELSE i + 2)
          /\ jumped' = TRUE /\ i' = 256 * (l % 64) + s[2] /\ steps' = steps + 1
          /\ UNCHANGED <<at, offset, labels, records>>
      BY <1>2, <2>3 DEF resultVars
    <3>2. ASSUME NEW m, Continues(m)'
          PROVE  Remaining(m)' /\ (at' = "rname" => Begins(m)') /\ Contiguous(m)'
      <4>1. /\ Continues(m) /\ Octets(m) /\ i \in DOMAIN m /\ i + 1 \in DOMAIN m
            /\ m[i] = l /\ m[i + 1] = s[2]
        BY <2>1, <3>2, KeptContinues DEF Continues
      <4>2. Remaining(m) /\ (at = "rname" => Begins(m)) /\ Contiguous(m)
        BY <4>1 DEF NameSoFar
      <4>3. PICK n \in Nat \ {0} : n = Unfold - steps /\ n - 1 = Unfold - steps'
        BY <3>1, WireAssumption DEF Inside, NameTyped, Unfold
      <4>4. LabelsFrom(m)[n][i] = LabelsFrom(m)[n - 1][i'] /\ EndInPlace(m)[n][i] = i + 2
        <5>1. LabelsOf(m, n, i) /\ EndOf(m, n, i)
          BY <4>1, LabelsUnfold, EndUnfold
        <5>2. QED
          BY <1>2, <3>1, <4>1, <5>1, Zenon DEF LabelsOf, EndOf
      <4>5. Remaining(m)'
        <5>1. /\ LabelsFrom(m)[Unfold][offset] = labels \o LabelsFrom(m)[n - 1][i']
              /\ EndInPlace(m)[Unfold][offset] = next'
          BY <3>1, <4>2, <4>3, <4>4 DEF Remaining
        <5>2. QED
          BY <3>1, <4>3, <5>1 DEF Remaining, Unfold
      <4>6. Begins(m)' <=> Begins(m)
        BY <3>1 DEF Begins
      <4>7. QED
        BY <3>1, <4>2, <4>5, <4>6, RecordsSame
    <3>3. QED
      BY <3>1, <3>2 DEF NameSoFar
  <2>4. QED
    BY <2>2, <2>3
<1>3. QED
  BY <1>1, <1>2 DEF Pointer

-----------------------------------------------------------------------------
LEMMA StartRemaining == ASSUME NEW m, Octets(m), NEW p \in Nat, StartName(p) PROVE Remaining(m)'
<1>1. /\ offset' = p /\ i' = p /\ jumped' = FALSE /\ steps' = 0 /\ labels' = <<>>
  BY DEF StartName
<1>2. Unfold \in Nat /\ Unfold - 0 = Unfold
  BY WireAssumption DEF Unfold
<1>3. LabelsFrom(m)[Unfold] \in [Nat -> Seq(Place)]
  BY <1>2, LabelsRecursion
<1>4. LabelsFrom(m)[Unfold][p] \in Seq(Place)
  BY <1>3
<1>5. LabelsFrom(m)[Unfold][p] = <<>> \o LabelsFrom(m)[Unfold][p]
  BY <1>4, ConcatEmptySeq
<1>6. QED
  BY <1>1, <1>2, <1>5 DEF Remaining, Unfold

LEMMA AddsKept == ASSUME NEW p, NEW n, NEW s, Adds(msg, msg', p, n, s) PROVE Kept
  BY DEF Adds, Kept

LEMMA ContinuesOctets == \A m : Continues(m)' => Octets(m)
  BY DEF Continues, Octets

LEMMA HeaderNames == ASSUME NameSoFar, Header PROVE NameSoFar'
<1>1. records = <<>> /\ records' = <<>>
  BY DEF Header, NameSoFar, resultVars
<1>2. at' = "failed" \/ (at' = "qname" /\ StartName(HeaderSize))
  BY DEF Header
<1>3. ASSUME NEW m, Continues(m)' PROVE (at' = "qname" => Remaining(m)') /\ Contiguous(m)'
  <2>1. Octets(m) /\ HeaderSize \in Nat
    BY <1>3, ContinuesOctets DEF HeaderSize
  <2>2. at' = "qname" => Remaining(m)'
    BY <1>2, <2>1, StartRemaining
  <2>3. Contiguous(m)'
    BY <1>1 DEF Contiguous
  <2>4. QED
    BY <2>2, <2>3
<1>4. at' = "qname" => offset' = HeaderSize
  BY <1>2 DEF StartName
<1>5. QED
  BY <1>1, <1>2, <1>3, <1>4 DEF NameSoFar

LEMMA QuestionNames == ASSUME Inside, NameSoFar, Question PROVE NameSoFar'
<1>1. records = <<>> /\ records' = <<>> /\ offset = HeaderSize
  BY DEF Question, NameSoFar
<1>2. next \in Nat /\ next + 4 \in Nat
  BY DEF Inside, NameTyped
<1>3. Kept
  <2>1. CASE UNCHANGED msg
    BY <2>1 DEF Kept
  <2>2. ASSUME NEW s \in Read(next, QTypes), msg' = Known(msg, next, s)
        PROVE  Kept
    <3>1. \A f \in QTypes : f \in Seq(Octet) /\ Len(f) = 2
      BY Forms
    <3>2. s \in Seq(Octet) /\ Len(s) = 2
      BY <1>2, <3>1, ReadOctets, 2 \in Nat DEF Inside
    <3>3. Agrees(msg, next, 2, s)
      BY <1>2, <3>1, <3>2, ReadAgrees, 2 \in Nat
    <3>4. QED
      BY <1>2, <2>2, <3>2, <3>3, KnownKeeps, AddsKept, 2 \in Nat
  <2>3. QED
    BY <2>1, <2>2 DEF Question
<1>4. at' \in {"failed", "parsed"} \/ (at' = "rname" /\ StartName(next + 4))
  BY DEF Question
<1>5. ASSUME NEW m, Continues(m)'
      PROVE  (at' = "rname" => Remaining(m)' /\ Begins(m)') /\ Contiguous(m)'
  <2>1. Octets(m) /\ Continues(m)
    BY <1>3, <1>5, ContinuesOctets, KeptContinues
  <2>2. next = EndInPlace(m)[Unfold][HeaderSize]
    BY <1>1, <2>1 DEF NameSoFar, Whole, Question
  <2>3. ASSUME at' = "rname" PROVE Remaining(m)' /\ Begins(m)'
    <3>1. StartName(next + 4) /\ offset' = next + 4
      BY <1>4, <2>3 DEF StartName
    <3>2. Remaining(m)'
      BY <1>2, <2>1, <3>1, StartRemaining
    <3>3. Begins(m)'
      BY <1>1, <2>2, <3>1 DEF Begins, Unfold
    <3>4. QED
      BY <3>2, <3>3
  <2>4. Contiguous(m)'
    BY <1>1 DEF Contiguous
  <2>5. QED
    BY <2>3, <2>4
<1>6. QED
  BY <1>4, <1>5 DEF NameSoFar

LEMMA AgreesBehind ==
  \A m, new, s, t : \A p, n, q, k \in Nat :
    Adds(m, new, p, n, s) /\ Agrees(m, q, k, t) /\ p + n <= q => Agrees(new, q, k, t)
<1> SUFFICES ASSUME NEW m, NEW new, NEW s, NEW t, NEW p \in Nat, NEW n \in Nat, NEW q \in Nat,
                    NEW k \in Nat, Adds(m, new, p, n, s), Agrees(m, q, k, t), p + n <= q
             PROVE  Agrees(new, q, k, t)
  OBVIOUS
<1>1. ASSUME NEW j \in 1 .. k, q + j - 1 \in DOMAIN new PROVE t[j] = new[q + j - 1]
  <2>1. q + j - 1 \notin p .. (p + n - 1)
    OBVIOUS
  <2>2. q + j - 1 \in DOMAIN m
    BY <1>1, <2>1 DEF Adds
  <2>3. QED
    BY <2>2 DEF Adds, Agrees
<1>2. QED
  BY <1>1 DEF Agrees

(* The fixed part of a record is read without changing what is known.      *)
LEMMA RecordKept ==
  ASSUME Inside, NEW rtype \in Read(next, RTypes), NEW ttl \in Read(next + 4, TTLs),
         NEW rdlen \in Read(next + 8, RDLengths),
         msg' = Known(Known(Known(msg, next, rtype), next + 4, ttl), next + 8, rdlen)
  PROVE  Kept
<1> DEFINE m1 == Known(msg, next, rtype)
           m2 == Known(m1, next + 4, ttl)
<1>1. next \in Nat /\ next + 4 \in Nat /\ next + 8 \in Nat /\ Octets(msg) /\ 2 \in Nat /\ 4 \in Nat
  BY DEF Inside, NameTyped
<1>2. /\ rtype \in Seq(Octet) /\ Len(rtype) = 2 /\ rdlen \in Seq(Octet) /\ Len(rdlen) = 2
      /\ ttl \in Seq(Octet) /\ Len(ttl) = 4
  BY <1>1, ReadWord, ReadTTL
<1>3. Agrees(msg, next, 2, rtype)
  BY <1>1, <1>2, Forms, ReadAgrees
<1>4. Agrees(msg, next + 8, 2, rdlen)
  BY <1>1, <1>2, Forms, ReadAgrees
<1>5. Agrees(msg, next + 4, 4, ttl)
  BY <1>1, <1>2, Forms, ReadAgrees
<1>6. Adds(msg, m1, next, 2, rtype)
  BY <1>1, <1>2, <1>3, KnownKeeps
<1> HIDE DEF m1
<1>7. Agrees(m1, next + 4, 4, ttl)
  BY <1>1, <1>5, <1>6, AgreesBehind, next + 2 <= next + 4
<1>8. Adds(m1, m2, next + 4, 4, ttl)
  BY <1>1, <1>2, <1>7, KnownKeeps
<1> HIDE DEF m2
<1>9. Agrees(m1, next + 8, 2, rdlen)
  BY <1>1, <1>4, <1>6, AgreesBehind, next + 2 <= next + 8
<1>10. Agrees(m2, next + 8, 2, rdlen)
  BY <1>1, <1>8, <1>9, AgreesBehind, (next + 4) + 4 <= next + 8
<1>11. msg' = Known(m2, next + 8, rdlen)
  BY DEF m1, m2
<1>12. Adds(m2, msg', next + 8, 2, rdlen)
  BY <1>1, <1>2, <1>10, <1>11, KnownKeeps
<1>13. QED
  BY <1>6, <1>8, <1>12 DEF Adds, Kept

LEMMA RecordNames == ASSUME Inside, NameSoFar, Record PROVE NameSoFar'
<1>1. at = "record"
  BY DEF Record
<1>2. CASE at' = "parsed" /\ UNCHANGED <<msg, records>>
  <2>1. Kept
    BY <1>2 DEF Kept
  <2>2. ASSUME NEW m, Continues(m)' PROVE Contiguous(m)'
    BY <1>2, <2>1, <2>2, KeptContinues, RecordsSame DEF NameSoFar
  <2>3. QED
    BY <1>2, <2>2 DEF NameSoFar
<1>3. ASSUME NEW rtype \in Read(next, RTypes), NEW ttl \in Read(next + 4, TTLs),
             NEW rdlen \in Read(next + 8, RDLengths), ReadRecord(rtype, ttl, rdlen)
      PROVE  NameSoFar'
  <2>1. Kept
    BY <1>3, RecordKept DEF ReadRecord
  <2>2. CASE at' = "parsed" /\ UNCHANGED records
    <3>1. ASSUME NEW m, Continues(m)' PROVE Contiguous(m)'
      BY <2>1, <2>2, <3>1, KeptContinues, RecordsSame DEF NameSoFar
    <3>2. QED
      BY <2>2, <3>1 DEF NameSoFar
  <2>3. CASE /\ records' = Append(records, [start |-> offset, form |-> <<Word(rtype), Word(rdlen)>>,
                                            data |-> next + 10, ttl |-> LongWord(ttl)])
             /\ NextRecord(next + 10 + Word(rdlen), Len(records) + 1)
    <3> DEFINE r == [start |-> offset, form |-> <<Word(rtype), Word(rdlen)>>,
                     data |-> next + 10, ttl |-> LongWord(ttl)]
               n == Len(records) + 1
    <3>1. /\ r.start = offset /\ r.data = next + 10 /\ r.form[2] = Word(rdlen)
          /\ records' = Append(records, r)
      BY <2>3
    <3>2. /\ next \in Nat /\ Word(rdlen) \in Nat /\ records \in Seq(RecordType)
          /\ next + 10 + Word(rdlen) \in Nat
      <4>1. next \in Nat /\ next + 8 \in Nat /\ Octets(msg) /\ records \in Seq(RecordType)
        BY DEF Inside, NameTyped, ResultTyped
      <4>2. Word(rdlen) \in Nat
        BY <4>1, ReadWord
      <4>3. QED
        BY <4>1, <4>2
    <3> HIDE DEF r
    <3>3. /\ Len(records') = n /\ n \in Nat \ {0} /\ records'[n] = r
          /\ \A k \in 1 .. Len(records) : records'[k] = records[k]
      BY <3>1, <3>2
    <3>4. at' = "parsed" \/ (at' = "rname" /\ StartName(next + 10 + Word(rdlen)))
      BY <2>3 DEF NextRecord
    <3>5. ASSUME NEW m, Continues(m)'
          PROVE  (at' = "rname" => Remaining(m)' /\ Begins(m)') /\ Contiguous(m)'
      <4>1. Octets(m) /\ Continues(m)
        BY <2>1, <3>5, ContinuesOctets, KeptContinues
      <4>2. Whole(m) /\ Begins(m) /\ Contiguous(m)
        BY <1>1, <4>1 DEF NameSoFar
      <4>3. ASSUME at' = "rname" PROVE Remaining(m)' /\ Begins(m)'
        <5>1. StartName(next + 10 + Word(rdlen)) /\ offset' = next + 10 + Word(rdlen)
          BY <3>4, <4>3 DEF StartName
        <5>2. Remaining(m)'
          BY <3>2, <4>1, <5>1, StartRemaining
        <5>3. Begins(m)'
          <6>1. records' # <<>> /\ offset' = records'[Len(records')].data + records'[Len(records')].form[2]
            BY <3>1, <3>3, <5>1
          <6>2. QED
            BY <6>1 DEF Begins
        <5>4. QED
          BY <5>2, <5>3
      <4>4. Contiguous(m)'
        <5> SUFFICES ASSUME NEW k \in 1 .. Len(records')
                     PROVE  /\ records'[k].data = EndInPlace(m)[Unfold][records'[k].start] + 10
                            /\ records'[k].start =
                                 IF k = 1 THEN EndInPlace(m)[Unfold][HeaderSize] + 4
                                 ELSE records'[k - 1].data + records'[k - 1].form[2]
          BY DEF Contiguous, Unfold
        <5>1. CASE k = n
          <6>1. r.data = EndInPlace(m)[Unfold][r.start] + 10
            BY <3>1, <4>2 DEF Whole
          <6>2. CASE records = <<>>
            <7>1. n = 1 /\ offset = EndInPlace(m)[Unfold][HeaderSize] + 4
              BY <4>2, <6>2 DEF Begins
            <7>2. QED
              BY <3>1, <3>3, <5>1, <6>1, <7>1
          <6>3. CASE records # <<>>
            <7>1. n # 1 /\ n - 1 = Len(records) /\ n - 1 \in 1 .. Len(records)
              BY <3>2, <6>3
            <7>2. offset = records[n - 1].data + records[n - 1].form[2]
              BY <4>2, <6>3, <7>1 DEF Begins
            <7>3. QED
              BY <3>1, <3>3, <5>1, <6>1, <7>1, <7>2
          <6>4. QED
            BY <6>2, <6>3
        <5>2. CASE k # n
          <6>1. k \in 1 .. Len(records) /\ (k # 1 => k - 1 \in 1 .. Len(records))
            BY <3>2, <3>3, <5>2
          <6>2. records'[k] = records[k] /\ (k # 1 => records'[k - 1] = records[k - 1])
            BY <3>3, <6>1
          <6>3. QED
            BY <4>2, <6>1, <6>2 DEF Contiguous
        <5>3. QED
          BY <5>1, <5>2
      <4>5. QED
        BY <4>3, <4>4
    <3>6. QED
      BY <3>4, <3>5 DEF NameSoFar
  <2>4. QED
    BY <1>3, <2>2, <2>3 DEF ReadRecord
<1>4. QED
  BY <1>2, <1>3 DEF Record

LEMMA NamesInit == Init => NameSoFar
<1> SUFFICES ASSUME Init PROVE NameSoFar
  OBVIOUS
<1>1. at = "header" /\ records = <<>>
  BY DEF Init
<1>2. \A m : Contiguous(m)
  BY <1>1 DEF Contiguous
<1>3. QED
  BY <1>1, <1>2 DEF NameSoFar

LEMMA NamesNext == Inside /\ NameSoFar /\ [Next]_vars => NameSoFar'
<1> SUFFICES ASSUME Inside, NameSoFar, [Next]_vars PROVE NameSoFar'
  OBVIOUS
<1>1. CASE Header
  BY <1>1, HeaderNames
<1>2. CASE Question
  BY <1>2, QuestionNames
<1>3. CASE Record
  BY <1>3, RecordNames
<1>4. CASE readDNSName
  <2>1. at \in {"qname", "rname"}
    BY <1>4 DEF readDNSName, ReadingName
  <2>2. CASE Beyond
    <3>1. Kept
      BY <2>2 DEF Beyond, Kept
    <3>2. QED
      BY <2>2, <3>1, FailsNames DEF Beyond
  <2>3. ASSUME i < len, steps < MaxSteps, NEW s \in Read(i, {<<o>> : o \in NameOctets[at]}),
               Pointer(s[1]) \/ Root(s[1]) \/ Label(s[1])
        PROVE  NameSoFar'
    <3>1. s[1] \in Octet
      BY <2>1, FirstOctet
    <3>2. Found(s[1])
      <4>1. PICK f \in {<<o>> : o \in NameOctets[at]} :
              s = [k \in 1 .. Len(f) |-> IF i + k - 1 \in DOMAIN msg THEN msg[i + k - 1] ELSE f[k]]
        BY DEF Read
      <4>2. Len(f) = 1 /\ 1 \in 1 .. Len(f)
        OBVIOUS
      <4>3. s[1] = IF i + 1 - 1 \in DOMAIN msg THEN msg[i + 1 - 1] ELSE f[1]
        BY <4>1, <4>2
      <4>4. i + 1 - 1 = i
        BY DEF Inside, NameTyped
      <4>5. QED
        BY <4>3, <4>4 DEF Found
    <3>3. QED
      BY <2>1, <2>3, <3>1, <3>2, PointerNames, RootNames, LabelNames
  <2>4. QED
    BY <1>4, <2>2, <2>3 DEF readDNSName
<1>5. CASE UNCHANGED vars
  BY <1>5 DEF vars, nameVars, resultVars, NameSoFar, Continues, Octets, Remaining, Whole, Begins,
              Contiguous, Unfold
<1>6. QED
  BY <1>1, <1>2, <1>3, <1>4, <1>5 DEF Next

LEMMA NamesAgree == Inside /\ NameSoFar => NameAgrees
<1> SUFFICES ASSUME Inside, NameSoFar PROVE NameAgrees
  OBVIOUS
<1>1. Continues(msg)
  BY DEF Inside, Continues
<1>2. (at \in {"question", "record"} => Whole(msg)) /\ Contiguous(msg)
  BY <1>1 DEF NameSoFar
<1>3. QED
  BY <1>2 DEF NameAgrees, Whole

(* A name the parser has read is the one its octets stand for, and the     *)
(* parser goes on where the name ends in place, for any message, however   *)
(* its labels and pointers lie (readDNSName, parseDNS).                    *)
THEOREM Names == Spec => []NameAgrees
<1>1. Spec => [](Inside /\ NameSoFar)
  <2>1. Init => Inside /\ NameSoFar
    BY InsideInit, NamesInit
  <2>2. Inside /\ NameSoFar /\ [Next]_vars => (Inside /\ NameSoFar)'
    BY InsideNext, NamesNext
  <2>3. QED
    BY <2>1, <2>2, PTL DEF Spec
<1>2. QED
  BY <1>1, NamesAgree, PTL
-----------------------------------------------------------------------------
(* How much the parser can still do for a message: a name takes at most    *)
(* MaxSteps steps and one that fails or ends it, what follows it another,  *)
(* and no record is read that the header did not announce.                 *)
Turn == MaxSteps + 2

Turns(n) == Turn * n

Ahead == IF at \in {"rname", "record"} THEN ancount - (Len(records) + 1) ELSE ancount

WorkLeft == CASE at = "header"                 -> Turns(65536) + 1
              [] at \in {"qname", "rname"}     -> Turns(Ahead) + (Turn - steps)
              [] at \in {"question", "record"} -> Turns(Ahead) + 1
              [] OTHER                         -> 0

(* A record is read only if it is announced and not read yet.              *)
Announced == /\ at \in {"qname", "question"} => records = <<>>
             /\ at = "header" => records = <<>>
             /\ at \in {"rname", "record"} => Len(records) < ancount

Lowered == WorkLeft' \in 0 .. WorkLeft - 1

LEMMA TurnIs == MaxSteps \in Nat /\ Turn \in Nat /\ Turn = MaxSteps + 2
  BY WireAssumption DEF Turn

(* A turn more for one more name, and at most Turns(65536) for all of them. *)
LEMMA TurnsOf ==
  /\ \A n \in Nat : Turns(n) \in Nat /\ Turns(n + 1) = Turns(n) + Turn
  /\ \A n \in Count : Turns(n) + Turn <= Turns(65536)
<1>1. Turn \in Nat
  BY TurnIs
<1>2. \A k, n \in Nat : k * n \in Nat /\ k * (n + 1) = k * n + k
  OBVIOUS
<1>3. ASSUME NEW n \in Count PROVE Turns(n) + Turn <= Turns(65536)
  <2>1. 65536 - n - 1 \in Nat /\ n \in Nat
    BY DEF Count
  <2>2. \A k, m, d \in Nat : k * (m + 1 + d) = k * m + k + k * d /\ k * d \in Nat
    OBVIOUS
  <2>3. Turns(n + 1 + (65536 - n - 1)) = Turns(n) + Turn + Turns(65536 - n - 1)
        /\ Turns(65536 - n - 1) \in Nat
    BY <1>1, <2>1, <2>2 DEF Turns
  <2>4. n + 1 + (65536 - n - 1) = 65536
    BY <2>1
  <2>5. Turns(n) \in Nat
    BY <1>1, <1>2, <2>1 DEF Turns
  <2>6. QED
    BY <1>1, <2>3, <2>4, <2>5
<1>4. QED
  BY <1>1, <1>2, <1>3 DEF Turns

(* What WorkLeft is at each place, and that it is a number.                *)
LEMMA Left ==
  ASSUME Inside, Announced
  PROVE  /\ ancount \in Nat /\ steps \in Nat /\ steps <= MaxSteps
         /\ at \notin {"header", "parsed", "failed"} => Ahead \in Nat /\ Turns(Ahead) \in Nat
         /\ at = "header" => WorkLeft = Turns(65536) + 1
         /\ at \in {"qname", "rname"} => WorkLeft = Turns(Ahead) + (Turn - steps)
         /\ at \in {"question", "record"} => WorkLeft = Turns(Ahead) + 1
         /\ WorkLeft \in Nat
         /\ at \in {"parsed", "failed"} => WorkLeft = 0
         /\ at \notin {"parsed", "failed"} => WorkLeft > 0
<1>1. ancount \in Nat /\ steps \in Nat /\ steps <= MaxSteps /\ Len(records) \in Nat
  BY WireAssumption DEF Inside, Count, NameTyped, ResultTyped
<1>2. at \notin {"header", "parsed", "failed"} => Ahead \in Nat
  BY <1>1 DEF Ahead, Announced, Inside
<1>3. at \notin {"header", "parsed", "failed"} => Ahead \in Nat /\ Turns(Ahead) \in Nat
  BY <1>2, TurnsOf
<1>4. /\ at = "header" => WorkLeft = Turns(65536) + 1
      /\ at \in {"qname", "rname"} => WorkLeft = Turns(Ahead) + (Turn - steps)
      /\ at \in {"question", "record"} => WorkLeft = Turns(Ahead) + 1
      /\ at \in {"parsed", "failed"} => WorkLeft = 0
  BY DEF WorkLeft
<1>5. Turns(65536) \in Nat
  BY TurnsOf, 65536 \in Nat
<1>6. WorkLeft \in Nat /\ (at \notin {"parsed", "failed"} => WorkLeft > 0)
  <2>1. CASE at = "header"
    BY <1>4, <1>5, <2>1
  <2>2. CASE at \in {"qname", "rname"}
    BY <1>1, <1>3, <1>4, <2>2, TurnIs
  <2>3. CASE at \in {"question", "record"}
    BY <1>3, <1>4, <2>3
  <2>4. CASE at \in {"parsed", "failed"}
    BY <1>4, <2>4
  <2>5. QED
    BY <2>1, <2>2, <2>3, <2>4 DEF Inside
<1>7. QED
  BY <1>1, <1>3, <1>4, <1>6

LEMMA Over ==
  ASSUME Inside, Announced, at \notin {"parsed", "failed"}, at' \in {"parsed", "failed"}
  PROVE  Announced' /\ Lowered
<1>1. WorkLeft \in Nat /\ WorkLeft > 0
  BY Left
<1>2. WorkLeft' = 0 /\ Announced'
  BY DEF WorkLeft, Announced
<1>3. QED
  BY <1>1, <1>2 DEF Lowered

LEMMA HeaderWork == ASSUME Inside, Announced, Inside', Header PROVE Announced' /\ Lowered
<1>1. CASE at' = "failed"
  BY <1>1, Over DEF Header
<1>2. CASE at' = "qname" /\ StartName(HeaderSize)
  <2>1. records' = <<>> /\ Announced'
    BY <1>2 DEF Header, Announced, resultVars
  <2>2. ancount' \in Count /\ steps' = 0
    BY <1>2 DEF Inside, StartName
  <2>3. WorkLeft' = Turns(ancount') + Turn
    BY <1>2, <2>2, TurnIs DEF WorkLeft, Ahead
  <2>4. Turns(ancount') \in Nat /\ Turns(ancount') + Turn <= Turns(65536) /\ Turns(65536) \in Nat
    BY <2>2, TurnsOf, 65536 \in Nat DEF Count
  <2>5. WorkLeft = Turns(65536) + 1
    BY Left DEF Header
  <2>6. QED
    BY <2>1, <2>3, <2>4, <2>5, TurnIs DEF Lowered
<1>3. QED
  BY <1>1, <1>2 DEF Header

LEMMA QuestionWork == ASSUME Inside, Announced, Question PROVE Announced' /\ Lowered
<1>1. CASE at' \in {"failed", "parsed"}
  BY <1>1, Over DEF Question
<1>2. CASE at' = "rname" /\ StartName(next + 4) /\ ancount > 0
  <2>1. ancount \in Nat /\ WorkLeft = Turns(ancount) + 1
    BY Left DEF Question, Ahead
  <2>2. UNCHANGED <<ancount, records>> /\ records = <<>> /\ Len(records) = 0
    BY DEF Question, Announced
  <2>3. Announced'
    BY <1>2, <2>1, <2>2 DEF Announced
  <2>4. WorkLeft' = Turns(ancount - 1) + Turn
    BY <1>2, <2>1, <2>2, TurnIs DEF WorkLeft, Ahead, StartName
  <2>5. Turns(ancount - 1) \in Nat /\ Turns(ancount - 1 + 1) = Turns(ancount - 1) + Turn
    BY <1>2, <2>1, TurnsOf
  <2>6. ancount - 1 + 1 = ancount
    BY <2>1
  <2>7. QED
    BY <2>1, <2>3, <2>4, <2>5, <2>6, TurnIs DEF Lowered
<1>3. QED
  BY <1>1, <1>2 DEF Question

LEMMA RecordWork == ASSUME Inside, Announced, Record PROVE Announced' /\ Lowered
<1>1. CASE at' = "parsed"
  BY <1>1, Over DEF Record
<1>2. ASSUME NEW rdlen, NEW r, at' = "rname", records' = Append(records, r),
             StartName(next + 10 + Word(rdlen)), Len(records) + 1 < ancount
      PROVE  Announced' /\ Lowered
  <2>1. ancount \in Nat /\ Len(records) \in Nat /\ records \in Seq(RecordType)
    BY Left DEF Inside, ResultTyped
  <2>2. WorkLeft = Turns(ancount - (Len(records) + 1)) + 1
    BY Left DEF Record, Ahead
  <2>3. UNCHANGED ancount /\ Len(records') = Len(records) + 1
    BY <1>2, <2>1 DEF Record
  <2>4. Announced'
    BY <1>2, <2>3 DEF Announced
  <2> DEFINE n == ancount - (Len(records) + 2)
  <2>5. n \in Nat /\ n + 1 = ancount - (Len(records) + 1) /\ n = ancount - (Len(records) + 1 + 1)
    BY <1>2, <2>1
  <2>6. WorkLeft' = Turns(n) + Turn
    BY <1>2, <2>3, <2>5, TurnIs DEF WorkLeft, Ahead, StartName
  <2>7. Turns(n) \in Nat /\ Turns(n + 1) = Turns(n) + Turn
    BY <2>5, TurnsOf
  <2>8. WorkLeft = Turns(n + 1) + 1
    BY <2>2, <2>5
  <2> HIDE DEF n
  <2>9. QED
    BY <2>4, <2>6, <2>7, <2>8, TurnIs DEF Lowered
<1>3. QED
  BY <1>1, <1>2 DEF Record, ReadRecord, NextRecord

(* A step of readDNSName fails, counts one step more or ends the name.     *)
LEMMA NameWork == ASSUME Inside, Announced, readDNSName PROVE Announced' /\ Lowered
<1>1. at \in {"qname", "rname"} /\ UNCHANGED <<ancount, records>>
  BY DEF readDNSName, ReadingName, Beyond, NameFails, Pointer, Root, Label, resultVars
<1>2. \/ at' \in {"parsed", "failed"}
      \/ at' = at /\ steps' = steps + 1 /\ steps < MaxSteps
      \/ at' = (IF at = "qname" THEN "question" ELSE "record") /\ steps' = steps
  BY DEF readDNSName, Beyond, NameFails, Pointer, Root, Label
<1>3. /\ WorkLeft = Turns(Ahead) + (Turn - steps) /\ Turns(Ahead) \in Nat
      /\ steps \in Nat /\ steps <= MaxSteps
  BY <1>1, Left
<1>4. CASE at' \in {"parsed", "failed"}
  BY <1>1, <1>4, Over
<1>5. CASE at' = at /\ steps' = steps + 1 /\ steps < MaxSteps
  <2>1. Announced' /\ Ahead' = Ahead
    BY <1>1, <1>5 DEF Announced, Ahead
  <2>2. WorkLeft' = Turns(Ahead) + (Turn - (steps + 1))
    BY <1>1, <1>5, <2>1 DEF WorkLeft
  <2>3. QED
    BY <1>3, <1>5, <2>1, <2>2, TurnIs DEF Lowered
<1>6. CASE at' = IF at = "qname" THEN "question" ELSE "record"
  <2>1. Announced' /\ Ahead' = Ahead
    BY <1>1, <1>6 DEF Announced, Ahead
  <2>2. WorkLeft' = Turns(Ahead) + 1
    BY <1>1, <1>6, <2>1 DEF WorkLeft
  <2>3. QED
    BY <1>3, <2>1, <2>2, TurnIs DEF Lowered
<1>7. QED
  BY <1>2, <1>4, <1>5, <1>6

(* Every step for a message leaves less to do than before, so that there   *)
(* are never more than Turns(65536) + 1 of them: no pointers that loop and *)
(* no count in the header keep the collector longer (parseDNS,             *)
(* readDNSName).                                                           *)
THEOREM Progress == Spec => [][WorkLeft' \in 0 .. WorkLeft - 1]_vars
<1>1. Init => Inside /\ Announced
  BY InsideInit DEF Init, Announced
<1>2. Inside /\ Announced /\ Next => Announced' /\ Lowered
  BY InsideNext, HeaderWork, NameWork, QuestionWork, RecordWork DEF Next
<1>3. Inside /\ Announced /\ [Next]_vars => (Inside /\ Announced)' /\ [Lowered]_vars
  <2>1. UNCHANGED vars /\ Announced => Announced'
    BY DEF vars, resultVars, Announced
  <2>2. QED
    BY <1>2, <2>1, InsideNext
<1>4. Spec => [][Lowered]_vars
  BY <1>1, <1>3, PTL DEF Spec
<1>5. QED
  BY <1>4 DEF Lowered
=============================================================================
