---------------------------- MODULE GraphProofs ----------------------------
(***************************************************************************)
(* Theorems about the correlation graph under the store, for any           *)
(* processes, domains and addresses, any number of answers and of          *)
(* operations: no edge dangles at any moment, and between operations the   *)
(* graph is what the processes account for.                                *)
(***************************************************************************)
EXTENDS StoreProofs

(* n is made by one of the first calls, those before the k-th.             *)
MadeBefore(n, k, s) == \E j \in 1 .. Len(s) : j < k /\ s[j][1] = "node" /\ s[j][2] = n

(* Each end of an edge in the list is in N, or made earlier in the list.   *)
Grounded(s, N) ==
  \A k \in 1 .. Len(s) :
    s[k][1] = "edge" => \A n \in {s[k][2][1], s[k][2][2]} : n \in N \/ MadeBefore(n, k, s)

IsSequence(s) == \E S : s \in Seq(S)

(* NoDanglingEdge, and why the calls under way keep it.                    *)
Dangling == /\ NoDanglingEdge
            /\ IsSequence(calls)
            /\ Grounded(calls, DOMAIN nodes)

-----------------------------------------------------------------------------
LEMMA Tails ==
  ASSUME NEW S, NEW s \in Seq(S), s # <<>>
  PROVE  /\ Head(s) = s[1] /\ 1 \in 1 .. Len(s) /\ Tail(s) \in Seq(S)
         /\ \A k \in 1 .. Len(Tail(s)) : k + 1 \in 1 .. Len(s) /\ Tail(s)[k] = s[k + 1]
         /\ \A k \in 1 .. Len(s) : k > 1 => k - 1 \in 1 .. Len(Tail(s))
  OBVIOUS

(* A call done, the rest is still grounded: a node made is in the graph.   *)
LEMMA StepGrounded ==
  ASSUME Dangling, GraphStep PROVE Dangling'
<1>0. PICK S : calls \in Seq(S)
  BY DEF Dangling, IsSequence
<1>1. /\ calls # <<>> /\ calls' = Tail(calls) /\ Head(calls) = calls[1]
      /\ calls' \in Seq(S) /\ 1 \in 1 .. Len(calls)
      /\ \A k \in 1 .. Len(calls') : k + 1 \in 1 .. Len(calls) /\ calls'[k] = calls[k + 1]
      /\ \A k \in 1 .. Len(calls) : k > 1 => k - 1 \in 1 .. Len(calls')
  BY <1>0, Tails DEF GraphStep
<1>2. DOMAIN nodes \subseteq DOMAIN nodes'
  BY DEF GraphStep, UpsertNode, AddEdge
<1>3. calls[1][1] = "node" => calls[1][2] \in DOMAIN nodes'
  BY <1>1 DEF GraphStep, UpsertNode
<1>4. Grounded(calls', DOMAIN nodes')
  <2> SUFFICES ASSUME NEW k \in 1 .. Len(calls'), calls'[k][1] = "edge",
                      NEW n \in {calls'[k][2][1], calls'[k][2][2]}, n \notin DOMAIN nodes'
               PROVE  MadeBefore(n, k, calls')
    BY DEF Grounded
  <2>1. k \in Nat /\ k + 1 \in 1 .. Len(calls) /\ calls'[k] = calls[k + 1]
    BY <1>1
  <2>2. MadeBefore(n, k + 1, calls)
    BY <2>1, <1>2 DEF Dangling, Grounded
  <2>3. PICK j \in 1 .. Len(calls) : j < k + 1 /\ calls[j][1] = "node" /\ calls[j][2] = n
    BY <2>2 DEF MadeBefore
  <2>4. j # 1
    BY <1>3, <2>3
  <2>5. j > 1 /\ j - 1 < k
    BY <2>1, <2>3, <2>4
  <2>6. j - 1 \in 1 .. Len(calls') /\ calls'[j - 1] = calls[j]
    <3>1. j - 1 \in 1 .. Len(calls')
      BY <1>1, <2>5
    <3>2. calls'[j - 1] = calls[(j - 1) + 1] /\ (j - 1) + 1 = j
      BY <1>1, <3>1
    <3>3. QED
      BY <3>1, <3>2
  <2>7. QED
    BY <2>3, <2>5, <2>6 DEF MadeBefore
<1>5. NoDanglingEdge'
  <2>1. CASE edges' = edges
    BY <1>2, <2>1 DEF NoDanglingEdge, Dangling
  <2>2. CASE calls[1][1] = "edge" /\ AddEdge(calls[1][2])
    <3>1. ASSUME NEW n \in {calls[1][2][1], calls[1][2][2]} PROVE n \in DOMAIN nodes
      <4>1. n \in DOMAIN nodes \/ MadeBefore(n, 1, calls)
        BY <1>1, <2>2 DEF Dangling, Grounded
      <4>2. ~MadeBefore(n, 1, calls)
        BY DEF MadeBefore
      <4>3. QED
        BY <4>1, <4>2
    <3>2. QED
      BY <2>2, <3>1 DEF AddEdge, NoDanglingEdge, Dangling
  <2>3. QED
    BY <1>1, <2>1, <2>2 DEF GraphStep, UpsertNode
<1>6. QED
  BY <1>1, <1>4, <1>5 DEF Dangling, IsSequence

-----------------------------------------------------------------------------
(* The lists of calls that the operations make.                            *)
Made(s) == {s[j][2] : j \in {k \in 1 .. Len(s) : s[k][1] = "node"}}

LEMMA Concatenated ==
  ASSUME NEW S, NEW s \in Seq(S), NEW R, NEW r \in Seq(R)
  PROVE  /\ s \o r \in Seq(S \cup R) /\ Len(s \o r) = Len(s) + Len(r)
         /\ Len(s) \in Nat /\ Len(r) \in Nat
         /\ \A k \in 1 .. Len(s) : (s \o r)[k] = s[k]
         /\ \A k \in 1 .. Len(r) : (s \o r)[k + Len(s)] = r[k]
<1>1. s \in Seq(S \cup R) /\ r \in Seq(S \cup R)
  OBVIOUS
<1>2. QED
  BY <1>1

LEMMA GroundedJoin ==
  ASSUME NEW s, NEW r, NEW N, IsSequence(s), IsSequence(r),
         Grounded(s, N), Grounded(r, N \cup Made(s))
  PROVE  IsSequence(s \o r) /\ Grounded(s \o r, N)
<1>1. PICK S : s \in Seq(S)
  BY DEF IsSequence
<1>2. PICK R : r \in Seq(R)
  BY DEF IsSequence
<1> DEFINE t == s \o r
<1>3. /\ t \in Seq(S \cup R) /\ Len(t) = Len(s) + Len(r)
      /\ Len(s) \in Nat /\ Len(r) \in Nat
      /\ \A k \in 1 .. Len(s) : t[k] = s[k]
      /\ \A k \in 1 .. Len(r) : t[k + Len(s)] = r[k]
  BY <1>1, <1>2, Concatenated
<1> HIDE DEF t
<1>4. ASSUME NEW k \in 1 .. Len(t), t[k][1] = "edge", NEW n \in {t[k][2][1], t[k][2][2]}, n \notin N
      PROVE  MadeBefore(n, k, t)
  <2>1. CASE k <= Len(s)
    <3>1. k \in 1 .. Len(s) /\ t[k] = s[k]
      BY <1>3, <2>1
    <3>2. PICK j \in 1 .. Len(s) : j < k /\ s[j][1] = "node" /\ s[j][2] = n
      BY <1>4, <3>1 DEF Grounded, MadeBefore
    <3>3. j \in 1 .. Len(t) /\ t[j] = s[j]
      BY <1>3, <3>2
    <3>4. QED
      BY <3>2, <3>3 DEF MadeBefore
  <2>2. CASE k > Len(s)
    <3> DEFINE l == k - Len(s)
    <3>1. l \in 1 .. Len(r) /\ l + Len(s) = k
      BY <1>3, <2>2
    <3>2. t[k] = r[l]
      BY <1>3, <3>1
    <3>3. n \in Made(s) \/ MadeBefore(n, l, r)
      BY <1>4, <3>1, <3>2 DEF Grounded
    <3>4. CASE n \in Made(s)
      <4>1. PICK j \in 1 .. Len(s) : s[j][1] = "node" /\ s[j][2] = n
        BY <3>4 DEF Made
      <4>2. j \in 1 .. Len(t) /\ t[j] = s[j] /\ j < k
        BY <1>3, <2>2, <4>1
      <4>3. QED
        BY <4>1, <4>2 DEF MadeBefore
    <3>5. CASE MadeBefore(n, l, r)
      <4>1. PICK j \in 1 .. Len(r) : j < l /\ r[j][1] = "node" /\ r[j][2] = n
        BY <3>5 DEF MadeBefore
      <4>2. j + Len(s) \in 1 .. Len(t) /\ j + Len(s) < k
        BY <1>3, <3>1, <4>1
      <4>3. t[j + Len(s)] = r[j]
        BY <1>3, <4>1
      <4>4. QED
        BY <4>1, <4>2, <4>3 DEF MadeBefore
    <3>6. QED
      BY <3>3, <3>4, <3>5
  <2>3. QED
    BY <1>3, <2>1, <2>2
<1>5. Grounded(t, N)
  BY <1>4 DEF Grounded
<1>6. QED
  BY <1>3, <1>5 DEF t, IsSequence

LEMMA NoCalls == \A N : IsSequence(<<>>) /\ Grounded(<<>>, N)
<1>1. <<>> \in Seq({}) /\ Len(<<>>) = 0
  OBVIOUS
<1>2. QED
  BY <1>1 DEF IsSequence, Grounded

LEMMA OneNode ==
  ASSUME NEW n, NEW label, NEW N
  PROVE  /\ IsSequence(<<Node(n, label)>>) /\ Grounded(<<Node(n, label)>>, N)
         /\ Made(<<Node(n, label)>>) = {n}
<1> DEFINE s == <<Node(n, label)>>
<1>1. s \in Seq({Node(n, label)}) /\ Len(s) = 1 /\ s[1][1] = "node" /\ s[1][2] = n
  BY DEF Node
<1> HIDE DEF s
<1>2. IsSequence(s) /\ Grounded(s, N) /\ Made(s) = {n}
  BY <1>1 DEF IsSequence, Grounded, Made
<1>3. QED
  BY <1>2 DEF s

LEMMA NodeEdge ==
  ASSUME NEW n, NEW label, NEW from, NEW to, NEW type, NEW N,
         from \in N \cup {n}, to \in N \cup {n}
  PROVE  /\ IsSequence(<<Node(n, label), Edge(from, to, type)>>)
         /\ Grounded(<<Node(n, label), Edge(from, to, type)>>, N)
<1> DEFINE s == <<Node(n, label), Edge(from, to, type)>>
<1>1. /\ s \in Seq({Node(n, label), Edge(from, to, type)}) /\ Len(s) = 2
      /\ s[1][1] = "node" /\ s[1][2] = n
      /\ s[2][1] = "edge" /\ s[2][2][1] = from /\ s[2][2][2] = to
  BY DEF Node, Edge
<1> HIDE DEF s
<1>2. n \in N \/ MadeBefore(n, 2, s)
  BY <1>1 DEF MadeBefore
<1>3. IsSequence(s) /\ Grounded(s, N)
  BY <1>1, <1>2 DEF IsSequence, Grounded
<1>4. QED
  BY <1>3 DEF s

LEMMA NodeNodeEdge ==
  ASSUME NEW a, NEW la, NEW b, NEW lb, NEW type, NEW N
  PROVE  /\ IsSequence(<<Node(a, la), Node(b, lb), Edge(a, b, type)>>)
         /\ Grounded(<<Node(a, la), Node(b, lb), Edge(a, b, type)>>, N)
         /\ {a, b} \subseteq Made(<<Node(a, la), Node(b, lb), Edge(a, b, type)>>)
<1> DEFINE s == <<Node(a, la), Node(b, lb), Edge(a, b, type)>>
<1>1. /\ s \in Seq({Node(a, la), Node(b, lb), Edge(a, b, type)}) /\ Len(s) = 3
      /\ s[1][1] = "node" /\ s[1][2] = a /\ s[2][1] = "node" /\ s[2][2] = b
      /\ s[3][1] = "edge" /\ s[3][2][1] = a /\ s[3][2][2] = b
  BY DEF Node, Edge
<1> HIDE DEF s
<1>2. MadeBefore(a, 3, s) /\ MadeBefore(b, 3, s)
  BY <1>1 DEF MadeBefore
<1>3. IsSequence(s) /\ Grounded(s, N)
  BY <1>1, <1>2 DEF IsSequence, Grounded
<1>4. {a, b} \subseteq Made(s)
  BY <1>1 DEF Made
<1>5. QED
  BY <1>3, <1>4 DEF s

LEMMA ConnectCalls ==
  ASSUME NEW a, NEW la, NEW b, NEW lb, NEW c, NEW lc, NEW type, NEW N
  PROVE  LET s == <<Node(a, la), Node(b, lb), Node(c, lc), Edge(a, c, type), Edge(a, b, type)>>
         IN IsSequence(s) /\ Grounded(s, N) /\ c \in Made(s)
<1> DEFINE s == <<Node(a, la), Node(b, lb), Node(c, lc), Edge(a, c, type), Edge(a, b, type)>>
<1>1. s \in Seq({Node(a, la), Node(b, lb), Node(c, lc), Edge(a, c, type), Edge(a, b, type)})
  BY DEF Node, Edge
<1>2. /\ Len(s) = 5
      /\ s[1][1] = "node" /\ s[1][2] = a /\ s[2][1] = "node" /\ s[2][2] = b
      /\ s[3][1] = "node" /\ s[3][2] = c
      /\ s[4][1] = "edge" /\ s[4][2][1] = a /\ s[4][2][2] = c
      /\ s[5][1] = "edge" /\ s[5][2][1] = a /\ s[5][2][2] = b
  BY DEF Node, Edge
<1> HIDE DEF s
<1>3. /\ MadeBefore(a, 4, s) /\ MadeBefore(c, 4, s)
      /\ MadeBefore(a, 5, s) /\ MadeBefore(b, 5, s)
  BY <1>2 DEF MadeBefore
<1>4. Grounded(s, N)
  <2> SUFFICES ASSUME NEW k \in 1 .. Len(s), s[k][1] = "edge",
                      NEW n \in {s[k][2][1], s[k][2][2]}
               PROVE  MadeBefore(n, k, s)
    BY DEF Grounded
  <2>1. k = 4 \/ k = 5
    BY <1>2
  <2>2. QED
    BY <1>2, <1>3, <2>1
<1>5. IsSequence(s) /\ c \in Made(s)
  BY <1>1, <1>2 DEF IsSequence, Made
<1>6. QED
  BY <1>4, <1>5 DEF s

LEMMA Listed ==
  ASSUME NEW n \in Nat, NEW S, NEW f \in [1 .. n -> S] PROVE f \in Seq(S) /\ Len(f) = n
  OBVIOUS

(* The node of each answer is made just before the edge to it.             *)
LEMMA AnswersGrounded ==
  ASSUME NEW domain, NEW answers \in AnswerLists, NEW N, DomainID(domain) \in N
  PROVE  IsSequence(AnswerCalls(domain, answers)) /\ Grounded(AnswerCalls(domain, answers), N)
<1>1. PICK m \in 0 .. MaxAnswers : answers \in [1 .. m -> IPs]
  BY DEF AnswerLists
<1>2. m \in Nat /\ Len(answers) = m
  BY <1>1, StoreAssumption
<1> DEFINE s == AnswerCalls(domain, answers)
           ip(k) == answers[(k + 1) \div 2]
<1>3. s = [i \in 1 .. 2 * m |-> IF i % 2 = 1 THEN Node(IPID(ip(i)), ip(i))
                                ELSE Edge(DomainID(domain), IPID(ip(i)), "resolves_to")]
  BY <1>2 DEF AnswerCalls
<1>4. IsSequence(s) /\ Len(s) = 2 * m
  <2> DEFINE R == {s[i] : i \in 1 .. 2 * m}
  <2>1. s \in [1 .. 2 * m -> R]
    BY <1>3
  <2>2. 2 * m \in Nat
    BY <1>2
  <2> HIDE DEF s, R
  <2>3. QED
    BY <2>1, <2>2, Listed DEF IsSequence
<1>5. \A i \in 1 .. 2 * m : i % 2 = 1 => s[i] = Node(IPID(ip(i)), ip(i))
  BY <1>3
<1>6. \A i \in 1 .. 2 * m : i % 2 # 1 => s[i] = Edge(DomainID(domain), IPID(ip(i)), "resolves_to")
  BY <1>3
<1> HIDE DEF s
<1>7. ASSUME NEW k \in 1 .. 2 * m, s[k][1] = "edge"
      PROVE  \A n \in {s[k][2][1], s[k][2][2]} : n \in N \/ MadeBefore(n, k, s)
  <2>1. k % 2 # 1
    BY <1>5, <1>7 DEF Node
  <2>2. s[k][2][1] = DomainID(domain) /\ s[k][2][2] = IPID(ip(k))
    BY <1>6, <2>1 DEF Edge
  <2>3. /\ k - 1 \in 1 .. 2 * m /\ (k - 1) % 2 = 1 /\ k - 1 < k
        /\ ((k - 1) + 1) \div 2 = (k + 1) \div 2
    BY <1>2, <2>1
  <2>4. s[k - 1][1] = "node" /\ s[k - 1][2] = IPID(ip(k))
    <3>1. ip(k - 1) = ip(k)
      BY <2>3
    <3>2. s[k - 1] = Node(IPID(ip(k - 1)), ip(k - 1))
      BY <1>5, <2>3
    <3>3. QED
      BY <3>1, <3>2 DEF Node
  <2>5. MadeBefore(IPID(ip(k)), k, s)
    BY <1>4, <2>3, <2>4 DEF MadeBefore
  <2>6. QED
    BY <2>2, <2>5
<1>8. IsSequence(s) /\ Grounded(s, N)
  BY <1>4, <1>7 DEF IsSequence, Grounded
<1>9. QED
  BY <1>8 DEF s

-----------------------------------------------------------------------------
(* An operation leaves the graph alone and lists grounded calls.           *)
LEMMA OperationGrounded ==
  ASSUME Dangling, NEW ts \in 0 .. MaxTime, Operation(ts) PROVE Dangling'
<1>1. nodes' = nodes /\ edges' = edges
  <2>1. Begin(ts) => nodes' = nodes /\ edges' = edges
    BY DEF Begin
  <2>2. \A pid, ppid, comm : UpsertProcess(pid, ppid, comm, ts) => Begin(ts)
    BY DEF UpsertProcess
  <2>3. \A pid, comm, domain : AddDNSQuery(pid, comm, domain, ts) => Begin(ts)
    BY DEF AddDNSQuery
  <2>4. \A pid, comm, domain, answers, ttl :
          AddDNSReply(pid, comm, domain, answers, ttl, ts) => Begin(ts)
    BY DEF AddDNSReply
  <2>5. \A pid, comm, ip, port : AddTCPConnect(pid, comm, ip, port, ts) => Begin(ts)
    BY DEF AddTCPConnect
  <2>6. QED
    BY <2>1, <2>2, <2>3, <2>4, <2>5 DEF Operation
<1>2. ASSUME IsSequence(calls'), Grounded(calls', DOMAIN nodes) PROVE Dangling'
  BY <1>1, <1>2 DEF Dangling, NoDanglingEdge
<1>3. ASSUME NEW pid, NEW ppid, NEW comm, UpsertProcess(pid, ppid, comm, ts) PROVE Dangling'
  <2>1. PICK label : calls' = <<Node(ProcessID(pid), label)>> \o Parent(pid, ppid)
    BY <1>3 DEF UpsertProcess
  <2>2. /\ IsSequence(Parent(pid, ppid))
        /\ Grounded(Parent(pid, ppid), DOMAIN nodes \cup {ProcessID(pid)})
    BY NoCalls, NodeEdge DEF Parent
  <2>3. QED
    BY <1>2, <2>1, <2>2, OneNode, GroundedJoin
<1>4. ASSUME NEW pid, NEW comm, NEW domain, AddDNSQuery(pid, comm, domain, ts) PROVE Dangling'
  <2>1. PICK label : calls' = <<Node(ProcessID(pid), label), Node(DomainID(domain), domain),
                                Edge(ProcessID(pid), DomainID(domain), "resolves_to")>>
    BY <1>4 DEF AddDNSQuery
  <2>2. QED
    BY <1>2, <2>1, NodeNodeEdge
<1>5. ASSUME NEW pid, NEW comm, NEW domain, NEW answers \in AnswerLists, NEW ttl,
             AddDNSReply(pid, comm, domain, answers, ttl, ts)
      PROVE  Dangling'
  <2>1. PICK label : calls' = <<Node(ProcessID(pid), label), Node(DomainID(domain), domain),
                                Edge(ProcessID(pid), DomainID(domain), "resolves_to")>>
                              \o AnswerCalls(domain, answers)
    BY <1>5 DEF AddDNSReply
  <2> DEFINE s == <<Node(ProcessID(pid), label), Node(DomainID(domain), domain),
                    Edge(ProcessID(pid), DomainID(domain), "resolves_to")>>
  <2>2. IsSequence(s) /\ Grounded(s, DOMAIN nodes) /\ DomainID(domain) \in Made(s)
    BY NodeNodeEdge
  <2> HIDE DEF s
  <2>3. /\ IsSequence(AnswerCalls(domain, answers))
        /\ Grounded(AnswerCalls(domain, answers), DOMAIN nodes \cup Made(s))
    BY <2>2, AnswersGrounded
  <2>4. calls' = s \o AnswerCalls(domain, answers)
    BY <2>1 DEF s
  <2>5. QED
    BY <1>2, <2>2, <2>3, <2>4, GroundedJoin
<1>6. ASSUME NEW pid, NEW comm, NEW ip, NEW port, AddTCPConnect(pid, comm, ip, port, ts)
      PROVE  Dangling'
  <2> DEFINE s(label) == <<Node(ProcessID(pid), label), Node(IPID(ip), ip),
                           Node(ServiceID(ip, port), ip),
                           Edge(ProcessID(pid), ServiceID(ip, port), "connects_to"),
                           Edge(ProcessID(pid), IPID(ip), "connects_to")>>
             r(domain) == IF domain = None THEN <<>>
                          ELSE <<Node(DomainID(domain), domain),
                                 Edge(DomainID(domain), ServiceID(ip, port), "resolves_to")>>
  <2>1. \E label, domain : calls' = s(label) \o r(domain)
    BY <1>6 DEF AddTCPConnect
  <2>2. \A label : /\ IsSequence(s(label)) /\ Grounded(s(label), DOMAIN nodes)
                   /\ ServiceID(ip, port) \in Made(s(label))
    BY ConnectCalls
  <2>3. ASSUME NEW N, ServiceID(ip, port) \in N, NEW domain
        PROVE  IsSequence(r(domain)) /\ Grounded(r(domain), N)
    BY <2>3, NoCalls, NodeEdge
  <2> HIDE DEF s, r
  <2>4. PICK label, domain : calls' = s(label) \o r(domain)
    BY <2>1
  <2>5. IsSequence(r(domain)) /\ Grounded(r(domain), DOMAIN nodes \cup Made(s(label)))
    BY <2>2, <2>3
  <2>6. QED
    BY <1>2, <2>2, <2>4, <2>5, GroundedJoin
<1>7. <<>> \in AnswerLists
  BY StoreAssumption DEF AnswerLists
<1>8. QED
  BY <1>3, <1>4, <1>5, <1>6, <1>7 DEF Operation

LEMMA DanglingInit == Init => Dangling
<1>1. ASSUME Init PROVE nodes = <<>> /\ edges = {} /\ calls = <<>>
  BY <1>1 DEF Init, GraphInit
<1>2. QED
  BY <1>1, NoCalls DEF Dangling, NoDanglingEdge

LEMMA DanglingNext == Dangling /\ [Next]_vars => Dangling'
<1> SUFFICES ASSUME Dangling, [Next]_vars PROVE Dangling'
  OBVIOUS
<1>1. ASSUME NEW ts \in 0 .. MaxTime, Operation(ts) PROVE Dangling'
  BY <1>1, OperationGrounded
<1>2. CASE UpdateGraph
  BY <1>2, StepGrounded DEF UpdateGraph
<1>3. CASE UNCHANGED graphVars
  BY <1>3 DEF graphVars, Dangling, NoDanglingEdge
<1>4. QED
  BY <1>1, <1>2, <1>3 DEF Next, Emit, vars

(* Both ends of every edge are among the nodes at every moment, also while *)
(* an operation of the store (store.go) is halfway through its calls of    *)
(* UpsertNode and AddEdge: a Snapshot never shows an edge to nowhere.      *)
THEOREM Connected == Spec => []NoDanglingEdge
<1>1. Init => Dangling
  BY DanglingInit
<1>2. Dangling /\ [Next]_vars => Dangling'
  BY DanglingNext
<1>3. Dangling => NoDanglingEdge
  BY DEF Dangling
<1>4. QED
  BY <1>1, <1>2, <1>3, PTL DEF Spec

-----------------------------------------------------------------------------
(* What the graph shows of the processes. *)

(* What a list of calls has in it, and the edges it adds.                  *)
Calls(s) == {s[k] : k \in 1 .. Len(s)}
Added(s) == {c[2] : c \in {b \in Calls(s) : b[1] = "edge"}}

Connects(e) == e[3] = "connects_to" /\ e[2][1] = "service"
Asks(e)     == e[1][1] = "process" /\ e[3] = "resolves_to"

Connections == UNION {{<<ProcessID(pid), ServiceID(c.ip, c.port), "connects_to">> :
                         c \in processes[pid].connections} : pid \in DOMAIN processes}
Questions   == UNION {{<<ProcessID(pid), DomainID(d), "resolves_to">> :
                         d \in DOMAIN processes[pid].dns} : pid \in DOMAIN processes}

(* The edges there are and those that the operation under way has still to *)
(* add are the ones the processes account for.                             *)
Drawn == /\ {e \in edges \cup Added(calls) : Connects(e)} = Connections
         /\ {e \in edges \cup Added(calls) : Asks(e)} = Questions

(* The nodes there are, and those to come, are of the known kinds.         *)
Placed == /\ DOMAIN nodes \subseteq NodeIDs
          /\ \A c \in Calls(calls) : c[1] = "node" => c[2] \in NodeIDs

(* What a process is called, if it is known at all.                        *)
Comm(pid) == IF pid \in DOMAIN processes THEN processes[pid].comm ELSE None

(* The node of a process has its name, or is about to be given it; that of *)
(* a parent which has not been seen itself has none.  Later calls of the   *)
(* operation leave the name alone.                                         *)
Labelled ==
  \A pid \in Pids :
    /\ \A c \in Calls(calls) :
         c[1] = "node" /\ c[2] = ProcessID(pid) => c[3] \in {None, Comm(pid)}
    /\ \/ ProcessID(pid) \in DOMAIN nodes /\ nodes[ProcessID(pid)] = Comm(pid)
       \/ ProcessID(pid) \notin DOMAIN nodes /\ pid \notin DOMAIN processes
       \/ /\ calls # <<>> /\ calls[1] = Node(ProcessID(pid), Comm(pid))
          /\ Comm(pid) = None => \/ ProcessID(pid) \notin DOMAIN nodes
                                 \/ nodes[ProcessID(pid)] = None

-----------------------------------------------------------------------------
(* The calls in the lists that the operations make.                        *)
LEMMA CallsOfNone == Calls(<<>>) = {}
BY DEF Calls

LEMMA CallsJoin ==
  ASSUME NEW s, NEW r, IsSequence(s), IsSequence(r)
  PROVE  /\ Calls(s \o r) = Calls(s) \cup Calls(r)
         /\ s # <<>> => s \o r # <<>> /\ (s \o r)[1] = s[1]
<1>1. PICK S : s \in Seq(S)
  BY DEF IsSequence
<1>2. PICK R : r \in Seq(R)
  BY DEF IsSequence
<1> DEFINE t == s \o r
<1>3. /\ t \in Seq(S \cup R) /\ Len(t) = Len(s) + Len(r)
      /\ Len(s) \in Nat /\ Len(r) \in Nat
      /\ \A k \in 1 .. Len(s) : t[k] = s[k]
      /\ \A k \in 1 .. Len(r) : t[k + Len(s)] = r[k]
  BY <1>1, <1>2, Concatenated
<1> HIDE DEF t
<1>4. ASSUME NEW k \in 1 .. Len(t) PROVE t[k] \in Calls(s) \cup Calls(r)
  <2>1. CASE k <= Len(s)
    <3>1. k \in 1 .. Len(s)
      BY <1>3, <2>1
    <3>2. QED
      BY <1>3, <3>1 DEF Calls
  <2>2. CASE k > Len(s)
    <3>1. k - Len(s) \in 1 .. Len(r) /\ (k - Len(s)) + Len(s) = k
      BY <1>3, <2>2
    <3>2. t[k] = r[k - Len(s)]
      BY <1>3, <3>1
    <3>3. QED
      BY <3>1, <3>2 DEF Calls
  <2>3. QED
    BY <1>3, <2>1, <2>2
<1>5. \A k \in 1 .. Len(s) : s[k] \in Calls(t)
  <2>1. \A k \in 1 .. Len(s) : k \in 1 .. Len(t)
    BY <1>3
  <2>2. QED
    BY <1>3, <2>1 DEF Calls
<1>6. \A k \in 1 .. Len(r) : r[k] \in Calls(t)
  <2>1. \A k \in 1 .. Len(r) : k + Len(s) \in 1 .. Len(t)
    BY <1>3
  <2>2. QED
    BY <1>3, <2>1 DEF Calls
<1>7. Calls(t) = Calls(s) \cup Calls(r)
  BY <1>4, <1>5, <1>6 DEF Calls
<1>8. ASSUME s # <<>> PROVE t # <<>> /\ t[1] = s[1]
  <2>1. Len(s) # 0
    BY <1>1, <1>8
  <2>2. 1 \in 1 .. Len(s) /\ Len(t) # 0
    BY <1>3, <2>1
  <2>3. QED
    BY <1>3, <2>2
<1>9. QED
  BY <1>7, <1>8 DEF t

LEMMA CallsOfOne == ASSUME NEW a PROVE Calls(<<a>>) = {a} /\ <<a>> # <<>> /\ <<a>>[1] = a
<1> DEFINE s == <<a>>
<1>1. Len(s) = 1 /\ s[1] = a
  OBVIOUS
<1> HIDE DEF s
<1>2. Calls(s) = {a}
  BY <1>1 DEF Calls
<1>3. s # <<>>
  BY <1>1
<1>4. QED
  BY <1>1, <1>2, <1>3 DEF s

LEMMA CallsOfTwo == ASSUME NEW a, NEW b PROVE Calls(<<a, b>>) = {a, b}
<1> DEFINE s == <<a, b>>
<1>1. Len(s) = 2 /\ s[1] = a /\ s[2] = b
  OBVIOUS
<1> HIDE DEF s
<1>2. Calls(s) = {a, b}
  BY <1>1 DEF Calls
<1>3. QED
  BY <1>2 DEF s

LEMMA CallsOfThree ==
  ASSUME NEW a, NEW b, NEW c
  PROVE  Calls(<<a, b, c>>) = {a, b, c} /\ <<a, b, c>> # <<>> /\ <<a, b, c>>[1] = a
<1> DEFINE s == <<a, b, c>>
<1>1. Len(s) = 3 /\ s[1] = a /\ s[2] = b /\ s[3] = c
  OBVIOUS
<1> HIDE DEF s
<1>2. Calls(s) = {a, b, c}
  BY <1>1 DEF Calls
<1>3. s # <<>>
  BY <1>1
<1>4. QED
  BY <1>1, <1>2, <1>3 DEF s

LEMMA CallsOfFive ==
  ASSUME NEW a, NEW b, NEW c, NEW d, NEW e
  PROVE  /\ Calls(<<a, b, c, d, e>>) = {a, b, c, d, e}
         /\ <<a, b, c, d, e>> # <<>> /\ <<a, b, c, d, e>>[1] = a
<1> DEFINE s == <<a, b, c, d, e>>
<1>1. Len(s) = 5 /\ s[1] = a /\ s[2] = b /\ s[3] = c /\ s[4] = d /\ s[5] = e
  OBVIOUS
<1> HIDE DEF s
<1>2. Calls(s) = {a, b, c, d, e}
  BY <1>1 DEF Calls
<1>3. s # <<>>
  BY <1>1
<1>4. QED
  BY <1>1, <1>2, <1>3 DEF s

(* For each answer its node and the edge to it.                            *)
LEMMA CallsOfAnswers ==
  ASSUME NEW domain, NEW answers \in AnswerLists, NEW c \in Calls(AnswerCalls(domain, answers))
  PROVE  \E ip \in IPs : \/ c = Node(IPID(ip), ip)
                         \/ c = Edge(DomainID(domain), IPID(ip), "resolves_to")
<1>1. PICK m \in 0 .. MaxAnswers : answers \in [1 .. m -> IPs]
  BY DEF AnswerLists
<1>2. m \in Nat /\ Len(answers) = m
  BY <1>1, StoreAssumption
<1> DEFINE s == AnswerCalls(domain, answers)
           ip(k) == answers[(k + 1) \div 2]
<1>3. s = [i \in 1 .. 2 * m |-> IF i % 2 = 1 THEN Node(IPID(ip(i)), ip(i))
                                ELSE Edge(DomainID(domain), IPID(ip(i)), "resolves_to")]
  BY <1>2 DEF AnswerCalls
<1>4. Len(s) = 2 * m
  <2> DEFINE R == {s[i] : i \in 1 .. 2 * m}
  <2>1. s \in [1 .. 2 * m -> R]
    BY <1>3
  <2>2. 2 * m \in Nat
    BY <1>2
  <2> HIDE DEF s, R
  <2>3. QED
    BY <2>1, <2>2, Listed
<1>5. PICK k \in 1 .. 2 * m : c = s[k]
  BY <1>4 DEF Calls
<1>6. (k + 1) \div 2 \in 1 .. m
  BY <1>2
<1>7. ip(k) \in IPs
  BY <1>1, <1>6
<1>8. \/ c = Node(IPID(ip(k)), ip(k))
      \/ c = Edge(DomainID(domain), IPID(ip(k)), "resolves_to")
  BY <1>3, <1>5
<1>9. QED
  BY <1>7, <1>8

(* The connections and the questions of a process seen so far.             *)
ConnectionsOf(pid) == IF pid \in DOMAIN processes THEN processes[pid].connections ELSE {}
AskedBy(pid)       == IF pid \in DOMAIN processes THEN DOMAIN processes[pid].dns ELSE {}

-----------------------------------------------------------------------------
(* What an operation does for a process: it stores ctx, which adds the     *)
(* connections C and the domains D to those of the process, and lists the  *)
(* calls that draw them, the process's own node first.                     *)
Does(pid, ctx, C, D) ==
  /\ calls = <<>> /\ nodes' = nodes /\ edges' = edges
  /\ Store(pid, ctx)
  /\ ctx.comm = None => Comm(pid) = None
  /\ ctx.connections = ConnectionsOf(pid) \cup C
  /\ DOMAIN ctx.dns = AskedBy(pid) \cup D
  /\ calls' # <<>> /\ calls'[1] = Node(ProcessID(pid), ctx.comm)
  /\ \A c \in Calls(calls') :
       c[1] = "node" => /\ c[2] \in NodeIDs
                        /\ c[2][1] = "process" /\ c # calls'[1] => c[3] = None
  /\ {e \in Added(calls') : Connects(e)} =
       {<<ProcessID(pid), ServiceID(c.ip, c.port), "connects_to">> : c \in C}
  /\ {e \in Added(calls') : Asks(e)} =
       {<<ProcessID(pid), DomainID(d), "resolves_to">> : d \in D}

LEMMA KnownComm ==
  ASSUME Tables, NEW pid \in Pids, NEW comm \in Comms \cup {None}
  PROVE  getOrCreateProcess(pid, comm).comm = None => Comm(pid) = None
<1>1. CASE pid \notin DOMAIN processes
  BY <1>1 DEF Comm
<1>2. CASE pid \in DOMAIN processes /\ processes[pid].comm # None
  BY <1>2 DEF Comm, getOrCreateProcess
<1>3. CASE pid \in DOMAIN processes /\ processes[pid].comm = None
  BY <1>3 DEF Comm
<1>4. QED
  BY <1>1, <1>2, <1>3

(* What the calls of a node or an edge are. *)
LEMMA NodeCall ==
  ASSUME NEW id, NEW label
  PROVE  Node(id, label)[1] = "node" /\ Node(id, label)[2] = id /\ Node(id, label)[3] = label
BY DEF Node

LEMMA EdgeCall ==
  ASSUME NEW from, NEW to, NEW type
  PROVE  /\ Edge(from, to, type)[1] = "edge" /\ Edge(from, to, type)[2] = <<from, to, type>>
         /\ <<from, to, type>>[1] = from /\ <<from, to, type>>[2] = to
         /\ <<from, to, type>>[3] = type
BY DEF Edge

LEMMA Kinds ==
  /\ \A pid : ProcessID(pid)[1] = "process" /\ (pid \in Pids => ProcessID(pid) \in NodeIDs)
  /\ \A d : DomainID(d)[1] = "domain" /\ (d \in Domains => DomainID(d) \in NodeIDs)
  /\ \A ip : IPID(ip)[1] = "ip" /\ (ip \in IPs => IPID(ip) \in NodeIDs)
  /\ \A ip, port : /\ ServiceID(ip, port)[1] = "service"
                   /\ (ip \in IPs /\ port \in Ports => ServiceID(ip, port) \in NodeIDs)
BY DEF ProcessID, DomainID, IPID, ServiceID, NodeIDs

LEMMA UpsertDoes ==
  ASSUME Tables, NEW ts \in 0 .. MaxTime, NEW pid \in Pids, NEW comm \in Comms \cup {None},
         NEW ppid \in Pids \cup {None}, UpsertProcess(pid, ppid, comm, ts)
  PROVE  \E ctx, C, D : Does(pid, ctx, C, D)
<1> DEFINE known == getOrCreateProcess(pid, comm)
<1>1. PICK ctx : /\ ctx = [known EXCEPT !.ppid = ppid, !.comm = IF comm # None THEN comm ELSE @]
                 /\ Store(pid, ctx)
                 /\ calls' = <<Node(ProcessID(pid), ctx.comm)>> \o Parent(pid, ppid)
  BY DEF UpsertProcess
<1>2. calls = <<>> /\ nodes' = nodes /\ edges' = edges
  BY DEF UpsertProcess, Begin
<1>3. known \in Contexts
  BY KnownTyping
<1>4. known.comm = None => Comm(pid) = None
  BY KnownComm
<1> HIDE DEF known
<1>5. /\ ctx.connections = known.connections /\ ctx.dns = known.dns
      /\ ctx.comm = None => known.comm = None
  BY <1>1, <1>3 DEF Contexts
<1>6. /\ ctx.connections = ConnectionsOf(pid) \cup {}
      /\ DOMAIN ctx.dns = AskedBy(pid) \cup {}
  BY <1>5, KnownTyping DEF known, Nothing, ConnectionsOf, AskedBy
<1> DEFINE first == Node(ProcessID(pid), ctx.comm)
           more == {Node(ProcessID(ppid), NoLabel),
                    Edge(ProcessID(pid), ProcessID(ppid), "spawned_by")}
<1>7. /\ Calls(Parent(pid, ppid)) = IF ppid = None THEN {} ELSE more
      /\ IsSequence(Parent(pid, ppid))
  BY CallsOfNone, CallsOfTwo, NoCalls, NodeEdge DEF Parent
<1>8. /\ Calls(calls') = {first} \cup IF ppid = None THEN {} ELSE more
      /\ calls' # <<>> /\ calls'[1] = first
  <2>1. IsSequence(<<first>>)
    BY OneNode
  <2> HIDE DEF more, first
  <2>2. calls' = <<first>> \o Parent(pid, ppid)
    BY <1>1 DEF first
  <2>3. QED
    BY <1>7, <2>1, <2>2, CallsJoin, CallsOfOne
<1>9. ASSUME NEW c \in Calls(calls'), c[1] = "node"
      PROVE  /\ c[2] \in NodeIDs
             /\ c[2][1] = "process" /\ c # calls'[1] => c[3] = None
  <2>1. CASE c = first
    BY <1>8, <2>1, NodeCall, Kinds
  <2>2. CASE c # first
    <3>1. ppid # None /\ c = Node(ProcessID(ppid), NoLabel)
      BY <1>8, <1>9, <2>2, EdgeCall
    <3>2. QED
      BY <3>1, NodeCall, Kinds, StoreAssumption
  <2>3. QED
    BY <2>1, <2>2
<1>10. \A e \in Added(calls') : e = <<ProcessID(pid), ProcessID(ppid), "spawned_by">>
  <2>1. ASSUME NEW c \in Calls(calls'), c[1] = "edge"
        PROVE  c[2] = <<ProcessID(pid), ProcessID(ppid), "spawned_by">>
    BY <1>8, <2>1, NodeCall, EdgeCall
  <2>2. QED
    BY <2>1 DEF Added
<1>11. \A e \in Added(calls') : ~Connects(e) /\ ~Asks(e)
  BY <1>10, EdgeCall DEF Connects, Asks
<1> HIDE DEF first, more
<1>12. Does(pid, ctx, {}, {})
  BY <1>1, <1>2, <1>4, <1>5, <1>6, <1>8, <1>9, <1>11 DEF Does, first
<1>13. QED
  BY <1>12

LEMMA QueryDoes ==
  ASSUME Tables, NEW ts \in 0 .. MaxTime, NEW pid \in Pids, NEW comm \in Comms \cup {None},
         NEW domain \in Domains, AddDNSQuery(pid, comm, domain, ts)
  PROVE  \E ctx, C, D : Does(pid, ctx, C, D)
<1> DEFINE known == getOrCreateProcess(pid, comm)
<1>1. PICK ctx : /\ ctx = IF domain \in DOMAIN known.dns THEN known
                          ELSE [known EXCEPT !.dns = Put(@, domain, {})]
                 /\ Store(pid, ctx)
                 /\ calls' = <<Node(ProcessID(pid), ctx.comm),
                               Node(DomainID(domain), domain),
                               Edge(ProcessID(pid), DomainID(domain), "resolves_to")>>
  BY DEF AddDNSQuery
<1>2. calls = <<>> /\ nodes' = nodes /\ edges' = edges
  BY DEF AddDNSQuery, Begin
<1>3. known \in Contexts
  BY KnownTyping
<1>4. known.comm = None => Comm(pid) = None
  BY KnownComm
<1> HIDE DEF known
<1>5. /\ ctx.connections = known.connections /\ ctx.comm = known.comm
      /\ DOMAIN ctx.dns = DOMAIN known.dns \cup {domain}
  <2>1. DOMAIN Put(known.dns, domain, {}) = DOMAIN known.dns \cup {domain}
    BY DEF Put
  <2>2. CASE domain \in DOMAIN known.dns
    BY <1>1, <2>2
  <2>3. CASE domain \notin DOMAIN known.dns
    BY <1>1, <1>3, <2>1, <2>3 DEF Contexts
  <2>4. QED
    BY <2>2, <2>3
<1>6. /\ ctx.connections = ConnectionsOf(pid) \cup {}
      /\ DOMAIN ctx.dns = AskedBy(pid) \cup {domain}
  BY <1>5, KnownTyping DEF known, Nothing, ConnectionsOf, AskedBy
<1> DEFINE first == Node(ProcessID(pid), ctx.comm)
<1>7. /\ Calls(calls') = {first, Node(DomainID(domain), domain),
                          Edge(ProcessID(pid), DomainID(domain), "resolves_to")}
      /\ calls' # <<>> /\ calls'[1] = first
  BY <1>1, CallsOfThree
<1>8. ASSUME NEW c \in Calls(calls'), c[1] = "node"
      PROVE  /\ c[2] \in NodeIDs
             /\ c[2][1] = "process" /\ c # calls'[1] => c[3] = None
  BY <1>7, <1>8, NodeCall, EdgeCall, Kinds
<1>9. Added(calls') = {<<ProcessID(pid), DomainID(domain), "resolves_to">>}
  <2>1. <<ProcessID(pid), DomainID(domain), "resolves_to">> \in Added(calls')
    BY <1>7, EdgeCall DEF Added
  <2>2. ASSUME NEW c \in Calls(calls'), c[1] = "edge"
        PROVE  c[2] = <<ProcessID(pid), DomainID(domain), "resolves_to">>
    BY <1>7, <2>2, NodeCall, EdgeCall
  <2>3. QED
    BY <2>1, <2>2 DEF Added
<1>10. \A e \in Added(calls') : Asks(e) /\ ~Connects(e)
  BY <1>9, EdgeCall, Kinds DEF Connects, Asks
<1> HIDE DEF first
<1>11. Does(pid, ctx, {}, {domain})
  BY <1>1, <1>2, <1>4, <1>5, <1>6, <1>7, <1>8, <1>9, <1>10 DEF Does, first
<1>12. QED
  BY <1>11

LEMMA ReplyDoes ==
  ASSUME Tables, NEW ts \in 0 .. MaxTime, NEW pid \in Pids, NEW comm \in Comms \cup {None},
         NEW domain \in Domains, NEW answers \in AnswerLists, NEW ttl,
         AddDNSReply(pid, comm, domain, answers, ttl, ts)
  PROVE  \E ctx, C, D : Does(pid, ctx, C, D)
<1> DEFINE known == getOrCreateProcess(pid, comm)
           ips == {answers[i] : i \in DOMAIN answers}
           table == [ip \in DOMAIN known.ipToDomain \cup ips |->
                       IF ip \in ips THEN domain ELSE known.ipToDomain[ip]]
<1>1. PICK ctx : /\ ctx = [known EXCEPT !.dns = Put(@, domain, ips), !.ipToDomain = table]
                 /\ Store(pid, ctx)
  BY DEF AddDNSReply
<1>2. calls = <<>> /\ nodes' = nodes /\ edges' = edges
  BY DEF AddDNSReply, Begin
<1>3. known \in Contexts
  BY KnownTyping
<1>4. known.comm = None => Comm(pid) = None
  BY KnownComm
<1>5. calls' = <<Node(ProcessID(pid), known.comm), Node(DomainID(domain), domain),
                 Edge(ProcessID(pid), DomainID(domain), "resolves_to")>>
               \o AnswerCalls(domain, answers)
  <2>1. \A x, y : [known EXCEPT !.dns = x, !.ipToDomain = y].comm = known.comm
    <3> HIDE DEF known
    <3>1. QED
      BY <1>3 DEF Contexts
  <2>2. QED
    BY <2>1 DEF AddDNSReply
<1> HIDE DEF known, ips, table
<1>6. /\ ctx.connections = known.connections /\ ctx.comm = known.comm
      /\ DOMAIN ctx.dns = DOMAIN known.dns \cup {domain}
  <2>1. DOMAIN Put(known.dns, domain, ips) = DOMAIN known.dns \cup {domain}
    BY DEF Put
  <2>2. QED
    BY <1>1, <1>3, <2>1 DEF Contexts
<1>7. /\ ctx.connections = ConnectionsOf(pid) \cup {}
      /\ DOMAIN ctx.dns = AskedBy(pid) \cup {domain}
  BY <1>6, KnownTyping DEF known, Nothing, ConnectionsOf, AskedBy
<1> DEFINE first == Node(ProcessID(pid), ctx.comm)
           s == <<first, Node(DomainID(domain), domain),
                  Edge(ProcessID(pid), DomainID(domain), "resolves_to")>>
           r == AnswerCalls(domain, answers)
<1>8. IsSequence(s) /\ IsSequence(r)
  <2>1. IsSequence(s)
    BY NodeNodeEdge
  <2>2. DomainID(domain) \in {DomainID(domain)}
    OBVIOUS
  <2>3. QED
    BY <2>1, <2>2, AnswersGrounded
<1>9. /\ Calls(s) = {first, Node(DomainID(domain), domain),
                     Edge(ProcessID(pid), DomainID(domain), "resolves_to")}
      /\ s # <<>> /\ s[1] = first
  BY CallsOfThree
<1>10. \A c \in Calls(r) : \E ip \in IPs : \/ c = Node(IPID(ip), ip)
                                           \/ c = Edge(DomainID(domain), IPID(ip), "resolves_to")
  BY CallsOfAnswers
<1>11. calls' = s \o r
  BY <1>5, <1>6
<1> HIDE DEF s, r
<1>12. Calls(calls') = Calls(s) \cup Calls(r) /\ calls' # <<>> /\ calls'[1] = first
  BY <1>8, <1>9, <1>11, CallsJoin
<1>13. ASSUME NEW c \in Calls(calls'), c[1] = "node"
       PROVE  /\ c[2] \in NodeIDs
              /\ c[2][1] = "process" /\ c # calls'[1] => c[3] = None
  <2>1. CASE c \in Calls(s)
    BY <1>9, <1>12, <1>13, <2>1, NodeCall, EdgeCall, Kinds
  <2>2. CASE c \in Calls(r)
    BY <1>10, <1>13, <2>2, NodeCall, EdgeCall, Kinds
  <2>3. QED
    BY <1>12, <2>1, <2>2
<1>14. <<ProcessID(pid), DomainID(domain), "resolves_to">> \in Added(calls')
  BY <1>9, <1>12, EdgeCall DEF Added
<1>15. ASSUME NEW e \in Added(calls')
       PROVE  \/ e = <<ProcessID(pid), DomainID(domain), "resolves_to">>
              \/ \E ip \in IPs : e = <<DomainID(domain), IPID(ip), "resolves_to">>
  <2>1. PICK c \in Calls(calls') : c[1] = "edge" /\ e = c[2]
    BY DEF Added
  <2>2. CASE c \in Calls(s)
    BY <1>9, <2>1, <2>2, NodeCall, EdgeCall
  <2>3. CASE c \in Calls(r)
    BY <1>10, <2>1, <2>3, NodeCall, EdgeCall
  <2>4. QED
    BY <1>12, <2>2, <2>3
<1>16. \A e \in Added(calls') :
         ~Connects(e) /\ (Asks(e) => e = <<ProcessID(pid), DomainID(domain), "resolves_to">>)
  BY <1>15, EdgeCall, Kinds DEF Connects, Asks
<1>17. Asks(<<ProcessID(pid), DomainID(domain), "resolves_to">>)
  BY EdgeCall, Kinds DEF Asks
<1> HIDE DEF first
<1>18. Does(pid, ctx, {}, {domain})
  BY <1>1, <1>2, <1>4, <1>6, <1>7, <1>12, <1>13, <1>14, <1>16, <1>17 DEF Does, first
<1>19. QED
  BY <1>18

LEMMA ConnectDoes ==
  ASSUME Tables, NEW ts \in 0 .. MaxTime, NEW pid \in Pids, NEW comm \in Comms \cup {None},
         NEW ip \in IPs, NEW port \in Ports, AddTCPConnect(pid, comm, ip, port, ts)
  PROVE  \E ctx, C, D : Does(pid, ctx, C, D)
<1> DEFINE known == getOrCreateProcess(pid, comm)
           from == IF ip \in DOMAIN known.ipToDomain THEN {known.ipToDomain[ip]}
                   ELSE lookupDomainByIP(ip, ts)
           conn(d) == [ip |-> ip, port |-> port, domain |-> d]
           first == Node(ProcessID(pid), known.comm)
           s == <<first, Node(IPID(ip), ip), Node(ServiceID(ip, port), ip),
                  Edge(ProcessID(pid), ServiceID(ip, port), "connects_to"),
                  Edge(ProcessID(pid), IPID(ip), "connects_to")>>
           r(d) == IF d = None THEN <<>>
                   ELSE <<Node(DomainID(d), d),
                          Edge(DomainID(d), ServiceID(ip, port), "resolves_to")>>
<1>1. PICK domain \in from : \E ctx : /\ ctx = [known EXCEPT !.connections = @ \cup {conn(domain)}]
                                      /\ Store(pid, ctx)
                                      /\ calls' = s \o r(domain)
  BY DEF AddTCPConnect
<1> PICK ctx : /\ ctx = [known EXCEPT !.connections = @ \cup {conn(domain)}]
               /\ Store(pid, ctx)
               /\ calls' = s \o r(domain)
  BY <1>1
<1>2. calls = <<>> /\ nodes' = nodes /\ edges' = edges
  BY DEF AddTCPConnect, Begin
<1>3. known \in Contexts
  BY KnownTyping
<1>4. known.comm = None => Comm(pid) = None
  BY KnownComm
<1> HIDE DEF known
<1>5. domain \in Domains \cup {None}
  <2>1. known.ipToDomain \in Maps(IPs, Domains)
    BY <1>3 DEF Contexts
  <2>2. QED
    BY <1>1, <2>1, InMaps, LookupTyping
<1> HIDE DEF from, conn
<1>6. /\ ctx.connections = known.connections \cup {conn(domain)}
      /\ ctx.comm = known.comm /\ ctx.dns = known.dns
  BY <1>1, <1>3 DEF Contexts
<1>7. /\ ctx.connections = ConnectionsOf(pid) \cup {conn(domain)}
      /\ DOMAIN ctx.dns = AskedBy(pid) \cup {}
  BY <1>6, KnownTyping DEF known, Nothing, ConnectionsOf, AskedBy
<1>8. IsSequence(s) /\ IsSequence(r(domain))
  <2>1. ServiceID(ip, port) \in {ServiceID(ip, port)} \cup {DomainID(domain)}
    OBVIOUS
  <2>2. IsSequence(r(domain))
    BY NoCalls, NodeEdge
  <2>3. QED
    BY <2>2, ConnectCalls
<1>9. /\ Calls(s) = {first, Node(IPID(ip), ip), Node(ServiceID(ip, port), ip),
                     Edge(ProcessID(pid), ServiceID(ip, port), "connects_to"),
                     Edge(ProcessID(pid), IPID(ip), "connects_to")}
      /\ s # <<>> /\ s[1] = first
  BY CallsOfFive
<1>10. Calls(r(domain)) = IF domain = None THEN {}
                          ELSE {Node(DomainID(domain), domain),
                                Edge(DomainID(domain), ServiceID(ip, port), "resolves_to")}
  BY CallsOfNone, CallsOfTwo
<1> HIDE DEF s, r
<1>11. Calls(calls') = Calls(s) \cup Calls(r(domain)) /\ calls' # <<>> /\ calls'[1] = first
  BY <1>1, <1>8, <1>9, CallsJoin
<1>12. ASSUME NEW c \in Calls(calls'), c[1] = "node"
       PROVE  /\ c[2] \in NodeIDs
              /\ c[2][1] = "process" /\ c # calls'[1] => c[3] = None
  <2>1. CASE c \in Calls(s)
    BY <1>9, <1>11, <1>12, <2>1, NodeCall, EdgeCall, Kinds
  <2>2. CASE c \in Calls(r(domain))
    <3>1. domain \in Domains /\ c = Node(DomainID(domain), domain)
      BY <1>5, <1>10, <1>12, <2>2, EdgeCall
    <3>2. QED
      BY <3>1, NodeCall, Kinds
  <2>3. QED
    BY <1>11, <2>1, <2>2
<1> DEFINE drawn == <<ProcessID(pid), ServiceID(ip, port), "connects_to">>
<1>13. drawn \in Added(calls')
  BY <1>9, <1>11, EdgeCall DEF Added
<1>14. ASSUME NEW e \in Added(calls')
       PROVE  \/ e = drawn
              \/ e = <<ProcessID(pid), IPID(ip), "connects_to">>
              \/ e = <<DomainID(domain), ServiceID(ip, port), "resolves_to">>
  <2>1. PICK c \in Calls(calls') : c[1] = "edge" /\ e = c[2]
    BY DEF Added
  <2>2. CASE c \in Calls(s)
    BY <1>9, <2>1, <2>2, NodeCall, EdgeCall
  <2>3. CASE c \in Calls(r(domain))
    BY <1>10, <2>1, <2>3, NodeCall, EdgeCall
  <2>4. QED
    BY <1>11, <2>2, <2>3
<1>15. \A e \in Added(calls') : ~Asks(e) /\ (Connects(e) => e = drawn)
  BY <1>14, EdgeCall, Kinds DEF Connects, Asks
<1>16. Connects(drawn)
  BY EdgeCall, Kinds DEF Connects
<1>17. {<<ProcessID(pid), ServiceID(c.ip, c.port), "connects_to">> : c \in {conn(domain)}} = {drawn}
  BY DEF conn
<1> HIDE DEF first, drawn
<1>18. Does(pid, ctx, {conn(domain)}, {})
  BY <1>1, <1>2, <1>4, <1>6, <1>7, <1>11, <1>12, <1>13, <1>15, <1>16, <1>17 DEF Does, first
<1>19. QED
  BY <1>18

-----------------------------------------------------------------------------
(* What the graph and the calls under way say of the processes.            *)
Mirrored == Drawn /\ Placed /\ Labelled

(* Process ids are those of different processes, and of no other nodes.    *)
LEMMA SameProcess == \A p, q : ProcessID(p) = ProcessID(q) => p = q
<1>1. \A p : ProcessID(p)[2] = p
  BY DEF ProcessID
<1>2. QED
  BY <1>1

(* The union of sets, one of which has grown or is new.                    *)
Joined(f) == UNION {f[q] : q \in DOMAIN f}

LEMMA OneMore ==
  ASSUME NEW f, NEW g, NEW p, NEW X, DOMAIN g = DOMAIN f \cup {p},
         \A q \in DOMAIN f : q # p => g[q] = f[q],
         g[p] = (IF p \in DOMAIN f THEN f[p] ELSE {}) \cup X
  PROVE  Joined(g) = Joined(f) \cup X
<1>1. \A e : e \in g[p] <=> (p \in DOMAIN f /\ e \in f[p]) \/ e \in X
  OBVIOUS
<1>2. \A h, e : e \in Joined(h) <=> \E q \in DOMAIN h : e \in h[q]
  BY DEF Joined
<1>3. ASSUME NEW e \in Joined(g) PROVE e \in Joined(f) \/ e \in X
  <2>1. PICK q \in DOMAIN g : e \in g[q]
    BY <1>2
  <2>2. CASE q = p
    BY <1>1, <1>2, <2>1, <2>2
  <2>3. CASE q # p
    <3>1. q \in DOMAIN f /\ e \in f[q]
      BY <2>1, <2>3
    <3>2. QED
      BY <1>2, <3>1
  <2>4. QED
    BY <2>2, <2>3
<1>4. ASSUME NEW e \in Joined(f) PROVE e \in Joined(g)
  <2>1. PICK q \in DOMAIN f : e \in f[q]
    BY <1>2
  <2>2. q \in DOMAIN g /\ e \in g[q]
    BY <1>1, <2>1
  <2>3. QED
    BY <1>2, <2>2
<1>5. ASSUME NEW e \in X PROVE e \in Joined(g)
  BY <1>1, <1>2, <1>5
<1>6. QED
  BY <1>3, <1>4, <1>5

(* The calls of an operation: one more process known, or known better.     *)
LEMMA DoesMirrored ==
  ASSUME Mirrored, NEW pid \in Pids, NEW ctx, NEW C, NEW D, Does(pid, ctx, C, D)
  PROVE  Mirrored'
<1>1. /\ calls = <<>> /\ nodes' = nodes /\ edges' = edges
      /\ ctx.comm = None => Comm(pid) = None
      /\ calls' # <<>> /\ calls'[1] = Node(ProcessID(pid), ctx.comm)
  BY DEF Does
<1>2. /\ DOMAIN processes' = DOMAIN processes \cup {pid} /\ processes'[pid] = ctx
      /\ \A q \in DOMAIN processes : q # pid => processes'[q] = processes[q]
  BY DEF Does, Store, Put
<1>3. Added(calls) = {}
  BY <1>1, CallsOfNone DEF Added
<1>4. Comm(pid)' = ctx.comm /\ \A q : q # pid => Comm(q)' = Comm(q)
  BY <1>2 DEF Comm
<1>5. Drawn'
  <2>more. \A f, g, X : /\ DOMAIN g = DOMAIN f \cup {pid}
                        /\ \A q \in DOMAIN f : q # pid => g[q] = f[q]
                        /\ g[pid] = (IF pid \in DOMAIN f THEN f[pid] ELSE {}) \cup X
                        => Joined(g) = Joined(f) \cup X
    BY OneMore
  <2> DEFINE moreC == {<<ProcessID(pid), ServiceID(c.ip, c.port), "connects_to">> : c \in C}
             moreD == {<<ProcessID(pid), DomainID(d), "resolves_to">> : d \in D}
  <2>0. /\ {e \in Added(calls') : Connects(e)} = moreC
        /\ {e \in Added(calls') : Asks(e)} = moreD
    BY DEF Does
  <2> HIDE DEF moreC, moreD
  <2>1. Connections' = Connections \cup moreC
    <3> DEFINE of(q) == {<<ProcessID(q), ServiceID(c.ip, c.port), "connects_to">> :
                           c \in processes[q].connections}
               of2(q) == {<<ProcessID(q), ServiceID(c.ip, c.port), "connects_to">> :
                            c \in processes'[q].connections}
               f == [q \in DOMAIN processes |-> of(q)]
               g == [q \in DOMAIN processes' |-> of2(q)]
    <3>1. \A q \in DOMAIN processes : q # pid => of2(q) = of(q)
      BY <1>2
    <3>2. of2(pid) = (IF pid \in DOMAIN processes THEN of(pid) ELSE {}) \cup moreC
      BY <1>2 DEF Does, moreC, ConnectionsOf
    <3>3. /\ Connections = UNION {of(q) : q \in DOMAIN processes}
          /\ Connections' = UNION {of2(q) : q \in DOMAIN processes'}
      BY DEF Connections
    <3> HIDE DEF of, of2
    <3>4. /\ DOMAIN f = DOMAIN processes /\ DOMAIN g = DOMAIN processes'
          /\ \A q \in DOMAIN processes : f[q] = of(q)
          /\ \A q \in DOMAIN processes' : g[q] = of2(q)
      OBVIOUS
    <3> HIDE DEF f, g
    <3>5. /\ Connections = Joined(f)
          /\ Connections' = Joined(g)
      BY <3>3, <3>4 DEF Joined
    <3>6. /\ DOMAIN g = DOMAIN f \cup {pid}
          /\ \A q \in DOMAIN f : q # pid => g[q] = f[q]
          /\ g[pid] = (IF pid \in DOMAIN f THEN f[pid] ELSE {}) \cup moreC
      BY <1>2, <3>1, <3>2, <3>4
    <3>7. Joined(g) = Joined(f) \cup moreC
      BY <2>more, <3>6
    <3>8. QED
      BY <3>5, <3>7
  <2>2. Questions' = Questions \cup moreD
    <3> DEFINE of(q) == {<<ProcessID(q), DomainID(d), "resolves_to">> :
                           d \in DOMAIN processes[q].dns}
               of2(q) == {<<ProcessID(q), DomainID(d), "resolves_to">> :
                            d \in DOMAIN processes'[q].dns}
               f == [q \in DOMAIN processes |-> of(q)]
               g == [q \in DOMAIN processes' |-> of2(q)]
    <3>1. \A q \in DOMAIN processes : q # pid => of2(q) = of(q)
      BY <1>2
    <3>2. of2(pid) = (IF pid \in DOMAIN processes THEN of(pid) ELSE {}) \cup moreD
      BY <1>2 DEF Does, moreD, AskedBy
    <3>3. /\ Questions = UNION {of(q) : q \in DOMAIN processes}
          /\ Questions' = UNION {of2(q) : q \in DOMAIN processes'}
      BY DEF Questions
    <3> HIDE DEF of, of2
    <3>4. /\ DOMAIN f = DOMAIN processes /\ DOMAIN g = DOMAIN processes'
          /\ \A q \in DOMAIN processes : f[q] = of(q)
          /\ \A q \in DOMAIN processes' : g[q] = of2(q)
      OBVIOUS
    <3> HIDE DEF f, g
    <3>5. /\ Questions = Joined(f)
          /\ Questions' = Joined(g)
      BY <3>3, <3>4 DEF Joined
    <3>6. /\ DOMAIN g = DOMAIN f \cup {pid}
          /\ \A q \in DOMAIN f : q # pid => g[q] = f[q]
          /\ g[pid] = (IF pid \in DOMAIN f THEN f[pid] ELSE {}) \cup moreD
      BY <1>2, <3>1, <3>2, <3>4
    <3>7. Joined(g) = Joined(f) \cup moreD
      BY <2>more, <3>6
    <3>8. QED
      BY <3>5, <3>7
  <2>3. /\ {e \in edges : Connects(e)} = Connections
        /\ {e \in edges : Asks(e)} = Questions
    BY <1>3 DEF Mirrored, Drawn
  <2>4. /\ {e \in edges' \cup Added(calls') : Connects(e)}
             = {e \in edges : Connects(e)} \cup {e \in Added(calls') : Connects(e)}
        /\ {e \in edges' \cup Added(calls') : Asks(e)}
             = {e \in edges : Asks(e)} \cup {e \in Added(calls') : Asks(e)}
    BY <1>1
  <2>5. {e \in edges' \cup Added(calls') : Connects(e)} = Connections'
    BY <2>0, <2>1, <2>3, <2>4
  <2>6. {e \in edges' \cup Added(calls') : Asks(e)} = Questions'
    BY <2>0, <2>2, <2>3, <2>4
  <2>7. QED
    BY <2>5, <2>6 DEF Drawn, Added, Calls, Connects, Asks
<1>6. Placed'
  <2>1. DOMAIN nodes' \subseteq NodeIDs
    BY <1>1 DEF Mirrored, Placed
  <2>2. \A c \in Calls(calls') : c[1] = "node" => c[2] \in NodeIDs
    BY DEF Does
  <2>3. QED
    BY <2>1, <2>2 DEF Placed, Calls
<1>7. Labelled'
  <2> SUFFICES ASSUME NEW p \in Pids
               PROVE  /\ \A c \in Calls(calls') :
                           c[1] = "node" /\ c[2] = ProcessID(p) => c[3] \in {None, Comm(p)'}
                      /\ \/ ProcessID(p) \in DOMAIN nodes' /\ nodes'[ProcessID(p)] = Comm(p)'
                         \/ ProcessID(p) \notin DOMAIN nodes' /\ p \notin DOMAIN processes'
                         \/ /\ calls' # <<>> /\ calls'[1] = Node(ProcessID(p), Comm(p)')
                            /\ Comm(p)' = None => \/ ProcessID(p) \notin DOMAIN nodes'
                                                  \/ nodes'[ProcessID(p)] = None
    BY DEF Labelled, Calls, Node
  <2>1. \/ ProcessID(p) \in DOMAIN nodes /\ nodes[ProcessID(p)] = Comm(p)
        \/ ProcessID(p) \notin DOMAIN nodes /\ p \notin DOMAIN processes
    BY <1>1 DEF Mirrored, Labelled
  <2>2. ASSUME NEW c \in Calls(calls'), c[1] = "node", c[2] = ProcessID(p)
        PROVE  c[3] \in {None, Comm(p)'}
    <3>1. c[2][1] = "process"
      BY <2>2, Kinds
    <3>2. CASE c = calls'[1]
      <4>1. ProcessID(p) = ProcessID(pid) /\ c[3] = ctx.comm
        BY <1>1, <2>2, <3>2, NodeCall
      <4>2. QED
        BY <1>4, <4>1, SameProcess
    <3>3. CASE c # calls'[1]
      BY <2>2, <3>1, <3>3 DEF Does
    <3>4. QED
      BY <3>2, <3>3
  <2>3. CASE p = pid
    BY <1>1, <1>4, <2>1, <2>2, <2>3 DEF Comm
  <2>4. CASE p # pid
    BY <1>1, <1>2, <1>4, <2>1, <2>2, <2>4
  <2>5. QED
    BY <2>3, <2>4
<1>8. QED
  BY <1>5, <1>6, <1>7 DEF Mirrored

(* A call done is no longer to be done: the processes are the same.        *)
LEMMA StepMirrored ==
  ASSUME Dangling, Mirrored, GraphStep, processes' = processes
  PROVE  Mirrored'
<1>0. PICK S : calls \in Seq(S)
  BY DEF Dangling, IsSequence
<1> DEFINE c == calls[1]
<1>1. /\ calls # <<>> /\ calls' = Tail(calls) /\ Head(calls) = c
      /\ 1 \in 1 .. Len(calls)
      /\ \A k \in 1 .. Len(calls') : k + 1 \in 1 .. Len(calls) /\ calls'[k] = calls[k + 1]
      /\ \A k \in 1 .. Len(calls) : k > 1 => k - 1 \in 1 .. Len(calls')
  BY <1>0, Tails DEF GraphStep
<1>2. Calls(calls) = {c} \cup Calls(calls')
  <2>1. \A k \in 1 .. Len(calls') : calls'[k] \in Calls(calls)
    BY <1>1 DEF Calls
  <2>2. c \in Calls(calls)
    BY <1>1 DEF Calls
  <2>3. ASSUME NEW k \in 1 .. Len(calls), k # 1 PROVE calls[k] \in Calls(calls')
    <3>1. k > 1 /\ k \in Nat /\ k - 1 \in 1 .. Len(calls')
      BY <1>1, <2>3
    <3>2. calls'[k - 1] = calls[(k - 1) + 1] /\ (k - 1) + 1 = k
      BY <1>1, <3>1
    <3>3. QED
      BY <3>1, <3>2 DEF Calls
  <2>4. QED
    BY <2>1, <2>2, <2>3 DEF Calls
<1>3. \/ c[1] = "node" /\ UpsertNode(c[2], c[3])
      \/ c[1] = "edge" /\ AddEdge(c[2])
  BY <1>1 DEF GraphStep
<1>4. Connections' = Connections /\ Questions' = Questions /\ \A p : Comm(p)' = Comm(p)
  BY DEF Connections, Questions, Comm
<1> HIDE DEF c
<1>5. edges' \cup Added(calls') = edges \cup Added(calls)
  <2>1. CASE c[1] = "node" /\ UpsertNode(c[2], c[3])
    <3>1. Added(calls') = Added(calls) /\ edges' = edges
      BY <1>2, <2>1 DEF Added, UpsertNode
    <3>2. QED
      BY <3>1
  <2>2. CASE c[1] = "edge" /\ AddEdge(c[2])
    <3>1. Added(calls) = {c[2]} \cup Added(calls')
      BY <1>2, <2>2 DEF Added
    <3>2. QED
      BY <2>2, <3>1 DEF AddEdge
  <2>3. QED
    BY <1>3, <2>1, <2>2
<1>6. Drawn'
  <2>1. /\ {e \in edges' \cup Added(calls') : Connects(e)} = Connections'
        /\ {e \in edges' \cup Added(calls') : Asks(e)} = Questions'
    BY <1>4, <1>5 DEF Mirrored, Drawn
  <2>2. QED
    BY <2>1 DEF Drawn, Added, Calls, Connects, Asks
<1>7. Placed'
  <2>1. DOMAIN nodes' \subseteq NodeIDs
    BY <1>2, <1>3 DEF Mirrored, Placed, UpsertNode, AddEdge
  <2>2. \A b \in Calls(calls') : b[1] = "node" => b[2] \in NodeIDs
    BY <1>2 DEF Mirrored, Placed
  <2>3. QED
    BY <2>1, <2>2 DEF Placed, Calls
<1>8. Labelled'
  <2> SUFFICES ASSUME NEW p \in Pids
               PROVE  /\ \A b \in Calls(calls') :
                           b[1] = "node" /\ b[2] = ProcessID(p) => b[3] \in {None, Comm(p)}
                      /\ \/ ProcessID(p) \in DOMAIN nodes' /\ nodes'[ProcessID(p)] = Comm(p)
                         \/ ProcessID(p) \notin DOMAIN nodes' /\ p \notin DOMAIN processes
    BY <1>4 DEF Labelled, Calls
  <2>1. \A b \in Calls(calls) :
          b[1] = "node" /\ b[2] = ProcessID(p) => b[3] \in {None, Comm(p)}
    BY DEF Mirrored, Labelled
  <2>2. \/ ProcessID(p) \in DOMAIN nodes /\ nodes[ProcessID(p)] = Comm(p)
        \/ ProcessID(p) \notin DOMAIN nodes /\ p \notin DOMAIN processes
        \/ /\ c = Node(ProcessID(p), Comm(p))
           /\ Comm(p) = None => \/ ProcessID(p) \notin DOMAIN nodes
                                \/ nodes[ProcessID(p)] = None
    BY DEF Mirrored, Labelled, c
  <2>3. p \notin DOMAIN processes => Comm(p) = None
    BY DEF Comm
  <2>4. CASE c[1] = "node" /\ UpsertNode(c[2], c[3]) /\ c[2] = ProcessID(p)
    <3>1. c[3] \in {None, Comm(p)}
      BY <1>2, <2>1, <2>4
    <3>2. /\ ProcessID(p) \in DOMAIN nodes'
          /\ nodes'[ProcessID(p)] = IF c[3] # None \/ ProcessID(p) \notin DOMAIN nodes
                                    THEN c[3] ELSE nodes[ProcessID(p)]
      BY <2>4, StoreAssumption DEF UpsertNode
    <3>3. c = Node(ProcessID(p), Comm(p)) => c[3] = Comm(p)
      BY NodeCall
    <3>4. nodes'[ProcessID(p)] = Comm(p)
      BY <2>2, <2>3, <3>1, <3>2, <3>3
    <3>5. QED
      BY <1>2, <2>1, <3>2, <3>4
  <2>5. CASE c[1] = "node" /\ UpsertNode(c[2], c[3]) /\ c[2] # ProcessID(p)
    <3>1. c # Node(ProcessID(p), Comm(p))
      BY <2>5, NodeCall
    <3>2. /\ ProcessID(p) \in DOMAIN nodes' <=> ProcessID(p) \in DOMAIN nodes
          /\ ProcessID(p) \in DOMAIN nodes => nodes'[ProcessID(p)] = nodes[ProcessID(p)]
      BY <2>5 DEF UpsertNode
    <3>3. QED
      BY <1>2, <2>1, <2>2, <3>1, <3>2
  <2>6. CASE c[1] = "edge" /\ AddEdge(c[2])
    <3>1. c # Node(ProcessID(p), Comm(p))
      BY <2>6, NodeCall
    <3>2. QED
      BY <1>2, <2>1, <2>2, <2>6, <3>1 DEF AddEdge
  <2>7. QED
    BY <1>3, <2>4, <2>5, <2>6
<1>9. QED
  BY <1>6, <1>7, <1>8 DEF Mirrored

LEMMA MirroredAlways == Spec => []Mirrored
<1>1. Init => Mirrored
  <2> SUFFICES ASSUME Init PROVE Mirrored
    OBVIOUS
  <2>1. nodes = <<>> /\ edges = {} /\ calls = <<>> /\ DOMAIN processes = {}
    BY DEF Init, GraphInit, Nothing
  <2>2. Calls(calls) = {} /\ Added(calls) = {}
    BY <2>1, CallsOfNone DEF Added
  <2>3. QED
    BY <2>1, <2>2 DEF Mirrored, Drawn, Placed, Labelled, Connections, Questions
<1>2. Tables /\ Dangling /\ Mirrored /\ [Next]_vars => Mirrored'
  <2> SUFFICES ASSUME Tables, Dangling, Mirrored, [Next]_vars PROVE Mirrored'
    OBVIOUS
  <2>1. CASE UpdateGraph
    BY <2>1, StepMirrored DEF UpdateGraph, storeVars
  <2>2. CASE Emit \/ UNCHANGED vars
    <3>1. UNCHANGED <<nodes, edges, calls, processes>>
      BY <2>2 DEF Emit, vars, graphVars, storeVars
    <3>2. QED
      BY <3>1 DEF Mirrored, Drawn, Placed, Labelled, Connections, Questions, Comm, Added, Calls,
                  Connects, Asks
  <2>3. <<>> \in AnswerLists
    BY StoreAssumption DEF AnswerLists
  <2>4. ASSUME NEW ts \in 0 .. MaxTime, Operation(ts) PROVE Mirrored'
    <3>1. \E pid \in Pids : \E ctx, C, D : Does(pid, ctx, C, D)
      BY <2>3, <2>4, UpsertDoes, QueryDoes, ReplyDoes, ConnectDoes DEF Operation
    <3>2. QED
      BY <3>1, DoesMirrored
  <2>5. QED
    BY <2>1, <2>2, <2>4 DEF Next
<1>3. Spec => []Dangling
  BY DanglingInit, DanglingNext, PTL DEF Spec
<1>4. QED
  BY <1>1, <1>2, <1>3, TablesAlways, PTL DEF Spec

(* The store's tables and the graph's nodes are of their types, whatever   *)
(* order events come in.                                                   *)
THEOREM Typing == Spec => []TypeOK
<1>1. ASSUME Tables, Placed PROVE TypeOK
  <2>1. /\ DOMAIN processes \subseteq Pids
        /\ \A pid \in DOMAIN processes : processes[pid] \in Contexts
    BY <1>1, InMaps DEF Tables
  <2>2. ASSUME NEW pid \in DOMAIN processes
        PROVE  /\ processes[pid].comm \in Comms \cup {None}
               /\ processes[pid].ppid \in Pids \cup {None}
               /\ processes[pid].dns \in Maps(Domains, SUBSET IPs)
               /\ processes[pid].ipToDomain \in Maps(IPs, Domains)
               /\ processes[pid].connections
                    \subseteq [ip : IPs, port : Ports, domain : Domains \cup {None}]
    <3>1. processes[pid] \in Contexts
      BY <2>1
    <3>2. QED
      BY <3>1 DEF Contexts
  <2>3. \A K, V, f : f \in Maps(K, V) => IsMap(f, K, V)
    BY InMaps DEF IsMap
  <2>4. /\ DOMAIN globalDomain \subseteq Domains
        /\ \A d \in DOMAIN globalDomain : globalDomain[d] \in Maps(IPs, Nat)
        /\ DOMAIN globalIP \subseteq IPs
        /\ \A ip \in DOMAIN globalIP : globalIP[ip] \in Maps(Domains, Nat)
    BY <1>1, InMaps DEF Tables
  <2>5. QED
    BY <1>1, <2>1, <2>2, <2>3, <2>4 DEF TypeOK, Tables, Placed
<1>2. QED
  BY <1>1, TablesAlways, MirroredAlways, PTL DEF Mirrored

(* Between two operations of the store (store.go) the graph (graph.go) is  *)
(* what the processes account for: each has its node with its name, and    *)
(* the edges to services and to domains are its connections and questions. *)
THEOREM Mirror == Spec => []GraphMirrors
<1>1. ASSUME Mirrored, DOMAIN processes \subseteq Pids PROVE GraphMirrors
  <2> SUFFICES ASSUME calls = <<>> PROVE GraphMirrors
    BY DEF GraphMirrors
  <2>1. edges \cup Added(calls) = edges
    BY CallsOfNone DEF Added
  <2>2. /\ {e \in edges : Connects(e)} = Connections
        /\ {e \in edges : Asks(e)} = Questions
    BY <1>1, <2>1 DEF Mirrored, Drawn
  <2>3. ASSUME NEW pid \in DOMAIN processes
        PROVE  ProcessID(pid) \in DOMAIN nodes /\ nodes[ProcessID(pid)] = processes[pid].comm
    BY <1>1 DEF Mirrored, Labelled, Comm
  <2>4. QED
    BY <2>2, <2>3 DEF GraphMirrors, Connects, Asks, Connections, Questions
<1>2. Tables => DOMAIN processes \subseteq Pids
  BY InMaps DEF Tables
<1>3. QED
  BY <1>1, <1>2, TablesAlways, MirroredAlways, PTL
=============================================================================
