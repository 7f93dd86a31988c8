------------------------------ MODULE StoreProofs ------------------------------
(***************************************************************************)
(* Theorems about the DNS tables of Store for any processes, domains,      *)
(* addresses and TTLs, any skew a TTL outlasts and any number of           *)
(* operations: the two indexes agree, no pair is forgotten early, and a    *)
(* connect is attributed to the domain that the replies give it.           *)
(***************************************************************************)
EXTENDS Store, WellFoundedInduction, TLAPS

(* Deleting keys leaves the empty map exactly when there are no others.    *)
LEMMA WithoutAll ==
  ASSUME NEW f, NEW K
  PROVE  Without(f, K) = Nothing <=> DOMAIN f \subseteq K
<1>1. DOMAIN Without(f, K) = DOMAIN f \ K /\ DOMAIN Nothing = {}
  BY DEF Without, Nothing
<1>2. ASSUME DOMAIN f \subseteq K PROVE Without(f, K) = Nothing
  <2>1. DOMAIN f \ K = {}
    BY <1>2
  <2>2. QED
    BY <2>1 DEF Without, Nothing
<1>3. ASSUME Without(f, K) = Nothing PROVE DOMAIN f \subseteq K
  BY <1>1, <1>3
<1>4. QED
  BY <1>2, <1>3

(* A map with a key is not the empty map.                                  *)
LEMMA NonEmpty ==
  ASSUME NEW f, NEW x \in DOMAIN f
  PROVE  f # Nothing
BY DEF Nothing

(* Two empty indexes agree.                                                *)
LEMMA InitAgrees == Init => IndexesAgree
BY DEF Init, IndexesAgree, Nothing

(* The pairs of the table after a reply: those of before and the new ones, *)
(* in both indexes with the same expiry.                                   *)
LEMMA AddingAgrees ==
  ASSUME IndexesAgree, NEW domain, NEW ips, NEW ip0 \in ips, NEW expiry,
         addGlobalDNS(domain, ips, expiry)
  PROVE  IndexesAgree'
<1> DEFINE D == At(globalDomain, domain)
           E == Raise(D, ips, expiry)
           J(ip) == Raise(At(globalIP, ip), {domain}, expiry)
<1>1. /\ globalDomain' = [x \in DOMAIN globalDomain \cup {domain} |->
                            IF x = domain THEN E ELSE globalDomain[x]]
      /\ globalIP' = [ip \in DOMAIN globalIP \cup ips |->
                        IF ip \in ips THEN J(ip) ELSE globalIP[ip]]
  BY DEF addGlobalDNS, Put
<1>2. \A ip : ip \in DOMAIN D <=> ip \in DOMAIN globalIP /\ domain \in DOMAIN globalIP[ip]
  BY DEF IndexesAgree, At, Nothing
<1>3. \A ip \in DOMAIN D : D[ip] = globalIP[ip][domain]
  BY DEF IndexesAgree, At, Nothing
<1>4. /\ DOMAIN E = DOMAIN D \cup ips
      /\ \A ip \in DOMAIN E : E[ip] = IF ip \in ips /\ (ip \notin DOMAIN D \/ expiry > D[ip])
                                      THEN expiry ELSE D[ip]
  BY DEF Raise
<1>5. ASSUME NEW ip
      PROVE  /\ DOMAIN J(ip) = DOMAIN At(globalIP, ip) \cup {domain}
             /\ J(ip)[domain] = IF ip \notin DOMAIN D \/ expiry > D[ip] THEN expiry ELSE D[ip]
             /\ \A d \in DOMAIN At(globalIP, ip) : d # domain => J(ip)[d] = At(globalIP, ip)[d]
  <2>1. domain \in DOMAIN At(globalIP, ip) <=> ip \in DOMAIN D
    BY <1>2 DEF At, Nothing
  <2>2. ip \in DOMAIN D => At(globalIP, ip)[domain] = D[ip]
    BY <1>2, <1>3 DEF At
  <2> HIDE DEF D
  <2>3. QED
    BY <2>1, <2>2 DEF Raise
<1> HIDE DEF D, E, J
<1>6. \A ip \in DOMAIN globalIP : At(globalIP, ip) = globalIP[ip]
  BY DEF At
<1>7. ASSUME NEW d \in DOMAIN globalDomain'
      PROVE  /\ globalDomain'[d] # Nothing
             /\ \A ip \in DOMAIN globalDomain'[d] :
                  /\ ip \in DOMAIN globalIP' /\ d \in DOMAIN globalIP'[ip]
                  /\ globalIP'[ip][d] = globalDomain'[d][ip]
  <2>1. CASE d = domain
    <3>1. globalDomain'[d] = E /\ ip0 \in DOMAIN E
      BY <1>1, <1>4, <2>1
    <3>2. ASSUME NEW ip \in DOMAIN E, ip \in ips
          PROVE  /\ ip \in DOMAIN globalIP' /\ domain \in DOMAIN globalIP'[ip]
                 /\ globalIP'[ip][domain] = E[ip]
      <4>1. ip \in DOMAIN globalIP' /\ globalIP'[ip] = J(ip)
        BY <1>1, <3>2
      <4>2. E[ip] = IF ip \notin DOMAIN D \/ expiry > D[ip] THEN expiry ELSE D[ip]
        BY <1>4, <3>2
      <4>3. QED
        BY <1>5, <4>1, <4>2
    <3>3. ASSUME NEW ip \in DOMAIN E, ip \notin ips
          PROVE  /\ ip \in DOMAIN globalIP' /\ domain \in DOMAIN globalIP'[ip]
                 /\ globalIP'[ip][domain] = E[ip]
      <4>1. ip \in DOMAIN D /\ E[ip] = D[ip]
        BY <1>4, <3>3
      <4>2. ip \in DOMAIN globalIP /\ globalIP'[ip] = globalIP[ip] /\ ip \in DOMAIN globalIP'
        BY <1>1, <1>2, <3>3, <4>1
      <4>3. QED
        BY <1>2, <1>3, <4>1, <4>2
    <3>4. QED
      BY <2>1, <3>1, <3>2, <3>3, NonEmpty
  <2>2. CASE d # domain
    <3>1. d \in DOMAIN globalDomain /\ globalDomain'[d] = globalDomain[d]
      BY <1>1, <2>2
    <3>2. ASSUME NEW ip \in DOMAIN globalDomain[d]
          PROVE  /\ ip \in DOMAIN globalIP' /\ d \in DOMAIN globalIP'[ip]
                 /\ globalIP'[ip][d] = globalDomain[d][ip]
      <4>1. /\ ip \in DOMAIN globalIP /\ d \in DOMAIN globalIP[ip]
            /\ globalIP[ip][d] = globalDomain[d][ip]
        BY <3>1 DEF IndexesAgree
      <4>2. ip \in DOMAIN globalIP' /\ globalIP'[ip] = IF ip \in ips THEN J(ip) ELSE globalIP[ip]
        BY <1>1, <4>1
      <4>3. d \in DOMAIN J(ip) /\ J(ip)[d] = globalIP[ip][d]
        BY <1>5, <1>6, <2>2, <4>1
      <4>4. QED
        BY <4>1, <4>2, <4>3
    <3>3. QED
      BY <3>1, <3>2 DEF IndexesAgree
  <2>3. QED
    BY <2>1, <2>2
<1>8. ASSUME NEW ip \in DOMAIN globalIP'
      PROVE  /\ globalIP'[ip] # Nothing
             /\ \A d \in DOMAIN globalIP'[ip] :
                  d \in DOMAIN globalDomain' /\ ip \in DOMAIN globalDomain'[d]
  <2>1. DOMAIN globalDomain' = DOMAIN globalDomain \cup {domain}
    BY <1>1
  <2>2. ASSUME NEW d \in DOMAIN globalDomain, d # domain
        PROVE  globalDomain'[d] = globalDomain[d]
    BY <1>1, <2>2
  <2>3. globalDomain'[domain] = E
    BY <1>1
  <2>4. ASSUME ip \in DOMAIN globalIP, NEW d \in DOMAIN globalIP[ip]
        PROVE  d \in DOMAIN globalDomain' /\ ip \in DOMAIN globalDomain'[d]
    <3>1. d \in DOMAIN globalDomain /\ ip \in DOMAIN globalDomain[d]
      BY <2>4 DEF IndexesAgree
    <3>2. d = domain => ip \in DOMAIN E
      BY <1>2, <1>4, <2>4
    <3>3. QED
      BY <2>1, <2>2, <2>3, <3>1, <3>2
  <2>5. CASE ip \in ips
    <3>1. globalIP'[ip] = J(ip)
      BY <1>1, <2>5
    <3>2. domain \in DOMAIN J(ip) /\ ip \in DOMAIN E
      BY <1>4, <1>5, <2>5
    <3>3. ASSUME NEW d \in DOMAIN J(ip), d # domain
          PROVE  ip \in DOMAIN globalIP /\ d \in DOMAIN globalIP[ip]
      <4>1. DOMAIN J(ip) = DOMAIN At(globalIP, ip) \cup {domain}
        BY <1>5
      <4>2. d \in DOMAIN At(globalIP, ip)
        BY <3>3, <4>1
      <4>3. QED
        BY <4>2 DEF At, Nothing
    <3>4. QED
      BY <2>1, <2>3, <2>4, <3>1, <3>2, <3>3, NonEmpty
  <2>6. CASE ip \notin ips
    <3>1. ip \in DOMAIN globalIP /\ globalIP'[ip] = globalIP[ip]
      BY <1>1, <2>6
    <3>2. QED
      BY <2>4, <3>1 DEF IndexesAgree
  <2>7. QED
    BY <2>5, <2>6
<1>9. QED
  BY <1>7, <1>8 DEF IndexesAgree, Nothing

(* Deleting the pairs of ip with some of its domains. *)
LEMMA DeletingAgrees ==
  ASSUME IndexesAgree, NEW ip, NEW domains \in SUBSET DOMAIN At(globalIP, ip),
         deleteGlobalPairs(domains, ip)
  PROVE  IndexesAgree'
<1> DEFINE kept(d) == IF d \in domains THEN Without(globalDomain[d], {ip}) ELSE globalDomain[d]
           left == Without(At(globalIP, ip), domains)
<1>1. /\ globalDomain' = [d \in {e \in DOMAIN globalDomain : kept(e) # Nothing} |-> kept(d)]
      /\ globalIP' = IF left = Nothing THEN Without(globalIP, {ip}) ELSE Put(globalIP, ip, left)
  BY DEF deleteGlobalPairs
<1>2. /\ DOMAIN left = DOMAIN At(globalIP, ip) \ domains
      /\ \A d \in DOMAIN left : left[d] = At(globalIP, ip)[d]
  BY DEF Without
<1>3. left = Nothing <=> DOMAIN left = {}
  BY <1>2, WithoutAll
<1>4. ASSUME NEW d \in DOMAIN globalDomain
      PROVE  /\ DOMAIN kept(d) = IF d \in domains THEN DOMAIN globalDomain[d] \ {ip}
                                 ELSE DOMAIN globalDomain[d]
             /\ \A x \in DOMAIN kept(d) : kept(d)[x] = globalDomain[d][x]
  BY DEF Without
<1> HIDE DEF kept, left
<1>5. ASSUME NEW x
      PROVE  /\ x # ip => (x \in DOMAIN globalIP' <=> x \in DOMAIN globalIP)
             /\ x # ip /\ x \in DOMAIN globalIP => globalIP'[x] = globalIP[x]
             /\ ip \in DOMAIN globalIP' <=> left # Nothing
             /\ left # Nothing => globalIP'[ip] = left
  BY <1>1 DEF Put, Without
<1>6. \A d : d \in DOMAIN left => /\ ip \in DOMAIN globalIP /\ d \in DOMAIN globalIP[ip]
                                /\ d \notin domains /\ left[d] = globalIP[ip][d]
  BY <1>2 DEF At, Nothing
<1>7. ASSUME NEW d \in DOMAIN globalDomain'
      PROVE  /\ globalDomain'[d] # Nothing
             /\ \A x \in DOMAIN globalDomain'[d] :
                  /\ x \in DOMAIN globalIP' /\ d \in DOMAIN globalIP'[x]
                  /\ globalIP'[x][d] = globalDomain'[d][x]
  <2>1. d \in DOMAIN globalDomain /\ kept(d) # Nothing /\ globalDomain'[d] = kept(d)
    BY <1>1
  <2>2. ASSUME NEW x \in DOMAIN kept(d)
        PROVE  /\ x \in DOMAIN globalIP' /\ d \in DOMAIN globalIP'[x]
               /\ globalIP'[x][d] = kept(d)[x]
    <3>1. x \in DOMAIN globalDomain[d] /\ kept(d)[x] = globalDomain[d][x]
      BY <1>4, <2>1, <2>2
    <3>2. /\ x \in DOMAIN globalIP /\ d \in DOMAIN globalIP[x]
          /\ globalIP[x][d] = globalDomain[d][x]
      BY <2>1, <3>1 DEF IndexesAgree
    <3>3. CASE x # ip
      BY <1>5, <3>1, <3>2, <3>3
    <3>4. CASE x = ip
      <4>1. d \notin domains
        BY <1>4, <2>1, <2>2, <3>4
      <4>2. d \in DOMAIN left /\ left[d] = globalIP[ip][d]
        BY <1>2, <3>2, <3>4, <4>1 DEF At
      <4>3. left # Nothing
        BY <4>2, NonEmpty
      <4>4. QED
        BY <1>5, <3>1, <3>2, <3>4, <4>2, <4>3
    <3>5. QED
      BY <3>3, <3>4
  <2>3. QED
    BY <2>1, <2>2
<1>8. ASSUME NEW x \in DOMAIN globalIP'
      PROVE  /\ globalIP'[x] # Nothing
             /\ \A d \in DOMAIN globalIP'[x] :
                  d \in DOMAIN globalDomain' /\ x \in DOMAIN globalDomain'[d]
  <2>1. ASSUME NEW d \in DOMAIN globalDomain, x \in DOMAIN globalDomain[d],
               x # ip \/ d \notin domains
        PROVE  d \in DOMAIN globalDomain' /\ x \in DOMAIN globalDomain'[d]
    <3>1. x \in DOMAIN kept(d)
      BY <1>4, <2>1
    <3>2. kept(d) # Nothing
      BY <3>1, NonEmpty
    <3>3. QED
      BY <1>1, <3>1, <3>2
  <2>2. CASE x # ip
    <3>1. x \in DOMAIN globalIP /\ globalIP'[x] = globalIP[x]
      BY <1>5, <2>2
    <3>2. QED
      BY <2>1, <2>2, <3>1 DEF IndexesAgree
  <2>3. CASE x = ip
    <3>1. left # Nothing /\ globalIP'[x] = left
      BY <1>5, <2>3
    <3>2. QED
      BY <1>6, <2>1, <2>3, <3>1 DEF IndexesAgree
  <2>4. QED
    BY <2>2, <2>3
<1>9. QED
  BY <1>7, <1>8 DEF IndexesAgree, Nothing

(* The two indexes of the DNS table mirror each other after every reply    *)
(* and every lookup, whatever order the timestamps come in.                *)
THEOREM Agreement == Spec => []IndexesAgree
<1>1. IndexesAgree /\ [Next]_vars => IndexesAgree'
  <2> SUFFICES ASSUME IndexesAgree, [Next]_vars PROVE IndexesAgree'
    OBVIOUS
  <2>1. CASE UNCHANGED <<globalDomain, globalIP>>
    BY <2>1 DEF IndexesAgree, Nothing
  <2>2. ASSUME NEW pid, NEW ppid, NEW comm, NEW ts, UpsertProcess(pid, ppid, comm, ts)
        PROVE  IndexesAgree'
    BY <2>1, <2>2 DEF UpsertProcess
  <2>3. ASSUME NEW pid, NEW comm, NEW domain, NEW ts, AddDNSQuery(pid, comm, domain, ts)
        PROVE  IndexesAgree'
    BY <2>1, <2>3 DEF AddDNSQuery
  <2>4. ASSUME NEW pid, NEW comm, NEW domain, NEW answers, NEW ttl, NEW ts,
               AddDNSReply(pid, comm, domain, answers, ttl, ts)
        PROVE  IndexesAgree'
    <3>1. PICK ips : \/ ips # {} /\ addGlobalDNS(domain, ips, ts + ttl)
                     \/ UNCHANGED <<globalDomain, globalIP>>
      BY <2>4 DEF AddDNSReply
    <3>2. QED
      BY <2>1, <3>1, AddingAgrees
  <2>5. ASSUME NEW pid, NEW comm, NEW ip, NEW port, NEW ts,
               AddTCPConnect(pid, comm, ip, port, ts)
        PROVE  IndexesAgree'
    <3>1. \/ UNCHANGED <<globalDomain, globalIP>>
          \/ deleteGlobalPairs(Expired(ip, ts), ip)
      BY <2>5 DEF AddTCPConnect
    <3>2. Expired(ip, ts) \in SUBSET DOMAIN At(globalIP, ip)
      BY DEF Expired
    <3>3. QED
      BY <2>1, <3>1, <3>2, DeletingAgrees
  <2>6. CASE UpdateGraph \/ Emit \/ UNCHANGED vars
    BY <2>1, <2>6 DEF UpdateGraph, Emit, vars, storeVars
  <2>7. QED
    BY <2>2, <2>3, <2>4, <2>5, <2>6 DEF Next, Operation
<1>2. QED
  BY <1>1, InitAgrees, PTL DEF Spec

-----------------------------------------------------------------------------
(* Expiries and timestamps are numbers. *)
Numbers == /\ \A ip \in DOMAIN globalIP : \A d \in DOMAIN globalIP[ip] : globalIP[ip][d] \in Nat
           /\ latest \in Nat

(* What happens to the pair of d and ip in a step that keeps the promise.  *)
Lasting(d, ip) ==
  Remembered(d, ip) =>
    IF Remembered(d, ip)' THEN globalIP'[ip][d] >= globalIP[ip][d]
    ELSE globalIP[ip][d] <= latest'

(* A reply shortens and forgets no pair.                                   *)
LEMMA AddingLasts ==
  ASSUME Numbers, NEW domain, NEW ips, NEW expiry \in Nat, addGlobalDNS(domain, ips, expiry)
  PROVE  /\ \A ip \in DOMAIN globalIP' :
              \A d \in DOMAIN globalIP'[ip] : globalIP'[ip][d] \in Nat
         /\ \A ip, d : Lasting(d, ip)
<1> DEFINE J(ip) == Raise(At(globalIP, ip), {domain}, expiry)
<1>1. globalIP' = [ip \in DOMAIN globalIP \cup ips |-> IF ip \in ips THEN J(ip) ELSE globalIP[ip]]
  BY DEF addGlobalDNS
<1>2. ASSUME NEW ip, NEW d \in DOMAIN At(globalIP, ip)
      PROVE  ip \in DOMAIN globalIP /\ d \in DOMAIN globalIP[ip] /\ At(globalIP, ip) = globalIP[ip]
  BY DEF At, Nothing
<1>3. ASSUME NEW ip
      PROVE  /\ DOMAIN J(ip) = DOMAIN At(globalIP, ip) \cup {domain}
             /\ \A d \in DOMAIN J(ip) :
                  J(ip)[d] = IF d = domain /\ (d \notin DOMAIN At(globalIP, ip)
                                               \/ expiry > At(globalIP, ip)[d])
                             THEN expiry ELSE At(globalIP, ip)[d]
  BY DEF Raise
<1> HIDE DEF J
<1>4. ASSUME NEW ip, NEW d \in DOMAIN J(ip) PROVE J(ip)[d] \in Nat
  <2>1. CASE J(ip)[d] = expiry
    BY <2>1
  <2>2. CASE J(ip)[d] # expiry
    <3>1. d \in DOMAIN At(globalIP, ip) /\ J(ip)[d] = At(globalIP, ip)[d]
      BY <1>3, <1>4, <2>2
    <3>2. QED
      BY <1>2, <3>1 DEF Numbers
  <2>3. QED
    BY <2>1, <2>2
<1>5. ASSUME NEW ip, NEW d, Remembered(d, ip)
      PROVE  /\ d \in DOMAIN J(ip) /\ globalIP[ip][d] \in Nat
             /\ J(ip)[d] \in {globalIP[ip][d], expiry}
             /\ J(ip)[d] = expiry => expiry > globalIP[ip][d] \/ expiry = globalIP[ip][d]
  <2>1. At(globalIP, ip) = globalIP[ip] /\ d \in DOMAIN At(globalIP, ip)
    BY <1>5 DEF At, Remembered
  <2>2. globalIP[ip][d] \in Nat
    BY <1>5 DEF Numbers, Remembered
  <2>3. d \in DOMAIN J(ip)
    BY <1>3, <2>1
  <2>4. J(ip)[d] = IF d = domain /\ expiry > globalIP[ip][d] THEN expiry ELSE globalIP[ip][d]
    BY <1>3, <2>1, <2>3
  <2>5. QED
    BY <2>2, <2>3, <2>4
<1>6. ASSUME NEW ip \in DOMAIN globalIP', NEW d \in DOMAIN globalIP'[ip]
      PROVE  globalIP'[ip][d] \in Nat
  BY <1>1, <1>4, <1>6 DEF Numbers
<1>7. ASSUME NEW ip, NEW d, Remembered(d, ip)
      PROVE  Remembered(d, ip)' /\ globalIP'[ip][d] >= globalIP[ip][d]
  <2>1. ip \in DOMAIN globalIP /\ d \in DOMAIN globalIP[ip] /\ ip \in DOMAIN globalIP'
    BY <1>1, <1>7 DEF Remembered
  <2>2. CASE ip \in ips
    <3>1. globalIP'[ip] = J(ip)
      BY <1>1, <2>2
    <3>2. J(ip)[d] >= globalIP[ip][d]
      BY <1>5, <1>7
    <3>3. QED
      BY <1>5, <1>7, <2>1, <3>1, <3>2 DEF Remembered
  <2>3. CASE ip \notin ips
    <3>1. globalIP'[ip] = globalIP[ip] /\ globalIP[ip][d] \in Nat
      BY <1>1, <2>1, <2>3 DEF Numbers
    <3>2. QED
      BY <2>1, <3>1 DEF Remembered
  <2>4. QED
    BY <2>2, <2>3
<1>8. QED
  BY <1>6, <1>7 DEF Lasting

(* A lookup forgets only pairs that have expired at its timestamp.         *)
LEMMA DeletingLasts ==
  ASSUME Numbers, NEW ip0, NEW ts \in Nat, deleteGlobalPairs(Expired(ip0, ts), ip0),
         latest' \in Nat, ts <= latest'
  PROVE  /\ \A ip \in DOMAIN globalIP' :
              \A d \in DOMAIN globalIP'[ip] : globalIP'[ip][d] \in Nat
         /\ \A ip, d : Lasting(d, ip)
<1> DEFINE left == Without(At(globalIP, ip0), Expired(ip0, ts))
<1>1. globalIP' = IF left = Nothing THEN Without(globalIP, {ip0}) ELSE Put(globalIP, ip0, left)
  BY DEF deleteGlobalPairs
<1>2. /\ DOMAIN left = DOMAIN At(globalIP, ip0) \ Expired(ip0, ts)
      /\ \A d \in DOMAIN left : left[d] = At(globalIP, ip0)[d]
  BY DEF Without
<1>3. \A d : d \in DOMAIN left => /\ ip0 \in DOMAIN globalIP /\ d \in DOMAIN globalIP[ip0]
                                /\ left[d] = globalIP[ip0][d]
  BY <1>2 DEF At, Nothing
<1>4. ASSUME NEW d, Remembered(d, ip0), d \notin DOMAIN left
      PROVE  globalIP[ip0][d] <= ts
  BY <1>2, <1>4 DEF Remembered, At, Expired
<1> HIDE DEF left
<1>5. ASSUME NEW x
      PROVE  /\ x # ip0 => (x \in DOMAIN globalIP' <=> x \in DOMAIN globalIP)
             /\ x # ip0 /\ x \in DOMAIN globalIP => globalIP'[x] = globalIP[x]
             /\ ip0 \in DOMAIN globalIP' <=> left # Nothing
             /\ left # Nothing => globalIP'[ip0] = left
  BY <1>1 DEF Put, Without
<1>6. ASSUME NEW ip \in DOMAIN globalIP', NEW d \in DOMAIN globalIP'[ip]
      PROVE  globalIP'[ip][d] \in Nat
  <2>1. /\ ip \in DOMAIN globalIP /\ d \in DOMAIN globalIP[ip]
        /\ globalIP'[ip][d] = globalIP[ip][d]
    BY <1>3, <1>5, <1>6
  <2>2. QED
    BY <2>1 DEF Numbers
<1>7. ASSUME NEW ip, NEW d, Remembered(d, ip) PROVE Lasting(d, ip)
  <2>1. globalIP[ip][d] \in Nat
    BY <1>7 DEF Numbers, Remembered
  <2>2. CASE ip # ip0
    <3>1. Remembered(d, ip)' /\ globalIP'[ip][d] = globalIP[ip][d]
      BY <1>5, <1>7, <2>2 DEF Remembered
    <3>2. QED
      BY <2>1, <3>1 DEF Lasting
  <2>3. CASE ip = ip0 /\ d \in DOMAIN left
    <3>1. left # Nothing
      BY <2>3, NonEmpty
    <3>2. Remembered(d, ip)' /\ globalIP'[ip][d] = globalIP[ip][d]
      BY <1>3, <1>5, <2>3, <3>1 DEF Remembered
    <3>3. QED
      BY <2>1, <3>2 DEF Lasting
  <2>4. CASE ip = ip0 /\ d \notin DOMAIN left
    <3>1. globalIP[ip][d] <= latest'
      BY <1>4, <1>7, <2>1, <2>4
    <3>2. ~Remembered(d, ip)'
      BY <1>5, <2>4 DEF Remembered
    <3>3. QED
      BY <3>1, <3>2 DEF Lasting
  <2>5. QED
    BY <2>2, <2>3, <2>4
<1>8. QED
  BY <1>6, <1>7 DEF Lasting

(* The greatest timestamp is at least that of the event at hand.           *)
LEMMA BeginNumbers ==
  ASSUME NEW ts \in Nat, latest \in Nat, Begin(ts)
  PROVE  latest' \in Nat /\ ts <= latest'
BY DEF Begin

(* No pair of the DNS table is shortened, and none is forgotten before an  *)
(* event as late as its expiry has been handled.                           *)
THEOREM Memory == Spec => OnlyExpiredForgotten
<1>1. Init => Numbers
  BY DEF Init, Numbers, Nothing
<1>2. Numbers /\ [Next]_vars => Numbers' /\ (\A d, ip : Lasting(d, ip))
  <2> SUFFICES ASSUME Numbers, [Next]_vars PROVE Numbers' /\ (\A d, ip : Lasting(d, ip))
    OBVIOUS
  <2>1. ASSUME UNCHANGED globalIP, latest' \in Nat
        PROVE  Numbers' /\ (\A d, ip : Lasting(d, ip))
    <3>1. \A d, ip : Remembered(d, ip) => globalIP[ip][d] \in Nat
      BY DEF Numbers, Remembered
    <3>2. QED
      BY <2>1, <3>1 DEF Numbers, Lasting, Remembered
  <2>2. ASSUME NEW ts \in 0 .. MaxTime, Begin(ts), UNCHANGED globalIP
        PROVE  Numbers' /\ (\A d, ip : Lasting(d, ip))
    BY <2>1, <2>2, BeginNumbers, StoreAssumption DEF Numbers
  <2>3. ASSUME NEW ts \in 0 .. MaxTime, NEW pid, NEW comm, NEW domain, NEW answers,
               NEW ttl \in TTLs \cup {0}, AddDNSReply(pid, comm, domain, answers, ttl, ts)
        PROVE  Numbers' /\ (\A d, ip : Lasting(d, ip))
    <3>1. Begin(ts)
      BY <2>3 DEF AddDNSReply
    <3>2. PICK ips : addGlobalDNS(domain, ips, ts + ttl) \/ UNCHANGED globalIP
      BY <2>3 DEF AddDNSReply
    <3>3. ts \in Nat /\ ts + ttl \in Nat
      BY StoreAssumption
    <3>4. latest' \in Nat
      BY <3>1, <3>3, BeginNumbers DEF Numbers
    <3>5. QED
      BY <2>1, <3>2, <3>3, <3>4, AddingLasts DEF Numbers
  <2>4. ASSUME NEW ts \in 0 .. MaxTime, NEW pid, NEW comm, NEW ip, NEW port,
               AddTCPConnect(pid, comm, ip, port, ts)
        PROVE  Numbers' /\ (\A d, x : Lasting(d, x))
    <3>1. Begin(ts)
      BY <2>4 DEF AddTCPConnect
    <3>2. deleteGlobalPairs(Expired(ip, ts), ip) \/ UNCHANGED globalIP
      BY <2>4 DEF AddTCPConnect
    <3>3. ts \in Nat
      BY StoreAssumption
    <3>4. latest' \in Nat /\ ts <= latest'
      BY <3>1, <3>3, BeginNumbers DEF Numbers
    <3>5. QED
      BY <2>1, <3>2, <3>3, <3>4, DeletingLasts DEF Numbers
  <2>5. ASSUME NEW ts \in 0 .. MaxTime, Operation(ts)
        PROVE  Numbers' /\ (\A d, ip : Lasting(d, ip))
    <3>1. ASSUME NEW pid, NEW ppid, NEW comm, UpsertProcess(pid, ppid, comm, ts)
          PROVE  Numbers' /\ (\A d, ip : Lasting(d, ip))
      BY <2>2, <3>1 DEF UpsertProcess
    <3>2. ASSUME NEW pid, NEW comm, NEW domain, AddDNSQuery(pid, comm, domain, ts)
          PROVE  Numbers' /\ (\A d, ip : Lasting(d, ip))
      BY <2>2, <3>2 DEF AddDNSQuery
    <3>3. QED
      BY <2>3, <2>4, <2>5, <3>1, <3>2 DEF Operation
  <2>6. CASE UpdateGraph \/ Emit \/ UNCHANGED vars
    BY <2>1, <2>6 DEF UpdateGraph, Emit, vars, storeVars, histVars, Numbers
  <2>7. QED
    BY <2>5, <2>6 DEF Next
<1>3. (\A d, ip : Lasting(d, ip)) =>
        \A d \in Domains, ip \in IPs :
          Remembered(d, ip) =>
            IF Remembered(d, ip)' THEN globalIP'[ip][d] >= globalIP[ip][d]
            ELSE globalIP[ip][d] <= latest'
  BY DEF Lasting
<1>4. QED
  BY <1>1, <1>2, <1>3, PTL DEF Spec, OnlyExpiredForgotten

-----------------------------------------------------------------------------
(* What the tables hold. *)

(* The maps from some of the keys of K to values of V.                     *)
Maps(K, V) == UNION {[D -> V] : D \in SUBSET K}

Contexts == [ppid : Pids \cup {None}, comm : Comms \cup {None},
             dns : Maps(Domains, SUBSET IPs), ipToDomain : Maps(IPs, Domains),
             connections : SUBSET [ip : IPs, port : Ports, domain : Domains \cup {None}]]

Replies == [pid : Pids, domain : Domains, ips : SUBSET IPs, ttl : Nat, expiry : Nat]

Tables == /\ processes \in Maps(Pids, Contexts)
          /\ globalDomain \in Maps(Domains, Maps(IPs, Nat))
          /\ globalIP \in Maps(IPs, Maps(Domains, Nat))
          /\ replies \in Seq(Replies)
          /\ latest \in 0 .. MaxTime /\ ops \in 0 .. MaxOps
          /\ signal # None => signal.ts \in 0 .. MaxTime

LEMMA InMaps ==
  ASSUME NEW K, NEW V, NEW f \in Maps(K, V)
  PROVE  /\ DOMAIN f \subseteq K /\ f \in [DOMAIN f -> V]
         /\ \A k \in DOMAIN f : k \in K /\ f[k] \in V
BY DEF Maps

LEMMA EmptyMap == \A K, V : Nothing \in Maps(K, V)
<1>1. Nothing \in [{} -> {}]
  BY DEF Nothing
<1> SUFFICES ASSUME NEW K, NEW V PROVE Nothing \in Maps(K, V)
  OBVIOUS
<1>2. Nothing \in [{} -> V] /\ {} \in SUBSET K
  BY DEF Nothing
<1>3. QED
  BY <1>2 DEF Maps

LEMMA AMap ==
  ASSUME NEW K, NEW V, NEW D \in SUBSET K, NEW f \in [D -> V] PROVE f \in Maps(K, V)
BY DEF Maps

LEMMA PutMap ==
  ASSUME NEW K, NEW V, NEW f \in Maps(K, V), NEW k \in K, NEW v \in V
  PROVE  Put(f, k, v) \in Maps(K, V)
<1>1. f \in [DOMAIN f -> V] /\ DOMAIN f \cup {k} \in SUBSET K
  BY InMaps
<1>2. Put(f, k, v) \in [DOMAIN f \cup {k} -> V]
  BY <1>1 DEF Put
<1>3. QED
  BY <1>1, <1>2, AMap

LEMMA WithoutMap ==
  ASSUME NEW K, NEW V, NEW f \in Maps(K, V), NEW D PROVE Without(f, D) \in Maps(K, V)
<1>1. f \in [DOMAIN f -> V] /\ DOMAIN f \ D \in SUBSET K
  BY InMaps
<1>2. Without(f, D) \in [DOMAIN f \ D -> V]
  BY <1>1 DEF Without
<1>3. QED
  BY <1>1, <1>2, AMap

LEMMA AtMap ==
  ASSUME NEW K, NEW L, NEW V, NEW f \in Maps(K, Maps(L, V)), NEW k
  PROVE  At(f, k) \in Maps(L, V)
BY InMaps, EmptyMap DEF At

LEMMA RaiseMap ==
  ASSUME NEW K, NEW f \in Maps(K, Nat), NEW keys \in SUBSET K, NEW expiry \in Nat
  PROVE  Raise(f, keys, expiry) \in Maps(K, Nat)
<1>1. f \in [DOMAIN f -> Nat] /\ DOMAIN f \cup keys \in SUBSET K
  BY InMaps
<1>2. \A k \in DOMAIN f \cup keys :
        (IF k \in keys /\ (k \notin DOMAIN f \/ expiry > f[k]) THEN expiry ELSE f[k]) \in Nat
  BY <1>1
<1>3. Raise(f, keys, expiry) \in [DOMAIN f \cup keys -> Nat]
  BY <1>1, <1>2 DEF Raise
<1>4. QED
  BY <1>1, <1>3, AMap

-----------------------------------------------------------------------------
(* The context an operation starts from is that of the process, or new.    *)
LEMMA KnownTyping ==
  ASSUME Tables, NEW pid \in Pids, NEW comm \in Comms \cup {None}
  PROVE  /\ getOrCreateProcess(pid, comm) \in Contexts
         /\ getOrCreateProcess(pid, comm).ipToDomain =
              IF pid \in DOMAIN processes THEN processes[pid].ipToDomain ELSE Nothing
         /\ getOrCreateProcess(pid, comm).dns =
              IF pid \in DOMAIN processes THEN processes[pid].dns ELSE Nothing
         /\ getOrCreateProcess(pid, comm).connections =
              IF pid \in DOMAIN processes THEN processes[pid].connections ELSE {}
<1>1. CASE pid \notin DOMAIN processes
  BY <1>1, EmptyMap DEF getOrCreateProcess, NewProcess, Contexts
<1>2. CASE pid \in DOMAIN processes
  <2>1. processes[pid] \in Contexts
    BY <1>2, InMaps DEF Tables
  <2>2. \/ getOrCreateProcess(pid, comm) = processes[pid]
        \/ getOrCreateProcess(pid, comm) = [processes[pid] EXCEPT !.comm = comm]
    BY <1>2 DEF getOrCreateProcess
  <2> HIDE DEF getOrCreateProcess
  <2>3. QED
    BY <1>2, <2>1, <2>2 DEF Contexts
<1>3. QED
  BY <1>1, <1>2

(* A reply and an evicting lookup leave maps of maps of numbers.           *)
LEMMA AddingTyping ==
  ASSUME Tables, NEW domain \in Domains, NEW ips \in SUBSET IPs, NEW expiry \in Nat,
         addGlobalDNS(domain, ips, expiry)
  PROVE  /\ globalDomain' \in Maps(Domains, Maps(IPs, Nat))
         /\ globalIP' \in Maps(IPs, Maps(Domains, Nat))
<1>1. Raise(At(globalDomain, domain), ips, expiry) \in Maps(IPs, Nat)
  BY AtMap, RaiseMap DEF Tables
<1>2. globalDomain' \in Maps(Domains, Maps(IPs, Nat))
  BY <1>1, PutMap DEF addGlobalDNS, Tables
<1>3. \A ip : Raise(At(globalIP, ip), {domain}, expiry) \in Maps(Domains, Nat)
  BY AtMap, RaiseMap DEF Tables
<1>4. DOMAIN globalIP \cup ips \in SUBSET IPs
  BY InMaps DEF Tables
<1>5. globalIP' \in [DOMAIN globalIP \cup ips -> Maps(Domains, Nat)]
  BY <1>3, InMaps DEF addGlobalDNS, Tables
<1>6. QED
  BY <1>2, <1>4, <1>5, AMap

LEMMA DeletingTyping ==
  ASSUME Tables, NEW ip \in IPs, NEW domains, deleteGlobalPairs(domains, ip)
  PROVE  /\ globalDomain' \in Maps(Domains, Maps(IPs, Nat))
         /\ globalIP' \in Maps(IPs, Maps(Domains, Nat))
<1> DEFINE kept(d) == IF d \in domains THEN Without(globalDomain[d], {ip}) ELSE globalDomain[d]
           left == Without(At(globalIP, ip), domains)
           D == {d \in DOMAIN globalDomain : kept(d) # Nothing}
<1>1. /\ globalDomain' = [d \in D |-> kept(d)]
      /\ globalIP' = IF left = Nothing THEN Without(globalIP, {ip}) ELSE Put(globalIP, ip, left)
  BY DEF deleteGlobalPairs
<1>2. left \in Maps(Domains, Nat)
  BY AtMap, WithoutMap DEF Tables
<1>3. globalIP' \in Maps(IPs, Maps(Domains, Nat))
  BY <1>1, <1>2, WithoutMap, PutMap DEF Tables
<1>4. \A d \in DOMAIN globalDomain : kept(d) \in Maps(IPs, Nat)
  BY InMaps, WithoutMap DEF Tables
<1>5. D \in SUBSET Domains /\ D \subseteq DOMAIN globalDomain
  BY InMaps DEF Tables
<1> HIDE DEF kept, D
<1>6. globalDomain' \in [D -> Maps(IPs, Nat)]
  BY <1>1, <1>4, <1>5
<1>7. QED
  BY <1>3, <1>5, <1>6, AMap

(* The counters and the timestamp of the signal after an operation.        *)
LEMMA BeginTyping ==
  ASSUME Tables, NEW ts \in 0 .. MaxTime, Begin(ts)
  PROVE  /\ latest' \in 0 .. MaxTime /\ ops' \in 0 .. MaxOps
         /\ ts \in Nat /\ ts <= latest' /\ latest <= latest' /\ latest <= ts + Skew
BY StoreAssumption DEF Tables, Begin

LEMMA ReturnTyping ==
  ASSUME NEW ts \in 0 .. MaxTime, NEW kind, NEW pid, NEW ip, NEW domain,
         Return(kind, pid, ip, domain, ts)
  PROVE  signal'.ts = ts /\ signal'.kind = kind /\ signal'.pid = pid
         /\ signal'.ip = ip /\ signal'.domain = domain
BY DEF Return

(* Where a lookup of the global table can lead.                            *)
LEMMA LookupTyping ==
  ASSUME Tables, NEW ip, NEW ts
  PROVE  /\ Chosen(ip, ts) \subseteq Domains
         /\ lookupDomainByIP(ip, ts) \subseteq Domains \cup {None}
<1>1. DOMAIN At(globalIP, ip) \subseteq Domains
  BY AtMap, InMaps DEF Tables
<1>2. QED
  BY <1>1 DEF Chosen, lookupDomainByIP

LEMMA TablesAlways == Spec => []Tables
<1> USE StoreAssumption
<1>1. Init => Tables
  BY EmptyMap DEF Init, Tables
<1>2. Tables /\ [Next]_vars => Tables'
  <2> SUFFICES ASSUME Tables, [Next]_vars PROVE Tables'
    OBVIOUS
  <2>1. ASSUME NEW ts \in 0 .. MaxTime, NEW pid \in Pids, NEW comm \in Comms \cup {None},
               NEW ppid \in Pids \cup {None}, UpsertProcess(pid, ppid, comm, ts)
        PROVE  Tables'
    <3> DEFINE known == getOrCreateProcess(pid, comm)
    <3>1. PICK ctx : /\ ctx = [known EXCEPT !.ppid = ppid,
                                            !.comm = IF comm # None THEN comm ELSE @]
                     /\ Store(pid, ctx)
      BY <2>1 DEF UpsertProcess
    <3>2. ctx \in Contexts
      <4>1. known \in Contexts
        BY KnownTyping
      <4> HIDE DEF known
      <4>2. PICK name \in Comms \cup {None} : ctx = [known EXCEPT !.ppid = ppid, !.comm = name]
        BY <3>1, <4>1 DEF Contexts
      <4>3. QED
        BY <4>1, <4>2 DEF Contexts
    <3>3. processes' \in Maps(Pids, Contexts)
      BY <3>1, <3>2, PutMap DEF Store, Tables
    <3>4. signal'.ts \in 0 .. MaxTime
      BY <2>1, ReturnTyping DEF UpsertProcess
    <3>5. Begin(ts) /\ UNCHANGED <<globalDomain, globalIP, replies>>
      BY <2>1 DEF UpsertProcess
    <3>6. QED
      BY <3>3, <3>4, <3>5, BeginTyping DEF Tables
  <2>2. ASSUME NEW ts \in 0 .. MaxTime, NEW pid \in Pids, NEW comm \in Comms \cup {None},
               NEW domain \in Domains, AddDNSQuery(pid, comm, domain, ts)
        PROVE  Tables'
    <3> DEFINE known == getOrCreateProcess(pid, comm)
    <3>1. PICK ctx : /\ ctx = IF domain \in DOMAIN known.dns THEN known
                              ELSE [known EXCEPT !.dns = Put(@, domain, {})]
                     /\ Store(pid, ctx)
      BY <2>2 DEF AddDNSQuery
    <3>2. known \in Contexts
      BY KnownTyping
    <3> HIDE DEF known
    <3>3. Put(known.dns, domain, {}) \in Maps(Domains, SUBSET IPs)
      BY <3>2, PutMap DEF Contexts
    <3>4. ctx \in Contexts
      BY <3>1, <3>2, <3>3 DEF Contexts
    <3>5. processes' \in Maps(Pids, Contexts)
      BY <3>1, <3>4, PutMap DEF Store, Tables
    <3>6. signal'.ts \in 0 .. MaxTime
      BY <2>2, ReturnTyping DEF AddDNSQuery
    <3>7. Begin(ts) /\ UNCHANGED <<globalDomain, globalIP, replies>>
      BY <2>2 DEF AddDNSQuery
    <3>8. QED
      BY <3>5, <3>6, <3>7, BeginTyping DEF Tables
  <2>3. ASSUME NEW ts \in 0 .. MaxTime, NEW pid \in Pids, NEW comm \in Comms \cup {None},
               NEW domain \in Domains, NEW answers \in AnswerLists, NEW ttl \in Nat,
               AddDNSReply(pid, comm, domain, answers, ttl, ts)
        PROVE  Tables'
    <3> DEFINE known == getOrCreateProcess(pid, comm)
               ips == {answers[i] : i \in DOMAIN answers}
               table == [ip \in DOMAIN known.ipToDomain \cup ips |->
                           IF ip \in ips THEN domain ELSE known.ipToDomain[ip]]
               reply == [pid |-> pid, domain |-> domain, ips |-> ips, ttl |-> ttl,
                         expiry |-> ts + ttl]
    <3>1. /\ Store(pid, [known EXCEPT !.dns = Put(@, domain, ips), !.ipToDomain = table])
          /\ \/ addGlobalDNS(domain, ips, ts + ttl)
             \/ UNCHANGED <<globalDomain, globalIP>>
          /\ replies' = Append(replies, reply)
          /\ Begin(ts)
      BY <2>3 DEF AddDNSReply
    <3>2. known \in Contexts
      BY KnownTyping
    <3>3. ips \in SUBSET IPs
      BY DEF AnswerLists
    <3>4. ts + ttl \in Nat
      OBVIOUS
    <3>5. reply \in Replies
      BY <3>3, <3>4 DEF Replies
    <3> HIDE DEF known, ips, reply
    <3>6. Put(known.dns, domain, ips) \in Maps(Domains, SUBSET IPs)
      BY <3>2, <3>3, PutMap DEF Contexts
    <3>7. table \in Maps(IPs, Domains)
      <4>1. known.ipToDomain \in Maps(IPs, Domains)
        BY <3>2 DEF Contexts
      <4>2. /\ DOMAIN known.ipToDomain \cup ips \in SUBSET IPs
            /\ known.ipToDomain \in [DOMAIN known.ipToDomain -> Domains]
        BY <3>3, <4>1, InMaps
      <4>3. table \in [DOMAIN known.ipToDomain \cup ips -> Domains]
        BY <4>2
      <4>4. QED
        BY <4>2, <4>3, AMap
    <3> HIDE DEF table
    <3>8. [known EXCEPT !.dns = Put(@, domain, ips), !.ipToDomain = table] \in Contexts
      BY <3>2, <3>6, <3>7 DEF Contexts
    <3>9. processes' \in Maps(Pids, Contexts)
      BY <3>1, <3>8, PutMap DEF Store, Tables
    <3>10. /\ globalDomain' \in Maps(Domains, Maps(IPs, Nat))
           /\ globalIP' \in Maps(IPs, Maps(Domains, Nat))
      BY <3>1, <3>3, <3>4, AddingTyping DEF Tables
    <3>11. replies' \in Seq(Replies)
      BY <3>1, <3>5 DEF Tables
    <3>12. signal'.ts \in 0 .. MaxTime
      BY <2>3, ReturnTyping DEF AddDNSReply
    <3>13. QED
      BY <3>1, <3>9, <3>10, <3>11, <3>12, BeginTyping DEF Tables
  <2>4. ASSUME NEW ts \in 0 .. MaxTime, NEW pid \in Pids, NEW comm \in Comms \cup {None},
               NEW ip \in IPs, NEW port \in Ports, AddTCPConnect(pid, comm, ip, port, ts)
        PROVE  Tables'
    <3> DEFINE known == getOrCreateProcess(pid, comm)
               from == IF ip \in DOMAIN known.ipToDomain THEN {known.ipToDomain[ip]}
                       ELSE lookupDomainByIP(ip, ts)
    <3>1. PICK domain \in from :
            /\ Store(pid, [known EXCEPT !.connections =
                             @ \cup {[ip |-> ip, port |-> port, domain |-> domain]}])
            /\ Return("tcp", pid, ip, domain, ts)
      BY <2>4 DEF AddTCPConnect
    <3>2. /\ Begin(ts) /\ replies' = replies
          /\ \/ UNCHANGED <<globalDomain, globalIP>>
             \/ deleteGlobalPairs(Expired(ip, ts), ip)
      BY <2>4 DEF AddTCPConnect
    <3>3. known \in Contexts
      BY KnownTyping
    <3> HIDE DEF known
    <3>4. domain \in Domains \cup {None}
      <4>1. known.ipToDomain \in Maps(IPs, Domains)
        BY <3>3 DEF Contexts
      <4>2. QED
        BY <3>1, <4>1, InMaps, LookupTyping
    <3>5. [ip |-> ip, port |-> port, domain |-> domain]
            \in [ip : IPs, port : Ports, domain : Domains \cup {None}]
      BY <3>4
    <3>6. [known EXCEPT !.connections = @ \cup {[ip |-> ip, port |-> port, domain |-> domain]}]
            \in Contexts
      BY <3>3, <3>5 DEF Contexts
    <3>7. processes' \in Maps(Pids, Contexts)
      BY <3>1, <3>6, PutMap DEF Store, Tables
    <3>8. /\ globalDomain' \in Maps(Domains, Maps(IPs, Nat))
          /\ globalIP' \in Maps(IPs, Maps(Domains, Nat))
      BY <3>2, DeletingTyping DEF Tables
    <3>9. signal'.ts \in 0 .. MaxTime
      BY <3>1, ReturnTyping
    <3>10. QED
      BY <3>2, <3>7, <3>8, <3>9, BeginTyping DEF Tables
  <2>5. CASE UpdateGraph \/ Emit \/ UNCHANGED vars
    BY <2>5 DEF UpdateGraph, Emit, vars, storeVars, histVars, Tables
  <2>6. \A ttl \in TTLs \cup {0} : ttl \in Nat
    OBVIOUS
  <2>7. <<>> \in AnswerLists
    BY DEF AnswerLists
  <2>8. QED
    BY <2>1, <2>2, <2>3, <2>4, <2>5, <2>6, <2>7 DEF Next, Operation
<1>3. QED
  BY <1>1, <1>2, PTL DEF Spec

-----------------------------------------------------------------------------
(* Where the DNS tables come from, and what they keep of the replies.      *)

Knows(pid, ip) == pid \in DOMAIN processes /\ ip \in DOMAIN processes[pid].ipToDomain

(* A process's own table holds the last reply that gave it the address.    *)
OwnTable ==
  \A pid \in Pids, ip \in IPs :
    Own(pid, ip) = IF Knows(pid, ip) THEN {processes[pid].ipToDomain[ip]} ELSE {}

(* The reply i speaks of the address, for some time.                       *)
Speaks(i, ip) == ip \in replies[i].ips /\ replies[i].ttl > 0

(* Every pair of the global table has the expiry that a reply gave it.     *)
Sourced ==
  \A d \in Domains, ip \in IPs :
    Remembered(d, ip) =>
      \E i \in DOMAIN replies : /\ Speaks(i, ip) /\ replies[i].domain = d
                                /\ replies[i].expiry = globalIP[ip][d]

(* What a reply said is still there, for as long or longer; or it has been *)
(* evicted, and then no pair of the address is older than it was.          *)
Evicted(i, ip) ==
  /\ replies[i].expiry <= latest
  /\ \A d \in Domains : Remembered(d, ip) => replies[i].expiry <= globalIP[ip][d]

KeptOrEvicted ==
  \A ip \in IPs : \A i \in DOMAIN replies :
    Speaks(i, ip) =>
      \/ /\ Remembered(replies[i].domain, ip)
         /\ replies[i].expiry <= globalIP[ip][replies[i].domain]
      \/ Evicted(i, ip)

LEMMA Least == ASSUME NEW T \in SUBSET Nat, T # {} PROVE \E x \in T : \A y \in T : x <= y
<1> DEFINE R == OpToRel(<, Nat)
<1>1. \A x, y \in Nat : x < y => <<x, y>> \in R
  BY DEF OpToRel
<1>2. PICK x \in T : \A y \in T : ~(<<y, x>> \in R)
  BY NatLessThanWellFounded, WFMin
<1> HIDE DEF R
<1>3. ASSUME NEW y \in T PROVE x <= y
  <2>1. x \in Nat /\ y \in Nat
    OBVIOUS
  <2>2. ~(y < x)
    BY <1>1, <1>2, <2>1
  <2>3. QED
    BY <2>1, <2>2
<1>4. QED
  BY <1>3

LEMMA Greatest ==
  ASSUME NEW T \in SUBSET Nat, T # {}, NEW B \in Nat, \A x \in T : x <= B
  PROVE  \E x \in T : \A y \in T : y <= x
<1> DEFINE U == {u \in Nat : \E x \in T : u = B - x}
<1>1. \A x \in T : B - x \in U
  <2>1. ASSUME NEW x \in T PROVE B - x \in Nat
    <3>1. x \in Nat /\ x <= B
      OBVIOUS
    <3>2. QED
      BY <3>1
  <2>2. QED
    BY <2>1
<1>2. U \in SUBSET Nat /\ U # {}
  BY <1>1
<1> HIDE DEF U
<1>3. PICK u \in U : \A v \in U : u <= v
  BY <1>2, Least
<1>4. PICK x \in T : u = B - x
  BY DEF U
<1>5. ASSUME NEW y \in T PROVE y <= x
  <2>1. x \in Nat /\ y \in Nat /\ B - x <= B - y
    BY <1>1, <1>3, <1>4
  <2>2. QED
    BY <2>1
<1>6. QED
  BY <1>5

(* Some number is as late as every expiry in the table.                    *)
Bounded ==
  \E b \in Nat : \A d \in Domains, ip \in IPs : Remembered(d, ip) => globalIP[ip][d] <= b

-----------------------------------------------------------------------------
(* A pair of the table has a domain, an address and a number. *)
LEMMA PairTyping ==
  ASSUME Tables, NEW d, NEW ip, Remembered(d, ip)
  PROVE  d \in Domains /\ ip \in IPs /\ globalIP[ip][d] \in Nat
BY InMaps DEF Tables, Remembered

LEMMA ReplyTyping ==
  ASSUME Tables, NEW i \in DOMAIN replies
  PROVE  /\ i \in Nat /\ replies[i] \in Replies
         /\ replies[i].domain \in Domains /\ replies[i].expiry \in Nat
         /\ replies[i].ttl \in Nat /\ replies[i].ips \subseteq IPs
<1>1. replies[i] \in Replies /\ i \in Nat
  BY DEF Tables
<1>2. QED
  BY <1>1 DEF Replies

(* The pairs after a reply: those of before, the reply's raised.           *)
LEMMA AddingPairs ==
  ASSUME Tables, NEW domain, NEW ips, NEW expiry \in Nat, addGlobalDNS(domain, ips, expiry),
         NEW d, NEW ip
  PROVE  /\ Remembered(d, ip)' <=> Remembered(d, ip) \/ (d = domain /\ ip \in ips)
         /\ Remembered(d, ip) => globalIP[ip][d] <= globalIP'[ip][d]
         /\ d = domain /\ ip \in ips => expiry <= globalIP'[ip][d]
         /\ Remembered(d, ip)' =>
              \/ Remembered(d, ip) /\ globalIP'[ip][d] = globalIP[ip][d]
              \/ d = domain /\ ip \in ips /\ globalIP'[ip][d] = expiry
<1> DEFINE raised == Raise(At(globalIP, ip), {domain}, expiry)
<1>1. /\ ip \in DOMAIN globalIP' <=> ip \in DOMAIN globalIP \/ ip \in ips
      /\ ip \in ips => globalIP'[ip] = raised
      /\ ip \in DOMAIN globalIP /\ ip \notin ips => globalIP'[ip] = globalIP[ip]
  BY DEF addGlobalDNS
<1>2. /\ d \in DOMAIN raised <=> Remembered(d, ip) \/ d = domain
      /\ Remembered(d, ip) => At(globalIP, ip)[d] = globalIP[ip][d]
      /\ d \in DOMAIN At(globalIP, ip) <=> Remembered(d, ip)
  BY DEF Raise, Remembered, At, Nothing
<1>3. d \in DOMAIN raised =>
        raised[d] = IF d = domain /\ (~Remembered(d, ip) \/ expiry > globalIP[ip][d])
                    THEN expiry ELSE globalIP[ip][d]
  BY <1>2 DEF Raise
<1>4. Remembered(d, ip) => globalIP[ip][d] \in Nat
  BY PairTyping
<1> HIDE DEF raised
<1>5. CASE ip \in ips
  <2>1. Remembered(d, ip)' <=> d \in DOMAIN raised
    BY <1>1, <1>5 DEF Remembered
  <2>2. globalIP'[ip][d] = raised[d]
    BY <1>1, <1>5
  <2>3. QED
    BY <1>2, <1>3, <1>4, <1>5, <2>1, <2>2
<1>6. CASE ip \notin ips
  <2>1. Remembered(d, ip)' <=> Remembered(d, ip)
    BY <1>1, <1>6 DEF Remembered
  <2>2. Remembered(d, ip) => globalIP'[ip][d] = globalIP[ip][d]
    BY <1>1, <1>6 DEF Remembered
  <2>3. QED
    BY <1>4, <1>6, <2>1, <2>2
<1>7. QED
  BY <1>5, <1>6

(* The pairs after an evicting lookup: those that had not expired.         *)
LEMMA DeletingPairs ==
  ASSUME Tables, NEW a, NEW ts \in Nat, deleteGlobalPairs(Expired(a, ts), a), NEW d, NEW ip
  PROVE  /\ Remembered(d, ip)' <=> Remembered(d, ip) /\ (ip = a => globalIP[ip][d] > ts)
         /\ Remembered(d, ip)' => globalIP'[ip][d] = globalIP[ip][d]
<1> DEFINE left == Without(At(globalIP, a), Expired(a, ts))
<1>1. globalIP' = IF left = Nothing THEN Without(globalIP, {a}) ELSE Put(globalIP, a, left)
  BY DEF deleteGlobalPairs
<1>2. /\ DOMAIN left = DOMAIN At(globalIP, a) \ Expired(a, ts)
      /\ \A e \in DOMAIN left : left[e] = At(globalIP, a)[e]
  BY DEF Without
<1>3. /\ d \in DOMAIN At(globalIP, a) <=> Remembered(d, a)
      /\ Remembered(d, a) => At(globalIP, a)[d] = globalIP[a][d]
  BY DEF At, Nothing, Remembered
<1>4. d \in Expired(a, ts) <=> Remembered(d, a) /\ globalIP[a][d] <= ts
  BY <1>3 DEF Expired
<1>5. Remembered(d, a) => globalIP[a][d] \in Nat
  BY PairTyping
<1>6. /\ d \in DOMAIN left <=> Remembered(d, a) /\ globalIP[a][d] > ts
      /\ d \in DOMAIN left => left[d] = globalIP[a][d]
  BY <1>2, <1>3, <1>4, <1>5
<1>7. d \in DOMAIN left => left # Nothing
  BY NonEmpty
<1> HIDE DEF left
<1>8. /\ ip # a => (ip \in DOMAIN globalIP' <=> ip \in DOMAIN globalIP)
      /\ ip # a /\ ip \in DOMAIN globalIP => globalIP'[ip] = globalIP[ip]
      /\ a \in DOMAIN globalIP' <=> left # Nothing
      /\ left # Nothing => globalIP'[a] = left
  BY <1>1 DEF Put, Without
<1>9. CASE ip = a
  BY <1>6, <1>7, <1>8, <1>9 DEF Remembered
<1>10. CASE ip # a
  BY <1>8, <1>10 DEF Remembered
<1>11. QED
  BY <1>9, <1>10

(* What the lookup chooses. *)
LEMMA ChosenPairs ==
  ASSUME NEW ip, NEW ts, NEW d
  PROVE  d \in Chosen(ip, ts) <=>
           /\ Remembered(d, ip) /\ ~(globalIP[ip][d] <= ts)
           /\ \A e : Remembered(e, ip) /\ ~(globalIP[ip][e] <= ts) =>
                       globalIP[ip][e] <= globalIP[ip][d]
<1>1. \A e : e \in DOMAIN At(globalIP, ip) <=> Remembered(e, ip)
  BY DEF At, Nothing, Remembered
<1>2. \A e : e \in Expired(ip, ts) <=> Remembered(e, ip) /\ globalIP[ip][e] <= ts
  BY <1>1 DEF Expired
<1>3. QED
  BY <1>1, <1>2 DEF Chosen

(* A live pair is enough for the lookup to choose one: of finitely many    *)
(* expiries one is the latest.                                             *)
LEMMA OneChosen ==
  ASSUME Tables, Bounded, NEW ip \in IPs, NEW ts \in Nat, NEW d, Remembered(d, ip),
         globalIP[ip][d] > ts
  PROVE  Chosen(ip, ts) # {}
<1> DEFINE live(e) == Remembered(e, ip) /\ ~(globalIP[ip][e] <= ts)
           T == {globalIP[ip][e] : e \in {x \in Domains : live(x)}}
<1>1. PICK b \in Nat : \A e \in Domains : Remembered(e, ip) => globalIP[ip][e] <= b
  BY DEF Bounded
<1>2. T \in SUBSET Nat /\ \A x \in T : x <= b
  BY <1>1, PairTyping
<1>3. globalIP[ip][d] \in T
  BY PairTyping
<1>4. PICK x \in T : \A y \in T : y <= x
  BY <1>2, <1>3, Greatest
<1>5. PICK e \in Domains : live(e) /\ globalIP[ip][e] = x
  OBVIOUS
<1>6. ASSUME NEW y, live(y) PROVE globalIP[ip][y] <= globalIP[ip][e]
  BY <1>4, <1>5, <1>6, PairTyping
<1>7. e \in Chosen(ip, ts)
  BY <1>5, <1>6, ChosenPairs
<1>8. QED
  BY <1>7

-----------------------------------------------------------------------------
(* A reply is the last word on the addresses it gives the process.         *)
LEMMA OwnAppended ==
  ASSUME Tables, NEW r \in Replies, replies' = Append(replies, r), NEW pid, NEW ip
  PROVE  Own(pid, ip)' = IF r.pid = pid /\ ip \in r.ips THEN {r.domain} ELSE Own(pid, ip)
<1> DEFINE n == Len(replies) + 1
           given == {i \in DOMAIN replies : replies[i].pid = pid /\ ip \in replies[i].ips}
           given2 == {i \in DOMAIN replies' : replies'[i].pid = pid /\ ip \in replies'[i].ips}
           last(S) == {j \in S : \A k \in S : k <= j}
<1>1. /\ DOMAIN replies' = DOMAIN replies \cup {n} /\ replies'[n] = r
      /\ \A i \in DOMAIN replies : replies'[i] = replies[i] /\ i \in Nat /\ i < n
      /\ n \in Nat /\ n \notin DOMAIN replies
  BY DEF Tables
<1>2. /\ Own(pid, ip) = {replies[i].domain : i \in last(given)}
      /\ Own(pid, ip)' = {replies'[i].domain : i \in last(given2)}
  BY DEF Own
<1> HIDE DEF n
<1>3. CASE r.pid = pid /\ ip \in r.ips
  <2>1. given2 = given \cup {n}
    BY <1>1, <1>3
  <2>2. \A i \in given : i \in Nat /\ i < n
    BY <1>1
  <2> HIDE DEF given, given2
  <2>3. last(given2) = {n}
    <3>1. ASSUME NEW j \in last(given2) PROVE j = n
      <4>1. n <= j /\ j \in given \cup {n}
        BY <2>1
      <4>2. QED
        BY <1>1, <2>2, <4>1
    <3>2. n \in last(given2)
      <4>1. \A k \in given2 : k <= n
        BY <1>1, <2>1, <2>2
      <4>2. QED
        BY <2>1, <4>1
    <3>3. QED
      BY <3>1, <3>2
  <2> HIDE DEF last
  <2>4. QED
    BY <1>1, <1>2, <1>3, <2>3
<1>4. CASE ~(r.pid = pid /\ ip \in r.ips)
  <2>1. given2 = given
    BY <1>1, <1>4
  <2>2. \A i \in last(given) : i \in DOMAIN replies
    OBVIOUS
  <2> HIDE DEF given, given2, last
  <2>3. {replies'[i].domain : i \in last(given)} = {replies[i].domain : i \in last(given)}
    BY <1>1, <2>2
  <2>4. QED
    BY <1>2, <1>4, <2>1, <2>3
<1>5. QED
  BY <1>3, <1>4

(* A step that gives no process another table of addresses.                *)
LEMMA OwnKept ==
  ASSUME Tables, OwnTable, replies' = replies, NEW pid \in Pids, NEW ctx, Store(pid, ctx),
         ctx.ipToDomain = IF pid \in DOMAIN processes THEN processes[pid].ipToDomain ELSE Nothing
  PROVE  OwnTable'
<1> SUFFICES ASSUME NEW p \in Pids, NEW ip \in IPs
             PROVE  Own(p, ip)' = IF Knows(p, ip)' THEN {processes'[p].ipToDomain[ip]} ELSE {}
  BY DEF OwnTable, Own, Knows
<1>1. Own(p, ip)' = Own(p, ip)
  BY DEF Own
<1>2. /\ DOMAIN processes' = DOMAIN processes \cup {pid} /\ processes'[pid] = ctx
      /\ \A q \in DOMAIN processes : q # pid => processes'[q] = processes[q]
  BY DEF Store, Put
<1>3. CASE p # pid
  <2>1. Knows(p, ip)' <=> Knows(p, ip)
    BY <1>2, <1>3 DEF Knows
  <2>2. Knows(p, ip) => processes'[p] = processes[p]
    BY <1>2, <1>3 DEF Knows
  <2>3. QED
    BY <1>1, <2>1, <2>2 DEF OwnTable
<1>4. CASE p = pid
  <2>1. Knows(p, ip)' <=> Knows(p, ip)
    BY <1>2, <1>4 DEF Knows, Nothing
  <2>2. Knows(p, ip) => processes'[p].ipToDomain = processes[p].ipToDomain
    BY <1>2, <1>4 DEF Knows
  <2>3. QED
    BY <1>1, <2>1, <2>2 DEF OwnTable
<1>5. QED
  BY <1>3, <1>4

(* A reply gives the process that received it its addresses.               *)
LEMMA OwnReplied ==
  ASSUME Tables, OwnTable, NEW r \in Replies, replies' = Append(replies, r),
         NEW ctx, Store(r.pid, ctx), NEW known,
         known = IF r.pid \in DOMAIN processes THEN processes[r.pid].ipToDomain ELSE Nothing,
         ctx.ipToDomain = [ip \in DOMAIN known \cup r.ips |->
                             IF ip \in r.ips THEN r.domain ELSE known[ip]]
  PROVE  OwnTable'
<1> SUFFICES ASSUME NEW p \in Pids, NEW ip \in IPs
             PROVE  Own(p, ip)' = IF Knows(p, ip)' THEN {processes'[p].ipToDomain[ip]} ELSE {}
  BY DEF OwnTable, Own, Knows
<1>1. Own(p, ip)' = IF r.pid = p /\ ip \in r.ips THEN {r.domain} ELSE Own(p, ip)
  BY OwnAppended
<1>2. /\ DOMAIN processes' = DOMAIN processes \cup {r.pid} /\ processes'[r.pid] = ctx
      /\ \A q \in DOMAIN processes : q # r.pid => processes'[q] = processes[q]
  BY DEF Store, Put
<1>3. CASE p # r.pid
  <2>1. Knows(p, ip)' <=> Knows(p, ip)
    BY <1>2, <1>3 DEF Knows
  <2>2. Knows(p, ip) => processes'[p] = processes[p]
    BY <1>2, <1>3 DEF Knows
  <2>3. QED
    BY <1>1, <1>3, <2>1, <2>2 DEF OwnTable
<1>4. CASE p = r.pid /\ ip \in r.ips
  <2>1. Knows(p, ip)' /\ processes'[p].ipToDomain[ip] = r.domain
    BY <1>2, <1>4 DEF Knows
  <2>2. QED
    BY <1>1, <1>4, <2>1
<1>5. CASE p = r.pid /\ ip \notin r.ips
  <2>1. Knows(p, ip)' <=> ip \in DOMAIN known
    BY <1>2, <1>5 DEF Knows
  <2>2. ip \in DOMAIN known <=> Knows(p, ip)
    BY <1>5 DEF Knows, Nothing
  <2>3. Knows(p, ip) => processes'[p].ipToDomain[ip] = processes[p].ipToDomain[ip]
    BY <1>2, <1>5, <2>2 DEF Knows
  <2>4. QED
    BY <1>1, <1>5, <2>1, <2>2, <2>3 DEF OwnTable
<1>6. QED
  BY <1>3, <1>4, <1>5

-----------------------------------------------------------------------------
(* What Sourced, KeptOrEvicted and Bounded say of the global table.        *)
Global == Sourced /\ KeptOrEvicted /\ Bounded

(* Events that leave the table and the replies alone.                      *)
LEMMA GlobalKept ==
  ASSUME Tables, Global, UNCHANGED <<globalIP, replies>>, latest' \in Nat, latest <= latest'
  PROVE  Global'
<1>1. Sourced' /\ Bounded'
  BY DEF Global, Sourced, Bounded, Remembered, Speaks
<1>2. KeptOrEvicted'
  <2> SUFFICES ASSUME NEW ip \in IPs, NEW i \in DOMAIN replies, Speaks(i, ip)
               PROVE  (\/ /\ Remembered(replies[i].domain, ip)
                          /\ replies[i].expiry <= globalIP[ip][replies[i].domain]
                       \/ Evicted(i, ip))'
    BY DEF KeptOrEvicted, Speaks
  <2>1. latest \in Nat /\ replies[i].expiry \in Nat
    BY ReplyTyping, StoreAssumption DEF Tables
  <2>2. Evicted(i, ip) => Evicted(i, ip)'
    BY <2>1 DEF Evicted, Remembered
  <2>3. QED
    BY <2>2 DEF Global, KeptOrEvicted, Remembered
<1>3. QED
  BY <1>1, <1>2 DEF Global

(* A lookup that evicts what it finds expired.                             *)
LEMMA GlobalEvicted ==
  ASSUME Tables, Global, NEW a \in IPs, NEW ts \in Nat,
         deleteGlobalPairs(Expired(a, ts), a), replies' = replies,
         latest' \in Nat, latest <= latest', ts <= latest'
  PROVE  Global'
<1>1. \A d, ip : /\ Remembered(d, ip)' <=> Remembered(d, ip) /\ (ip = a => globalIP[ip][d] > ts)
                 /\ Remembered(d, ip)' => globalIP'[ip][d] = globalIP[ip][d]
  BY DeletingPairs
<1>2. Sourced'
  <2> SUFFICES ASSUME NEW d \in Domains, NEW ip \in IPs, Remembered(d, ip)'
               PROVE  \E i \in DOMAIN replies : /\ Speaks(i, ip) /\ replies[i].domain = d
                                                /\ replies[i].expiry = globalIP'[ip][d]
    BY DEF Sourced, Speaks
  <2>1. QED
    BY <1>1 DEF Global, Sourced
<1>3. Bounded'
  BY <1>1 DEF Global, Bounded
<1>4. KeptOrEvicted'
  <2> SUFFICES ASSUME NEW ip \in IPs, NEW i \in DOMAIN replies, Speaks(i, ip)
               PROVE  (\/ /\ Remembered(replies[i].domain, ip)
                          /\ replies[i].expiry <= globalIP[ip][replies[i].domain]
                       \/ Evicted(i, ip))'
    BY DEF KeptOrEvicted, Speaks
  <2> DEFINE e == replies[i].domain
             x == replies[i].expiry
  <2>1. latest \in Nat /\ x \in Nat
    BY ReplyTyping, StoreAssumption DEF Tables
  <2>2. Evicted(i, ip)' <=> /\ x <= latest'
                            /\ \A d \in Domains : Remembered(d, ip)' => x <= globalIP'[ip][d]
    BY DEF Evicted
  <2>3. CASE Evicted(i, ip)
    BY <1>1, <2>1, <2>2, <2>3 DEF Evicted
  <2>4. CASE Remembered(e, ip) /\ x <= globalIP[ip][e] /\ (ip = a => globalIP[ip][e] > ts)
    <3>1. Remembered(e, ip)' /\ globalIP'[ip][e] = globalIP[ip][e]
      BY <1>1, <2>4
    <3>2. QED
      BY <2>4, <3>1
  <2>5. CASE Remembered(e, ip) /\ x <= globalIP[ip][e] /\ ip = a /\ ~(globalIP[ip][e] > ts)
    <3>1. globalIP[ip][e] \in Nat
      BY <2>5, PairTyping
    <3>2. x <= ts /\ x <= latest'
      BY <2>1, <2>5, <3>1
    <3>3. ASSUME NEW d \in Domains, Remembered(d, ip)' PROVE x <= globalIP'[ip][d]
      <4>1. globalIP[ip][d] > ts /\ globalIP'[ip][d] = globalIP[ip][d] /\ globalIP[ip][d] \in Nat
        BY <1>1, <2>5, <3>3, PairTyping
      <4>2. QED
        BY <2>1, <3>2, <4>1
    <3>4. QED
      BY <2>2, <3>2, <3>3
  <2>6. QED
    BY <2>3, <2>4, <2>5 DEF Global, KeptOrEvicted
<1>5. QED
  BY <1>2, <1>3, <1>4 DEF Global

(* A reply with a TTL: it cannot expire before what has been evicted, for  *)
(* its timestamp is no more behind than its TTL is long.                   *)
LEMMA GlobalReplied ==
  ASSUME Tables, Global, NEW r \in Replies, replies' = Append(replies, r),
         addGlobalDNS(r.domain, r.ips, r.expiry), r.ttl > 0, latest <= r.expiry,
         latest' \in Nat, latest <= latest'
  PROVE  Global'
<1>1. /\ r.expiry \in Nat /\ r.ttl \in Nat /\ r.domain \in Domains /\ r.ips \subseteq IPs
      /\ latest \in Nat
  BY StoreAssumption DEF Replies, Tables
<1>2. \A d, ip :
        /\ Remembered(d, ip)' <=> Remembered(d, ip) \/ (d = r.domain /\ ip \in r.ips)
        /\ Remembered(d, ip) => globalIP[ip][d] <= globalIP'[ip][d]
        /\ d = r.domain /\ ip \in r.ips => r.expiry <= globalIP'[ip][d]
        /\ Remembered(d, ip)' =>
             \/ Remembered(d, ip) /\ globalIP'[ip][d] = globalIP[ip][d]
             \/ d = r.domain /\ ip \in r.ips /\ globalIP'[ip][d] = r.expiry
  BY <1>1, AddingPairs
<1>3. PICK n \in Nat : /\ DOMAIN replies' = DOMAIN replies \cup {n} /\ replies'[n] = r
                       /\ \A i \in DOMAIN replies : replies'[i] = replies[i]
  <2>1. Len(replies) + 1 \in Nat
    BY DEF Tables
  <2>2. /\ DOMAIN replies' = DOMAIN replies \cup {Len(replies) + 1}
        /\ replies'[Len(replies) + 1] = r
        /\ \A i \in DOMAIN replies : replies'[i] = replies[i]
    BY DEF Tables
  <2>3. QED
    BY <2>1, <2>2
<1>4. Sourced'
  <2> SUFFICES ASSUME NEW d \in Domains, NEW ip \in IPs, Remembered(d, ip)'
               PROVE  \E i \in DOMAIN replies' : /\ Speaks(i, ip)' /\ replies'[i].domain = d
                                                 /\ replies'[i].expiry = globalIP'[ip][d]
    BY DEF Sourced, Speaks
  <2>1. CASE Remembered(d, ip) /\ globalIP'[ip][d] = globalIP[ip][d]
    <3>1. PICK i \in DOMAIN replies : /\ Speaks(i, ip) /\ replies[i].domain = d
                                      /\ replies[i].expiry = globalIP[ip][d]
      BY <2>1 DEF Global, Sourced
    <3>2. i \in DOMAIN replies' /\ replies'[i] = replies[i]
      BY <1>3
    <3>3. QED
      BY <2>1, <3>1, <3>2 DEF Speaks
  <2>2. CASE d = r.domain /\ ip \in r.ips /\ globalIP'[ip][d] = r.expiry
    BY <1>3, <2>2 DEF Speaks
  <2>3. QED
    BY <1>2, <2>1, <2>2
<1>5. Bounded'
  <2>1. PICK b \in Nat : \A d \in Domains, ip \in IPs : Remembered(d, ip) => globalIP[ip][d] <= b
    BY DEF Global, Bounded
  <2>2. PICK c \in Nat : b <= c /\ r.expiry <= c
    <3>1. CASE b <= r.expiry
      BY <1>1, <3>1
    <3>2. CASE r.expiry <= b
      BY <3>2
    <3>3. QED
      BY <1>1, <3>1, <3>2
  <2>3. ASSUME NEW d \in Domains, NEW ip \in IPs, Remembered(d, ip)' PROVE globalIP'[ip][d] <= c
    <3>1. CASE Remembered(d, ip) /\ globalIP'[ip][d] = globalIP[ip][d]
      <4>1. globalIP[ip][d] \in Nat /\ globalIP[ip][d] <= b
        BY <2>1, <3>1, PairTyping
      <4>2. QED
        BY <2>2, <3>1, <4>1
    <3>2. CASE globalIP'[ip][d] = r.expiry
      BY <2>2, <3>2
    <3>3. QED
      BY <1>2, <2>3, <3>1, <3>2
  <2>4. QED
    BY <2>3 DEF Bounded
<1>6. ASSUME NEW ip \in IPs, NEW i \in DOMAIN replies, Speaks(i, ip)
      PROVE  (\/ /\ Remembered(replies[i].domain, ip)
                 /\ replies[i].expiry <= globalIP[ip][replies[i].domain]
              \/ Evicted(i, ip))'
  <2> DEFINE e == replies[i].domain
             x == replies[i].expiry
  <2>1. replies'[i] = replies[i] /\ x \in Nat /\ e \in Domains
    BY <1>3, ReplyTyping
  <2>2. CASE Remembered(e, ip) /\ x <= globalIP[ip][e]
    <3>1. /\ Remembered(e, ip)' /\ globalIP[ip][e] <= globalIP'[ip][e]
          /\ globalIP[ip][e] \in Nat /\ globalIP'[ip][e] \in Nat
      BY <1>1, <1>2, <2>2, PairTyping
    <3>2. QED
      BY <2>1, <2>2, <3>1
  <2>3. CASE Evicted(i, ip)
    <3>1. x <= latest /\ x <= latest' /\ x <= r.expiry
      BY <1>1, <2>1, <2>3 DEF Evicted
    <3>2. ASSUME NEW d \in Domains, Remembered(d, ip)' PROVE x <= globalIP'[ip][d]
      BY <1>2, <2>3, <3>1, <3>2 DEF Evicted
    <3>3. Evicted(i, ip)'
      BY <2>1, <3>1, <3>2 DEF Evicted
    <3>4. QED
      BY <3>3
  <2>4. QED
    BY <1>6, <2>2, <2>3 DEF Global, KeptOrEvicted
<1>7. ASSUME NEW ip \in IPs, Speaks(n, ip)'
      PROVE  Remembered(r.domain, ip)' /\ r.expiry <= globalIP'[ip][r.domain]
  <2>1. ip \in r.ips
    BY <1>3, <1>7 DEF Speaks
  <2>2. QED
    BY <1>2, <2>1
<1>8. KeptOrEvicted'
  <2> SUFFICES ASSUME NEW ip \in IPs, NEW i \in DOMAIN replies', Speaks(i, ip)'
               PROVE  (\/ /\ Remembered(replies[i].domain, ip)
                          /\ replies[i].expiry <= globalIP[ip][replies[i].domain]
                       \/ Evicted(i, ip))'
    BY DEF KeptOrEvicted
  <2>1. CASE i \in DOMAIN replies
    <3>1. Speaks(i, ip)
      BY <1>3, <2>1 DEF Speaks
    <3>2. QED
      BY <1>6, <2>1, <3>1
  <2>2. CASE i = n
    <3>1. Remembered(r.domain, ip)' /\ r.expiry <= globalIP'[ip][r.domain]
      BY <1>7, <2>2
    <3>2. replies'[i] = r
      BY <1>3, <2>2
    <3>3. QED
      BY <3>1, <3>2 DEF Remembered
  <2>3. QED
    BY <1>3, <2>1, <2>2
<1>9. QED
  BY <1>4, <1>5, <1>8 DEF Global

(* A reply without a TTL, or without an answer, is nobody else's business. *)
LEMMA GlobalUntold ==
  ASSUME Tables, Global, NEW r \in Replies, replies' = Append(replies, r),
         UNCHANGED globalIP, ~(r.ttl > 0 /\ r.ips # {}), latest' \in Nat, latest <= latest'
  PROVE  Global'
<1> DEFINE n == Len(replies) + 1
<1>1. /\ DOMAIN replies' = DOMAIN replies \cup {n} /\ replies'[n] = r
      /\ \A i \in DOMAIN replies : replies'[i] = replies[i]
  BY DEF Tables
<1> HIDE DEF n
<1>2. Sourced'
  <2> SUFFICES ASSUME NEW d \in Domains, NEW ip \in IPs, Remembered(d, ip)'
               PROVE  \E i \in DOMAIN replies' : /\ Speaks(i, ip)' /\ replies'[i].domain = d
                                                 /\ replies'[i].expiry = globalIP'[ip][d]
    BY DEF Sourced, Speaks
  <2>1. PICK i \in DOMAIN replies : /\ Speaks(i, ip) /\ replies[i].domain = d
                                    /\ replies[i].expiry = globalIP[ip][d]
    BY DEF Global, Sourced, Remembered
  <2>2. i \in DOMAIN replies' /\ replies'[i] = replies[i]
    BY <1>1
  <2>3. QED
    BY <2>1, <2>2 DEF Speaks
<1>3. Bounded'
  BY DEF Global, Bounded, Remembered
<1>4. KeptOrEvicted'
  <2> SUFFICES ASSUME NEW ip \in IPs, NEW i \in DOMAIN replies', Speaks(i, ip)'
               PROVE  (\/ /\ Remembered(replies[i].domain, ip)
                          /\ replies[i].expiry <= globalIP[ip][replies[i].domain]
                       \/ Evicted(i, ip))'
    BY DEF KeptOrEvicted
  <2>1. i # n
    BY <1>1 DEF Speaks
  <2>2. i \in DOMAIN replies /\ replies'[i] = replies[i] /\ Speaks(i, ip)
    BY <1>1, <2>1 DEF Speaks
  <2>3. latest \in Nat /\ replies[i].expiry \in Nat
    BY <2>2, ReplyTyping, StoreAssumption DEF Tables
  <2>4. CASE Evicted(i, ip)
    <3>1. Evicted(i, ip)'
      BY <2>2, <2>3, <2>4 DEF Evicted, Remembered
    <3>2. QED
      BY <3>1
  <2>5. CASE /\ Remembered(replies[i].domain, ip)
             /\ replies[i].expiry <= globalIP[ip][replies[i].domain]
    BY <2>2, <2>5 DEF Remembered
  <2>6. QED
    BY <2>2, <2>4, <2>5 DEF Global, KeptOrEvicted
<1>5. QED
  BY <1>2, <1>3, <1>4 DEF Global

-----------------------------------------------------------------------------
(* What the DNS tables keep of the replies, after any events.              *)
Explained == OwnTable /\ Global

LEMMA UpsertExplained ==
  ASSUME Tables, Explained, NEW ts \in 0 .. MaxTime, NEW pid \in Pids,
         NEW comm \in Comms \cup {None}, NEW ppid \in Pids \cup {None},
         UpsertProcess(pid, ppid, comm, ts)
  PROVE  Explained'
<1> DEFINE known == getOrCreateProcess(pid, comm)
<1>1. PICK ctx : /\ ctx = [known EXCEPT !.ppid = ppid, !.comm = IF comm # None THEN comm ELSE @]
                 /\ Store(pid, ctx)
  BY DEF UpsertProcess
<1>2. known \in Contexts
  BY KnownTyping
<1> HIDE DEF known
<1>3. ctx.ipToDomain = known.ipToDomain
  BY <1>1, <1>2 DEF Contexts
<1>4. /\ latest' \in Nat /\ latest <= latest'
      /\ UNCHANGED <<globalIP, replies>>
  BY BeginTyping, StoreAssumption DEF UpsertProcess
<1>5. ctx.ipToDomain = IF pid \in DOMAIN processes THEN processes[pid].ipToDomain ELSE Nothing
  BY <1>3, KnownTyping DEF known
<1>6. OwnTable'
  BY <1>1, <1>4, <1>5, OwnKept DEF Explained
<1>7. QED
  BY <1>4, <1>6, GlobalKept DEF Explained

LEMMA QueryExplained ==
  ASSUME Tables, Explained, NEW ts \in 0 .. MaxTime, NEW pid \in Pids,
         NEW comm \in Comms \cup {None}, NEW domain \in Domains,
         AddDNSQuery(pid, comm, domain, ts)
  PROVE  Explained'
<1> DEFINE known == getOrCreateProcess(pid, comm)
<1>1. PICK ctx : /\ ctx = IF domain \in DOMAIN known.dns THEN known
                          ELSE [known EXCEPT !.dns = Put(@, domain, {})]
                 /\ Store(pid, ctx)
  BY DEF AddDNSQuery
<1>2. known \in Contexts
  BY KnownTyping
<1> HIDE DEF known
<1>3. ctx.ipToDomain = known.ipToDomain
  BY <1>1, <1>2 DEF Contexts
<1>4. /\ latest' \in Nat /\ latest <= latest'
      /\ UNCHANGED <<globalIP, replies>>
  BY BeginTyping, StoreAssumption DEF AddDNSQuery
<1>5. ctx.ipToDomain = IF pid \in DOMAIN processes THEN processes[pid].ipToDomain ELSE Nothing
  BY <1>3, KnownTyping DEF known
<1>6. OwnTable'
  BY <1>1, <1>4, <1>5, OwnKept DEF Explained
<1>7. QED
  BY <1>4, <1>6, GlobalKept DEF Explained

LEMMA ReplyExplained ==
  ASSUME Tables, Explained, NEW ts \in 0 .. MaxTime, NEW pid \in Pids,
         NEW comm \in Comms \cup {None}, NEW domain \in Domains,
         NEW answers \in AnswerLists, NEW ttl \in TTLs \cup {0},
         AddDNSReply(pid, comm, domain, answers, ttl, ts)
  PROVE  Explained'
<1> DEFINE known == getOrCreateProcess(pid, comm)
           ips == {answers[i] : i \in DOMAIN answers}
           reply == [pid |-> pid, domain |-> domain, ips |-> ips, ttl |-> ttl,
                     expiry |-> ts + ttl]
           table == [ip \in DOMAIN known.ipToDomain \cup ips |->
                       IF ip \in ips THEN domain ELSE known.ipToDomain[ip]]
<1>1. PICK ctx : /\ ctx = [known EXCEPT !.dns = Put(@, domain, ips), !.ipToDomain = table]
                 /\ Store(pid, ctx)
  BY DEF AddDNSReply
<1>2. /\ IF ttl > 0 /\ ips # {} THEN addGlobalDNS(domain, ips, ts + ttl)
         ELSE UNCHANGED <<globalDomain, globalIP>>
      /\ replies' = Append(replies, reply)
      /\ Begin(ts)
  BY DEF AddDNSReply
<1>3. known \in Contexts
  BY KnownTyping
<1>4. PICK r \in Replies : r = reply
  <2>1. ips \in SUBSET IPs
    BY DEF AnswerLists
  <2>2. ttl \in Nat /\ ts + ttl \in Nat
    BY StoreAssumption
  <2> HIDE DEF ips
  <2>3. reply \in Replies
    BY <2>1, <2>2 DEF Replies
  <2>4. QED
    BY <2>3
<1>5. /\ r.pid = pid /\ r.domain = domain /\ r.ips = ips /\ r.ttl = ttl
      /\ r.expiry = ts + ttl /\ replies' = Append(replies, r)
  BY <1>2, <1>4
<1> HIDE DEF ips, reply
<1>6. /\ latest' \in Nat /\ latest <= latest' /\ latest <= ts + Skew
      /\ ts \in Nat /\ latest \in Nat
  BY <1>2, BeginTyping, StoreAssumption DEF Tables
<1>7. known.ipToDomain = IF pid \in DOMAIN processes THEN processes[pid].ipToDomain ELSE Nothing
  BY KnownTyping
<1> HIDE DEF known
<1>8. ctx.ipToDomain = table
  BY <1>1, <1>3 DEF Contexts
<1>9. OwnTable'
  <2>1. ctx.ipToDomain = [ip \in DOMAIN known.ipToDomain \cup r.ips |->
                            IF ip \in r.ips THEN r.domain ELSE known.ipToDomain[ip]]
    BY <1>5, <1>8
  <2>2. Store(r.pid, ctx)
    BY <1>1, <1>5
  <2>3. PICK was : was = known.ipToDomain
    OBVIOUS
  <2>4. /\ was = IF r.pid \in DOMAIN processes THEN processes[r.pid].ipToDomain ELSE Nothing
        /\ ctx.ipToDomain = [ip \in DOMAIN was \cup r.ips |->
                               IF ip \in r.ips THEN r.domain ELSE was[ip]]
    BY <1>5, <1>7, <2>1, <2>3
  <2> HIDE DEF table
  <2>5. QED
    BY <1>5, <2>2, <2>4, OwnReplied DEF Explained
<1> HIDE DEF table
<1>10. Global'
  <2>1. CASE ttl > 0 /\ ips # {}
    <3>1. addGlobalDNS(r.domain, r.ips, r.expiry)
      BY <1>2, <1>5, <2>1
    <3>2. Skew <= ttl
      BY <2>1, StoreAssumption
    <3>3. latest <= r.expiry
      BY <1>5, <1>6, <3>2, StoreAssumption
    <3>4. QED
      BY <1>5, <1>6, <2>1, <3>1, <3>3, GlobalReplied DEF Explained
  <2>2. CASE ~(ttl > 0 /\ ips # {})
    BY <1>2, <1>5, <1>6, <2>2, GlobalUntold DEF Explained
  <2>3. QED
    BY <2>1, <2>2
<1>11. QED
  BY <1>9, <1>10 DEF Explained

LEMMA ConnectExplained ==
  ASSUME Tables, Explained, NEW ts \in 0 .. MaxTime, NEW pid \in Pids,
         NEW comm \in Comms \cup {None}, NEW ip \in IPs, NEW port \in Ports,
         AddTCPConnect(pid, comm, ip, port, ts)
  PROVE  Explained'
<1> DEFINE known == getOrCreateProcess(pid, comm)
           conn(d) == [ip |-> ip, port |-> port, domain |-> d]
<1>1. PICK domain, ctx : /\ ctx = [known EXCEPT !.connections = @ \cup {conn(domain)}]
                         /\ Store(pid, ctx)
  BY DEF AddTCPConnect
<1>2. /\ Begin(ts) /\ replies' = replies
      /\ UNCHANGED globalIP \/ deleteGlobalPairs(Expired(ip, ts), ip)
  BY DEF AddTCPConnect
<1>3. known \in Contexts
  BY KnownTyping
<1> HIDE DEF known, conn
<1>4. ctx.ipToDomain = known.ipToDomain
  BY <1>1, <1>3 DEF Contexts
<1>5. latest' \in Nat /\ latest <= latest' /\ ts <= latest' /\ ts \in Nat
  BY <1>2, BeginTyping, StoreAssumption
<1>6. ctx.ipToDomain = IF pid \in DOMAIN processes THEN processes[pid].ipToDomain ELSE Nothing
  BY <1>4, KnownTyping DEF known
<1>7. OwnTable'
  BY <1>1, <1>2, <1>6, OwnKept DEF Explained
<1>8. Global'
  BY <1>2, <1>5, GlobalKept, GlobalEvicted DEF Explained
<1>9. QED
  BY <1>7, <1>8 DEF Explained

LEMMA ExplainedAlways == Spec => []Explained
<1>1. Init => Explained
  BY DEF Init, Explained, Global, OwnTable, Own, Knows, Sourced, KeptOrEvicted, Bounded,
         Remembered, Nothing
<1>2. Tables /\ Explained /\ [Next]_vars => Explained'
  <2> SUFFICES ASSUME Tables, Explained, [Next]_vars PROVE Explained'
    OBVIOUS
  <2>1. CASE UpdateGraph \/ Emit \/ UNCHANGED vars
    <3>1. UNCHANGED <<processes, globalIP, replies, latest>>
      BY <2>1 DEF UpdateGraph, Emit, vars, storeVars, histVars
    <3>2. QED
      BY <3>1 DEF Explained, OwnTable, Own, Knows, Global, Sourced, KeptOrEvicted, Bounded,
                  Remembered, Speaks, Evicted
  <2>2. <<>> \in AnswerLists
    BY StoreAssumption DEF AnswerLists
  <2>3. QED
    BY <2>1, <2>2, UpsertExplained, QueryExplained, ReplyExplained, ConnectExplained
       DEF Next, Operation
<1>3. QED
  BY <1>1, <1>2, TablesAlways, PTL DEF Spec

-----------------------------------------------------------------------------
(* A connect is given the domain that the replies give it.                 *)
LEMMA ConnectAttributed ==
  ASSUME Tables, Explained, NEW ts \in 0 .. MaxTime, NEW pid \in Pids,
         NEW comm \in Comms \cup {None}, NEW ip \in IPs, NEW port \in Ports,
         AddTCPConnect(pid, comm, ip, port, ts)
  PROVE  Attributed'
<1> DEFINE known == getOrCreateProcess(pid, comm)
           live == {i \in DOMAIN replies : Speaks(i, ip) /\ replies[i].expiry > ts}
           last == {j \in live : \A k \in live : replies[k].expiry <= replies[j].expiry}
<1>1. PICK domain \in IF ip \in DOMAIN known.ipToDomain THEN {known.ipToDomain[ip]}
                      ELSE lookupDomainByIP(ip, ts) :
        Return("tcp", pid, ip, domain, ts)
  BY DEF AddTCPConnect
<1>2. Begin(ts) /\ replies' = replies
  BY DEF AddTCPConnect
<1>3. /\ signal'.ts = ts /\ signal'.kind = "tcp" /\ signal'.pid = pid
      /\ signal'.ip = ip /\ signal'.domain = domain
  BY <1>1, ReturnTyping
<1>4. /\ latest' \in Nat /\ latest \in Nat /\ latest <= latest' /\ ts \in Nat
  BY <1>2, BeginTyping, StoreAssumption DEF Tables
<1>5. known.ipToDomain = IF pid \in DOMAIN processes THEN processes[pid].ipToDomain ELSE Nothing
  BY KnownTyping
<1> HIDE DEF known
<1>6. ip \in DOMAIN known.ipToDomain <=> Knows(pid, ip)
  BY <1>5 DEF Knows, Nothing
<1>7. Anybodys(ip, ts) = {replies[i].domain : i \in last}
  <2>1. live = {i \in DOMAIN replies : /\ ip \in replies[i].ips
                                       /\ replies[i].ttl > 0 /\ replies[i].expiry > ts}
    BY DEF Speaks
  <2>2. QED
    BY <2>1 DEF Anybodys
<1>8. \A i \in live :
        \/ /\ Remembered(replies[i].domain, ip)
           /\ replies[i].expiry <= globalIP[ip][replies[i].domain]
        \/ Evicted(i, ip)
  BY DEF Explained, Global, KeptOrEvicted
<1>9. domain \in Reference(pid, ip, ts) \/ (domain = None /\ ts < latest')
  <2>1. CASE Knows(pid, ip)
    <3>1. domain = processes[pid].ipToDomain[ip]
      BY <1>1, <1>5, <1>6, <2>1 DEF Knows
    <3>2. Own(pid, ip) = {domain}
      BY <2>1, <3>1 DEF Explained, OwnTable
    <3>3. QED
      BY <3>2 DEF Reference
  <2>2. CASE ~Knows(pid, ip)
    <3>1. Own(pid, ip) = {} /\ domain \in lookupDomainByIP(ip, ts)
      BY <1>1, <1>6, <2>2 DEF Explained, OwnTable
    <3>2. CASE Chosen(ip, ts) = {}
      <4>1. domain = None
        BY <3>1, <3>2 DEF lookupDomainByIP
      <4>2. ASSUME NEW i \in live PROVE ts < latest'
        <5>1. replies[i].expiry \in Nat /\ replies[i].expiry > ts
          BY ReplyTyping
        <5>2. ASSUME Remembered(replies[i].domain, ip),
                     replies[i].expiry <= globalIP[ip][replies[i].domain]
              PROVE  FALSE
          <6>1. globalIP[ip][replies[i].domain] \in Nat
            BY <5>2, PairTyping
          <6>2. globalIP[ip][replies[i].domain] > ts
            BY <1>4, <5>1, <5>2, <6>1
          <6>3. QED
            BY <1>4, <3>2, <5>2, <6>2, OneChosen DEF Explained, Global
        <5>3. replies[i].expiry <= latest
          BY <1>8, <5>2 DEF Evicted
        <5>4. QED
          BY <1>4, <5>1, <5>3
      <4>3. CASE live = {}
        <5>1. Anybodys(ip, ts) = {}
          BY <1>7, <4>3
        <5>2. QED
          BY <3>1, <4>1, <5>1 DEF Reference
      <4>4. QED
        BY <4>1, <4>2, <4>3
    <3>3. CASE Chosen(ip, ts) # {}
      <4>1. domain \in Chosen(ip, ts)
        BY <3>1, <3>3 DEF lookupDomainByIP
      <4>2. /\ Remembered(domain, ip) /\ ~(globalIP[ip][domain] <= ts)
            /\ \A e : Remembered(e, ip) /\ ~(globalIP[ip][e] <= ts) =>
                        globalIP[ip][e] <= globalIP[ip][domain]
        BY <4>1, ChosenPairs
      <4>3. globalIP[ip][domain] \in Nat /\ domain \in Domains
        BY <4>2, PairTyping
      <4>4. PICK i \in DOMAIN replies : /\ Speaks(i, ip) /\ replies[i].domain = domain
                                        /\ replies[i].expiry = globalIP[ip][domain]
        BY <4>2, <4>3 DEF Explained, Global, Sourced
      <4>5. i \in live
        BY <1>4, <4>2, <4>3, <4>4
      <4>6. ASSUME NEW k \in live PROVE replies[k].expiry <= replies[i].expiry
        <5>1. replies[k].expiry \in Nat /\ replies[k].expiry > ts
          BY ReplyTyping
        <5>2. CASE Evicted(k, ip)
          BY <4>2, <4>3, <4>4, <5>2 DEF Evicted
        <5>3. CASE /\ Remembered(replies[k].domain, ip)
                   /\ replies[k].expiry <= globalIP[ip][replies[k].domain]
          <6>1. globalIP[ip][replies[k].domain] \in Nat
            BY <5>3, PairTyping
          <6>2. ~(globalIP[ip][replies[k].domain] <= ts)
            BY <1>4, <5>1, <5>3, <6>1
          <6>3. globalIP[ip][replies[k].domain] <= globalIP[ip][domain]
            BY <4>2, <5>3, <6>2
          <6>4. QED
            BY <4>3, <4>4, <5>1, <5>3, <6>1, <6>3
        <5>4. QED
          BY <1>8, <5>2, <5>3
      <4>7. i \in last
        BY <4>5, <4>6
      <4>8. domain \in Anybodys(ip, ts)
        BY <1>7, <4>4, <4>7
      <4>9. QED
        BY <3>1, <4>8 DEF Reference
    <3>4. QED
      BY <3>2, <3>3
  <2>3. QED
    BY <2>1, <2>2
<1>10. Reference(signal.pid, signal.ip, signal.ts)' = Reference(pid, ip, ts)
  BY <1>2, <1>3 DEF Reference, Own, Anybodys
<1>11. QED
  BY <1>3, <1>9, <1>10 DEF Attributed

(* AddTCPConnect (store.go) gives a connect the domain of the last reply   *)
(* its process had for the address, else that of a reply of anybody that   *)
(* lasts longest, and no domain only when there is no such reply or when   *)
(* its timestamp is behind an event that evicted it.                       *)
THEOREM Attribution == Spec => []Attributed
<1>1. Init => Attributed
  BY DEF Init, Attributed
<1>2. Tables /\ Explained /\ Attributed /\ [Next]_vars => Attributed'
  <2> SUFFICES ASSUME Tables, Explained, Attributed, [Next]_vars PROVE Attributed'
    OBVIOUS
  <2>1. CASE UpdateGraph \/ UNCHANGED vars
    <3>1. UNCHANGED <<signal, replies, latest>>
      BY <2>1 DEF UpdateGraph, vars, histVars
    <3>2. QED
      BY <3>1 DEF Attributed, Reference, Own, Anybodys
  <2>2. CASE Emit
    BY <2>2 DEF Emit, Attributed
  <2>3. ASSUME NEW ts \in 0 .. MaxTime, NEW pid, NEW comm, NEW domain, NEW ppid, NEW answers,
               NEW ttl,
               \/ UpsertProcess(pid, ppid, comm, ts)
               \/ AddDNSQuery(pid, comm, domain, ts)
               \/ AddDNSReply(pid, comm, domain, answers, ttl, ts)
        PROVE  Attributed'
    <3>1. signal'.kind # "tcp"
      BY <2>3, ReturnTyping DEF UpsertProcess, AddDNSQuery, AddDNSReply
    <3>2. QED
      BY <3>1 DEF Attributed
  <2>4. QED
    BY <2>1, <2>2, <2>3, ConnectAttributed DEF Next, Operation
<1>3. QED
  BY <1>1, <1>2, TablesAlways, ExplainedAlways, PTL DEF Spec
================================================================================
