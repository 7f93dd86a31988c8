-------------------------- MODULE RedirectRulesProofs --------------------------
(***************************************************************************)
(* Theorems about RedirectRules for any processes, addresses, ports, rules *)
(* and replies, any capacity of the map and any number of connects at the  *)
(* same time.                                                              *)
(***************************************************************************)
EXTENDS RedirectRules, FiniteSetTheorems, TLAPS

(* The part of TypeOK that the theorems below need. *)
Typed == /\ boot \in {"exempt", "target", "clear", "rules", "running"}
         /\ rules_pid_exempt \subseteq {Self}
         /\ pc \in [Connects -> {"idle", "static", "port", "delete port", "any",
                                 "delete any", "target", "pass", "redirect"}]
         /\ pid \in [Connects -> Pids] /\ dst \in [Connects -> IPs \X Ports]
         /\ DOMAIN now = Connects
         /\ due \subseteq Connects

Replies == [domain : Domains, ips : SUBSET IPs, expiry : Nat]

(* The replies handled, and the numbers of those cut short.                *)
Listed == clock \in Nat /\ replies \in Seq(Replies) /\ cut \subseteq 1 .. Len(replies)

(* What a step does to the replies handled: it may add one at the end.     *)
Extended == /\ DOMAIN replies \subseteq DOMAIN replies'
            /\ \A n \in DOMAIN replies : replies'[n] = replies[n]

(* How far the command has come, and what the maps hold by then. *)
Configured ==
  /\ boot # "exempt" => Self \in rules_pid_exempt
  /\ boot \in {"clear", "rules", "running"} => proxy_target
  /\ boot \in {"exempt", "target", "clear"} =>
       rules_pid = {} /\ rules_comm = {} /\ rules_ipport = {}
  /\ rules_pid \subseteq RulePids
  /\ rules_comm \subseteq {commKey(n) : n \in RuleComms}
  /\ rules_ipport \subseteq RuleIPs

(* A connect that met a rule in force will meet it in its static lookup,   *)
(* or has met it.                                                          *)
Bound == \A c \in due :
           /\ proxy_target
           /\ pc[c] \in {"static", "target", "redirect"}
           /\ pc[c] = "static" => has_static_rule(pid[c], dst[c])

(* The domain rule map, finite and within its capacity, and the clocks.    *)
Entries ==
  /\ IsFiniteSet(DOMAIN rules_domain) /\ Cardinality(DOMAIN rules_domain) <= Capacity
  /\ DOMAIN rules_domain \subseteq Keys
  /\ \A k \in DOMAIN rules_domain : rules_domain[k] \in Nat
  /\ proxy_target \in BOOLEAN
  /\ clock \in 1 .. MaxTime /\ now \in [Connects -> 0 .. MaxTime]
  /\ todo \subseteq Keys /\ expires \in Nat

-----------------------------------------------------------------------------
(* Typed is an invariant.                                                  *)
LEMMA TypedAlways == Spec => []Typed
<1>1. Init => Typed
  <2>1. PICK ip \in IPs, port \in Ports : TRUE
    BY RulesAssumption
  <2>2. <<ip, port>> \in IPs \X Ports
    OBVIOUS
  <2>3. (CHOOSE k \in IPs \X Ports : TRUE) \in IPs \X Ports
    BY <2>2
  <2>4. QED
    BY <2>3, RulesAssumption DEF Init, Typed
<1>2. Typed /\ [Next]_vars => Typed'
  <2> SUFFICES ASSUME Typed, [Next]_vars PROVE Typed'
    OBVIOUS
  <2> USE DEF Typed
  <2>1. CASE ExemptPID \/ setProxyTarget \/ clearMaps \/ AddRule \/ Applied
    BY <2>1 DEF ExemptPID, setProxyTarget, clearMaps, AddRule, Applied, Boot,
                mapVars, watchVars, connectVars
  <2>2. ASSUME NEW domain \in Domains, NEW ips \in SUBSET IPs, NEW ttl \in TTLs,
               UpdateDomainFromReply(domain, ips, ttl)
        PROVE  Typed'
    BY <2>2 DEF UpdateDomainFromReply, mapVars, connectVars
  <2>3. ASSUME NEW k \in todo, writeEntry(k) PROVE Typed'
    BY <2>3 DEF writeEntry, connectVars
  <2>4. ASSUME NEW c \in Connects, NEW p \in Pids, NEW k \in IPs \X Ports, connect(c, p, k)
        PROVE  Typed'
    <3>1. due' \subseteq Connects
      BY <2>4 DEF connect
    <3>2. QED
      BY <2>4, <3>1 DEF connect, Step, mapVars
  <2>5. ASSUME NEW c \in Connects, staticRules(c) PROVE Typed'
    BY <2>5 DEF staticRules, Step, mapVars
  <2>6. ASSUME NEW c \in Connects, lookupDomain(c) PROVE Typed'
    BY <2>6 DEF lookupDomain, Step, mapVars
  <2>7. ASSUME NEW c \in Connects, deleteExpired(c) PROVE Typed'
    BY <2>7 DEF deleteExpired, Step
  <2>8. ASSUME NEW c \in Connects, lookupTarget(c) PROVE Typed'
    BY <2>8 DEF lookupTarget, Step, mapVars
  <2>9. ASSUME NEW c \in Connects, return(c) PROVE Typed'
    BY <2>9 DEF return, Step, mapVars
  <2>10. CASE Tick
    BY <2>10 DEF Tick, mapVars, connectVars
  <2>11. CASE UNCHANGED vars
    BY <2>11 DEF vars, mapVars, connectVars
  <2>12. QED
    BY <2>1, <2>2, <2>3, <2>4, <2>5, <2>6, <2>7, <2>8, <2>9, <2>10, <2>11 DEF Next
<1>3. QED
  BY <1>1, <1>2, PTL DEF Spec

(* What an append does to the list of replies.                             *)
LEMMA Appended ==
  ASSUME Listed, NEW r \in Replies, replies' = Append(replies, r)
  PROVE  /\ replies' \in Seq(Replies)
         /\ Len(replies) \in Nat /\ DOMAIN replies = 1 .. Len(replies)
         /\ Len(replies') = Len(replies) + 1
         /\ DOMAIN replies' = 1 .. Len(replies) + 1
         /\ replies'[Len(replies) + 1] = r
         /\ \A n \in 1 .. Len(replies) : replies'[n] = replies[n]
BY DEF Listed

(* A reply adds itself to the list.                                        *)
LEMMA Handled ==
  ASSUME Listed, NEW domain \in Domains, NEW ips \in SUBSET IPs, NEW ttl \in TTLs,
         UpdateDomainFromReply(domain, ips, ttl)
  PROVE  \E r \in Replies :
           /\ replies' = Append(replies, r) /\ expires' = r.expiry
           /\ todo' = r.ips \X DomainRules[r.domain]
           /\ todo = {} /\ UNCHANGED <<clock, cut, rules_domain>>
<1> DEFINE r == [domain |-> domain, ips |-> ips, expiry |-> clock + ttl]
<1>1. r \in Replies
  BY RulesAssumption DEF Listed, Replies
<1>2. r.domain = domain /\ r.ips = ips /\ r.expiry = clock + ttl
  OBVIOUS
<1>3. /\ replies' = Append(replies, r) /\ expires' = clock + ttl
      /\ todo' = ips \X DomainRules[domain]
      /\ todo = {} /\ UNCHANGED <<clock, cut, rules_domain>>
  BY DEF UpdateDomainFromReply, mapVars
<1> HIDE DEF r
<1>4. QED
  BY <1>1, <1>2, <1>3

(* No step alters the list otherwise, but for marking what is cut short.   *)
LEMMA OtherSteps ==
  ASSUME [Next]_vars,
         ~ \E domain \in Domains, ips \in SUBSET IPs, ttl \in TTLs :
             UpdateDomainFromReply(domain, ips, ttl)
  PROVE  /\ replies' = replies
         /\ clock' = clock \/ clock' = clock + 1
         /\ cut' = cut \/ (todo # {} /\ cut' = cut \cup {Len(replies)})
<1>1. CASE ExemptPID \/ setProxyTarget \/ clearMaps \/ AddRule \/ Applied
  BY <1>1 DEF ExemptPID, setProxyTarget, clearMaps, AddRule, Applied, Boot, watchVars
<1>2. ASSUME NEW k \in todo, writeEntry(k)
      PROVE  /\ replies' = replies /\ clock' = clock
             /\ cut' = cut \/ (todo # {} /\ cut' = cut \cup {Len(replies)})
  BY <1>2 DEF writeEntry
<1>3. ASSUME NEW c \in Connects,
             \/ \E p \in Pids, k \in IPs \X Ports : connect(c, p, k)
             \/ staticRules(c) \/ lookupDomain(c) \/ deleteExpired(c)
             \/ lookupTarget(c) \/ return(c)
      PROVE  UNCHANGED <<replies, clock, cut>>
  BY <1>3 DEF connect, staticRules, lookupDomain, deleteExpired, lookupTarget,
              return, watchVars
<1>4. CASE Tick \/ UNCHANGED vars
  BY <1>4 DEF Tick, vars, watchVars
<1>5. QED
  BY <1>1, <1>2, <1>3, <1>4 DEF Next

(* What is cut short was handled: there is nothing to write before.        *)
Begun == todo # {} => Len(replies) > 0

(* Listed is an invariant.                                                 *)
LEMMA ListedAlways == Spec => []Listed
<1>1. Init => Listed /\ Begun
  BY DEF Init, Listed, Begun
<1>2. Listed /\ Begun /\ [Next]_vars => (Listed /\ Begun)'
  <2> SUFFICES ASSUME Listed, Begun, [Next]_vars PROVE (Listed /\ Begun)'
    OBVIOUS
  <2>1. ASSUME NEW domain \in Domains, NEW ips \in SUBSET IPs, NEW ttl \in TTLs,
               UpdateDomainFromReply(domain, ips, ttl)
        PROVE  (Listed /\ Begun)'
    <3>1. PICK r \in Replies : replies' = Append(replies, r) /\ UNCHANGED <<clock, cut>>
      BY <2>1, Handled
    <3>2. /\ replies' \in Seq(Replies) /\ Len(replies) \in Nat
          /\ Len(replies') = Len(replies) + 1
      BY <3>1, Appended
    <3>3. QED
      BY <3>1, <3>2 DEF Listed, Begun
  <2>2. ASSUME ~ \E domain \in Domains, ips \in SUBSET IPs, ttl \in TTLs :
                   UpdateDomainFromReply(domain, ips, ttl)
        PROVE  (Listed /\ Begun)'
    <3>1. /\ replies' = replies
          /\ clock' = clock \/ clock' = clock + 1
          /\ cut' = cut \/ (todo # {} /\ cut' = cut \cup {Len(replies)})
      BY <2>2, OtherSteps
    <3>2. Listed'
      <4>1. clock' \in Nat /\ Len(replies) \in Nat
        BY <3>1 DEF Listed
      <4>2. cut' \subseteq 1 .. Len(replies)
        <5>1. todo # {} => Len(replies) \in 1 .. Len(replies)
          BY <4>1 DEF Begun
        <5>2. QED
          BY <3>1, <5>1 DEF Listed
      <4>3. QED
        BY <3>1, <4>1, <4>2 DEF Listed
    <3>3. todo' \subseteq todo
      BY <2>2 DEF Next, ExemptPID, setProxyTarget, clearMaps, AddRule, Applied, Boot,
                  writeEntry, connect, staticRules, lookupDomain, deleteExpired,
                  lookupTarget, return, Tick, vars, watchVars
    <3>4. QED
      BY <3>1, <3>2, <3>3 DEF Begun
  <2>3. QED
    BY <2>1, <2>2
<1>3. QED
  BY <1>1, <1>2, PTL DEF Spec

(* No reply that was handled is forgotten or altered.                      *)
LEMMA Growing == ASSUME Listed, [Next]_vars PROVE Extended
<1>1. ASSUME NEW domain \in Domains, NEW ips \in SUBSET IPs, NEW ttl \in TTLs,
             UpdateDomainFromReply(domain, ips, ttl)
      PROVE  Extended
  <2>1. PICK r \in Replies : replies' = Append(replies, r)
    BY <1>1, Handled
  <2>2. QED
    BY <2>1, Appended DEF Extended
<1>2. CASE replies' = replies
  BY <1>2 DEF Extended
<1>3. QED
  BY <1>1, <1>2, OtherSteps

(* Configured is an invariant: the maps are empty until they are cleared.  *)
LEMMA ConfiguredAlways == Spec => []Configured
<1>1. Init => Configured
  BY DEF Init, Configured
<1>2. Configured /\ [Next]_vars => Configured'
  <2> SUFFICES ASSUME Configured, [Next]_vars PROVE Configured'
    OBVIOUS
  <2> USE DEF Configured, commKey
  <2>1. CASE ExemptPID
    BY <2>1 DEF ExemptPID, Boot
  <2>2. CASE setProxyTarget
    BY <2>2 DEF setProxyTarget, Boot
  <2>3. CASE clearMaps
    BY <2>3 DEF clearMaps, Boot
  <2>4. CASE AddRule
    BY <2>4 DEF AddRule, Boot
  <2>5. CASE Applied
    BY <2>5 DEF Applied, Boot, mapVars
  <2>6. CASE UNCHANGED <<boot, rules_pid_exempt, rules_pid, rules_comm, rules_ipport, proxy_target>>
    BY <2>6
  <2>7. ASSUME NEW domain \in Domains, NEW ips \in SUBSET IPs, NEW ttl \in TTLs,
               UpdateDomainFromReply(domain, ips, ttl)
        PROVE  Configured'
    BY <2>6, <2>7 DEF UpdateDomainFromReply, mapVars
  <2>8. ASSUME NEW k \in todo, writeEntry(k) PROVE Configured'
    BY <2>6, <2>8 DEF writeEntry
  <2>9. ASSUME NEW c \in Connects,
               \/ \E p \in Pids, k \in IPs \X Ports : connect(c, p, k)
               \/ staticRules(c) \/ lookupDomain(c) \/ deleteExpired(c)
               \/ lookupTarget(c) \/ return(c)
        PROVE  Configured'
    BY <2>6, <2>9 DEF connect, staticRules, lookupDomain, deleteExpired, lookupTarget,
                      return, mapVars
  <2>10. CASE Tick \/ UNCHANGED vars
    BY <2>6, <2>10 DEF Tick, vars, mapVars
  <2>11. QED
    BY <2>1, <2>2, <2>3, <2>4, <2>5, <2>7, <2>8, <2>9, <2>10 DEF Next
<1>3. QED
  BY <1>1, <1>2, PTL DEF Spec

-----------------------------------------------------------------------------
(* The static lookup finds every rule that the configuration means.        *)
LEMMA RuleFound ==
  ASSUME NEW p \in Pids, NEW k \in IPs \X Ports, InForce(p, k)
  PROVE  has_static_rule(p, k) /\ proxy_target /\ p \notin rules_pid_exempt
<1>1. /\ p \notin rules_pid_exempt /\ proxy_target
      /\ Ruled(p, k, rules_pid, {n \in RuleComms : commKey(n) \in rules_comm}, rules_ipport)
  BY DEF InForce
<1>2. CASE p \in rules_pid
  BY <1>1, <1>2 DEF has_static_rule
<1>3. CASE CommOf[p] \in {n \in RuleComms : commKey(n) \in rules_comm} \ LongComms
  <2>1. commKey(CommOf[p]) = kernelComm(CommOf[p])
    BY <1>3 DEF commKey, kernelComm
  <2>2. QED
    BY <1>1, <1>3, <2>1 DEF has_static_rule
<1>4. CASE ({k[1]} \X {k[2], AnyPort}) \cap rules_ipport # {}
  <2>1. ({k[1]} \X {k[2], AnyPort}) \subseteq Matching(k[1], k[2])
    BY DEF Matching
  <2>2. QED
    BY <1>1, <1>4, <2>1 DEF has_static_rule
<1>5. QED
  BY <1>1, <1>2, <1>3, <1>4 DEF Ruled

(* The maps of the static rules only grow while a connect is under way: a  *)
(* connect that begins when a rule is in force is redirected.              *)
THEOREM Enforcement == Spec => []RulesHold
<1> USE RulesAssumption
<1>1. Init => Bound
  BY DEF Init, Bound
<1>2. Typed /\ Configured /\ Bound /\ [Next]_vars => Bound'
  <2> SUFFICES ASSUME Typed, Configured, Bound, [Next]_vars PROVE Bound'
    OBVIOUS
  <2>1. ASSUME /\ proxy_target => proxy_target'
               /\ rules_pid \subseteq rules_pid' /\ rules_comm \subseteq rules_comm'
               /\ rules_ipport \subseteq rules_ipport'
               /\ UNCHANGED connectVars
        PROVE  Bound'
    BY <2>1 DEF Bound, has_static_rule, Matching, kernelComm, connectVars
  <2>2. CASE ExemptPID \/ setProxyTarget
    BY <2>1, <2>2 DEF ExemptPID, setProxyTarget, Boot
  <2>3. CASE clearMaps
    BY <2>1, <2>3 DEF clearMaps, Boot, Configured
  <2>4. CASE AddRule
    BY <2>1, <2>4 DEF AddRule, Boot
  <2>5. CASE Applied
    BY <2>1, <2>5 DEF Applied, Boot, mapVars
  <2>6. ASSUME NEW domain \in Domains, NEW ips \in SUBSET IPs, NEW ttl \in TTLs,
               UpdateDomainFromReply(domain, ips, ttl)
        PROVE  Bound'
    BY <2>1, <2>6 DEF UpdateDomainFromReply, mapVars
  <2>7. ASSUME NEW k \in todo, writeEntry(k) PROVE Bound'
    BY <2>1, <2>7 DEF writeEntry
  <2>8. CASE Tick
    BY <2>1, <2>8 DEF Tick, mapVars
  <2>9. CASE UNCHANGED vars
    BY <2>1, <2>9 DEF vars, mapVars
  <2>10. ASSUME NEW c \in Connects, NEW p \in Pids, NEW k \in IPs \X Ports, connect(c, p, k)
         PROVE  Bound'
    <3>1. /\ UNCHANGED <<rules_pid, rules_comm, rules_ipport, proxy_target>>
          /\ pid' = [pid EXCEPT ![c] = p] /\ dst' = [dst EXCEPT ![c] = k]
          /\ pc[c] = "idle"
          /\ pc' = [pc EXCEPT ![c] = IF p \in rules_pid_exempt THEN "pass" ELSE "static"]
      BY <2>10 DEF connect, Step, mapVars
    <3>2. \A q \in Pids, x \in IPs \X Ports : has_static_rule(q, x)' = has_static_rule(q, x)
      BY <3>1 DEF has_static_rule, Matching, kernelComm
    <3>3. ASSUME NEW o \in due', o # c
          PROVE  /\ proxy_target' /\ pc'[o] \in {"static", "target", "redirect"}
                 /\ pc'[o] = "static" => has_static_rule(pid[o], dst[o])
                 /\ pid'[o] = pid[o] /\ dst'[o] = dst[o]
      <4>1. o \in due
        BY <2>10, <3>3 DEF connect
      <4>2. QED
        BY <3>1, <3>3, <4>1 DEF Bound, Typed
    <3>4. ASSUME c \in due'
          PROVE  proxy_target' /\ pc'[c] = "static" /\ has_static_rule(p, k)
      <4>1. c \notin due
        BY <3>1 DEF Bound
      <4>2. InForce(p, k)
        BY <2>10, <3>4, <4>1 DEF connect
      <4>3. QED
        BY <3>1, <4>2, RuleFound DEF Typed
    <3>5. /\ pid'[c] = p /\ dst'[c] = k
          /\ \A o \in Connects : pid[o] \in Pids /\ dst[o] \in IPs \X Ports
      BY <3>1 DEF Typed
    <3>6. due' \subseteq Connects
      BY <2>10 DEF connect, Typed
    <3>7. \A o \in due' : (pc'[o] = "static" => has_static_rule(pid'[o], dst'[o]))
      BY <3>3, <3>4, <3>5
    <3>8. \A o \in due' : has_static_rule(pid[o], dst[o])' = has_static_rule(pid'[o], dst'[o])
      BY <3>1 DEF has_static_rule, Matching, kernelComm
    <3>9. QED
      BY <3>3, <3>4, <3>7, <3>8 DEF Bound
  <2>11. ASSUME NEW c \in Connects,
                \/ staticRules(c) \/ lookupDomain(c) \/ deleteExpired(c)
                \/ lookupTarget(c) \/ return(c)
         PROVE  Bound'
    <3>1. /\ UNCHANGED <<rules_pid, rules_comm, rules_ipport, proxy_target, pid, dst>>
          /\ \A o \in Connects : o # c => pc'[o] = pc[o]
          /\ due' \subseteq due
      BY <2>11 DEF staticRules, lookupDomain, deleteExpired, lookupTarget, return, Step,
                   mapVars, Typed
    <3>2. c \in due' => proxy_target /\ pc'[c] \in {"target", "redirect"}
      BY <2>11 DEF staticRules, lookupDomain, deleteExpired, lookupTarget, return, Step,
                   Bound, Typed
    <3>3. QED
      BY <3>1, <3>2 DEF Bound, Typed, has_static_rule, Matching, kernelComm
  <2>12. QED
    BY <2>2, <2>3, <2>4, <2>5, <2>6, <2>7, <2>8, <2>9, <2>10, <2>11 DEF Next
<1>3. Bound => RulesHold
  BY DEF Bound, RulesHold
<1>4. QED
  BY <1>1, <1>2, <1>3, TypedAlways, ConfiguredAlways, PTL DEF Spec

-----------------------------------------------------------------------------
(* Some reply gave the entry k the expiry t. *)
Told(k, t) == \E n \in DOMAIN replies : Concerns(n, k) /\ replies[n].expiry = t

(* Every entry, written or still to write, goes back to a reply. *)
Sources == /\ \A k \in todo : Told(k, expires)
           /\ \A k \in DOMAIN rules_domain : Told(k, rules_domain[k])

Reason(p, k, t) ==
  \/ \E ip \in {k[1], Reversed[k[1]]} :
       Ruled(p, <<ip, k[2]>>, RulePids, RuleComms, RuleIPs)
  \/ RuleOfReply(k, t)

Reasoned == \A c \in Connects :
  /\ pc[c] \notin {"idle", "pass"} => pid[c] # Self
  /\ pc[c] \in {"target", "redirect"} => Reason(pid[c], dst[c], now[c])

(* What the static lookup finds is a configured rule.                      *)
LEMMA StaticReason ==
  ASSUME Configured, NEW p \in Pids, NEW k \in IPs \X Ports, has_static_rule(p, k), NEW t
  PROVE  Reason(p, k, t)
<1>1. CASE p \in rules_pid
  BY <1>1 DEF Configured, Reason, Ruled
<1>2. CASE kernelComm(CommOf[p]) \in rules_comm
  <2>1. PICK n \in RuleComms : kernelComm(CommOf[p]) = commKey(n)
    BY <1>2 DEF Configured
  <2>2. CommOf[p] = n /\ n \notin LongComms
    BY <2>1 DEF kernelComm, commKey
  <2>3. QED
    BY <2>2 DEF Reason, Ruled
<1>3. CASE Matching(k[1], k[2]) \cap rules_ipport # {}
  <2>1. PICK ip \in {k[1], Reversed[k[1]]}, port \in {k[2], AnyPort} :
          <<ip, port>> \in RuleIPs
    BY <1>3 DEF Matching, Configured
  <2>2. ({ip} \X {k[2], AnyPort}) \cap RuleIPs # {}
    BY <2>1
  <2>3. Ruled(p, <<ip, k[2]>>, RulePids, RuleComms, RuleIPs)
    BY <2>2 DEF Ruled
  <2>4. QED
    BY <2>3 DEF Reason
<1>4. QED
  BY <1>1, <1>2, <1>3 DEF has_static_rule

(* A live domain entry is the word of a reply that has not expired.        *)
LEMMA ReplyReason ==
  ASSUME Sources, NEW k \in IPs \X Ports, NEW t, NEW p,
         NEW e \in {k, <<k[1], AnyPort>>}, e \in DOMAIN rules_domain, Live(e, t)
  PROVE  Reason(p, k, t)
<1>1. PICK n \in DOMAIN replies : /\ e[1] \in replies[n].ips
                                  /\ replies[n].expiry = rules_domain[e]
                                  /\ e[2] \in DomainRules[replies[n].domain]
  BY DEF Sources, Told, Concerns
<1>2. e[1] = k[1] /\ e[2] \in {k[2], AnyPort} /\ replies[n].expiry > t
  BY <1>1 DEF Live
<1>3. DomainRules[replies[n].domain] \cap {k[2], AnyPort} # {}
  BY <1>1, <1>2
<1>4. QED
  BY <1>1, <1>2, <1>3 DEF Reason, RuleOfReply

(* Everything in the domain rule map was put there by a reply. *)
LEMMA SourcesAlways == Spec => []Sources
<1>1. Init => Sources
  BY DEF Init, Sources
<1>2. Listed /\ Sources /\ [Next]_vars => Sources'
  <2> SUFFICES ASSUME Listed, Sources, [Next]_vars PROVE Sources'
    OBVIOUS
  <2>1. ASSUME UNCHANGED <<todo, expires, replies>>,
               \A k \in DOMAIN rules_domain' : /\ k \in DOMAIN rules_domain
                                              /\ rules_domain'[k] = rules_domain[k]
        PROVE  Sources'
    BY <2>1 DEF Sources, Told, Concerns
  <2>2. CASE ExemptPID \/ setProxyTarget \/ clearMaps \/ AddRule \/ Applied
    BY <2>1, <2>2 DEF ExemptPID, setProxyTarget, clearMaps, AddRule, Applied, Boot,
                      watchVars, mapVars
  <2>3. ASSUME NEW domain \in Domains, NEW ips \in SUBSET IPs, NEW ttl \in TTLs,
               UpdateDomainFromReply(domain, ips, ttl)
        PROVE  Sources'
    <3>1. PICK r \in Replies :
            /\ replies' = Append(replies, r) /\ expires' = r.expiry
            /\ todo' = r.ips \X DomainRules[r.domain]
            /\ todo = {} /\ UNCHANGED <<clock, cut, rules_domain>>
      BY <2>3, Handled
    <3>2. rules_domain' = rules_domain
      BY <3>1
    <3>3. \E n \in DOMAIN replies' : replies'[n] = r
      <4>1. /\ Len(replies) \in Nat /\ DOMAIN replies' = 1 .. Len(replies) + 1
            /\ replies'[Len(replies) + 1] = r
        BY <3>1, Appended
      <4>2. Len(replies) + 1 \in DOMAIN replies'
        BY <4>1
      <4>3. QED
        BY <4>1, <4>2
    <3>4. Extended
      BY Growing
    <3>5. \A k, t : Told(k, t) => Told(k, t)'
      BY <3>4 DEF Told, Extended, Concerns
    <3>6. ASSUME NEW k \in todo' PROVE Told(k, expires)'
      BY <3>1, <3>3, <3>6 DEF Told, Concerns
    <3>7. ASSUME NEW k \in DOMAIN rules_domain' PROVE Told(k, rules_domain[k])'
      <4>1. Told(k, rules_domain[k])
        BY <3>2, <3>7 DEF Sources
      <4>2. QED
        BY <3>2, <3>4, <4>1 DEF Told, Extended, Concerns
    <3>8. QED
      BY <3>6, <3>7 DEF Sources
  <2>4. ASSUME NEW k \in todo, writeEntry(k) PROVE Sources'
    <3>1. /\ todo' \subseteq todo /\ UNCHANGED <<expires, replies>>
          /\ \/ rules_domain' = rules_domain
             \/ rules_domain' = [x \in DOMAIN rules_domain \cup {k} |->
                                    IF x = k THEN expires ELSE rules_domain[x]]
      BY <2>4 DEF writeEntry, Write
    <3>2. QED
      BY <3>1 DEF Sources, Told, Concerns
  <2>5. ASSUME NEW c \in Connects, deleteExpired(c) PROVE Sources'
    <3>1. PICK k : rules_domain' = [x \in DOMAIN rules_domain \ {k} |-> rules_domain[x]]
      BY <2>5 DEF deleteExpired
    <3>2. UNCHANGED <<todo, expires, replies>>
      BY <2>5 DEF deleteExpired, watchVars
    <3>3. \A x \in DOMAIN rules_domain' : /\ x \in DOMAIN rules_domain
                                         /\ rules_domain'[x] = rules_domain[x]
      BY <3>1
    <3>4. QED
      BY <2>1, <3>2, <3>3
  <2>6. ASSUME NEW c \in Connects,
               \/ \E p \in Pids, k \in IPs \X Ports : connect(c, p, k)
               \/ staticRules(c) \/ lookupDomain(c) \/ lookupTarget(c) \/ return(c)
        PROVE  Sources'
    BY <2>1, <2>6 DEF connect, staticRules, lookupDomain, lookupTarget, return,
                      watchVars, mapVars
  <2>7. CASE Tick \/ UNCHANGED vars
    BY <2>1, <2>7 DEF Tick, vars, watchVars, mapVars
  <2>8. QED
    BY <2>2, <2>3, <2>4, <2>5, <2>6, <2>7 DEF Next
<1>3. QED
  BY <1>1, <1>2, ListedAlways, PTL DEF Spec

(* Only the connects that a rule or a live reply speaks of are redirected, *)
(* and never the proxy's own, although the hooks run before the proxy is   *)
(* exempt and while the rules are written.                                 *)
THEOREM Justification == Spec => []Justified
<1> USE RulesAssumption
<1>1. Init => Reasoned
  BY DEF Init, Reasoned
<1>2. Typed /\ Listed /\ Configured /\ Sources /\ Reasoned /\ [Next]_vars => Reasoned'
  <2> SUFFICES ASSUME Typed, Listed, Configured, Sources, Reasoned, [Next]_vars PROVE Reasoned'
    OBVIOUS
  <2>1. ASSUME UNCHANGED connectVars PROVE Reasoned'
    <3>1. \A k, t : RuleOfReply(k, t) => RuleOfReply(k, t)'
      BY Growing DEF RuleOfReply, Extended
    <3>2. \A p, k, t : Reason(p, k, t) => Reason(p, k, t)'
      BY <3>1 DEF Reason, Ruled
    <3>3. ASSUME NEW c \in Connects, Reason(pid[c], dst[c], now[c])
          PROVE  Reason(pid[c], dst[c], now[c])'
      BY <2>1, <3>3, Growing DEF Reason, Ruled, RuleOfReply, Extended, connectVars
    <3>4. QED
      BY <2>1, <3>3 DEF Reasoned, connectVars
  <2>2. CASE ExemptPID \/ setProxyTarget \/ clearMaps \/ AddRule \/ Applied
    BY <2>1, <2>2 DEF ExemptPID, setProxyTarget, clearMaps, AddRule, Applied, Boot, watchVars
  <2>3. ASSUME NEW domain \in Domains, NEW ips \in SUBSET IPs, NEW ttl \in TTLs,
               UpdateDomainFromReply(domain, ips, ttl)
        PROVE  Reasoned'
    BY <2>1, <2>3 DEF UpdateDomainFromReply
  <2>4. ASSUME NEW k \in todo, writeEntry(k) PROVE Reasoned'
    BY <2>1, <2>4 DEF writeEntry
  <2>5. CASE Tick \/ UNCHANGED vars
    BY <2>1, <2>5 DEF Tick, vars, watchVars
  <2>6. ASSUME NEW c \in Connects,
               replies' = replies,
               \A o \in Connects \ {c} : /\ pc'[o] = pc[o] /\ pid'[o] = pid[o]
                                         /\ dst'[o] = dst[o] /\ now'[o] = now[o],
               pc'[c] \notin {"idle", "pass"} => pid'[c] # Self,
               pc'[c] \in {"target", "redirect"} => Reason(pid'[c], dst'[c], now'[c])
        PROVE  Reasoned'
    <3>1. \A p, k, t : Reason(p, k, t) => Reason(p, k, t)'
      BY <2>6 DEF Reason, RuleOfReply, Ruled
    <3>2. ASSUME NEW o \in Connects
          PROVE  /\ pc'[o] \notin {"idle", "pass"} => pid'[o] # Self
                 /\ pc'[o] \in {"target", "redirect"} => Reason(pid'[o], dst'[o], now'[o])
      BY <2>6 DEF Reasoned
    <3>3. ASSUME NEW o \in Connects, Reason(pid'[o], dst'[o], now'[o])
          PROVE  Reason(pid[o], dst[o], now[o])'
      BY <2>6, <3>3 DEF Reason, RuleOfReply, Ruled
    <3>4. QED
      BY <3>2, <3>3 DEF Reasoned
  <2>7. ASSUME NEW c \in Connects, NEW p \in Pids, NEW k \in IPs \X Ports, connect(c, p, k)
        PROVE  Reasoned'
    <3>1. /\ replies' = replies
          /\ \A o \in Connects \ {c} : /\ pc'[o] = pc[o] /\ pid'[o] = pid[o]
                                        /\ dst'[o] = dst[o] /\ now'[o] = now[o]
      BY <2>7 DEF connect, Step, watchVars, Typed
    <3>2. pid'[c] = p /\ (pc'[c] # "pass" => p \notin rules_pid_exempt)
      BY <2>7 DEF connect, Step, Typed
    <3>3. p = Self => p \in rules_pid_exempt
      BY <2>7 DEF connect, Configured
    <3>4. pc'[c] \in {"pass", "static"}
      BY <2>7 DEF connect, Step, Typed
    <3>5. QED
      BY <2>6, <3>1, <3>2, <3>3, <3>4
  <2>8. ASSUME NEW c \in Connects,
               \/ staticRules(c) \/ lookupDomain(c) \/ deleteExpired(c)
               \/ lookupTarget(c) \/ return(c)
        PROVE  Reasoned'
    <3>1. /\ replies' = replies /\ pid' = pid /\ dst' = dst
          /\ \A o \in Connects \ {c} : pc'[o] = pc[o] /\ now'[o] = now[o]
      BY <2>8 DEF staticRules, lookupDomain, deleteExpired, lookupTarget, return, Step,
                  watchVars, Typed
    <3>2. pc'[c] # "idle" => pc[c] \notin {"idle", "pass"}
      BY <2>8 DEF staticRules, lookupDomain, deleteExpired, lookupTarget, return, Step, Typed
    <3>3. ASSUME pc'[c] \in {"target", "redirect"} PROVE Reason(pid[c], dst[c], now'[c])
      <4>1. pid[c] \in Pids /\ dst[c] \in IPs \X Ports
        BY DEF Typed
      <4>2. CASE staticRules(c)
        <5>1. has_static_rule(pid[c], dst[c])
          BY <3>3, <4>2 DEF staticRules, Step, Typed
        <5>2. QED
          BY <4>1, <5>1, StaticReason
      <4>3. CASE lookupDomain(c)
        <5>1. KeyOf(c) \in DOMAIN rules_domain /\ Live(KeyOf(c), now[c])
          BY <3>3, <4>3 DEF lookupDomain, Step, Typed
        <5>2. KeyOf(c) \in {dst[c], <<dst[c][1], AnyPort>>}
          BY DEF KeyOf
        <5>3. now' = now
          BY <4>3 DEF lookupDomain
        <5>4. QED
          BY <4>1, <5>1, <5>2, <5>3, ReplyReason
      <4>4. CASE deleteExpired(c) \/ return(c)
        BY <3>3, <4>4 DEF deleteExpired, return, Step, Typed
      <4>5. CASE lookupTarget(c)
        BY <3>3, <4>5 DEF lookupTarget, Step, Typed, Reasoned
      <4>6. QED
        BY <2>8, <4>2, <4>3, <4>4, <4>5
    <3>4. pc'[c] \notin {"idle", "pass"} => pid[c] # Self
      BY <3>2 DEF Reasoned
    <3>5. QED
      BY <2>6, <3>1, <3>3, <3>4
  <2>9. QED
    BY <2>2, <2>3, <2>4, <2>5, <2>7, <2>8 DEF Next
<1>3. Reasoned => Justified
  BY DEF Reasoned, Reason, Justified
<1>4. QED
  BY <1>1, <1>2, <1>3, TypedAlways, ListedAlways, ConfiguredAlways, SourcesAlways, PTL
  DEF Spec

-----------------------------------------------------------------------------
(* What the watcher writes into the map fits.                              *)
LEMMA WrittenFits ==
  ASSUME Entries, NEW k \in todo, HasRoom(k)
  PROVE  /\ IsFiniteSet(DOMAIN Write(k)) /\ Cardinality(DOMAIN Write(k)) <= Capacity
         /\ DOMAIN Write(k) \subseteq Keys
         /\ \A x \in DOMAIN Write(k) : Write(k)[x] \in Nat
<1>1. DOMAIN Write(k) = DOMAIN rules_domain \cup {k}
  BY DEF Write
<1>2. /\ IsFiniteSet(DOMAIN rules_domain \cup {k})
      /\ Cardinality(DOMAIN rules_domain \cup {k})
           = IF k \in DOMAIN rules_domain THEN Cardinality(DOMAIN rules_domain)
             ELSE Cardinality(DOMAIN rules_domain) + 1
  BY FS_AddElement DEF Entries
<1>3. Cardinality(DOMAIN rules_domain) \in Nat
  BY FS_CardinalityType DEF Entries
<1>4. Cardinality(DOMAIN rules_domain \cup {k}) <= Capacity
  BY <1>2, <1>3, RulesAssumption DEF Entries, HasRoom
<1>5. k \in Keys
  BY DEF Entries
<1>6. \A x \in DOMAIN Write(k) : Write(k)[x] \in Nat
  BY DEF Entries, Write
<1>7. QED
  BY <1>1, <1>2, <1>4, <1>5, <1>6 DEF Entries

(* A smaller map fits as well.                                             *)
LEMMA DeletedFits ==
  ASSUME Entries, NEW D, rules_domain' = [x \in DOMAIN rules_domain \ D |-> rules_domain[x]]
  PROVE  /\ IsFiniteSet(DOMAIN rules_domain') /\ Cardinality(DOMAIN rules_domain') <= Capacity
         /\ DOMAIN rules_domain' \subseteq Keys
         /\ \A k \in DOMAIN rules_domain' : rules_domain'[k] \in Nat
<1>1. DOMAIN rules_domain' = DOMAIN rules_domain \ D
  OBVIOUS
<1>2. /\ IsFiniteSet(DOMAIN rules_domain \ D)
      /\ Cardinality(DOMAIN rules_domain \ D) <= Cardinality(DOMAIN rules_domain)
      /\ Cardinality(DOMAIN rules_domain) \in Nat
      /\ Cardinality(DOMAIN rules_domain \ D) \in Nat
  <2>1. DOMAIN rules_domain \ D \subseteq DOMAIN rules_domain
    OBVIOUS
  <2>2. QED
    BY <2>1, FS_Subset, FS_CardinalityType DEF Entries
<1>3. Cardinality(DOMAIN rules_domain \ D) <= Capacity
  BY <1>2, RulesAssumption DEF Entries
<1>4. QED
  BY <1>1, <1>2, <1>3 DEF Entries

(* Entries is an invariant.                                                *)
LEMMA EntriesAlways == Spec => []Entries
<1> USE RulesAssumption
<1>1. Init => Entries
  <2> SUFFICES ASSUME Init PROVE Entries
    OBVIOUS
  <2>1. DOMAIN rules_domain = {}
    BY DEF Init
  <2>2. IsFiniteSet({}) /\ Cardinality({}) = 0
    BY FS_EmptySet
  <2>3. 0 <= Capacity
    OBVIOUS
  <2>4. /\ proxy_target \in BOOLEAN /\ clock \in 1 .. MaxTime
        /\ now \in [Connects -> 0 .. MaxTime]
        /\ todo \subseteq Keys /\ expires \in Nat
    <3>1. proxy_target = FALSE /\ clock = 1 /\ todo = {} /\ expires = 0
      BY DEF Init
    <3>2. now = [c \in Connects |-> 0]
      BY DEF Init
    <3>3. 1 \in 1 .. MaxTime /\ 0 \in 0 .. MaxTime
      OBVIOUS
    <3>4. now \in [Connects -> 0 .. MaxTime]
      BY <3>2, <3>3
    <3>5. QED
      BY <3>1, <3>3, <3>4
  <2>5. QED
    BY <2>1, <2>2, <2>3, <2>4 DEF Entries
<1>2. Typed /\ Entries /\ [Next]_vars => Entries'
  <2> SUFFICES ASSUME Typed, Entries, [Next]_vars PROVE Entries'
    OBVIOUS
  <2>1. CASE UNCHANGED <<rules_domain, proxy_target, clock, now, todo, expires>>
    BY <2>1 DEF Entries
  <2>2. CASE ExemptPID \/ AddRule \/ Applied
    BY <2>1, <2>2 DEF ExemptPID, AddRule, Applied, Boot, watchVars, connectVars, mapVars
  <2>3. CASE setProxyTarget
    BY <2>3 DEF setProxyTarget, Boot, watchVars, connectVars, Entries
  <2>4. CASE clearMaps
    <3>1. DOMAIN rules_domain' = {}
      BY <2>4 DEF clearMaps
    <3>2. IsFiniteSet({}) /\ Cardinality({}) = 0
      BY FS_EmptySet
    <3>3. 0 <= Capacity
      OBVIOUS
    <3>4. UNCHANGED <<proxy_target, clock, now, todo, expires>>
      BY <2>4 DEF clearMaps, Boot, watchVars, connectVars
    <3>5. QED
      BY <3>1, <3>2, <3>3, <3>4 DEF Entries
  <2>5. ASSUME NEW domain \in Domains, NEW ips \in SUBSET IPs, NEW ttl \in TTLs,
               UpdateDomainFromReply(domain, ips, ttl)
        PROVE  Entries'
    <3>1. ips \X DomainRules[domain] \subseteq Keys
      BY DEF Keys
    <3>2. clock + ttl \in Nat
      BY DEF Entries
    <3>3. QED
      BY <2>5, <3>1, <3>2 DEF UpdateDomainFromReply, mapVars, connectVars, Entries
  <2>6. ASSUME NEW k \in todo, writeEntry(k) PROVE Entries'
    <3>1. UNCHANGED <<proxy_target, clock, now, expires>> /\ todo' \subseteq todo
      BY <2>6 DEF writeEntry, connectVars
    <3>2. CASE HasRoom(k)
      <4>1. rules_domain' = Write(k)
        BY <2>6, <3>2 DEF writeEntry
      <4>2. QED
        BY <3>1, <3>2, <4>1, WrittenFits DEF Entries
    <3>3. CASE ~HasRoom(k)
      BY <2>6, <3>1, <3>3 DEF writeEntry, Entries
    <3>4. QED
      BY <3>2, <3>3
  <2>7. ASSUME NEW c \in Connects, deleteExpired(c) PROVE Entries'
    <3>1. /\ UNCHANGED <<proxy_target, clock, now, todo, expires>>
          /\ rules_domain' = [x \in DOMAIN rules_domain \ {KeyOf(c)} |-> rules_domain[x]]
      BY <2>7 DEF deleteExpired, watchVars
    <3>2. QED
      BY <3>1, DeletedFits DEF Entries
  <2>8. ASSUME NEW c \in Connects,
               \/ \E p \in Pids, k \in IPs \X Ports : connect(c, p, k)
               \/ lookupDomain(c) \/ lookupTarget(c)
        PROVE  Entries'
    BY <2>1, <2>8 DEF connect, lookupDomain, lookupTarget, mapVars, watchVars
  <2>9. ASSUME NEW c \in Connects, staticRules(c) \/ return(c) PROVE Entries'
    <3>1. now' \in [Connects -> 0 .. MaxTime]
      BY <2>9 DEF staticRules, return, Entries
    <3>2. QED
      BY <2>9, <3>1 DEF staticRules, return, mapVars, watchVars, Entries
  <2>10. CASE Tick
    BY <2>10 DEF Tick, mapVars, watchVars, connectVars, Entries
  <2>11. CASE UNCHANGED vars
    BY <2>1, <2>11 DEF vars, mapVars, watchVars, connectVars
  <2>12. QED
    BY <2>2, <2>3, <2>4, <2>5, <2>6, <2>7, <2>8, <2>9, <2>10, <2>11 DEF Next
<1>3. QED
  BY <1>1, <1>2, TypedAlways, PTL DEF Spec

(* The maps hold what the configuration and the replies may put into them, *)
(* and the domain rule map never more entries than its capacity, although  *)
(* every connect may delete one between two of the watcher's writes.       *)
THEOREM Typing == Spec => []TypeOK
<1>1. Typed /\ Listed /\ Configured /\ Entries => TypeOK
  BY DEF Typed, Listed, Configured, Entries, TypeOK
<1>2. QED
  BY <1>1, TypedAlways, ListedAlways, ConfiguredAlways, EntriesAlways, PTL

(* Of the first m replies, the last that concern k and were not cut short, *)
(* or one cut short after it, gave k the expiry t.                         *)
Decided(k, t, m) ==
  \E n \in DOMAIN replies :
    /\ n <= m /\ Concerns(n, k) /\ t = replies[n].expiry
    /\ \A later \in DOMAIN replies :
         later > n /\ later <= m /\ Concerns(later, k) => later \in cut

(* While a reply is being written, it decides what it has written, and the *)
(* replies before it decide what it has yet to write.                      *)
Ledger ==
  /\ todo # {} => /\ Len(replies) \in DOMAIN replies /\ Len(replies) \notin cut
                  /\ expires = replies[Len(replies)].expiry
                  /\ \A k \in todo : Concerns(Len(replies), k)
  /\ \A k \in DOMAIN rules_domain \cap todo : Decided(k, rules_domain[k], Len(replies) - 1)
  /\ \A k \in DOMAIN rules_domain \ todo : Decided(k, rules_domain[k], Len(replies))

(* A new reply leaves undecided only what it is about to write.            *)
LEMMA HandledLedger ==
  ASSUME Listed, Entries, Ledger,
         NEW domain \in Domains, NEW ips \in SUBSET IPs, NEW ttl \in TTLs,
         UpdateDomainFromReply(domain, ips, ttl)
  PROVE  Ledger'
<1>1. PICK r \in Replies : /\ replies' = Append(replies, r) /\ expires' = r.expiry
                           /\ todo' = r.ips \X DomainRules[r.domain]
                           /\ todo = {} /\ UNCHANGED <<clock, cut, rules_domain>>
  BY Handled
<1>2. PICK m \in Nat :
        /\ m = Len(replies) /\ Len(replies') = m + 1 /\ DOMAIN replies = 1 .. m
        /\ DOMAIN replies' = 1 .. m + 1
        /\ replies'[m + 1] = r /\ \A n \in 1 .. m : replies'[n] = replies[n]
  BY <1>1, Appended
<1>3. \A k \in Keys : k \in todo' <=> Concerns(m + 1, k)'
  BY <1>1, <1>2 DEF Keys, Concerns
<1>4. \A n \in 1 .. m, k \in Keys : Concerns(n, k)' <=> Concerns(n, k)
  BY <1>2 DEF Concerns
<1>5. todo' \subseteq Keys
  <2>1. r.ips \subseteq IPs /\ DomainRules[r.domain] \subseteq Ports \cup {AnyPort}
    BY RulesAssumption DEF Replies
  <2>2. QED
    BY <1>1, <2>1 DEF Keys
<1>6. ASSUME NEW k \in DOMAIN rules_domain
      PROVE  /\ k \in Keys
             /\ k \in todo' => Decided(k, rules_domain[k], m)'
             /\ k \notin todo' => Decided(k, rules_domain[k], m + 1)'
  <2>1. k \in Keys
    BY DEF Entries
  <2>2. PICK n \in 1 .. m : /\ Concerns(n, k) /\ rules_domain[k] = replies[n].expiry
                            /\ \A later \in 1 .. m :
                                 later > n /\ Concerns(later, k) => later \in cut
    <3>1. Decided(k, rules_domain[k], m)
      BY <1>1, <1>2 DEF Ledger
    <3>2. PICK n \in 1 .. m :
            /\ Concerns(n, k) /\ rules_domain[k] = replies[n].expiry
            /\ \A later \in 1 .. m :
                 later > n /\ later <= m /\ Concerns(later, k) => later \in cut
      BY <1>2, <3>1 DEF Decided
    <3>3. \A later \in 1 .. m : later <= m
      OBVIOUS
    <3>4. QED
      BY <3>2, <3>3
  <2>3. /\ n \in DOMAIN replies' /\ Concerns(n, k)'
        /\ rules_domain'[k] = replies'[n].expiry
    BY <1>1, <1>2, <1>4, <2>1, <2>2
  <2>4. \A later \in DOMAIN replies' :
          later > n /\ later <= m /\ Concerns(later, k)' => later \in cut'
    BY <1>1, <1>2, <1>4, <2>1, <2>2
  <2>5. k \notin todo' => ~Concerns(m + 1, k)'
    BY <1>3, <2>1
  <2>6. k \notin todo' =>
          \A later \in DOMAIN replies' :
            later > n /\ later <= m + 1 /\ Concerns(later, k)' => later \in cut'
    BY <1>2, <2>4, <2>5
  <2>7. n <= m /\ n <= m + 1
    BY <1>2
  <2>8. QED
    BY <1>1, <2>1, <2>3, <2>4, <2>6, <2>7 DEF Decided
<1>7. /\ Len(replies') \in DOMAIN replies' /\ Len(replies') \notin cut'
      /\ expires' = replies'[Len(replies')].expiry
  BY <1>1, <1>2 DEF Listed
<1>8. \A k \in todo' : Concerns(m + 1, k)'
  BY <1>3, <1>5
<1>9. /\ \A k \in todo' : Concerns(Len(replies), k)'
      /\ \A k \in DOMAIN rules_domain' :
           /\ k \in todo' => Decided(k, rules_domain[k], Len(replies) - 1)'
           /\ k \notin todo' => Decided(k, rules_domain[k], Len(replies))'
  <2>1. Len(replies') = m + 1 /\ Len(replies') - 1 = m /\ rules_domain' = rules_domain
    BY <1>1, <1>2
  <2>2. \A k, t : Decided(k, t, m)' <=> Decided(k, t, Len(replies) - 1)'
    BY <2>1 DEF Decided
  <2>3. \A k, t : Decided(k, t, m + 1)' <=> Decided(k, t, Len(replies))'
    BY <2>1 DEF Decided
  <2>4. ASSUME NEW k \in DOMAIN rules_domain
        PROVE  /\ k \in todo' => Decided(k, rules_domain[k], Len(replies) - 1)'
               /\ k \notin todo' => Decided(k, rules_domain[k], Len(replies))'
    BY <1>6, <2>1 DEF Decided
  <2>5. QED
    BY <1>8, <2>1, <2>4 DEF Concerns
<1>10. QED
  BY <1>7, <1>9 DEF Ledger

(* A write settles one key; a full map leaves the rest to earlier replies. *)
LEMMA WrittenLedger ==
  ASSUME Listed, Entries, Ledger, NEW k \in todo, writeEntry(k)
  PROVE  Ledger'
<1> DEFINE m == Len(replies)
<1>1. /\ UNCHANGED <<replies, expires>> /\ m \in Nat /\ DOMAIN replies = 1 .. m
      /\ m \in DOMAIN replies /\ Concerns(m, k) /\ m \notin cut /\ expires = replies[m].expiry
  BY DEF writeEntry, Listed, Ledger
<1>2. CASE HasRoom(k)
  <2>1. rules_domain' = Write(k) /\ todo' = todo \ {k} /\ cut' = cut
    BY <1>2 DEF writeEntry
  <2>2. \A x, t, n : Decided(x, t, n)' <=> Decided(x, t, n)
    BY <1>1, <2>1 DEF Decided, Concerns
  <2>3. rules_domain'[k] = expires /\ Decided(k, expires, m)
    BY <1>1, <2>1 DEF Write, Decided
  <2>4. \A x \in DOMAIN rules_domain' : x # k =>
          x \in DOMAIN rules_domain /\ rules_domain'[x] = rules_domain[x]
    BY <2>1 DEF Write
  <2>5. ASSUME NEW x \in DOMAIN rules_domain'
        PROVE  /\ x \in todo' => Decided(x, rules_domain'[x], m - 1)
               /\ x \notin todo' => Decided(x, rules_domain'[x], m)
    BY <2>1, <2>3, <2>4 DEF Ledger
  <2>6. ASSUME NEW x \in DOMAIN rules_domain'
        PROVE  /\ x \in todo' => Decided(x, rules_domain[x], m - 1)'
               /\ x \notin todo' => Decided(x, rules_domain[x], m)'
    BY <1>1, <2>1, <2>5 DEF Decided, Concerns
  <2>7. QED
    BY <1>1, <2>1, <2>6 DEF Ledger, Concerns
<1>3. CASE ~HasRoom(k)
  <2>1. rules_domain' = rules_domain /\ todo' = {} /\ cut' = cut \cup {m}
    BY <1>3 DEF writeEntry
  <2>2. ASSUME NEW x \in DOMAIN rules_domain PROVE Decided(x, rules_domain[x], m)'
    <3>1. CASE x \in todo
      <4>1. Decided(x, rules_domain[x], m - 1)
        BY <3>1 DEF Ledger
      <4>2. QED
        BY <1>1, <2>1, <4>1 DEF Decided, Concerns
    <3>2. CASE x \notin todo
      <4>1. Decided(x, rules_domain[x], m)
        BY <3>2 DEF Ledger
      <4>2. QED
        BY <1>1, <2>1, <4>1 DEF Decided, Concerns
    <3>3. QED
      BY <3>1, <3>2
  <2>3. QED
    BY <2>1, <2>2 DEF Ledger
<1>4. QED
  BY <1>2, <1>3

(* The last reply that concerns a key decides its expiry, unless a full    *)
(* map cut it short: no connect, no earlier reply and no reply that was    *)
(* written in part makes an entry last longer or shorter than that.        *)
THEOREM LastWord == Spec => []LatestReplyDecides
<1>1. Init => Ledger
  BY DEF Init, Ledger
<1>2. Listed /\ Entries /\ Ledger /\ [Next]_vars => Ledger'
  <2> SUFFICES ASSUME Listed, Entries, Ledger, [Next]_vars PROVE Ledger'
    OBVIOUS
  <2>1. ASSUME UNCHANGED watchVars,
               \A k \in DOMAIN rules_domain' : /\ k \in DOMAIN rules_domain
                                               /\ rules_domain'[k] = rules_domain[k]
        PROVE  Ledger'
    <3>1. UNCHANGED <<todo, expires, replies, cut>>
      BY <2>1 DEF watchVars
    <3>2. ASSUME NEW k \in DOMAIN rules_domain'
          PROVE  /\ k \in todo' => Decided(k, rules_domain[k], Len(replies) - 1)'
                 /\ k \notin todo' => Decided(k, rules_domain[k], Len(replies))'
      <4>1. /\ k \in todo => Decided(k, rules_domain[k], Len(replies) - 1)
            /\ k \notin todo => Decided(k, rules_domain[k], Len(replies))
        BY <2>1 DEF Ledger
      <4>2. QED
        BY <2>1, <3>1, <4>1 DEF Decided, Concerns
    <3>3. QED
      BY <3>1, <3>2 DEF Ledger, Concerns
  <2>2. CASE ExemptPID \/ setProxyTarget \/ clearMaps \/ AddRule \/ Applied
    BY <2>1, <2>2 DEF ExemptPID, setProxyTarget, clearMaps, AddRule, Applied, Boot, mapVars
  <2>3. ASSUME NEW domain \in Domains, NEW ips \in SUBSET IPs, NEW ttl \in TTLs,
               UpdateDomainFromReply(domain, ips, ttl)
        PROVE  Ledger'
    BY <2>3, HandledLedger
  <2>4. ASSUME NEW k \in todo, writeEntry(k) PROVE Ledger'
    BY <2>4, WrittenLedger
  <2>5. ASSUME NEW c \in Connects, deleteExpired(c) PROVE Ledger'
    <3>1. PICK k : rules_domain' = [x \in DOMAIN rules_domain \ {k} |-> rules_domain[x]]
      BY <2>5 DEF deleteExpired
    <3>2. UNCHANGED watchVars
      BY <2>5 DEF deleteExpired
    <3>3. \A x \in DOMAIN rules_domain' : /\ x \in DOMAIN rules_domain
                                          /\ rules_domain'[x] = rules_domain[x]
      BY <3>1
    <3>4. QED
      BY <2>1, <3>2, <3>3
  <2>6. ASSUME NEW c \in Connects,
               \/ \E p \in Pids, k \in IPs \X Ports : connect(c, p, k)
               \/ staticRules(c) \/ lookupDomain(c) \/ lookupTarget(c) \/ return(c)
        PROVE  Ledger'
    BY <2>1, <2>6 DEF connect, staticRules, lookupDomain, lookupTarget, return, mapVars
  <2>7. CASE Tick \/ UNCHANGED vars
    BY <2>1, <2>7 DEF Tick, vars, mapVars
  <2>8. QED
    BY <2>2, <2>3, <2>4, <2>5, <2>6, <2>7 DEF Next
<1>3. Listed /\ Ledger => LatestReplyDecides
  <2> SUFFICES ASSUME Listed, Ledger, NEW k \in DOMAIN rules_domain \ todo
               PROVE  \E n \in DOMAIN replies :
                        /\ Concerns(n, k) /\ rules_domain[k] = replies[n].expiry
                        /\ \A later \in DOMAIN replies :
                             later > n /\ Concerns(later, k) => later \in cut
    BY DEF LatestReplyDecides
  <2>1. Decided(k, rules_domain[k], Len(replies))
    BY DEF Ledger
  <2>2. DOMAIN replies = 1 .. Len(replies) /\ Len(replies) \in Nat
    BY DEF Listed
  <2>3. QED
    BY <2>1, <2>2 DEF Decided
<1>4. QED
  BY <1>1, <1>2, <1>3, ListedAlways, EntriesAlways, PTL DEF Spec
=============================================================================
