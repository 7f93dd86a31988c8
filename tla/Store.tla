------------------------------- MODULE Store -------------------------------
(***************************************************************************)
(* The correlation store of kscope (internal/correlation/store.go) under   *)
(* the engine that feeds it (internal/correlation/engine): one event at a  *)
(* time, each an operation under Store.mu, and its signal sent on before   *)
(* the next event is taken.                                                *)
(*                                                                         *)
(* A DNS reply is remembered twice: for the process that received it       *)
(* (IPToDomain, forever) and for everybody, with an expiry, in two indexes *)
(* that must mirror each other.  A TCP connect is attributed to a domain   *)
(* from the first, else from the second, and the lookup evicts what it     *)
(* finds expired.                                                          *)
(*                                                                         *)
(* Timestamps come from the kernel and are taken after the ring buffer     *)
(* slot is reserved, so that an event may be up to Skew behind an earlier  *)
(* one.  replies and latest are history variables.                         *)
(***************************************************************************)
EXTENDS Graph, FiniteSets

CONSTANTS Pids, Comms, Domains, IPs, Ports,
          None,       \* the empty string, the zero PPID and the nil signal
          TTLs,       \* TTLs of replies, in the unit of the clock
          MaxTime,    \* bound: the last timestamp
          MaxAnswers, \* bound: addresses in one reply
          Skew,       \* how far behind an earlier event a timestamp may be
          MaxOps      \* bound: operations on the store

ASSUME StoreAssumption == /\ TTLs \subseteq Nat
                          /\ MaxTime \in Nat /\ Skew \in Nat
                          /\ MaxAnswers \in Nat /\ MaxOps \in Nat
                          \* a TTL is whole seconds, the timestamps of events
                          \* in the ring microseconds out of order
                          /\ \A ttl \in TTLs \ {0} : Skew <= ttl
                          /\ NoLabel = None
                          /\ None \notin Pids \cup Comms \cup Domains \cup IPs

VARIABLES processes,     \* Store.processes: a function from the pids seen
          globalDomain,  \* Store.globalDomain: domain -> ip -> expiry
          globalIP,      \* Store.globalIP: ip -> domain -> expiry
          signal,        \* the signal the engine has to send on
          ops,           \* operations so far
          replies,       \* every reply the store was given, in order
          latest         \* the greatest timestamp so far

storeVars == <<processes, globalDomain, globalIP>>
histVars  == <<replies, latest>>
vars      == <<graphVars, storeVars, signal, ops, histVars>>

Nothing == [x \in {} |-> None]     \* an empty map

At(f, k)      == IF k \in DOMAIN f THEN f[k] ELSE Nothing
Put(f, k, v)  == [x \in DOMAIN f \cup {k} |-> IF x = k THEN v ELSE f[x]]
Without(f, K) == [x \in DOMAIN f \ K |-> f[x]]

ProcessID(pid)       == <<"process", pid>>
DomainID(domain)     == <<"domain", domain>>
IPID(ip)             == <<"ip", ip>>
ServiceID(ip, port)  == <<"service", ip, port>>

NewProcess(comm) == [ppid |-> None, comm |-> comm, dns |-> Nothing,
                     ipToDomain |-> Nothing, connections |-> {}]

(* The context of pid: created with comm, or given comm if it has none.    *)
getOrCreateProcess(pid, comm) ==
  IF pid \notin DOMAIN processes THEN NewProcess(comm)
  ELSE IF processes[pid].comm = None THEN [processes[pid] EXCEPT !.comm = comm]
  ELSE processes[pid]

-----------------------------------------------------------------------------
(* The global DNS table. *)

RaiseAlways(map, keys, expiry) ==
  [k \in DOMAIN map \cup keys |-> IF k \in keys THEN expiry ELSE map[k]]

(* Set the expiry of the keys, unless they already last as long or longer. *)
Raise(map, keys, expiry) ==
  [k \in DOMAIN map \cup keys |->
     IF k \in keys /\ (k \notin DOMAIN map \/ expiry > map[k])
     THEN expiry ELSE map[k]]

addGlobalDNS(domain, ips, expiry) ==
  /\ globalDomain' = Put(globalDomain, domain,
                         Raise(At(globalDomain, domain), ips, expiry))
  /\ globalIP' = [ip \in DOMAIN globalIP \cup ips |->
                    IF ip \in ips THEN Raise(At(globalIP, ip), {domain}, expiry)
                    ELSE globalIP[ip]]

NothingExpired(ip, now) == {}

Expired(ip, now) == {d \in DOMAIN At(globalIP, ip) : globalIP[ip][d] <= now}

(* The live domains of ip with the latest expiry: when two expire at the   *)
(* same moment the map's iteration order, which is arbitrary, decides.     *)
Chosen(ip, now) ==
  LET live == DOMAIN At(globalIP, ip) \ Expired(ip, now)
  IN {d \in live : \A e \in live : globalIP[ip][e] <= globalIP[ip][d]}

lookupDomainByIP(ip, now) ==
  IF Chosen(ip, now) = {} THEN {None} ELSE Chosen(ip, now)

DeleteFromIPOnly(domains, ip) ==
  /\ UNCHANGED globalDomain
  /\ LET left == Without(At(globalIP, ip), domains)
     IN globalIP' = IF left = Nothing THEN Without(globalIP, {ip})
                    ELSE Put(globalIP, ip, left)

(* Delete the pairs of ip with each of the domains from both indexes, and  *)
(* the inner maps that this leaves empty.                                  *)
deleteGlobalPairs(domains, ip) ==
  /\ LET left(d) == IF d \in domains THEN Without(globalDomain[d], {ip})
                    ELSE globalDomain[d]
     IN globalDomain' = [d \in {e \in DOMAIN globalDomain : left(e) # Nothing} |-> left(d)]
  /\ LET left == Without(At(globalIP, ip), domains)
     IN globalIP' = IF left = Nothing THEN Without(globalIP, {ip})
                    ELSE Put(globalIP, ip, left)

-----------------------------------------------------------------------------
(* What every operation does before it takes effect: the engine is free,   *)
(* and the event carries a timestamp at most Skew behind the latest.       *)
Begin(ts) == /\ signal = None /\ calls = <<>>
             /\ ops < MaxOps /\ ops' = ops + 1
             /\ ts + Skew >= latest
             /\ latest' = IF ts > latest THEN ts ELSE latest
             /\ UNCHANGED <<nodes, edges>>

Store(pid, ctx)    == processes' = Put(processes, pid, ctx)
Return(kind, pid, ip, domain, ts) ==
  signal' = [kind |-> kind, pid |-> pid, ip |-> ip, domain |-> domain, ts |-> ts]

ParentAlways(pid, ppid) ==
  <<Node(ProcessID(ppid), NoLabel), Edge(ProcessID(pid), ProcessID(ppid), "spawned_by")>>

(* The parent, which may not have been seen itself, if there is one. *)
Parent(pid, ppid) ==
  IF ppid = None THEN <<>>
  ELSE <<Node(ProcessID(ppid), NoLabel), Edge(ProcessID(pid), ProcessID(ppid), "spawned_by")>>

(* process.Handle and UpsertProcess: an exec may rename the process.       *)
UpsertProcess(pid, ppid, comm, ts) ==
  /\ Begin(ts)
  /\ LET known == getOrCreateProcess(pid, comm)
         ctx   == [known EXCEPT !.ppid = ppid,
                                !.comm = IF comm # None THEN comm ELSE @]
     IN /\ Store(pid, ctx)
        /\ calls' = <<Node(ProcessID(pid), ctx.comm)>> \o Parent(pid, ppid)
  /\ Return("process", pid, None, None, ts)
  /\ UNCHANGED <<globalDomain, globalIP, replies>>

(* dns.Handle and AddDNSQuery. *)
AddDNSQuery(pid, comm, domain, ts) ==
  /\ Begin(ts)
  /\ LET known == getOrCreateProcess(pid, comm)
         ctx   == IF domain \in DOMAIN known.dns THEN known
                  ELSE [known EXCEPT !.dns = Put(@, domain, {})]
     IN /\ Store(pid, ctx)
        /\ calls' = <<Node(ProcessID(pid), ctx.comm),
                      Node(DomainID(domain), domain),
                      Edge(ProcessID(pid), DomainID(domain), "resolves_to")>>
  /\ Return("dns", pid, None, domain, ts)
  /\ UNCHANGED <<globalDomain, globalIP, replies>>

(* The graph calls of a reply: one node and one edge for every answer, in  *)
(* the order of the answers.                                               *)
EdgeFirst(domain, answers) ==
  [i \in 1 .. 2 * Len(answers) |->
     LET ip == answers[(i + 1) \div 2]
     IN IF i % 2 = 1 THEN Edge(DomainID(domain), IPID(ip), "resolves_to")
        ELSE Node(IPID(ip), ip)]

AnswerCalls(domain, answers) ==
  [i \in 1 .. 2 * Len(answers) |->
     LET ip == answers[(i + 1) \div 2]
     IN IF i % 2 = 1 THEN Node(IPID(ip), ip)
        ELSE Edge(DomainID(domain), IPID(ip), "resolves_to")]

(* dns.Handle and AddDNSReply. *)
AddDNSReply(pid, comm, domain, answers, ttl, ts) ==
  /\ Begin(ts)
  /\ LET ips   == {answers[i] : i \in DOMAIN answers}
         known == getOrCreateProcess(pid, comm)
         ctx   == [known EXCEPT
                     !.dns = Put(@, domain, ips),
                     !.ipToDomain = [ip \in DOMAIN @ \cup ips |->
                                       IF ip \in ips THEN domain ELSE @[ip]]]
     IN /\ Store(pid, ctx)
        /\ IF ttl > 0 /\ ips # {} THEN addGlobalDNS(domain, ips, ts + ttl)
           ELSE UNCHANGED <<globalDomain, globalIP>>
        /\ replies' = Append(replies, [pid |-> pid, domain |-> domain, ips |-> ips,
                                       ttl |-> ttl, expiry |-> ts + ttl])
        /\ calls' = <<Node(ProcessID(pid), ctx.comm),
                      Node(DomainID(domain), domain),
                      Edge(ProcessID(pid), DomainID(domain), "resolves_to")>>
                    \o AnswerCalls(domain, answers)
  /\ Return("dns", pid, None, domain, ts)

(* tcp.Handle and AddTCPConnect: the process's own table first. *)
AddTCPConnect(pid, comm, ip, port, ts) ==
  /\ Begin(ts)
  /\ LET known == getOrCreateProcess(pid, comm)
         own   == ip \in DOMAIN known.ipToDomain
     IN \E domain \in IF own THEN {known.ipToDomain[ip]} ELSE lookupDomainByIP(ip, ts) :
          /\ IF own THEN UNCHANGED <<globalDomain, globalIP>>
             ELSE deleteGlobalPairs(Expired(ip, ts), ip)
          /\ Store(pid, [known EXCEPT !.connections =
                           @ \cup {[ip |-> ip, port |-> port, domain |-> domain]}])
          /\ calls' = <<Node(ProcessID(pid), known.comm),
                        Node(IPID(ip), ip),
                        Node(ServiceID(ip, port), ip),
                        Edge(ProcessID(pid), ServiceID(ip, port), "connects_to"),
                        Edge(ProcessID(pid), IPID(ip), "connects_to")>>
                      \o IF domain = None THEN <<>>
                         ELSE <<Node(DomainID(domain), domain),
                                Edge(DomainID(domain), ServiceID(ip, port), "resolves_to")>>
          /\ Return("tcp", pid, ip, domain, ts)
  /\ UNCHANGED replies

(* The graph calls of the operation under way. *)
UpdateGraph == GraphStep /\ UNCHANGED <<storeVars, signal, ops, histVars>>

(* The engine sends the signal to the writer once the operation returns.   *)
Emit == /\ calls = <<>> /\ signal # None
        /\ signal' = None
        /\ UNCHANGED <<graphVars, storeVars, ops, histVars>>

-----------------------------------------------------------------------------
Init == /\ GraphInit
        /\ processes = Nothing /\ globalDomain = Nothing /\ globalIP = Nothing
        /\ signal = None /\ ops = 0
        /\ replies = <<>> /\ latest = 0

(* What the decoder makes of a reply: without an answer its TTL is 0.      *)
AnswerLists == UNION {[1 .. n -> IPs] : n \in 0 .. MaxAnswers}

Operation(ts) ==
  \E pid \in Pids, comm \in Comms \cup {None} :
    \/ \E ppid \in Pids \cup {None} : UpsertProcess(pid, ppid, comm, ts)
    \/ \E domain \in Domains :
         \/ AddDNSQuery(pid, comm, domain, ts)
         \/ AddDNSReply(pid, comm, domain, <<>>, 0, ts)
         \/ \E answers \in AnswerLists \ {<<>>}, ttl \in TTLs :
              AddDNSReply(pid, comm, domain, answers, ttl, ts)
    \/ \E ip \in IPs, port \in Ports : AddTCPConnect(pid, comm, ip, port, ts)

Next == (\E ts \in 0 .. MaxTime : Operation(ts)) \/ UpdateGraph \/ Emit

Spec == Init /\ [][Next]_vars

-----------------------------------------------------------------------------
NodeIDs == {ProcessID(pid) : pid \in Pids} \cup {DomainID(d) : d \in Domains}
             \cup {IPID(ip) : ip \in IPs}
             \cup {ServiceID(ip, port) : ip \in IPs, port \in Ports}

(* f maps some of the keys to values. *)
IsMap(f, K, V) == DOMAIN f \subseteq K /\ \A k \in DOMAIN f : f[k] \in V

TypeOK ==
  /\ DOMAIN processes \subseteq Pids
  /\ \A pid \in DOMAIN processes :
       /\ processes[pid].comm \in Comms \cup {None}
       /\ processes[pid].ppid \in Pids \cup {None}
       /\ IsMap(processes[pid].dns, Domains, SUBSET IPs)
       /\ IsMap(processes[pid].ipToDomain, IPs, Domains)
       /\ processes[pid].connections
            \subseteq [ip : IPs, port : Ports, domain : Domains \cup {None}]
  /\ DOMAIN globalDomain \subseteq Domains
  /\ \A d \in DOMAIN globalDomain : IsMap(globalDomain[d], IPs, Nat)
  /\ DOMAIN globalIP \subseteq IPs
  /\ \A ip \in DOMAIN globalIP : IsMap(globalIP[ip], Domains, Nat)
  /\ DOMAIN nodes \subseteq NodeIDs
  /\ signal # None => signal.ts \in 0 .. MaxTime
  /\ latest \in 0 .. MaxTime /\ ops \in 0 .. MaxOps

(* The two indexes of the global table hold the same pairs with the same   *)
(* expiry, and neither keeps an entry for a domain or an address that has  *)
(* no pair left: addGlobalDNSLocked and deleteGlobalPairLocked update them *)
(* separately, pair by pair.                                               *)
IndexesAgree ==
  /\ \A d \in DOMAIN globalDomain :
       /\ globalDomain[d] # Nothing
       /\ \A ip \in DOMAIN globalDomain[d] :
            /\ ip \in DOMAIN globalIP /\ d \in DOMAIN globalIP[ip]
            /\ globalIP[ip][d] = globalDomain[d][ip]
  /\ \A ip \in DOMAIN globalIP :
       /\ globalIP[ip] # Nothing
       /\ \A d \in DOMAIN globalIP[ip] :
            d \in DOMAIN globalDomain /\ ip \in DOMAIN globalDomain[d]

(* What a connect should be attributed to, from the replies alone: the     *)
(* last reply that gave the process this address; else, of the replies of  *)
(* anybody that gave it and have not expired, one that expires last.       *)
Own(pid, ip) ==
  LET given == {i \in DOMAIN replies : replies[i].pid = pid /\ ip \in replies[i].ips}
  IN {replies[i].domain : i \in {j \in given : \A k \in given : k <= j}}

Anybodys(ip, now) ==
  LET live == {i \in DOMAIN replies : /\ ip \in replies[i].ips
                                      /\ replies[i].ttl > 0 /\ replies[i].expiry > now}
  IN {replies[i].domain : i \in {j \in live : \A k \in live : replies[k].expiry <= replies[j].expiry}}

Reference(pid, ip, now) ==
  IF Own(pid, ip) # {} THEN Own(pid, ip)
  ELSE IF Anybodys(ip, now) # {} THEN Anybodys(ip, now) ELSE {None}

(* A TCP connect is attributed to the domain the replies give it, whatever *)
(* lookups evicted entries in between.  One whose timestamp is behind an   *)
(* event already handled may find an entry evicted and go without, but is  *)
(* never given a wrong domain.                                             *)
Attributed ==
  (signal # None /\ signal.kind = "tcp") =>
    \/ signal.domain \in Reference(signal.pid, signal.ip, signal.ts)
    \/ signal.domain = None /\ signal.ts < latest

(* The global table forgets a pair only when it has expired, and never     *)
(* shortens one: a second reply with a smaller TTL leaves the first in     *)
(* force.                                                                  *)
Remembered(d, ip) == ip \in DOMAIN globalIP /\ d \in DOMAIN globalIP[ip]

OnlyExpiredForgotten ==
  [][\A d \in Domains, ip \in IPs :
       Remembered(d, ip) =>
         IF Remembered(d, ip)' THEN globalIP'[ip][d] >= globalIP[ip][d]
         ELSE globalIP[ip][d] <= latest']_vars

(* Between operations the graph shows what the processes did: who they are *)
(* called, what they asked for, and where they connected.                  *)
GraphMirrors ==
  calls = <<>> =>
    /\ \A pid \in DOMAIN processes :
         ProcessID(pid) \in DOMAIN nodes /\ nodes[ProcessID(pid)] = processes[pid].comm
    /\ {e \in edges : e[3] = "connects_to" /\ e[2][1] = "service"} =
         UNION {{<<ProcessID(pid), ServiceID(c.ip, c.port), "connects_to">> :
                   c \in processes[pid].connections} : pid \in DOMAIN processes}
    /\ {e \in edges : e[1][1] = "process" /\ e[3] = "resolves_to"} =
         UNION {{<<ProcessID(pid), DomainID(d), "resolves_to">> : d \in DOMAIN processes[pid].dns} :
                  pid \in DOMAIN processes}
=============================================================================
