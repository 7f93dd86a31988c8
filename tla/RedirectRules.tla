---------------------------- MODULE RedirectRules ----------------------------
(***************************************************************************)
(* Which connects are redirected.  The proxy command fills the rule maps   *)
(* of the kernel program entry by entry (internal/redirect/manager.go)     *)
(* while the cgroup hooks are attached already; later its DNS watcher      *)
(* (dns_watcher.go) adds an entry for every address of a reply to a domain *)
(* that has a rule.  should_redirect (internal/ebpf/kscope.bpf.c) runs on  *)
(* every connect, on any CPU, and deletes a domain entry that it found     *)
(* expired in a step of its own, after the lookup.                         *)
(*                                                                         *)
(* One address family; the maps of the other are used the same way, except *)
(* that only an IPv4 address is also looked up with its bytes reversed.    *)
(* The lookups of pid, comm and address rules are one step: these maps     *)
(* only grow.  replies, cut and due are history variables.                 *)
(***************************************************************************)
EXTENDS Naturals, Sequences, FiniteSets

CONSTANTS Connects,           \* the connect calls being decided at one time
          Pids, Self,         \* processes; the proxy's own
          CommOf, LongComms,  \* the name of each, and the names of 16 bytes or more
          IPs, Reversed,      \* addresses, and each with its bytes reversed
          Ports, AnyPort,     \* ports; the port 0 of a rule without a port
          Domains,
          RulePids, RuleComms, RuleIPs, DomainRules,  \* the configuration
          Capacity,           \* entries a domain rule map holds
          TTLs, MaxTime,      \* bounds: TTLs of replies, the clock
          MaxReplies          \* bound: replies the watcher handles

Keys == IPs \X (Ports \cup {AnyPort})

ASSUME RulesAssumption ==
  /\ Self \in Pids /\ AnyPort \notin Ports
  /\ IPs # {} /\ Ports # {}
  /\ Reversed \in [IPs -> IPs] /\ \A ip \in IPs : Reversed[Reversed[ip]] = ip
  /\ RulePids \subseteq Pids
  /\ RuleIPs \subseteq Keys
  /\ DomainRules \in [Domains -> SUBSET (Ports \cup {AnyPort})]
  /\ TTLs \subseteq Nat \ {0}
  /\ MaxTime \in Nat \ {0}
  /\ {MaxReplies, Capacity} \subseteq Nat

VARIABLES boot,              \* how far the proxy command has come
          rules_pid_exempt, rules_pid, rules_comm, rules_ipport,
          rules_domain,      \* a function from the keys present to expiries
          proxy_target,      \* proxy_target is set
          clock,             \* CLOCK_MONOTONIC
          todo, expires,     \* the watcher: keys still to write, and their expiry
          pc, pid, dst, now, \* each connect: step, process, address, clock read
          replies,           \* the replies handled, in their order
          cut,               \* the numbers of those cut short by a full map
          due                \* connects that met a rule in force when they began

mapVars     == <<rules_pid_exempt, rules_pid, rules_comm, rules_ipport, rules_domain, proxy_target>>
watchVars   == <<todo, expires, replies, cut>>
connectVars == <<pc, pid, dst, now, due>>
vars == <<boot, clock, mapVars, watchVars, connectVars>>

(* A 16-byte key cut from a name: user space copies up to 16 bytes of it,  *)
(* the kernel's comm has at most 15 and a terminating 0.                   *)
commKey(comm)    == <<comm, IF comm \in LongComms THEN 16 ELSE 0>>
kernelComm(comm) == <<comm, IF comm \in LongComms THEN 15 ELSE 0>>

Init == /\ boot = "exempt" /\ proxy_target = FALSE
        /\ rules_pid_exempt = {} /\ rules_pid = {} /\ rules_comm = {} /\ rules_ipport = {}
        /\ rules_domain = <<>>
        /\ clock = 1 /\ todo = {} /\ expires = 0
        /\ replies = <<>> /\ cut = {} /\ due = {}
        /\ pc = [c \in Connects |-> "idle"]
        /\ pid = [c \in Connects |-> Self]
        /\ dst \in [Connects -> {CHOOSE k \in IPs \X Ports : TRUE}]
        /\ now = [c \in Connects |-> 0]

-----------------------------------------------------------------------------
(* The proxy command: ExemptPID, then ApplyConfig. *)

Boot(from, next) == /\ boot = from /\ boot' = next
                    /\ UNCHANGED <<clock, watchVars, connectVars>>

ExemptPID == /\ Boot("exempt", "target")
             /\ rules_pid_exempt' = rules_pid_exempt \cup {Self}
             /\ UNCHANGED <<rules_pid, rules_comm, rules_ipport, rules_domain, proxy_target>>

setProxyTarget == /\ Boot("target", "clear")
                  /\ proxy_target' = TRUE
                  /\ UNCHANGED <<rules_pid_exempt, rules_pid, rules_comm, rules_ipport, rules_domain>>

(* The exempt processes are not cleared. *)
clearMaps == /\ Boot("clear", "rules")
             /\ rules_pid' = {} /\ rules_comm' = {} /\ rules_ipport' = {}
             /\ rules_domain' = <<>>
             /\ UNCHANGED <<rules_pid_exempt, proxy_target>>

(* One rule at a time: the pids, then the comms, then the addresses. *)
AddRule ==
  /\ Boot("rules", "rules")
  /\ \/ /\ \E p \in RulePids \ rules_pid : rules_pid' = rules_pid \cup {p}
        /\ UNCHANGED <<rules_comm, rules_ipport>>
     \/ /\ RulePids \subseteq rules_pid
        /\ \E n \in RuleComms : /\ commKey(n) \notin rules_comm
                                /\ rules_comm' = rules_comm \cup {commKey(n)}
        /\ UNCHANGED <<rules_pid, rules_ipport>>
     \/ /\ RulePids \subseteq rules_pid /\ {commKey(n) : n \in RuleComms} \subseteq rules_comm
        /\ \E k \in RuleIPs \ rules_ipport : rules_ipport' = rules_ipport \cup {k}
        /\ UNCHANGED <<rules_pid, rules_comm>>
  /\ UNCHANGED <<rules_pid_exempt, rules_domain, proxy_target>>

Applied == /\ Boot("rules", "running")
           /\ RulePids \subseteq rules_pid
           /\ {commKey(n) : n \in RuleComms} \subseteq rules_comm
           /\ RuleIPs \subseteq rules_ipport
           /\ UNCHANGED mapVars

-----------------------------------------------------------------------------
(* The DNS watcher. *)

(* A reply for a domain that has rules: what it expires at is read off the *)
(* clock once, before the entries are written one by one.                  *)
UpdateDomainFromReply(domain, ips, ttl) ==
  /\ boot = "running" /\ todo = {}
  /\ Len(replies) < MaxReplies
  /\ todo' = ips \X DomainRules[domain]
  /\ expires' = clock + ttl
  /\ replies' = Append(replies, [domain |-> domain, ips |-> ips, expiry |-> clock + ttl])
  /\ UNCHANGED <<boot, clock, mapVars, cut, connectVars>>

WriteNew(k) == IF k \in DOMAIN rules_domain THEN rules_domain
               ELSE [x \in DOMAIN rules_domain \cup {k} |->
                       IF x = k THEN expires ELSE rules_domain[x]]

(* Map.Update with UpdateAny: the new expiry replaces the old one. *)
Write(k) == [x \in DOMAIN rules_domain \cup {k} |->
               IF x = k THEN expires ELSE rules_domain[x]]

NoLimit(k) == TRUE
HasRoom(k) == k \in DOMAIN rules_domain \/ Cardinality(DOMAIN rules_domain) < Capacity

(* When the map is full, the rest of the reply is skipped. *)
writeEntry(k) ==
  /\ k \in todo
  /\ IF HasRoom(k)
     THEN /\ rules_domain' = Write(k)
          /\ todo' = todo \ {k}
          /\ UNCHANGED cut
     ELSE /\ todo' = {} /\ cut' = cut \cup {Len(replies)}
          /\ UNCHANGED rules_domain
  /\ UNCHANGED <<boot, clock, rules_pid_exempt, rules_pid, rules_comm, rules_ipport,
                 proxy_target, expires, replies, connectVars>>

-----------------------------------------------------------------------------
(* should_redirect and the hook around it. *)

PortOnly(ip, port) == {<<ip, port>>, <<Reversed[ip], port>>}

(* The address with its port and without, then the same for its bytes      *)
(* reversed.                                                               *)
Matching(ip, port) == {ip, Reversed[ip]} \X {port, AnyPort}

has_static_rule(p, k) == \/ p \in rules_pid
                         \/ kernelComm(CommOf[p]) \in rules_comm
                         \/ Matching(k[1], k[2]) \cap rules_ipport # {}

Step(c, from, next) == pc[c] = from /\ pc' = [pc EXCEPT ![c] = next]

(* What the configuration says of a connect by p to k, for the rules given. *)
(* No name of 16 bytes or more: the kernel's comm is never that long.       *)
Ruled(p, k, pids, comms, addrs) == \/ p \in pids
                                   \/ CommOf[p] \in comms \ LongComms
                                   \/ ({k[1]} \X {k[2], AnyPort}) \cap addrs # {}

InForce(p, k) ==
  /\ p \notin rules_pid_exempt /\ proxy_target
  /\ Ruled(p, k, rules_pid, {n \in RuleComms : commKey(n) \in rules_comm}, rules_ipport)

(* A connect begins: exempt processes are let through at once.  The proxy  *)
(* itself connects only for clients, once it runs.                         *)
connect(c, p, k) ==
  /\ p = Self => boot = "running"
  /\ Step(c, "idle", IF p \in rules_pid_exempt THEN "pass" ELSE "static")
  /\ pid' = [pid EXCEPT ![c] = p]
  /\ dst' = [dst EXCEPT ![c] = k]
  /\ due' = IF InForce(p, k) THEN due \cup {c} ELSE due
  /\ UNCHANGED <<boot, clock, mapVars, watchVars, now>>

staticRules(c) ==
  /\ Step(c, "static", IF has_static_rule(pid[c], dst[c]) THEN "target" ELSE "port")
  /\ now' = [now EXCEPT ![c] = clock]
  /\ UNCHANGED <<boot, clock, mapVars, watchVars, pid, dst, due>>

(* The two domain lookups, with the port and without. *)
KeyOf(c) == IF pc[c] \in {"port", "delete port"} THEN dst[c] ELSE <<dst[c][1], AnyPort>>

Unchecked(k, t) == TRUE
Live(k, t)      == rules_domain[k] > t

lookupDomain(c) ==
  /\ pc[c] \in {"port", "any"}
  /\ LET miss == IF pc[c] = "port" THEN "any" ELSE "pass"
         gone == IF pc[c] = "port" THEN "delete port" ELSE "delete any"
     IN Step(c, pc[c], IF KeyOf(c) \notin DOMAIN rules_domain THEN miss
                       ELSE IF Live(KeyOf(c), now[c]) THEN "target" ELSE gone)
  /\ UNCHANGED <<boot, clock, mapVars, watchVars, pid, dst, now, due>>

(* Delete by key, whatever the entry holds by now. *)
deleteExpired(c) ==
  /\ \/ Step(c, "delete port", "any")
     \/ Step(c, "delete any", "pass")
  /\ rules_domain' = [k \in DOMAIN rules_domain \ {KeyOf(c)} |-> rules_domain[k]]
  /\ UNCHANGED <<boot, clock, rules_pid_exempt, rules_pid, rules_comm, rules_ipport,
                 proxy_target, watchVars, pid, dst, now, due>>

lookupTarget(c) ==
  /\ Step(c, "target", IF proxy_target THEN "redirect" ELSE "pass")
  /\ UNCHANGED <<boot, clock, mapVars, watchVars, pid, dst, now, due>>

return(c) ==
  /\ pc[c] \in {"pass", "redirect"}
  /\ Step(c, pc[c], "idle")
  /\ due' = due \ {c}
  /\ now' = [now EXCEPT ![c] = 0]
  /\ UNCHANGED <<boot, clock, mapVars, watchVars, pid, dst>>

Tick == /\ clock < MaxTime /\ clock' = clock + 1
        /\ UNCHANGED <<boot, mapVars, watchVars, connectVars>>

Next ==
  \/ ExemptPID \/ setProxyTarget \/ clearMaps \/ AddRule \/ Applied
  \/ \E domain \in Domains, ips \in SUBSET IPs \ {{}}, ttl \in TTLs :
       UpdateDomainFromReply(domain, ips, ttl)
  \/ \E k \in todo : writeEntry(k)
  \/ \E c \in Connects :
       \/ \E p \in Pids, k \in IPs \X Ports : connect(c, p, k)
       \/ staticRules(c) \/ lookupDomain(c) \/ deleteExpired(c)
       \/ lookupTarget(c) \/ return(c)
  \/ Tick

Spec == Init /\ [][Next]_vars

-----------------------------------------------------------------------------
TypeOK ==
  /\ boot \in {"exempt", "target", "clear", "rules", "running"}
  /\ rules_pid_exempt \subseteq {Self} /\ rules_pid \subseteq RulePids
  /\ rules_comm \subseteq {commKey(n) : n \in RuleComms}
  /\ rules_ipport \subseteq RuleIPs
  /\ DOMAIN rules_domain \subseteq Keys
  /\ Cardinality(DOMAIN rules_domain) <= Capacity
  /\ \A k \in DOMAIN rules_domain : rules_domain[k] \in Nat
  /\ proxy_target \in BOOLEAN
  /\ clock \in 1 .. MaxTime
  /\ todo \subseteq Keys /\ expires \in Nat
  /\ pc \in [Connects -> {"idle", "static", "port", "delete port", "any", "delete any",
                          "target", "pass", "redirect"}]
  /\ pid \in [Connects -> Pids] /\ dst \in [Connects -> IPs \X Ports]
  /\ now \in [Connects -> 0 .. MaxTime]
  /\ cut \subseteq 1 .. Len(replies) /\ due \subseteq Connects

RuleOfReply(k, t) ==
  \E n \in DOMAIN replies :
    /\ k[1] \in replies[n].ips /\ replies[n].expiry > t
    /\ DomainRules[replies[n].domain] \cap {k[2], AnyPort} # {}

(* Reply n concerns the key k: it names the address, and the domain's rule *)
(* has the port.                                                           *)
Concerns(n, k) == k[1] \in replies[n].ips /\ k[2] \in DomainRules[replies[n].domain]

(* A connect is redirected only for a reason: a configured rule (an        *)
(* address rule for the address in either byte order, a name rule only if  *)
(* the name fits a comm), or a reply to a domain with a rule that had not  *)
(* expired when the connect read the clock; and never the proxy's own.     *)
Justified ==
  \A c \in Connects :
    pc[c] = "redirect" =>
      /\ pid[c] # Self
      /\ \/ \E ip \in {dst[c][1], Reversed[dst[c][1]]} :
              Ruled(pid[c], <<ip, dst[c][2]>>, RulePids, RuleComms, RuleIPs)
         \/ RuleOfReply(dst[c], now[c])

(* An address rule redirects connects to the address it gives: a connect   *)
(* that is redirected has a rule for its own process, name or address, or  *)
(* a reply that named its address.                                         *)
GivenAddressOnly ==
  \A c \in Connects :
    pc[c] = "redirect" => \/ Ruled(pid[c], dst[c], RulePids, RuleComms, RuleIPs)
                          \/ RuleOfReply(dst[c], now[c])

(* A connect that begins when a pid, comm or address rule is in force is   *)
(* redirected, whatever is written meanwhile.                              *)
RulesHold == \A c \in due : pc[c] # "pass"

(* The last of the replies that concern a key decides its expiry, and it   *)
(* may be earlier than the one before.  Only a reply that a full map cut   *)
(* short need not: its entries may be those of the replies before it, even *)
(* where it had an entry to renew.                                         *)
LatestReplyDecides ==
  \A k \in DOMAIN rules_domain \ todo : \E n \in DOMAIN replies :
    /\ Concerns(n, k) /\ rules_domain[k] = replies[n].expiry
    /\ \A later \in DOMAIN replies : later > n /\ Concerns(later, k) => later \in cut

(* A rule that a reply has activated stays until the reply's TTL is over,  *)
(* unless a later reply says otherwise.                                    *)
LastsItsTTL ==
  \A k \in Keys \ todo : \A n \in DOMAIN replies \ cut :
    /\ Concerns(n, k) /\ replies[n].expiry > clock
    /\ \A later \in DOMAIN replies : later > n => ~Concerns(later, k)
    => k \in DOMAIN rules_domain
=============================================================================
