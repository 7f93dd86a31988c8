-------------------------- MODULE RedirectFlowProofs --------------------------
(***************************************************************************)
(* Theorems about RedirectFlow for any sets of threads, addresses, ports,  *)
(* destinations and connections and any ring.                              *)
(***************************************************************************)
EXTENDS RedirectFlow, TLAPS

(* A thread outside connect has nothing rewritten; one inside it has asked *)
(* for something.                                                          *)
Asking == \A t \in Threads : IF stage[t] = "idle" THEN t \notin rewritten
                             ELSE asked[t] \in Dests

(* While no port is shared, what the two maps hold for a redirected         *)
(* connection that is open is its own destination or nothing.              *)
MapsOwned ==
  {"stray", "shared"} \cap seen = {} =>
    \A c \in open : goal[c] # NoDst =>
                    /\ flow[key[c]] \in {goal[c], NoDst}
                    /\ pidPort[Port(key[c])] \in {goal[c], NoDst}
                    /\ to[c] \in {goal[c], NoDst}

(* No two clients that are there have the same source.                     *)
SourcesDiffer == \A c, d \in open : key[c] = key[d] => c = d

(* Each handler's client is there, and the entry of a redirected one in    *)
(* the map by source stays until the handler itself takes it: the handlers *)
(* of other connections take the entry by port only.                       *)
Kept == \A c \in Conns : at[c] # "none" =>
          /\ c \in open
          /\ goal[c] # NoDst => /\ at[c] # "orphan"
                                /\ at[c] \in {"accepted", "flow"} => flow[key[c]] # NoDst

(* ... until a client resets or an entry is left behind.                   *)
FlowKept == {"stray", "reset"} \cap seen = {} => Kept

-----------------------------------------------------------------------------
(* The key of a connection that does not exist is a key.                   *)
LEMMA AnyKeyTyping == AnyKey \in Keys
<1>1. PICK a \in Addrs, p \in Ports : TRUE
  BY FlowAssumption
<1>2. <<a, p>> \in Keys
  BY DEF Keys
<1>3. QED
  BY <1>2 DEF AnyKey

(* The port of a source is a port.                                         *)
LEMMA PortTyping == \A k \in Keys : Port(k) \in Ports
BY DEF Keys, Port

(* What the return probe does with a thread that leaves connect. *)
LEMMA LeaveTyping ==
  ASSUME TypeOK, NEW t \in Threads, Leave(t)
  PROVE  /\ stage' \in [Threads -> {"idle", "hooked", "connecting"}]
         /\ asked' \in [Threads -> Dests \cup {NoDst}]
         /\ rewritten' \in SUBSET Threads
         /\ socks' \in SUBSET Threads
BY DEF TypeOK, Leave

(* A connection that a connect creates is well typed.                      *)
LEMMA ConnectedTyping ==
  ASSUME TypeOK, NEW t \in Threads, NEW k \in Keys, Connected(t, k)
  PROVE  /\ at' \in [Conns -> Where]
         /\ key' \in [Conns -> Keys]
         /\ goal' \in [Conns -> Dests \cup {NoDst}]
         /\ to' \in [Conns -> Dests \cup {NoDst}]
         /\ open' \in SUBSET Conns
<1>1. CASE ToProxy(t)
  <2>1. PICK c \in Conns, g \in {asked[t], NoDst} :
          /\ at' = [at EXCEPT ![c] = "accepted"]
          /\ key' = [key EXCEPT ![c] = k]
          /\ goal' = [goal EXCEPT ![c] = g]
          /\ to' = [to EXCEPT ![c] = NoDst]
          /\ open' = open \cup {c}
    BY <1>1 DEF Connected
  <2>2. g \in Dests \cup {NoDst}
    BY DEF TypeOK
  <2>3. QED
    BY <2>1, <2>2 DEF TypeOK, Where
<1>2. CASE ~ToProxy(t)
  BY <1>2 DEF Connected, connVars, TypeOK
<1>3. QED
  BY <1>1, <1>2

(* Shared adds nothing to seen but the three disturbances.                 *)
LEMMA SeenShared ==
  ASSUME NEW t, NEW k
  PROVE  Shared(t, k) \subseteq {"stray", "shared", "reset"}
BY DEF Shared

(* A reservation, granted or not, leaves no more in the ring than fits.    *)
LEMMA ReserveTyping ==
  ASSUME TypeOK PROVE Reserve \in 0 .. RingSize
BY FlowAssumption DEF TypeOK, Reserve

-----------------------------------------------------------------------------
(* The maps of the kernel program, the threads and the handlers hold what  *)
(* they are declared to hold, and the ring never more than fits.           *)
THEOREM Typing == Spec => []TypeOK
<1> USE FlowAssumption
<1>1. Init => TypeOK
  BY AnyKeyTyping DEF Init, TypeOK, Where
<1>2. TypeOK /\ [Next]_vars => TypeOK'
  <2> SUFFICES ASSUME TypeOK, [Next]_vars PROVE TypeOK'
    OBVIOUS
  <2>1. ASSUME NEW t \in Threads, NEW dst \in Dests, NEW matched \in BOOLEAN,
               NEW datagram \in BOOLEAN, cgroup_connect(t, dst, matched, datagram)
        PROVE  TypeOK'
    <3>1. redirect_ctx' \in [Threads -> Dests \cup {NoDst}]
      <4>1. \/ redirect_ctx' = [redirect_ctx EXCEPT ![t] = dst]
            \/ redirect_ctx' = redirect_ctx
        BY <2>1 DEF cgroup_connect
      <4>2. QED
        BY <4>1 DEF TypeOK
    <3>2. rewritten' \in SUBSET Threads
      BY <2>1 DEF cgroup_connect, TypeOK
    <3>3. seen' \subseteq {"stray", "shared", "reset"}
      BY <2>1 DEF cgroup_connect, TypeOK
    <3>4. /\ stage' \in [Threads -> {"idle", "hooked", "connecting"}]
          /\ asked' \in [Threads -> Dests \cup {NoDst}]
      <4>1. \/ UNCHANGED <<stage, asked>>
            \/ /\ stage' = [stage EXCEPT ![t] = "hooked"]
               /\ asked' = [asked EXCEPT ![t] = dst]
        BY <2>1 DEF cgroup_connect
      <4>2. QED
        BY <4>1 DEF TypeOK
    <3>5. UNCHANGED <<socks, ring, mapVars, connVars>>
      BY <2>1 DEF cgroup_connect
    <3>6. QED
      BY <3>1, <3>2, <3>3, <3>4, <3>5 DEF TypeOK, mapVars, connVars
  <2>2. ASSUME NEW t \in Threads, kprobe_tcp_connect(t) PROVE TypeOK'
    BY <2>2 DEF kprobe_tcp_connect, TypeOK, mapVars, connVars
  <2>3. ASSUME NEW t \in Threads, kretprobe_refused(t) PROVE TypeOK'
    <3>1. /\ at' \in [Conns -> Where]
          /\ key' \in [Conns -> Keys]
          /\ goal' \in [Conns -> Dests \cup {NoDst}]
          /\ to' \in [Conns -> Dests \cup {NoDst}]
          /\ open' \in SUBSET Conns
          /\ seen' \subseteq {"stray", "shared", "reset"}
      <4>1. CASE UNCHANGED connVars /\ seen' \subseteq seen \cup {"stray"}
        BY <4>1 DEF TypeOK, connVars
      <4>2. CASE \E k \in Keys : /\ Connected(t, k)
                                 /\ seen' \subseteq seen \cup {"stray"} \cup Shared(t, k)
        <5>1. seen \subseteq {"stray", "shared", "reset"}
          BY DEF TypeOK
        <5>2. QED
          BY <4>2, <5>1, ConnectedTyping, SeenShared
      <4>3. QED
        BY <2>3, <4>1, <4>2 DEF kretprobe_refused
    <3>2. ring' \in 0 .. RingSize
      BY <2>3, ReserveTyping DEF kretprobe_refused
    <3>3. UNCHANGED <<redirect_ctx, mapVars>> /\ Leave(t)
      BY <2>3 DEF kretprobe_refused
    <3>4. QED
      BY <3>1, <3>2, <3>3, LeaveTyping DEF TypeOK, mapVars
  <2>4. ASSUME NEW t \in Threads, NEW success \in BOOLEAN,
               kretprobe_tcp_connect(t, success)
        PROVE  TypeOK'
    <3>1. /\ at' \in [Conns -> Where]
          /\ key' \in [Conns -> Keys]
          /\ goal' \in [Conns -> Dests \cup {NoDst}]
          /\ to' \in [Conns -> Dests \cup {NoDst}]
          /\ open' \in SUBSET Conns
          /\ seen' \subseteq {"stray", "shared", "reset"}
          /\ flow' \in [Keys -> Dests \cup {NoDst}]
          /\ pidPort' \in [Ports -> Dests \cup {NoDst}]
      <4>1. CASE UNCHANGED <<mapVars, connVars, seen>>
        BY <4>1 DEF TypeOK, connVars, mapVars
      <4>2. CASE \E k \in Keys : /\ Connected(t, k) /\ RecordOrigDst(t, k)
                                 /\ seen' = seen \cup Shared(t, k)
        <5>1. PICK k \in Keys : /\ Connected(t, k) /\ RecordOrigDst(t, k)
                                 /\ seen' = seen \cup Shared(t, k)
          BY <4>2
        <5>2. /\ flow' \in [Keys -> Dests \cup {NoDst}]
              /\ pidPort' \in [Ports -> Dests \cup {NoDst}]
          BY <5>1, PortTyping DEF RecordOrigDst, TypeOK, mapVars
        <5>3. seen' \subseteq {"stray", "shared", "reset"}
          BY <5>1, SeenShared DEF TypeOK
        <5>4. QED
          BY <5>1, <5>2, <5>3, ConnectedTyping
      <4>3. QED
        BY <2>4, <4>1, <4>2 DEF kretprobe_tcp_connect
    <3>2. ring' \in 0 .. RingSize
      BY <2>4, ReserveTyping DEF kretprobe_tcp_connect
    <3>3. redirect_ctx' \in [Threads -> Dests \cup {NoDst}]
      BY <2>4 DEF kretprobe_tcp_connect, ClearCtx, TypeOK
    <3>4. QED
      BY <2>4, <3>1, <3>2, <3>3, LeaveTyping DEF kretprobe_tcp_connect, TypeOK
  <2>5. CASE Collect
    BY <2>5 DEF Collect, TypeOK, threadVars, mapVars, connVars
  <2>6. ASSUME NEW c \in Conns, lookupPidPort(c) \/ lookupFlow(c) \/ cookieFails(c)
        PROVE  TypeOK'
    <3>1. key[c] \in Keys /\ Port(key[c]) \in Ports
      BY PortTyping DEF TypeOK
    <3>2. to' \in [Conns -> Dests \cup {NoDst}]
      <4>1. pidPort[Port(key[c])] \in Dests \cup {NoDst} /\ flow[key[c]] \in Dests \cup {NoDst}
        BY <3>1 DEF TypeOK
      <4>2. PICK found \in Dests \cup {NoDst} : to' = to \/ to' = [to EXCEPT ![c] = found]
        BY <2>6, <4>1 DEF lookupPidPort, lookupFlow, cookieFails
      <4>3. QED
        BY <4>2 DEF TypeOK
    <3>3. at' \in [Conns -> Where]
      <4>1. PICK where \in {"flow", "orphan", "found by port", "found by flow", "failed"} :
              Goto(c, where)
        BY <2>6 DEF lookupPidPort, lookupFlow, cookieFails
      <4>2. QED
        BY <4>1 DEF TypeOK, Goto, Where
    <3>4. QED
      BY <2>6, <3>2, <3>3 DEF lookupPidPort, lookupFlow, cookieFails, TypeOK, HandlerKeeps,
                        threadVars, probeVars, mapVars
  <2>7. ASSUME NEW c \in Conns, deletePidPort(c) \/ deleteFlow(c) PROVE TypeOK'
    <3>1. /\ flow' \in [Keys -> Dests \cup {NoDst}]
          /\ pidPort' \in [Ports -> Dests \cup {NoDst}]
      BY <2>7 DEF deletePidPort, deleteFlow, TypeOK
    <3>2. at' \in [Conns -> Where]
      <4>1. Goto(c, "dial")
        BY <2>7 DEF deletePidPort, deleteFlow
      <4>2. QED
        BY <4>1 DEF TypeOK, Goto, Where
    <3>3. QED
      BY <2>7, <3>1, <3>2 DEF deletePidPort, deleteFlow, TypeOK, HandlerKeeps,
                              threadVars, probeVars
  <2>8. ASSUME NEW c \in Conns, dial(c) PROVE TypeOK'
    <3>1. PICK where \in {"relay", "failed"} : Goto(c, where)
      BY <2>8 DEF dial
    <3>2. at' \in [Conns -> Where]
      BY <3>1 DEF TypeOK, Goto, Where
    <3>3. QED
      BY <2>8, <3>2, ReserveTyping DEF dial, TypeOK, threadVars, mapVars
  <2>9. ASSUME NEW c \in Conns, handlerReturns(c) PROVE TypeOK'
    <3>1. at' \in [Conns -> Where] /\ key' \in [Conns -> Keys]
      BY <2>9, AnyKeyTyping DEF handlerReturns, TypeOK, Goto, Where
    <3>2. QED
      BY <2>9, <3>1 DEF handlerReturns, TypeOK, threadVars, probeVars, mapVars
  <2>10. ASSUME NEW c \in Conns, Reset(c) PROVE TypeOK'
    BY <2>10 DEF Reset, TypeOK, threadVars, probeVars, mapVars
  <2>11. CASE UNCHANGED vars
    BY <2>11 DEF vars, threadVars, probeVars, mapVars, connVars, TypeOK
  <2>12. QED
    BY <2>1, <2>2, <2>3, <2>4, <2>5, <2>6, <2>7, <2>8, <2>9, <2>10, <2>11
    DEF Next, handleConn
<1>3. QED
  BY <1>1, <1>2, PTL DEF Spec

-----------------------------------------------------------------------------
(* What a thread leaves in redirect_ctx belongs to its connect under way:  *)
(* nothing of an earlier connect is there for the next, unless a full ring *)
(* or a datagram connect has left it.                                      *)
THEOREM Ownership == Spec => [](Asking /\ CtxOwned)
<1> USE FlowAssumption
<1>1. Init => Asking /\ CtxOwned
  BY DEF Init, Asking, CtxOwned
<1>2. TypeOK /\ Asking /\ CtxOwned /\ [Next]_vars => (Asking /\ CtxOwned)'
  <2> SUFFICES ASSUME TypeOK, Asking, CtxOwned, [Next]_vars
               PROVE  (Asking /\ CtxOwned)'
    OBVIOUS
  <2>1. ASSUME NEW t \in Threads, NEW dst \in Dests, NEW matched \in BOOLEAN,
               NEW datagram \in BOOLEAN, cgroup_connect(t, dst, matched, datagram)
        PROVE  (Asking /\ CtxOwned)'
    <3>1. stage[t] = "idle" /\ t \notin rewritten
      BY <2>1 DEF cgroup_connect, Asking
    <3>2. CASE datagram
      <4>1. UNCHANGED <<stage, asked, rewritten>>
        BY <2>1, <3>2 DEF cgroup_connect
      <4>2. "stray" \in seen' \/ UNCHANGED <<redirect_ctx, seen>>
        BY <2>1, <3>2 DEF cgroup_connect
      <4>3. QED
        BY <4>1, <4>2 DEF Asking, CtxOwned
    <3>3. CASE ~datagram
      <4>1. /\ stage' = [stage EXCEPT ![t] = "hooked"]
            /\ asked' = [asked EXCEPT ![t] = dst]
            /\ seen' = seen
            /\ \/ /\ redirect_ctx' = [redirect_ctx EXCEPT ![t] = dst]
                  /\ rewritten' = rewritten \cup {t}
               \/ redirect_ctx' = redirect_ctx /\ rewritten' = rewritten
        BY <2>1, <3>3 DEF cgroup_connect
      <4>2. QED
        BY <3>1, <4>1 DEF Asking, CtxOwned, TypeOK
    <3>4. QED
      BY <3>2, <3>3
  <2>2. ASSUME NEW t \in Threads, kprobe_tcp_connect(t) PROVE (Asking /\ CtxOwned)'
    BY <2>2 DEF kprobe_tcp_connect, Asking, CtxOwned, TypeOK
  <2>3. ASSUME NEW t \in Threads, kretprobe_refused(t) PROVE (Asking /\ CtxOwned)'
    <3>1. Leave(t) /\ redirect_ctx' = redirect_ctx
      BY <2>3 DEF kretprobe_refused
    <3>2. seen \subseteq seen' /\ (redirect_ctx[t] # NoDst => "stray" \in seen')
      BY <2>3 DEF kretprobe_refused
    <3>3. QED
      BY <3>1, <3>2 DEF Leave, Asking, CtxOwned, TypeOK
  <2>4. ASSUME NEW t \in Threads, NEW success \in BOOLEAN,
               kretprobe_tcp_connect(t, success)
        PROVE  (Asking /\ CtxOwned)'
    <3>1. Leave(t) /\ redirect_ctx' = [redirect_ctx EXCEPT ![t] = NoDst]
      BY <2>4 DEF kretprobe_tcp_connect, ClearCtx
    <3>2. seen \subseteq seen'
      BY <2>4 DEF kretprobe_tcp_connect
    <3>3. QED
      BY <3>1, <3>2 DEF Leave, Asking, CtxOwned, TypeOK
  <2>5. CASE UNCHANGED <<threadVars, redirect_ctx>> /\ seen \subseteq seen'
    BY <2>5 DEF threadVars, Asking, CtxOwned
  <2>6. ASSUME NEW c \in Conns, handleConn(c) \/ Reset(c) PROVE (Asking /\ CtxOwned)'
    BY <2>5, <2>6 DEF handleConn, cookieFails, lookupPidPort, deletePidPort, lookupFlow, deleteFlow,
                      dial, handlerReturns, Reset, HandlerKeeps, probeVars
  <2>7. CASE Collect \/ UNCHANGED vars
    BY <2>5, <2>7 DEF Collect, vars, probeVars
  <2>8. QED
    BY <2>1, <2>2, <2>3, <2>4, <2>6, <2>7 DEF Next
<1>3. QED
  BY <1>1, <1>2, Typing, PTL DEF Spec

-----------------------------------------------------------------------------
(* A client that connects to the proxy directly leaves the maps as they    *)
(* are, and nothing is claimed of its connection.                          *)
LEMMA DirectOwned ==
  ASSUME TypeOK, MapsOwned, NEW t \in Threads, t \notin rewritten, NEW k \in Keys,
         Connected(t, k), UNCHANGED mapVars, seen \subseteq seen'
  PROVE  MapsOwned'
<1>1. CASE ToProxy(t)
  <2>1. PICK d \in Conns : /\ key' = [key EXCEPT ![d] = k]
                           /\ goal' = [goal EXCEPT ![d] = NoDst]
                           /\ to' = [to EXCEPT ![d] = NoDst]
                           /\ open' = open \cup {d}
    BY <1>1 DEF Connected
  <2>2. goal'[d] = NoDst
    BY <2>1 DEF TypeOK
  <2>3. \A c \in open' : c # d =>
          c \in open /\ key'[c] = key[c] /\ goal'[c] = goal[c] /\ to'[c] = to[c]
    BY <2>1 DEF TypeOK
  <2>4. QED
    BY <2>2, <2>3 DEF MapsOwned, mapVars, Port
<1>2. CASE ~ToProxy(t)
  BY <1>2 DEF Connected, connVars, MapsOwned, mapVars, Port
<1>3. QED
  BY <1>1, <1>2

(* A redirected connection of a thread finds in the maps, right after the  *)
(* return probe, the destination the thread asked for, and the entries of  *)
(* other connections are as they were, unless a port is shared.            *)
LEMMA Recorded ==
  ASSUME TypeOK, Asking, CtxOwned, MapsOwned,
         NEW t \in Threads, stage[t] = "connecting", NEW k \in Keys,
         Connected(t, k), RecordOrigDst(t, k), seen' = seen \cup Shared(t, k)
  PROVE  MapsOwned'
<1> USE FlowAssumption
<1> SUFFICES ASSUME {"stray", "shared"} \cap seen' = {}, NEW c \in open',
                    goal'[c] # NoDst
             PROVE  /\ flow'[key'[c]] \in {goal'[c], NoDst}
                    /\ pidPort'[Port(key'[c])] \in {goal'[c], NoDst}
                    /\ to'[c] \in {goal'[c], NoDst}
  BY DEF MapsOwned, Port
<1>1. "stray" \notin seen /\ "shared" \notin seen /\ "shared" \notin Shared(t, k)
  OBVIOUS
<1>2. asked[t] \in Dests /\ redirect_ctx[t] = IF t \in rewritten THEN asked[t] ELSE NoDst
  BY <1>1 DEF Asking, CtxOwned
<1>3. CASE t \notin rewritten
  <2>1. UNCHANGED mapVars
    BY <1>2, <1>3 DEF RecordOrigDst
  <2>2. MapsOwned'
    BY <1>3, <2>1, DirectOwned
  <2>3. QED
    BY <2>2 DEF MapsOwned, Port
<1>4. CASE t \in rewritten
  <2>1. PICK d \in Conns : /\ key' = [key EXCEPT ![d] = k]
                           /\ goal' = [goal EXCEPT ![d] = asked[t]]
                           /\ to' = [to EXCEPT ![d] = NoDst]
                           /\ open' = open \cup {d}
    BY <1>4 DEF Connected, ToProxy
  <2>2. /\ flow' = [flow EXCEPT ![k] = asked[t]]
        /\ pidPort' = [pidPort EXCEPT ![Port(k)] = asked[t]]
    BY <1>2, <1>4 DEF RecordOrigDst
  <2>3. \A o \in open : goal[o] # NoDst => Port(key[o]) # Port(k)
    BY <1>1, <1>4 DEF Shared, Redirected
  <2>4. CASE c = d
    <3>1. key'[c] = k /\ goal'[c] = asked[t] /\ to'[c] = NoDst
      BY <2>1, <2>4 DEF TypeOK
    <3>2. flow'[k] = asked[t] /\ pidPort'[Port(k)] = asked[t]
      BY <2>2, PortTyping DEF TypeOK
    <3>3. QED
      BY <3>1, <3>2
  <2>5. CASE c # d
    <3>1. c \in open /\ c \in Conns
      BY <2>1, <2>5 DEF TypeOK
    <3>2. key'[c] = key[c] /\ goal'[c] = goal[c] /\ to'[c] = to[c]
      BY <2>1, <2>5, <3>1 DEF TypeOK
    <3>3. key[c] \in Keys /\ Port(key[c]) # Port(k) /\ key[c] # k
      BY <2>3, <3>1, <3>2 DEF TypeOK
    <3>4. Port(key[c]) \in Ports
      BY <3>3, PortTyping
    <3>5. flow'[key[c]] = flow[key[c]] /\ pidPort'[Port(key[c])] = pidPort[Port(key[c])]
      BY <2>2, <3>3, <3>4 DEF TypeOK
    <3>6. QED
      BY <1>1, <3>1, <3>2, <3>5 DEF MapsOwned
  <2>6. QED
    BY <2>4, <2>5
<1>5. QED
  BY <1>3, <1>4

(* No two clients on one port, no entry left behind: then a connection     *)
(* whose client is there is handed to the destination the client asked     *)
(* for, or to none, whatever the handlers of connections that have been    *)
(* reset delete meanwhile.                                                 *)
THEOREM Exactness == Spec => []ExactTarget
<1> USE FlowAssumption
<1>1. Init => MapsOwned
  BY DEF Init, MapsOwned
<1>2. TypeOK /\ Asking /\ CtxOwned /\ MapsOwned /\ [Next]_vars => MapsOwned'
  <2> SUFFICES ASSUME TypeOK, Asking, CtxOwned, MapsOwned, [Next]_vars
               PROVE  MapsOwned'
    OBVIOUS
  <2>1. CASE UNCHANGED <<mapVars, key, goal, to, open>> /\ seen \subseteq seen'
    BY <2>1 DEF MapsOwned, mapVars, Port
  <2>2. ASSUME NEW t \in Threads, NEW dst \in Dests, NEW matched \in BOOLEAN,
               NEW datagram \in BOOLEAN, cgroup_connect(t, dst, matched, datagram)
        PROVE  MapsOwned'
    <3>1. UNCHANGED <<mapVars, connVars>> /\ seen \subseteq seen'
      BY <2>2 DEF cgroup_connect
    <3>2. QED
      BY <2>1, <3>1 DEF connVars
  <2>3. ASSUME NEW t \in Threads, kprobe_tcp_connect(t) PROVE MapsOwned'
    BY <2>1, <2>3 DEF kprobe_tcp_connect, connVars
  <2>4. ASSUME NEW t \in Threads, kretprobe_refused(t) PROVE MapsOwned'
    <3>1. CASE t \in rewritten /\ "stray" \notin seen
      <4>1. redirect_ctx[t] = asked[t] /\ asked[t] \in Dests
        BY <2>4, <3>1 DEF Asking, CtxOwned, kretprobe_refused
      <4>2. "stray" \in seen'
        BY <2>4, <4>1 DEF kretprobe_refused
      <4>3. QED
        BY <4>2 DEF MapsOwned
    <3>2. CASE t \notin rewritten
      <4>1. UNCHANGED mapVars /\ seen \subseteq seen'
        BY <2>4 DEF kretprobe_refused
      <4>2. (\E k \in Keys : Connected(t, k)) \/ UNCHANGED connVars
        BY <2>4 DEF kretprobe_refused
      <4>3. QED
        BY <2>1, <3>2, <4>1, <4>2, DirectOwned DEF connVars
    <3>3. CASE "stray" \in seen
      BY <2>4, <3>3 DEF kretprobe_refused, MapsOwned
    <3>4. QED
      BY <3>1, <3>2, <3>3
  <2>5. ASSUME NEW t \in Threads, NEW success \in BOOLEAN,
               kretprobe_tcp_connect(t, success)
        PROVE  MapsOwned'
    <3>1. CASE UNCHANGED <<mapVars, connVars, seen>>
      BY <2>1, <3>1 DEF connVars
    <3>2. CASE \E k \in Keys : /\ Connected(t, k) /\ RecordOrigDst(t, k)
                               /\ seen' = seen \cup Shared(t, k)
      BY <2>5, <3>2, Recorded DEF kretprobe_tcp_connect
    <3>3. QED
      BY <2>5, <3>1, <3>2 DEF kretprobe_tcp_connect
  <2>6. CASE Collect
    BY <2>1, <2>6 DEF Collect, connVars
  <2>7. ASSUME NEW c \in Conns, lookupPidPort(c) \/ lookupFlow(c) PROVE MapsOwned'
    <3>1. PICK found : /\ to' = to \/ to' = [to EXCEPT ![c] = found]
                       /\ found \in {pidPort[Port(key[c])], flow[key[c]]}
      BY <2>7 DEF lookupPidPort, lookupFlow
    <3>2. UNCHANGED <<flow, pidPort, key, goal, open, seen>>
      BY <2>7 DEF lookupPidPort, lookupFlow, HandlerKeeps, mapVars
    <3>3. QED
      BY <3>1, <3>2 DEF MapsOwned, Port, TypeOK
  <2>8. ASSUME NEW c \in Conns, deletePidPort(c) PROVE MapsOwned'
    <3>1. /\ pidPort' = [pidPort EXCEPT ![Port(key[c])] = NoDst]
          /\ UNCHANGED <<flow, key, goal, to, open, seen>>
      BY <2>8 DEF deletePidPort, HandlerKeeps
    <3>2. \A p \in Ports : pidPort'[p] \in {pidPort[p], NoDst}
      BY <3>1 DEF TypeOK
    <3>3. \A o \in open : key[o] \in Keys /\ Port(key[o]) \in Ports
      BY PortTyping DEF TypeOK
    <3>4. QED
      BY <3>1, <3>2, <3>3 DEF MapsOwned, Port
  <2>9. ASSUME NEW c \in Conns, deleteFlow(c) PROVE MapsOwned'
    <3>1. /\ flow' = [flow EXCEPT ![key[c]] = NoDst]
          /\ UNCHANGED <<pidPort, key, goal, to, open, seen>>
      BY <2>9 DEF deleteFlow, HandlerKeeps
    <3>2. \A k \in Keys : flow'[k] \in {flow[k], NoDst}
      BY <3>1 DEF TypeOK
    <3>3. \A o \in open : key[o] \in Keys
      BY DEF TypeOK
    <3>4. QED
      BY <3>1, <3>2, <3>3 DEF MapsOwned, Port
  <2>10. ASSUME NEW c \in Conns, dial(c) \/ cookieFails(c) PROVE MapsOwned'
    BY <2>1, <2>10 DEF dial, cookieFails, HandlerKeeps
  <2>11. ASSUME NEW c \in Conns, handlerReturns(c) PROVE MapsOwned'
    <3>1. UNCHANGED <<flow, pidPort, seen>> /\ open' = open \ {c}
      BY <2>11 DEF handlerReturns, mapVars
    <3>2. \A o \in open' : /\ o \in open /\ key'[o] = key[o]
                           /\ goal'[o] = goal[o] /\ to'[o] = to[o]
      BY <2>11, <3>1 DEF handlerReturns, TypeOK
    <3>3. QED
      BY <3>1, <3>2 DEF MapsOwned, Port
  <2>12. ASSUME NEW c \in Conns, Reset(c) PROVE MapsOwned'
    <3>1. UNCHANGED <<flow, pidPort, key, goal, to>> /\ open' \subseteq open
      BY <2>12 DEF Reset, mapVars
    <3>2. seen \subseteq seen'
      BY <2>12 DEF Reset
    <3>3. QED
      BY <3>1, <3>2 DEF MapsOwned, Port
  <2>13. CASE UNCHANGED vars
    BY <2>1, <2>13 DEF vars, connVars
  <2>14. QED
    BY <2>2, <2>3, <2>4, <2>5, <2>6, <2>7, <2>8, <2>9, <2>10, <2>11, <2>12, <2>13
    DEF Next, handleConn
<1>3. MapsOwned => ExactTarget
  BY DEF MapsOwned, ExactTarget, HandedToGoal, Redirected
<1>4. QED
  BY <1>1, <1>2, <1>3, Typing, Ownership, PTL DEF Spec

-----------------------------------------------------------------------------
(* A connection that a connect creates has a source of its own.            *)
LEMMA ConnectedDiffers ==
  ASSUME TypeOK, SourcesDiffer, NEW t \in Threads, NEW k \in Keys, Connected(t, k)
  PROVE  SourcesDiffer'
<1>1. CASE ToProxy(t)
  <2>1. PICK d \in Conns : key' = [key EXCEPT ![d] = k] /\ open' = open \cup {d}
    BY <1>1 DEF Connected
  <2>2. k \notin {key[c] : c \in open}
    BY <1>1 DEF Connected
  <2>3. \A c \in open : c \in Conns
    BY DEF TypeOK
  <2>4. key'[d] = k /\ \A c \in open : c # d => key'[c] = key[c]
    BY <2>1, <2>3 DEF TypeOK
  <2>5. QED
    BY <2>1, <2>2, <2>4 DEF SourcesDiffer
<1>2. CASE ~ToProxy(t)
  BY <1>2 DEF Connected, connVars, SourcesDiffer
<1>3. QED
  BY <1>1, <1>2

(* The source of a connection to the proxy is not given out again while    *)
(* its client is there.                                                    *)
LEMMA SourcesAlways == Spec => []SourcesDiffer
<1>1. Init => SourcesDiffer
  BY DEF Init, SourcesDiffer
<1>2. TypeOK /\ SourcesDiffer /\ [Next]_vars => SourcesDiffer'
  <2> SUFFICES ASSUME TypeOK, SourcesDiffer, [Next]_vars PROVE SourcesDiffer'
    OBVIOUS
  <2>1. CASE key' = key /\ open' \subseteq open
    BY <2>1 DEF SourcesDiffer
  <2>2. ASSUME NEW t \in Threads, NEW dst \in Dests, NEW matched \in BOOLEAN,
               NEW datagram \in BOOLEAN, cgroup_connect(t, dst, matched, datagram)
        PROVE  SourcesDiffer'
    BY <2>1, <2>2 DEF cgroup_connect, connVars
  <2>3. ASSUME NEW t \in Threads,
               kprobe_tcp_connect(t) \/ kretprobe_refused(t)
                 \/ \E success \in BOOLEAN : kretprobe_tcp_connect(t, success)
        PROVE  SourcesDiffer'
    <3>1. (\E k \in Keys : Connected(t, k)) \/ UNCHANGED connVars
      BY <2>3 DEF kprobe_tcp_connect, kretprobe_refused, kretprobe_tcp_connect
    <3>2. ASSUME NEW k \in Keys, Connected(t, k) PROVE SourcesDiffer'
      BY <3>2, ConnectedDiffers
    <3>3. CASE UNCHANGED connVars
      BY <2>1, <3>3 DEF connVars
    <3>4. QED
      BY <3>1, <3>2, <3>3
  <2>4. ASSUME NEW c \in Conns, handleConn(c) \/ Reset(c) PROVE SourcesDiffer'
    <3>1. CASE handlerReturns(c)
      <4>1. open' = open \ {c} /\ \A o \in open' : key'[o] = key[o]
        BY <3>1 DEF handlerReturns, TypeOK
      <4>2. QED
        BY <4>1 DEF SourcesDiffer
    <3>2. CASE ~handlerReturns(c)
      BY <2>1, <2>4, <3>2 DEF handleConn, cookieFails, lookupPidPort, deletePidPort, lookupFlow,
                              deleteFlow, dial, Reset, HandlerKeeps
    <3>3. QED
      BY <3>1, <3>2
  <2>5. CASE Collect \/ UNCHANGED vars
    BY <2>1, <2>5 DEF Collect, vars, connVars
  <2>6. QED
    BY <2>2, <2>3, <2>4, <2>5, FlowAssumption DEF Next
<1>3. QED
  BY <1>1, <1>2, Typing, PTL DEF Spec

(* A client that connects to the proxy directly takes no entry away.       *)
LEMMA DirectKept ==
  ASSUME TypeOK, Kept, NEW t \in Threads, t \notin rewritten, NEW k \in Keys,
         Connected(t, k), UNCHANGED mapVars
  PROVE  Kept'
<1>1. CASE ToProxy(t)
  <2>1. PICK d \in Conns : /\ at' = [at EXCEPT ![d] = "accepted"]
                           /\ key' = [key EXCEPT ![d] = k]
                           /\ goal' = [goal EXCEPT ![d] = NoDst]
                           /\ open' = open \cup {d}
    BY <1>1 DEF Connected
  <2>2. goal'[d] = NoDst /\ d \in open'
    BY <2>1 DEF TypeOK
  <2>3. \A c \in Conns : c # d =>
          at'[c] = at[c] /\ key'[c] = key[c] /\ goal'[c] = goal[c]
    BY <2>1 DEF TypeOK
  <2>4. QED
    BY <2>1, <2>2, <2>3 DEF Kept, mapVars
<1>2. CASE ~ToProxy(t)
  BY <1>2 DEF Connected, connVars, Kept, mapVars
<1>3. QED
  BY <1>1, <1>2

(* The return probe writes the entry of the connection it completes.       *)
LEMMA RecordedKept ==
  ASSUME TypeOK, Asking, CtxOwned, Kept, NEW t \in Threads, stage[t] = "connecting",
         NEW k \in Keys, Connected(t, k), RecordOrigDst(t, k), "stray" \notin seen
  PROVE  Kept'
<1> USE FlowAssumption
<1>1. asked[t] \in Dests /\ redirect_ctx[t] = IF t \in rewritten THEN asked[t] ELSE NoDst
  BY DEF Asking, CtxOwned
<1>2. CASE t \notin rewritten
  <2>1. UNCHANGED mapVars
    BY <1>1, <1>2 DEF RecordOrigDst
  <2>2. QED
    BY <1>2, <2>1, DirectKept
<1>3. CASE t \in rewritten
  <2>1. PICK d \in Conns : /\ at' = [at EXCEPT ![d] = "accepted"]
                           /\ key' = [key EXCEPT ![d] = k]
                           /\ goal' = [goal EXCEPT ![d] = asked[t]]
                           /\ open' = open \cup {d}
    BY <1>3 DEF Connected, ToProxy
  <2>2. flow' = [flow EXCEPT ![k] = asked[t]] /\ asked[t] # NoDst
    BY <1>1, <1>3 DEF RecordOrigDst
  <2>3. \A j \in Keys : flow[j] # NoDst => flow'[j] # NoDst
    BY <2>2 DEF TypeOK
  <2>4. ASSUME NEW c \in Conns, at'[c] # "none"
        PROVE  /\ c \in open'
               /\ goal'[c] # NoDst =>
                    /\ at'[c] # "orphan"
                    /\ at'[c] \in {"accepted", "flow"} => flow'[key'[c]] # NoDst
    <3>1. CASE c = d
      <4>1. at'[c] = "accepted" /\ key'[c] = k /\ c \in open'
        BY <2>1, <3>1 DEF TypeOK
      <4>2. flow'[k] # NoDst
        BY <2>2 DEF TypeOK
      <4>3. QED
        BY <4>1, <4>2
    <3>2. CASE c # d
      <4>1. at'[c] = at[c] /\ key'[c] = key[c] /\ goal'[c] = goal[c] /\ key[c] \in Keys
        BY <2>1, <3>2 DEF TypeOK
      <4>2. /\ c \in open
            /\ goal[c] # NoDst => /\ at[c] # "orphan"
                                  /\ at[c] \in {"accepted", "flow"} => flow[key[c]] # NoDst
        BY <2>4, <4>1 DEF Kept
      <4>3. c \in open'
        BY <2>1, <4>2
      <4>4. QED
        BY <2>3, <4>1, <4>2, <4>3
    <3>3. QED
      BY <3>1, <3>2
  <2>5. QED
    BY <2>4 DEF Kept
<1>4. QED
  BY <1>2, <1>3

(* No redirected client is turned away for want of a destination, whatever *)
(* handlers of connections with its port take from the map by port, as     *)
(* long as no client resets and no full ring or datagram connect leaves an *)
(* entry.                                                                  *)
THEOREM NobodyTurnedAway == Spec => []NoOrphan
<1> USE FlowAssumption
<1>1. Init => FlowKept
  BY DEF Init, FlowKept, Kept
<1>2. TypeOK /\ Asking /\ CtxOwned /\ SourcesDiffer /\ FlowKept /\ [Next]_vars => FlowKept'
  <2> SUFFICES ASSUME TypeOK, Asking, CtxOwned, SourcesDiffer, FlowKept, [Next]_vars,
                      "stray" \notin seen', "reset" \notin seen'
               PROVE  Kept'
    BY DEF FlowKept
  <2>1. CASE UNCHANGED <<flow, key, goal, open, at>> /\ seen \subseteq seen'
    BY <2>1 DEF FlowKept, Kept
  <2>2. ASSUME NEW t \in Threads, NEW dst \in Dests, NEW matched \in BOOLEAN,
               NEW datagram \in BOOLEAN, cgroup_connect(t, dst, matched, datagram)
        PROVE  UNCHANGED <<flow, key, goal, open, at>> /\ seen \subseteq seen'
    BY <2>2 DEF cgroup_connect, mapVars, connVars
  <2>3. ASSUME NEW t \in Threads, kprobe_tcp_connect(t)
        PROVE  UNCHANGED <<flow, key, goal, open, at>> /\ seen \subseteq seen'
    BY <2>3 DEF kprobe_tcp_connect, mapVars, connVars
  <2>4. ASSUME NEW t \in Threads, kretprobe_refused(t) PROVE Kept'
    <3>1. /\ seen \subseteq seen' /\ redirect_ctx[t] = NoDst /\ stage[t] = "connecting"
          /\ UNCHANGED mapVars
          /\ (\E k \in Keys : Connected(t, k)) \/ UNCHANGED connVars
      BY <2>4 DEF kretprobe_refused
    <3>2. t \notin rewritten /\ Kept
      BY <3>1 DEF Asking, CtxOwned, FlowKept
    <3>3. CASE UNCHANGED connVars
      BY <2>1, <3>1, <3>3 DEF mapVars, connVars
    <3>4. QED
      BY <3>1, <3>2, <3>3, DirectKept
  <2>5. ASSUME NEW t \in Threads, NEW success \in BOOLEAN, kretprobe_tcp_connect(t, success)
        PROVE  Kept'
    <3>1. CASE UNCHANGED <<mapVars, connVars, seen>>
      BY <2>1, <3>1 DEF mapVars, connVars
    <3>2. CASE \E k \in Keys : /\ Connected(t, k) /\ RecordOrigDst(t, k)
                               /\ seen' = seen \cup Shared(t, k)
      <4>1. "stray" \notin seen /\ Kept
        BY <3>2 DEF FlowKept
      <4>2. stage[t] = "connecting"
        BY <2>5 DEF kretprobe_tcp_connect
      <4>3. QED
        BY <3>2, <4>1, <4>2, RecordedKept
    <3>3. QED
      BY <2>5, <3>1, <3>2 DEF kretprobe_tcp_connect
  <2>6. ASSUME NEW c \in Conns,
               seen' = seen, open' = open, key' = key, goal' = goal,
               \A o \in Conns \ {c} : at'[o] = at[o],
               \A k \in Keys : flow'[k] = flow[k] \/ (k = key[c] /\ at'[c] = "dial"),
               at[c] # "none", goal[c] # NoDst => at'[c] # "orphan",
               at'[c] \in {"accepted", "flow"} => at[c] = "accepted" /\ flow' = flow
        PROVE  Kept'
    <3> SUFFICES ASSUME NEW o \in Conns, at'[o] # "none"
                 PROVE  /\ o \in open'
                        /\ goal'[o] # NoDst =>
                             /\ at'[o] # "orphan"
                             /\ at'[o] \in {"accepted", "flow"} => flow'[key'[o]] # NoDst
      BY DEF Kept
    <3>1. Kept
      BY <2>6 DEF FlowKept
    <3>2. CASE o = c
      BY <2>6, <3>1, <3>2 DEF Kept
    <3>3. CASE o # c
      <4>1. at'[o] = at[o] /\ o \in open /\ c \in open /\ key[o] \in Keys
        BY <2>6, <3>1, <3>3 DEF Kept, TypeOK
      <4>2. key[o] # key[c]
        BY <3>3, <4>1 DEF SourcesDiffer
      <4>3. flow'[key[o]] = flow[key[o]]
        BY <2>6, <4>1, <4>2
      <4>4. goal[o] # NoDst => /\ at[o] # "orphan"
                               /\ at[o] \in {"accepted", "flow"} => flow[key[o]] # NoDst
        BY <3>1, <4>1 DEF Kept
      <4>5. o \in open' /\ goal'[o] = goal[o] /\ key'[o] = key[o]
        BY <2>6, <4>1
      <4>6. QED
        BY <4>1, <4>3, <4>4, <4>5
    <3>4. QED
      BY <3>2, <3>3
  <2>7. ASSUME NEW c \in Conns, lookupPidPort(c) \/ lookupFlow(c)
        PROVE  /\ seen' = seen /\ open' = open /\ key' = key /\ goal' = goal /\ flow' = flow
               /\ \A o \in Conns \ {c} : at'[o] = at[o]
               /\ at[c] # "none" /\ (goal[c] # NoDst => at'[c] # "orphan")
               /\ at'[c] \in {"accepted", "flow"} => at[c] = "accepted"
    <3>1. /\ seen' = seen /\ open' = open /\ key' = key /\ goal' = goal /\ flow' = flow
          /\ \A o \in Conns \ {c} : at'[o] = at[o]
          /\ at[c] # "none"
      BY <2>7 DEF lookupPidPort, lookupFlow, HandlerKeeps, mapVars, Goto, TypeOK
    <3>2. CASE lookupPidPort(c)
      BY <3>1, <3>2 DEF lookupPidPort, Goto, TypeOK
    <3>3. CASE lookupFlow(c)
      <4>1. at[c] = "flow" /\ at'[c] \in {"orphan", "found by flow"}
        BY <3>3 DEF lookupFlow, Goto, TypeOK
      <4>2. goal[c] # NoDst => flow[key[c]] # NoDst
        BY <3>1, <4>1 DEF FlowKept, Kept
      <4>3. goal[c] # NoDst => at'[c] = "found by flow"
        BY <3>3, <4>2 DEF lookupFlow, Goto, TypeOK
      <4>4. QED
        BY <3>1, <4>1, <4>3
    <3>4. QED
      BY <2>7, <3>2, <3>3
  <2>8. ASSUME NEW c \in Conns, deletePidPort(c) \/ deleteFlow(c) \/ dial(c) \/ cookieFails(c)
        PROVE  /\ seen' = seen /\ open' = open /\ key' = key /\ goal' = goal
               /\ \A o \in Conns \ {c} : at'[o] = at[o]
               /\ \A k \in Keys : flow'[k] = flow[k] \/ (k = key[c] /\ at'[c] = "dial")
               /\ at[c] # "none" /\ at'[c] \in {"dial", "relay", "failed"}
    BY <2>8 DEF deletePidPort, deleteFlow, dial, cookieFails, HandlerKeeps, mapVars, Goto, TypeOK
  <2>9. ASSUME NEW c \in Conns, handlerReturns(c) PROVE Kept'
    <3>1. /\ UNCHANGED <<flow, seen>> /\ open' = open \ {c} /\ at'[c] = "none"
          /\ \A o \in Conns \ {c} : at'[o] = at[o] /\ key'[o] = key[o] /\ goal'[o] = goal[o]
      BY <2>9 DEF handlerReturns, mapVars, Goto, TypeOK
    <3>2. QED
      BY <3>1 DEF FlowKept, Kept
  <2>10. ASSUME NEW c \in Conns, Reset(c) PROVE FALSE
    BY <2>10 DEF Reset
  <2>11. CASE Collect \/ UNCHANGED vars
    BY <2>1, <2>11 DEF Collect, vars, mapVars, connVars
  <2>12. ASSUME NEW c \in Conns, handleConn(c) PROVE Kept'
    BY <2>6, <2>7, <2>8, <2>9, <2>12 DEF handleConn
  <2>13. QED
    BY <2>1, <2>2, <2>3, <2>4, <2>5, <2>10, <2>11, <2>12 DEF Next
<1>3. TypeOK /\ FlowKept => NoOrphan
  <2> SUFFICES ASSUME TypeOK, Kept, NEW c \in open, goal[c] # NoDst
               PROVE  at[c] # "orphan"
    BY DEF FlowKept, NoOrphan, Redirected
  <2>1. c \in Conns
    BY DEF TypeOK
  <2>2. QED
    BY <2>1 DEF Kept
<1>4. QED
  BY <1>1, <1>2, <1>3, Typing, Ownership, SourcesAlways, PTL DEF Spec
=============================================================================
