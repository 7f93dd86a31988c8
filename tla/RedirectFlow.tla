---------------------------- MODULE RedirectFlow ----------------------------
(***************************************************************************)
(* How a redirected connection finds its way back to the destination it    *)
(* asked for.  The cgroup hook of connect (internal/ebpf/kscope.bpf.c)     *)
(* rewrites the address to the proxy's and leaves the original destination *)
(* in redirect_ctx under the thread's id; the return probe of tcp_connect  *)
(* moves it to two maps, keyed by source address and port and by process   *)
(* and port (once more with process 0); the proxy's handler                *)
(* (internal/proxy/server.go) looks the connection up in them, each lookup *)
(* followed by a separate delete, and dials what it finds.                 *)
(*                                                                         *)
(* One address family: the other has maps and probes of its own, written   *)
(* the same way.  The handler's first lookup, by socket cookie, always     *)
(* misses (no program writes orig_dst), and so does the one under the      *)
(* peer's process (SO_PEERCRED of a TCP socket gives process 0): these two *)
(* and the entry under the client's process, which only the latter could   *)
(* read, are left out.                                                     *)
(* The kernel answers a handshake only once connect has let go of the      *)
(* socket, after the return probe.                                         *)
(*                                                                         *)
(* A client may also connect to the proxy's own address: without a rewrite *)
(* there is nothing to look up for it, and what it is handed is a leftover *)
(* entry or nothing.  It is modelled because its handler's lookups and     *)
(* deletes meet those of redirected connections.  (When a rule redirects a *)
(* connect to the proxy's own address, the handler dials the proxy: one    *)
(* more client of this kind.)                                              *)
(*                                                                         *)
(* goal and seen are history variables.  seen: a redirect_ctx entry has    *)
(* outlived its connect ("stray"), two open connections have had one port  *)
(* on different addresses ("shared"), a client has reset ("reset").        *)
(***************************************************************************)
EXTENDS Naturals

CONSTANTS Threads,                \* client threads
          Addrs, Ports,           \* source addresses and ports of clients
          Dests, NoDst,           \* what clients connect to
          Proxy,                  \* ... the proxy's own address among it
          Conns,                  \* connections to the proxy at one time
          RingSize,               \* events that fit into the ring buffer
          Collected,              \* a collector reads the ring (domain rules)
          Datagrams,              \* clients connect datagram sockets too
          Resets                  \* clients may reset a connection at any time

ASSUME FlowAssumption == /\ NoDst \notin Dests /\ Proxy \in Dests
                         /\ Addrs # {} /\ Ports # {}
                         /\ RingSize \in Nat
                         /\ {Collected, Datagrams, Resets} \subseteq BOOLEAN

VARIABLES stage,         \* where each thread is in connect
          asked,         \* the destination of its connect
          rewritten,     \* the threads whose connect goes to the proxy instead
          socks,         \* socks: threads inside tcp_connect
          redirect_ctx,  \* redirect_ctx: thread -> original destination
          ring,          \* events in the ring buffer
          flow,          \* orig_dst_flow_v4: <<address, port>> -> destination
          pidPort,       \* orig_dst_pid_port: port -> destination, for process 0
          at,            \* where the handler of each connection is
          key,           \* the connection's source address and port
          goal,          \* what its client was redirected from, if it was
          to,            \* the destination the handler has found
          open,          \* the connections whose client is still there
          seen           \* what has happened of: "stray", "shared", "reset"

threadVars == <<stage, asked, rewritten>>
probeVars  == <<socks, redirect_ctx, ring>>
mapVars    == <<flow, pidPort>>
connVars   == <<at, key, goal, to, open>>
vars == <<threadVars, probeVars, mapVars, connVars, seen>>

Keys == Addrs \X Ports
Port(k) == k[2]
AnyKey == CHOOSE k \in Keys : TRUE     \* of a connection that does not exist

Init == /\ stage = [t \in Threads |-> "idle"]
        /\ asked = [t \in Threads |-> NoDst]
        /\ rewritten = {} /\ socks = {} /\ ring = 0
        /\ redirect_ctx = [t \in Threads |-> NoDst]
        /\ flow = [k \in Keys |-> NoDst]
        /\ pidPort = [p \in Ports |-> NoDst]
        /\ at = [c \in Conns |-> "none"]
        /\ key = [c \in Conns |-> AnyKey]
        /\ goal = [c \in Conns |-> NoDst] /\ to = [c \in Conns |-> NoDst]
        /\ open = {} /\ seen = {}

-----------------------------------------------------------------------------
(* A client thread in connect. *)

(* connect of a stream or, datagram, of a datagram socket: the hook is the *)
(* same, but a datagram connect ends here, without the tcp_connect probes. *)
(* Whether a rule matches is up to the rules of the moment.                *)
cgroup_connect(t, dst, matched, datagram) ==
  /\ stage[t] = "idle"
  /\ IF matched
     THEN /\ redirect_ctx' = [redirect_ctx EXCEPT ![t] = dst]
          /\ rewritten' = IF datagram THEN rewritten ELSE rewritten \cup {t}
          /\ seen' = IF datagram THEN seen \cup {"stray"} ELSE seen
     ELSE UNCHANGED <<redirect_ctx, rewritten, seen>>
  /\ IF datagram THEN UNCHANGED <<stage, asked>>
     ELSE /\ stage' = [stage EXCEPT ![t] = "hooked"]
          /\ asked' = [asked EXCEPT ![t] = dst]
  /\ UNCHANGED <<socks, ring, mapVars, connVars>>

kprobe_tcp_connect(t) ==
  /\ stage[t] = "hooked"
  /\ stage' = [stage EXCEPT ![t] = "connecting"]
  /\ socks' = socks \cup {t}
  /\ UNCHANGED <<asked, rewritten, redirect_ctx, ring, mapVars, connVars, seen>>

ToProxy(t) == t \in rewritten \/ asked[t] = Proxy

(* tcp_connect has chosen the source k.  A connection to the proxy then    *)
(* exists, under a source no other such connection has; one that goes      *)
(* elsewhere may share a source with it.                                   *)
Connected(t, k) ==
  IF ToProxy(t)
  THEN /\ k \notin {key[c] : c \in open}
       /\ \E c \in Conns :
            /\ at[c] = "none"
            /\ at' = [at EXCEPT ![c] = "accepted"]
            /\ key' = [key EXCEPT ![c] = k]
            /\ goal' = [goal EXCEPT ![c] = IF t \in rewritten THEN asked[t] ELSE NoDst]
            /\ to' = [to EXCEPT ![c] = NoDst]
            /\ open' = open \cup {c}
  ELSE UNCHANGED connVars

Redirected(c) == goal[c] # NoDst

Shared(t, k) ==
  IF t \in rewritten /\ \E c \in open : Redirected(c) /\ Port(key[c]) = Port(k)
  THEN {"shared"} ELSE {}

Leave(t) == /\ stage' = [stage EXCEPT ![t] = "idle"]
            /\ asked' = [asked EXCEPT ![t] = NoDst]
            /\ rewritten' = rewritten \ {t}
            /\ socks' = socks \ {t}

ReserveUnchecked == ring + 1

(* bpf_ringbuf_reserve: what the ring holds afterwards. *)
Reserve == IF ring < RingSize THEN ring + 1 ELSE ring

(* No room in the ring: the probe returns without looking at redirect_ctx. *)
kretprobe_refused(t) ==
  /\ stage[t] = "connecting" /\ t \in socks
  /\ ring = RingSize
  /\ ring' = Reserve
  /\ LET stray == IF redirect_ctx[t] = NoDst THEN {} ELSE {"stray"}
     IN \/ \E k \in Keys : Connected(t, k) /\ seen' = seen \cup stray \cup Shared(t, k)
        \/ UNCHANGED connVars /\ seen' = seen \cup stray
  /\ Leave(t)
  /\ UNCHANGED <<redirect_ctx, mapVars>>

PortOnly(t, k) ==
  IF redirect_ctx[t] = NoDst THEN UNCHANGED mapVars
  ELSE /\ pidPort' = [pidPort EXCEPT ![Port(k)] = redirect_ctx[t]]
       /\ UNCHANGED flow

KeepExisting(t, k) ==
  IF redirect_ctx[t] = NoDst THEN UNCHANGED mapVars
  ELSE /\ flow' = [flow EXCEPT ![k] = IF @ = NoDst THEN redirect_ctx[t] ELSE @]
       /\ pidPort' = [pidPort EXCEPT ![Port(k)] = IF @ = NoDst THEN redirect_ctx[t] ELSE @]

(* The original destination goes into both maps, over what is there. *)
RecordOrigDst(t, k) ==
  IF redirect_ctx[t] = NoDst THEN UNCHANGED mapVars
  ELSE /\ flow' = [flow EXCEPT ![k] = redirect_ctx[t]]
       /\ pidPort' = [pidPort EXCEPT ![Port(k)] = redirect_ctx[t]]

ClearOnSuccess(t, success) ==
  redirect_ctx' = IF success THEN [redirect_ctx EXCEPT ![t] = NoDst] ELSE redirect_ctx

(* The entry goes whether or not tcp_connect succeeded. *)
ClearCtx(t, success) == redirect_ctx' = [redirect_ctx EXCEPT ![t] = NoDst]

kretprobe_tcp_connect(t, success) ==
  /\ stage[t] = "connecting" /\ t \in socks
  /\ ring < RingSize
  /\ ring' = Reserve
  /\ IF success THEN \E k \in Keys : /\ Connected(t, k) /\ RecordOrigDst(t, k)
                                      /\ seen' = seen \cup Shared(t, k)
     ELSE UNCHANGED <<mapVars, connVars, seen>>
  /\ ClearCtx(t, success)
  /\ Leave(t)

(* The collector: it runs only when there are domain rules. *)
Collect == /\ Collected /\ ring > 0
           /\ ring' = ring - 1
           /\ UNCHANGED <<threadVars, socks, redirect_ctx, mapVars, connVars, seen>>

-----------------------------------------------------------------------------
(* The proxy: one handler per accepted connection. *)

Goto(c, where) == at' = [at EXCEPT ![c] = where]

HandlerKeeps == UNCHANGED <<threadVars, probeVars, key, goal, open, seen>>

(* The socket has no cookie to look up: the handler gives up, and what the *)
(* probes recorded for this connection stays.                              *)
cookieFails(c) ==
  /\ at[c] = "accepted"
  /\ Goto(c, "failed")
  /\ HandlerKeeps /\ UNCHANGED <<to, mapVars>>

lookupPidPort(c) ==
  /\ at[c] = "accepted"
  /\ LET found == pidPort[Port(key[c])]
     IN IF found = NoDst THEN Goto(c, "flow") /\ UNCHANGED to
        ELSE Goto(c, "found by port") /\ to' = [to EXCEPT ![c] = found]
  /\ HandlerKeeps /\ UNCHANGED mapVars

deletePidPort(c) ==
  /\ at[c] = "found by port"
  /\ pidPort' = [pidPort EXCEPT ![Port(key[c])] = NoDst]
  /\ Goto(c, "dial")
  /\ HandlerKeeps /\ UNCHANGED <<to, flow>>

lookupFlow(c) ==
  /\ at[c] = "flow"
  /\ LET found == flow[key[c]]
     IN IF found = NoDst THEN Goto(c, "orphan") /\ UNCHANGED to
        ELSE Goto(c, "found by flow") /\ to' = [to EXCEPT ![c] = found]
  /\ HandlerKeeps /\ UNCHANGED mapVars

deleteFlow(c) ==
  /\ at[c] = "found by flow"
  /\ flow' = [flow EXCEPT ![key[c]] = NoDst]
  /\ Goto(c, "dial")
  /\ HandlerKeeps /\ UNCHANGED <<to, pidPort>>

(* The proxy's own connect passes the same probes (its process is exempt,  *)
(* so the hook leaves it alone) and puts an event into the ring.           *)
dial(c) ==
  /\ at[c] = "dial"
  /\ Goto(c, "relay") \/ Goto(c, "failed")
  /\ ring' = Reserve
  /\ UNCHANGED <<threadVars, socks, redirect_ctx, mapVars, key, goal, to, open, seen>>

(* handleConn returns and closes the client's connection. *)
handlerReturns(c) ==
  /\ at[c] \in {"relay", "failed", "orphan"}
  /\ Goto(c, "none")
  /\ to' = [to EXCEPT ![c] = NoDst]
  /\ goal' = [goal EXCEPT ![c] = NoDst]
  /\ key' = [key EXCEPT ![c] = AnyKey]
  /\ open' = open \ {c}
  /\ UNCHANGED <<threadVars, probeVars, mapVars, seen>>

(* The client aborts: its source is free for another connection while the  *)
(* handler still works, or has yet to start, on this one.                  *)
Reset(c) ==
  /\ Resets /\ c \in open
  /\ open' = open \ {c}
  /\ seen' = seen \cup {"reset"}
  /\ UNCHANGED <<threadVars, probeVars, mapVars, at, key, goal, to>>

handleConn(c) == \/ cookieFails(c)
                 \/ lookupPidPort(c) \/ deletePidPort(c)
                 \/ lookupFlow(c) \/ deleteFlow(c)
                 \/ dial(c) \/ handlerReturns(c)

Next ==
  \/ \E t \in Threads :
       \/ \E dst \in Dests, matched \in BOOLEAN, datagram \in {FALSE, Datagrams} :
            cgroup_connect(t, dst, matched, datagram)
       \/ kprobe_tcp_connect(t)
       \/ kretprobe_refused(t)
       \/ \E success \in BOOLEAN : kretprobe_tcp_connect(t, success)
  \/ \E c \in Conns : handleConn(c) \/ Reset(c)
  \/ Collect

Spec == Init /\ [][Next]_vars

-----------------------------------------------------------------------------
Where == {"none", "accepted", "found by port", "flow", "found by flow", "dial",
          "relay", "failed", "orphan"}

TypeOK == /\ stage \in [Threads -> {"idle", "hooked", "connecting"}]
          /\ asked \in [Threads -> Dests \cup {NoDst}]
          /\ rewritten \in SUBSET Threads
          /\ socks \in SUBSET Threads
          /\ redirect_ctx \in [Threads -> Dests \cup {NoDst}]
          /\ ring \in 0 .. RingSize
          /\ flow \in [Keys -> Dests \cup {NoDst}]
          /\ pidPort \in [Ports -> Dests \cup {NoDst}]
          /\ at \in [Conns -> Where]
          /\ key \in [Conns -> Keys]
          /\ goal \in [Conns -> Dests \cup {NoDst}]
          /\ to \in [Conns -> Dests \cup {NoDst}]
          /\ open \in SUBSET Conns
          /\ seen \subseteq {"stray", "shared", "reset"}

(* redirect_ctx is keyed by thread: what one connect leaves there must not *)
(* be there for the thread's next.  It holds the destination of the        *)
(* connect under way and nothing outside one, unless a full ring or a      *)
(* datagram connect has left an entry behind.                              *)
CtxOwned ==
  "stray" \notin seen => \A t \in Threads :
    redirect_ctx[t] = IF t \in rewritten THEN asked[t] ELSE NoDst

(* While its client is there, a redirected connection is handed to the     *)
(* destination the client asked for, or to none: never to that of another  *)
(* connection.                                                             *)
HandedToGoal ==
  "stray" \notin seen => \A c \in open : Redirected(c) => to[c] \in {goal[c], NoDst}

(* ... provided no two connections had one port on different addresses:    *)
(* the proxy looks a connection up by port first, without its address.  It *)
(* holds though sources are reused, entries are left behind and a handler, *)
(* a direct client's too, may delete what a later connection has just      *)
(* written.                                                                *)
ExactTarget == "shared" \notin seen => HandedToGoal

(* A redirected client is never turned away for want of an original        *)
(* destination, even when handlers of connections with the same port take  *)
(* each other's entry: the other map has it still.  (With two clients that *)
(* reset, their handlers can take both entries of a third with their port.)*)
NoOrphan ==
  {"stray", "reset"} \cap seen = {} =>
    \A c \in open : Redirected(c) => at[c] # "orphan"

(* Whatever the ring does, a redirected connection finds its destination.  *)
AlwaysFound == \A c \in open : Redirected(c) => at[c] # "orphan"
=============================================================================
