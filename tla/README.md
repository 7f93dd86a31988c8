# Verification of kscope in TLA+

kscope captures DNS messages, TCP connects and execs with a kernel program,
correlates them in user space, and can redirect the TCP connects that rules
select to a local proxy. This directory holds models of its core in TLA+, the
TLC configurations that check them on small instances, and proofs checked by
TLAPS. Paths below are relative to the repository; line numbers are those of the
modelled commit.

    tlc -config MCBus_backpressure.cfg MCBus      check a model
    tlapm BusProofs.tla                           check its proofs

## The system

| Component | State | Operations | Talks to |
|---|---|---|---|
| Kernel program (`internal/ebpf/kscope.bpf.c`) | rule maps, `redirect_ctx`, `socks`, `recv_args`, original-destination maps, ring buffer | cgroup connect hooks, tcp_connect probes, sendto/recvfrom/exec tracepoints | ring buffer to the collector; maps shared with redirect manager and proxy |
| Loader (`internal/ebpf/loader.go`) | loaded objects, links | attach, Close | kernel |
| Collector (`internal/collector`) | none | Run: read, decode, publish | ring buffer, bus |
| Event bus (`internal/bus`) | input channel, registry, one channel and drop counter per subscriber | Publish, Subscribe, cancel, Run, dispatch | collector in, engine or DNS watcher out |
| Engine and handlers (`internal/correlation/engine`, `internal/modules`) | the event at hand, output channel | Run, Handle | bus, store, writer |
| Store (`internal/correlation/store.go`) | processes, two indexes of the global DNS table | UpsertProcess, AddDNSQuery, AddDNSReply, AddTCPConnect | graph |
| Graph (`internal/graph`) | nodes, edges | UpsertNode, AddEdge, Snapshot | the store; nothing calls Snapshot |
| Redirect manager and DNS watcher (`internal/redirect`) | the kernel's rule maps, ports per domain | ExemptPID, ApplyConfig, UpdateDomainFromReply | kernel maps, bus |
| Proxy (`internal/proxy`) | listeners, one goroutine per connection | Run, handleConn, relay | original-destination maps |
| Configuration, commands, output (`internal/redirect/config.go`, `cmd/kscope`) | none | merge, defaults, parse, format | start everything |

`observe` runs collector -> bus -> engine -> writer in one goroutine each.
`proxy` installs the rules, runs the proxy, and, only if there are domain rules,
collector -> bus -> DNS watcher. The hard parts are where these meet:

- bounded queues in a row that either drop or block, with one goroutine in the
  middle and a registry that changes under it;
- two indexes of one table, updated pair by pair and evicted lazily, with
  timestamps that are not monotonic;
- data that travels from a connect hook to a return probe by thread id, from the
  probe to the proxy by source port, and from user space to the kernel entry by
  entry, with no lock around any of it.

PROJECT.json lists these hazards line by line, and the properties aimed at each.

## Modules

| Module | Models | Extends or uses |
|---|---|---|
| `EventFeed` | what the bus promises: one log, and per subscriber a feed taken from it in order | |
| `Bus` | `internal/bus/bus.go` with its publishers and readers | refines `EventFeed` |
| `BusProofs` | theorems about `Bus` for all constants | `Bus` |
| `Graph` | `internal/graph/graph.go` | |
| `Store` | `internal/correlation/store.go`, the handlers, the engine's loop | extends `Graph` |
| `RedirectFlow` | the original destination of a connection, from hook to proxy | |
| `RedirectRules` | the rule maps, their writers, and `should_redirect` | |
| `DNSWire` | `decodeDNS`, `parseDNS`, `readDNSName` of `internal/collector/collector.go` | |
| `Loader` | `internal/ebpf/loader.go` | |
| `Config` | `MergeConfig`, `WithDefaults` of `internal/redirect/config.go` | |
| `ProxyServer` | `Run`, `acceptLoop` of `internal/proxy/server.go` | |
| `Relay` | `handleConn`, `relay` of `internal/proxy/server.go` | |
| `ProxyCommand` | `runProxy` of `cmd/kscope/proxy.go` from configuration to exit | extends `Loader`, `ProxyServer`, `Relay`; instantiates `Config` |
| `Capture` | the tracepoints of `internal/ebpf/kscope.bpf.c`, the ring buffer | extends `Loader` |
| `Observe` | `runObserve`, `Collector.Run`, `Engine.Run`, the writers | extends `Capture`; instantiates `Bus` |
| `StoreProofs`, `RedirectFlowProofs`, `RedirectRulesProofs`, `DNSWireProofs`, `ProxyCommandProofs` | theorems about the modules they are named after | the module each is named after |
| `GraphProofs` | theorems about the graph under the store's operations | `StoreProofs` |
| `ObserveProofs` | theorems about `Observe`, and that it runs `Bus` | `Observe`; instantiates `BusProofs` |
| `MCBus`, `MCStore`, `MCRedirectFlow`, `MCRedirectRules`, `MCDNSWire`, `MCProxyCommand`, `MCObserve` | values of the constants for TLC | |

### Bus

`in`, `subs`, `ch`, `drops` and `droppedIn` are the fields of `Bus` and
`subscriber`. `pc`, `evt`, `left` and `cur` are the Run goroutine inside `Run` and
`dispatch`: it selects, snapshots the registry under the lock, and serves the
subscribers of the snapshot one by one in arbitrary order, so that Subscribe and
cancel interleave with it. A publisher holds its event in `pub` until Publish
returns (`Enqueue`, `Reject`, `GiveUp`). Every Subscribe call is an element of
`Subs` with a channel of its own; the registry is keyed by `NameOf`, so that a
second call with a name replaces the first and a cancel removes whoever holds the
name. A channel is never closed by the code, nor here. `log`, `sent`, `recv`,
`since`, `until` and `opened` are history.

`Feed` maps the bus to `EventFeed`: a subscriber's position is how much of the log
it has been offered, its feed is what it has read and what lies in its channel.

### Graph and Store

An operation of the store changes the process table and the DNS indexes at once (it
holds the store's lock) and leaves the graph calls it makes in `calls`; `UpdateGraph`
makes them one at a time, because the graph takes its own lock for each and releases it
in between. (`Snapshot` would see the graph there, but nothing in the repository calls
it.) The engine takes the next event after it has sent the signal (`Emit`). Maps are
functions with a changing domain; an absent key and an empty inner map are different
things, as in the code. An event's timestamp may be up to `Skew` behind an earlier one:
the kernel reserves the ring slot before it reads the clock. Write-only data (Cmdline,
source address, Success) is left out; connections are a set.

### RedirectFlow

A client thread goes idle -> hooked -> connecting -> idle: `cgroup_connect`,
`kprobe_tcp_connect`, and the return probe, which either finds no ring slot
(`kretprobe_refused`: it returns without touching `redirect_ctx`) or records the
destination. The kernel chooses a source address and port that no other open connection
to the proxy has. The handler of `handleConn` looks up the port under process 0, deletes
it, else the flow, deletes it, else gives up, then dials; each is a step, and so is
giving up at once because the socket has no cookie (`cookieFails`). A client may also
connect to the proxy's own address (`Proxy`), with or without a rule that matches;
without a rewrite its connection has no goal and is not `Redirected`, but its handler
looks up and deletes under the same keys. What can disturb it is explicit: the ring is
read only if `Collected` (that is, with domain rules), clients may reset at any time
(`Resets`), which frees their port while their handler still works, and may connect
datagram sockets (`Datagrams`), for which the hook fires and the probes do not.

`seen` is history: which of three disturbances has happened. Each property says
which of them it excludes, so the runs check where the mechanism breaks and where
it does not. No property but `TypeOK` says anything once an entry of `redirect_ctx`
has outlived its connect; `NoStray` ends the exploration of the flow run there.

### RedirectRules

`boot` is where the command stands between `ExemptPID` and the end of
`ApplyConfig`; rules appear one by one. The watcher computes the expiry of a reply
once and writes its entries one by one. A connect is a sequence of map operations,
with the clock read before the domain lookups and the deletion of an expired entry
a step after its lookup. `Matching` includes the lookup with the address's bytes
reversed, so `Justified` allows an address rule for either byte order, and
`GivenAddressOnly` is what the documentation has instead. `commKey` and `kernelComm`
give the two keys a long name gets. `replies` is the history of the replies handled, in
their order, each with its domain, addresses and expiry, and `cut` the numbers of
those whose writing a full map broke off: `LatestReplyDecides` compares the table with
all of them, since a later reply may well expire earlier.

### DNSWire

A state machine whose program counter is `at` and whose other variables are the
locals of `parseDNS` and `readDNSName`. The message is any sequence of octets, since
it comes from the network; `msg` is the part of it that has been looked at, so that
an octet is chosen when the parser first reads it and read again unchanged by a
pointer that comes back to it. A label is its place and length, an answer the place
of its data: no property is about their text. Offsets count from 0. TTLs are pairs
of 16-bit words, compared as such, because a 32-bit value is beyond TLC's integers.
`touched` (how far the parser has looked) and `records` are history. An octet of
a label's text counts as looked at when the label is taken, as the code copies it.

### Loader and Config

`attach` attaches hook by hook and gives its list to the manager at the end
(`local`, `links`); what the kernel runs is `attached`. An attachment may fail at
any point, a link in `Sticky` may fail to close, and then the hook stays.
`Config` has for each family the address to listen on and the one to redirect to, and
for the rules that hold from the start and for the domain rules whether there are any
and whether one cannot be parsed. Addresses are told apart as far as it matters
whether a listener takes the connects sent to a target (`Covers`): the default, all
addresses of the host, another of them, another port, or none given.

### ProxyServer, Relay, ProxyCommand

`Run` is `running` (listen, select, close, returned), one `loop` per listener,
`pendingErr` for `errCh`; CheckContext is the `select` with a default in
`acceptLoop`, a step before the error is sent. Run closes the listeners one by
one while the loops run.

`Relay` is one connection: the handler's program counter, the two `io.Copy` goroutines,
the sockets `a` (client) and `b` (destination), and for each direction how many chunks
are sent, in the kernel's queues and received. The two ends send, finish, receive and
reset as they like. `relay` takes the first result of its copiers and does the same
whether it is the end of the stream or an error (`server.go:194`-`196`), so that a
stream its sender has reset ends cleanly for the receiver: the one exception in
`CleanMeansWhole`. What TCP does with a close is external: the end of the stream after
everything written, or a reset if the proxy has left data unread.

`ProxyCommand` puts them together in the order of `runProxy`, with every early return
and the deferred `Close`. `given` is the merged configuration before its defaults,
`config` after. The process's exit closes sockets and removes hooks. A DNS reply may add
a rule at any time after startup (`DomainAnswered`); `RedirectRules` has how,
`RedirectFlow` what a redirected connect leaves behind.

### Capture and Observe

`Capture` has what the tracepoints keep between the entry and the return of
`recvfrom` (`recv_args`, by thread) and the ring buffer, which loses an event when
it is full. Whether a system call is DNS is a free choice. An event records whether
it will make a signal, and whether the arguments used were those of the call. System
calls are made from before the loader attaches to after it has closed, link by link.

`Observe` is the command: `main` walks `Statements` and then the deferred calls
`Stages`, and is the goroutine of the writer in between. The middle is the
module `Bus`, instantiated with the collector as its publisher and the engine as its
subscriber, and every action of it is a step here. `decoded` gives each event number
of the bus what was captured for it. `passed` is what the writer has handed to standard
output. If standard output does not take a line, the JSON writer returns the error, and
the human one, which ignores what `Fprintf` returns, goes on without it (`lost`).

## What the runs check

| Run | Instance | Shows |
|---|---|---|
| `MCBus_backpressure` | 1 publisher, 2 Subscribe calls on 1 name, capacities 1, 4 events | `Lossless`, refinement of `EventFeed`, `EventuallyRead`, `PublishReturns`, `RunStops` |
| `MCBus_drop` | 1 publisher, 3 Subscribe calls on 2 names, capacities 1, 3 events, DropOnFull | `TypeOK`, `InOrder`, `Accounted`, refinement |
| `MCStore_store` | 2 processes, 2 domains, 2 addresses, TTL 1, times 0 to 2, skew 1, replies of up to 2 answers, 3 operations | `TypeOK`, `Attributed`, `IndexesAgree`, `OnlyExpiredForgotten`, `NoDanglingEdge`, `GraphMirrors` |
| `MCRedirectFlow_flow` | 1 thread, 2 source addresses, 1 port, 2 destinations of which one is the proxy, 2 connections at a time, ring of 1, until an entry is left over | `TypeOK`, `CtxOwned`, `ExactTarget`, `NoOrphan` |
| `MCRedirectFlow_unread` | ring of 2 that nobody reads | `AlwaysFound` is violated |
| `MCRedirectFlow_addresses` | 2 threads, 2 source addresses, 1 port | `HandedToGoal` is violated |
| `MCRedirectRules_rules` | 4 processes, 3 addresses, rules of every kind, 2 replies with TTLs of 1 or 2, map of 3 entries | `TypeOK`, `Justified`, `RulesHold`, `LatestReplyDecides` |
| `MCRedirectRules_expiry` | 1 connect, 1 domain rule, 2 replies | `LastsItsTTL` is violated |
| `MCRedirectRules_reversed` | 1 connect, 2 addresses that are each other's reverse, 1 address rule | `GivenAddressOnly` is violated |
| `MCDNSWire_wire` | up to 2 records, payloads of 11 to 256 octets, 3 steps per name | `TypeOK`, `InMessage`, `NameAgrees`, `MinimumTTL`, `Terminates` |
| `MCProxyCommand_lifecycle` | 8 configurations, two families, listeners and targets that fit and that do not; in one of them a connection of 1 chunk up and 2 down | `TypeOK`, `NoBlindRedirect`, `GenuineError`, `CleanMeansWhole`, `RunReturns`, `OutageEnds`, `BothEnd` |
| `MCObserve_pipeline` | 1 thread, ring, bus, subscriber and engine channels of 1, 2 calls, 2 captured events | `TypeOK`, `EndToEnd`, `OwnArgs`, `EventuallyWritten`, `Ends` |

Why the bounds are enough. Bus: capacity 1 makes both kinds of channel full and empty
again and again; with a reader that does not read, a subscriber's channel, the hand of
Run and the input channel hold three events, so that the fourth has its publisher
blocked; two Subscribe calls on one name are a replacement, three on two names a
replacement and a bystander. Store: an eviction needs a reply, a lookup past its expiry
and a later question, which is three operations; events that come one time unit late
make expiries that are longer, equal and shorter than the ones before, with one TTL; two
addresses and two domains make every inner map outlive one of its pairs. RedirectFlow:
`Conns` bounds the connections at one time, not in all, so behaviours are unbounded; one
port makes every connection collide. One thread is enough there: a thread's steps touch
only its own entries until the return probe, which is one step. RedirectRules: one
connect at a time, against the watcher and the startup; two clock values make an entry
expire, and two times to live make a second reply expire earlier than, with or later
than the first. DNSWire: the values of an octet are the kinds of octet the code tells
apart, and the places a pointer may lead to: the question's name, its own record's name,
beyond the end; payload lengths are those around each bound check (11 and 12, the end of
the question, of a label, of the fixed part of a record and of its data, and 300, which
is cut to 256). Three steps per name are a label, a pointer and an end, so that the
limit is met by loops and by names that end on the last step. ProxyCommand: the
addresses are the defaults, a listener on all addresses with a target on one of them,
IPv6 by a listener or by a target alone, and a listener on a port the target does not
have; `Served` are the configurations tried with a client; in the others the listeners
may fail, so that the two parts, which share nothing but the exit, are not multiplied.
An end of the connection may reset or a signal may come, not both. The chunks down are
two because one may be in a copier's hand while another waits. Observe: two events fill
any two neighbours of the chain of one-place queues; the capacities are all one, so that
every stage blocks; a bigger ring only lets more events wait.

Every property of a passing run is also run against a mutation of the model that a
plausible mistake in the code would be (PROJECT.json, "mutants"; the mutated
operators stand before the ones they replace).

### Fairness

`MCBus_backpressure`: `CodeFairness` of `Bus`: the Go scheduler runs a
goroutine that can run (weak fairness of `Run` and `Publish`); a select with several
ready cases chooses at random, so a case that is ready again and again is chosen
(strong fairness of `Exit`, `Abort`, `GiveUp`); goroutines blocked on a channel are
served in turn (strong fairness of `Enqueue`). That readers keep reading
(`ReaderFairness`) is a hypothesis of `EventuallyRead`; `PublishReturns` needs it or the
end of the context, because `Publish` waits for room or for that (`bus.go:65`-`70`) and
blocks for good when neither comes; `RunStops` holds without any reader.

`MCDNSWire_wire`: the parser keeps running. `MCProxyCommand_lifecycle`: each
goroutine of the command (main, the accept loops, the handler, the copiers) keeps
running, and nothing is assumed of clients, destinations, listeners or signals:
`BothEnd` holds for ends that never move again. `MCObserve_pipeline`: weak fairness
of main, of the writer, of the collector, of Run of the bus and of the engine, each
as a whole. That standard output takes a line or reports an error
(`OutputFairness`) is a hypothesis of `EventuallyWritten` and `Ends`. The first says
that a signal is handed to standard output, not that it arrives: the human writer loses
what is not taken. The second is about the end of the context and about a writer that
has returned, which a broken output brings about in JSON mode only. A reader of
the pipe that stops reading stops the command, and then even a signal does not end
it while it is in that write.

### Disagreements found

- `MCRedirectFlow_unread`: the return probe records the destination only if it gets
  a ring slot (`kscope.bpf.c:450`), and without domain rules nothing reads the ring
  (`cmd/kscope/proxy.go:128`), as in the README's first proxy example. When the
  ring is full every redirected connection is dropped by the proxy.
- `MCRedirectFlow_addresses`: the entry under process 0 has no source address
  (`kscope.bpf.c:480`) and is looked up first (`server.go:273`): two clients with
  one port on two addresses exchange destinations.
- `MCRedirectRules_expiry`: an expired domain entry is deleted after the lookup, by
  key (`kscope.bpf.c:352`, `360`): a fresh entry written in between is lost.
- `MCRedirectRules_reversed`: an address rule is also looked up with the bytes of the
  connect's address reversed (`kscope.bpf.c:318`), so a rule for 1.2.3.4 redirects
  connects to 4.3.2.1 too; `--rule-ip` is the "ip or ip:port to redirect"
  (`src/README.md:84`).

One more has no run of its own: `src/README.md:80`-`81` say that IPv6 is not bound if
`--proxy-listen-v6` is not set and that `--proxy-redirect-v6` is used when it is.
`WithDefaults` (`config.go:96`-`103`) gives IPv6 a listener on `[::1]:18080` also when
only the target is given, binds it, and redirects. `Config` has the code's rule
(`Asked`), and `MCProxyCommand_lifecycle` goes through it.

## What is proved

`BusProofs` proves, for any sets of publishers, names and subscriptions, any
capacities and any number of events, from `BusAssumption` alone:

| Theorem | States |
|---|---|
| `Typing` | `Spec => [](TypeOK /\ Holding)` |
| `Enrolment`, `Splitting` | the invariants `Enrolled` and `LogSplit` |
| `Accounting` | `Spec => []Accounted` |
| `Ordering` | `Spec => []InOrder` |
| `NoLoss` | `Spec => []Lossless` |
| `Refinement` | `Spec => FeedSpec` |

None of the last four is inductive. The strengthening is built in layers.
`Holding` says what the Run goroutine holds at each step. `Enrolled` says that a
registered subscription was opened under its own name, that one not yet opened has
nothing, and that whoever the dispatch has still to serve is entitled to the event
at hand: this is where a cancel or a replacement in the middle of a dispatch has to
come out right. `LogSplit` says that the log is what has been dispatched, then the
event in hand, then the input channel: it identifies the event of a `Deliver` as
`log[sent]`. With these, how far the log has been offered to a subscription
(`Offered`) moves only when the subscription is served, skipped or joins (lemma
`FeedSteps`), and the four theorems follow one step at a time. `InOrder` needs one
more strengthening, `Ordered`, which bounds the log positions by what has been
offered so far rather than by what the subscription is entitled to.

`StoreProofs` proves, from `StoreAssumption`:

| Theorem | States |
|---|---|
| `Agreement` | `Spec => []IndexesAgree` |
| `Memory` | `Spec => OnlyExpiredForgotten` |
| `Attribution` | `Spec => []Attributed` |

`IndexesAgree` is inductive by itself; the work is in two lemmas, one for adding a
reply (`AddingAgrees`) and one for deleting the pairs that a lookup found expired
(`DeletingAgrees`), where an inner map that becomes empty has to leave both indexes.
`Memory` needs only that expiries are numbers (`Numbers`).

The reference of `Attributed` looks through the whole history of replies, the code at
its tables. The invariant `Tables /\ Explained` says what the tables have to do with
the history: a process's own table has the domain of the last reply it had for the
address (`OwnTable`); an entry of the global table has the expiry of a reply
(`Sourced`), a reply's pair is in the table with an expiry at least its own or was
evicted by a lookup later than that (`KeptOrEvicted`), and the expiries in the table
have an upper bound (`Bounded`), so that one lasts longest.
`StoreAssumption` has `Skew <= ttl` for every time to live but 0: times to live are
whole seconds, and timestamps are out of order by the time between the reservation of
a ring slot and the reading of the clock. The theorem needs it: with a skew longer
than a time to live a late reply can be evicted by a lookup that came before it in
time, and TLC finds the wrong domain (`Skew` 2, TTL 1).

`GraphProofs` proves, from `StoreAssumption`, for replies of any length and any number
of operations:

| Theorem | States |
|---|---|
| `Connected` | `Spec => []NoDanglingEdge` |
| `Typing` | `Spec => []TypeOK` |
| `Mirror` | `Spec => []GraphMirrors` |

For `Connected` the strengthening, `Grounded`, is about the calls an
operation has still to make: each end of an edge in the list is in the graph or is
made by an earlier call of the list. `GroundedJoin` gives it for a list put together
from two, so that each operation's list follows from its pieces; making one call
keeps it (`StepGrounded`). `Mirror` speaks of the moments between two operations; its
strengthening `Mirrored` says of every moment what the graph will be when the calls
that are left have been made: the edges drawn (`Drawn`), the nodes placed (`Placed`)
and their labels (`Labelled`), the last because two calls for a node may give it two
names. `Does` states once for each operation what its list of calls amounts to.

`RedirectFlowProofs` proves, from `FlowAssumption`, for any number of threads,
handlers, addresses and ports:

| Theorem | States |
|---|---|
| `Typing` | `Spec => []TypeOK` |
| `Ownership` | `Spec => [](Asking /\ CtxOwned)` |
| `Exactness` | `Spec => []ExactTarget` |
| `NobodyTurnedAway` | `Spec => []NoOrphan` |

The four speak of redirected connections; the handlers of direct clients are among the
steps that must not disturb them. `Asking` says that a thread outside connect has
nothing rewritten and one inside has asked for something: without it a matched connect
could leave no entry behind. `ExactTarget` speaks of what a handler has found; its
strengthening `MapsOwned` says the same of what both maps hold under the key of every
open connection, so that a lookup at any moment is right, and a delete by another
handler, too early or too late, can only turn an entry into nothing. The return probe is
the one step that writes: lemma `Recorded` shows that it writes the goal of the
connection it creates (by `Ownership`) and touches no other's (no port is shared).
`NoOrphan` depends on when handlers delete: `FlowKept` says that the entry under the
flow of a connection that has still to be looked up is there, whichever handlers with
its port have deleted the entry under process 0, because their source addresses differ
(`SourcesDiffer`).

`RedirectRulesProofs` proves, from `RulesAssumption`, for any number of connects at
the same time:

| Theorem | States |
|---|---|
| `Typing` | `Spec => []TypeOK` |
| `Enforcement` | `Spec => []RulesHold` |
| `Justification` | `Spec => []Justified` |
| `LastWord` | `Spec => []LatestReplyDecides` |

`Enforcement` and `Justification` rest on `Configured`, how far the command has come and
what the maps hold by then: `clearMaps` cannot take a rule away from a connect under
way because the maps are empty until then, and the proxy is exempt before its first
connect. `Bound` carries a rule in force at the start of a connect to its static
lookup; `Sources` and `Reasoned` carry a domain entry back to the reply it is from,
and a decision to its reason. `Typing` needs the capacity of the domain map, which
connects only ever lower. For `LastWord` the
strengthening is `Ledger`: while a reply is being written, the entries it has written
are decided by it and those it has still to write by the replies before it (`Decided`,
over the first so many replies); a full map that breaks off the writing puts the reply's
number into `cut`, and the entries it had not reached stay as they were. `Listed` types
the history, and lemma `Growing` says that it only grows, so that what an earlier reply
decided stays decided.

`DNSWireProofs` proves, from `WireAssumption`, for messages of any length, any
octets, counts, types, lengths and times to live, and any limit on the steps:

| Theorem | States |
|---|---|
| `Typing` | `Spec => []TypeOK` |
| `Bounds` | `Spec => []InMessage` |
| `Smallest` | `Spec => []MinimumTTL` |
| `Names` | `Spec => []NameAgrees` |
| `Progress` | `Spec => [][WorkLeft' \in 0 .. WorkLeft - 1]_vars` |

The first two are inductive only together (`Inside`), and each bound check of the
parser is needed in exactly one of the lemmas `LabelInside`, `PointerInside`,
`RootInside`, `QuestionInside`, `RecordInside`. `MinimumTTL` speaks of the end;
`Minimum` says at every record that hasTTL tells whether there is an address yet and
that minTTL is then the least so far, which is where a TTL of 0 would go wrong.

The reference of `NameAgrees` follows a name from its first octet on, the parser's
labels grow from the other end, and the octets it has not reached are not in `msg`
yet. So `NameSoFar` speaks of every message that continues `msg`, and says of each
that the labels read and those of the rest of the name make up the whole. The
references `LabelsFrom` and `EndInPlace` are functions defined by recursion on the
number of octets followed; `LabelsRecursion` and `EndRecursion` prove that such
functions exist (`Iterates`, from the least element of a set of numbers), so that a
step of the parser can be met by unfolding one octet.

`Progress` is the part of `Terminates` that needs no fairness: what is left to do for a
message is a natural number (`WorkLeft`) that every step lowers. A name costs
`MaxSteps + 2` steps at most, however its pointers loop, and `Announced` says that no
record is read that the header did not announce: 65536 times `MaxSteps + 2`, and one,
bounds the steps for one message.

`ProxyCommandProofs` proves, from `CommandAssumption`, for any flags and files, any
hooks that may not close, any number of chunks and any window:

| Theorem | States |
|---|---|
| `Typing` | `Spec => []TypeOK` |
| `TrueResult` | `Spec => []GenuineError` |
| `Recorded` | `Spec => []NoBlindRedirect` |
| `Whole` | `Spec => []CleanMeansWhole` |

`Genuine` follows an error from the listener through errCh to the result: as long as Run
still selects no listener of its own is closed, so that "use of closed connection" can
only be reported when nobody looks any more. `Loading` and `Serving` relate where the
command is, what is attached and whether a listener is open; no single place of the code
has that order. `Typing` needs them too, and that no direction of a relay has more
chunks in its queues, in hand and received than were sent (`Fitting`): all of them
together are `Ordered`. For `Whole`: until relay takes the first error no chunk is lost
and a copier that is done has copied everything (`Lossless`); from then on, if the other
end has not finished, the direction that was done first is this one (`FirstEndsSound`,
the step the property depends on), and nothing that is closed later takes away what its
receiver has still to read, except after a reset: by the sender, or by the receiver
before it had seen the end (`Kept`, with `Delivered` and `Undone`).

`ObserveProofs` proves, from `PipeAssumption` and `CaptureAssumption`, for any
capacities of the bus, the subscription and the engine, any hooks, threads and filter
of modules:

| Theorem | States |
|---|---|
| `RunsBus` | `Spec => BusP!Spec`, with `BusP` the instance of `BusProofs` on the command's variables |
| `Feeding` | `Spec => BusP!FeedSpec` |
| `Typing` | `Spec => []TypeOK` |
| `Arguments` | `Spec => []OwnArgs` |
| `Backpressure` | `Spec => []EndToEnd` |

By `RunsBus` the theorems of `BusProofs` hold inside the command; `Feeding` is one of
them, and the others use its types, `Ground` and `Lossless`. `Started` says how far main
has come when a goroutine runs, `Observed` what the tracepoints and the ring hold: what
was captured is what was decoded and then the ring, all of it read with the arguments of
its own call (`Mine`), because until the first link is closed (`Undisturbed`) the
arguments kept for a thread are none or those of the call it is in. After that the entry
program is gone before the return program, and a return may be captured with the
arguments of an earlier call; the reader is closed by then (`Readable`), so that none of
these is decoded, and `OwnArgs` speaks of those that are. `Carried` gives the types of
what each channel and goroutine holds (`InBus`, `AtCollector`, `AtEngine`, `AtWriter`).

`EndToEnd` is put together from two halves. On this side of the engine the events in
the bus count without a gap from the last one received to the last one published
(`BusCounts`, from `Ground` and `Lossless`; `Numbered` says that the log has every
event but the one being published). Beyond it, what has been handed to standard
output, is in the writer's hand, in the engine's channel or in its hand is exactly the events received that give a
signal (`Beyond`). Each step moves an event from one place to the next; that the
sequence of all of them is then the same is where the order of the queues matters.

Only model-checked: the liveness properties (`EventuallyRead`, `PublishReturns`,
`RunStops`, `Terminates`, `RunReturns`, `OutageEnds`, `BothEnd`, `EventuallyWritten`,
`Ends`): TLAPS reaches neither fairness nor ENABLED. Every invariant and every other
action property of the passing runs is a theorem.

## What the models showed without contradicting a document

- `relay` closes both sockets when one direction ends. A client that sends its
  request and then closes its sending side may lose the answer: `CleanMeansWhole`
  holds only for an end that has not itself finished.
- The other end of a reset connection sees a clean end of what may be a truncated
  stream: `relay` ends it with CloseWrite whether the copier met the end or an error
  (`server.go:194`-`196`).
- With domain rules but no reply yet, or before the listeners open, a redirected
  connect is refused; `OutageEnds` says that this passes, if the listener and the target
  asked for fit each other (`Fits`). Nothing compares the two: `--proxy-listen-v4
  127.0.0.1:9000` alone leaves the target at 127.0.0.1:18080 (`config.go:88`-`94`), the
  proxy starts, and what it redirects is refused for as long as it runs.
- After an attachment that fails, `Close` has no link to close: the hooks attached so
  far stay until the process exits, which both commands do next.

## Not modelled

Formatting and logging, flag definitions and defaults, the YAML reader, the generated
object loader, `Stats` and `Snapshot` (they only read, and nothing calls them), eviction
from the 65535-entry LRU maps and the limit of 10240 threads of `recv_args`, the parsers
of rules (they accept or reject). The field-by-field copies of `decodeEvent` and the
address formats of `pkg/utils` have no state.

A temporary error of Accept leaves the loop where it is and is no step. In
`Relay` the data is counted, not named: TCP keeps its order. The exit of the process
cuts relays in progress; nothing in the code waits for them and no property says
otherwise.

## Plan

1. The domain map: that the entries of one reply, written in any order, give the same
   outcome to a connect that starts after the last of them.
2. An abstract relay (two counters of chunks that end together) that `Relay` implements,
   as the bus implements the feed of a subscription; `Lossless` and `Kept` of
   `ProxyCommandProofs` are most of the mapping.
