-------------------------------- MODULE Bus --------------------------------
(***************************************************************************)
(* The event bus of kscope (internal/bus/bus.go): a bounded input channel  *)
(* filled by Publish, one goroutine (Run) that takes an event, snapshots   *)
(* the registered subscribers under the lock and sends the event to each   *)
(* of their bounded channels, and Subscribe / cancel that change the       *)
(* registry at any moment, also in the middle of a dispatch.               *)
(*                                                                         *)
(* With DropOnFull both kinds of full channel lose the event and count the *)
(* loss; without it both block until there is room or the context ends.    *)
(*                                                                         *)
(* log, sent, recv, since, until and opened are history variables: no      *)
(* action reads them to decide what the program does.                      *)
(***************************************************************************)
EXTENDS Naturals, Sequences

CONSTANTS Publishers,  \* goroutines that call Publish
          Names,       \* subscriber names, the keys of the registry
          Subs,        \* the Subscribe calls, each with a channel of its own
          NameOf,      \* the name each Subscribe call passes
          NoSub,       \* no subscription
          BufferSize,  \* capacity of the input channel, after New's default
          SubBuffer,   \* capacity of a subscriber's channel
          DropOnFull,  \* Config.DropOnFull
          MaxEvents    \* bound: events ever created

ASSUME BusAssumption == /\ NameOf \in [Subs -> Names]
                        /\ NoSub \notin Subs
                        /\ BufferSize \in Nat \ {0}
                        /\ SubBuffer \in Nat \ {0}
                        /\ DropOnFull \in BOOLEAN
                        /\ MaxEvents \in Nat

VARIABLES in,         \* Bus.in, the input channel
          subs,       \* Bus.subs, the registry: name -> subscription
          ch,         \* subscriber.ch
          drops,      \* subscriber.drops
          droppedIn,  \* Bus.droppedIn
          pc,         \* where the Run goroutine is
          evt,        \* the event Run holds, 0 when none
          left,       \* subscribers of the snapshot not served yet
          cur,        \* the one of them dispatch is sending to
          pub,        \* the event each publisher is publishing, 0 when none
          nextId,     \* events.idCounter
          done,       \* the context has been cancelled
          log,        \* every event accepted by Publish, in order
          sent,       \* how many events a snapshot has been taken for
          recv,       \* what each subscription's reader has received
          since,      \* value of sent when s subscribed
          until,      \* value of sent when s left the registry
          opened      \* the Subscribe calls made so far

runVars   == <<pc, evt, left, cur>>
regVars   == <<subs, since, until, opened>>
queueVars == <<ch, drops, recv>>
pubVars   == <<pub, nextId, droppedIn>>
vars == <<in, log, sent, done, runVars, regVars, queueVars, pubVars>>

NoEvent == 0
Event   == 1 .. MaxEvents

Registered == {s \in Subs : subs[NameOf[s]] = s}

(* The part of the log that subscription s is entitled to ends here. *)
End(s) == IF s \in Registered THEN sent ELSE until[s]

(* How far the log has been offered to s: all of its part, less the event  *)
(* that the dispatch under way has still to send to s.                     *)
Offered(s) == IF s \in left THEN End(s) - 1 ELSE End(s)

(* Everything ever put into the channel of s. *)
Delivered(s) == recv[s] \o ch[s]

-----------------------------------------------------------------------------
Init == /\ in = <<>> /\ log = <<>> /\ sent = 0 /\ done = FALSE
        /\ subs = [n \in Names |-> NoSub]
        /\ since = [s \in Subs |-> 0]
        /\ until = [s \in Subs |-> 0]
        /\ opened = {}
        /\ ch = [s \in Subs |-> <<>>]
        /\ recv = [s \in Subs |-> <<>>]
        /\ drops = [s \in Subs |-> 0]
        /\ droppedIn = 0
        /\ pub = [p \in Publishers |-> NoEvent]
        /\ nextId = 0
        /\ pc = "select" /\ evt = NoEvent /\ left = {} /\ cur = NoSub

-----------------------------------------------------------------------------
(* Publishers. *)

(* An event gets its number before it is offered to the bus. *)
NewEvent(p) == /\ pub[p] = NoEvent
               /\ nextId < MaxEvents
               /\ nextId' = nextId + 1
               /\ pub' = [pub EXCEPT ![p] = nextId + 1]
               /\ UNCHANGED <<in, log, sent, done, droppedIn>>
               /\ UNCHANGED <<runVars, regVars, queueVars>>

EnqueueUnbounded(p) == /\ pub[p] # NoEvent
                       /\ in' = Append(in, pub[p])
                       /\ log' = Append(log, pub[p])
                       /\ pub' = [pub EXCEPT ![p] = NoEvent]
                       /\ UNCHANGED <<sent, done, nextId, droppedIn>>
                       /\ UNCHANGED <<runVars, regVars, queueVars>>

Enqueue(p) == /\ pub[p] # NoEvent
              /\ Len(in) < BufferSize
              /\ in' = Append(in, pub[p])
              /\ log' = Append(log, pub[p])
              /\ pub' = [pub EXCEPT ![p] = NoEvent]
              /\ UNCHANGED <<sent, done, nextId, droppedIn>>
              /\ UNCHANGED <<runVars, regVars, queueVars>>

(* DropOnFull: the default case of the select, ErrDropped. *)
Reject(p) == /\ pub[p] # NoEvent
             /\ DropOnFull
             /\ Len(in) = BufferSize
             /\ droppedIn' = droppedIn + 1
             /\ pub' = [pub EXCEPT ![p] = NoEvent]
             /\ UNCHANGED <<in, log, sent, done, nextId>>
             /\ UNCHANGED <<runVars, regVars, queueVars>>

GiveUpNever(p) == FALSE /\ UNCHANGED vars

(* Backpressure: the ctx.Done() case of the select. *)
GiveUp(p) == /\ pub[p] # NoEvent
             /\ ~DropOnFull
             /\ done
             /\ pub' = [pub EXCEPT ![p] = NoEvent]
             /\ UNCHANGED <<in, log, sent, done, nextId, droppedIn>>
             /\ UNCHANGED <<runVars, regVars, queueVars>>

-----------------------------------------------------------------------------
(* The registry. *)

(* until records where the subscription that holds name n loses it. *)
Vacate(n) == until' = [s \in Subs |-> IF subs[n] = s THEN sent ELSE until[s]]

(* Subscribe overwrites whatever subscription holds the name. *)
Subscribe(s) == /\ s \notin opened
                /\ opened' = opened \cup {s}
                /\ subs' = [subs EXCEPT ![NameOf[s]] = s]
                /\ since' = [since EXCEPT ![s] = sent]
                /\ Vacate(NameOf[s])
                /\ UNCHANGED <<in, log, sent, done>>
                /\ UNCHANGED <<runVars, queueVars, pubVars>>

(* The cancel function deletes by name: when s has been replaced it is the *)
(* replacement that leaves the registry.                                   *)
Unsubscribe(s) == /\ s \in opened
                  /\ subs[NameOf[s]] # NoSub
                  /\ subs' = [subs EXCEPT ![NameOf[s]] = NoSub]
                  /\ Vacate(NameOf[s])
                  /\ UNCHANGED <<in, log, sent, done, since, opened>>
                  /\ UNCHANGED <<runVars, queueVars, pubVars>>

-----------------------------------------------------------------------------
(* The Run goroutine. *)

Take == /\ pc = "select"
        /\ in # <<>>
        /\ evt' = Head(in)
        /\ in' = Tail(in)
        /\ pc' = "snapshot"
        /\ UNCHANGED <<log, sent, done, left, cur>>
        /\ UNCHANGED <<regVars, queueVars, pubVars>>

Exit == /\ pc = "select"
        /\ done
        /\ pc' = "exit"
        /\ UNCHANGED <<in, log, sent, done, evt, left, cur>>
        /\ UNCHANGED <<regVars, queueVars, pubVars>>

(* Go on with any of the subscribers that remain (the snapshot is in map   *)
(* order, which is arbitrary), or return to the select of Run.             *)
GoOn(rest) == /\ left' = rest
              /\ \/ /\ rest = {}
                    /\ pc' = "select" /\ evt' = NoEvent /\ cur' = NoSub
                 \/ /\ pc' = "dispatch" /\ evt' = evt /\ cur' \in rest

StaleSnapshot == {s \in Subs : s \in opened}
NoOne         == {}

snapshotSubscribers == Registered

Snapshot == /\ pc = "snapshot"
            /\ sent' = sent + 1
            /\ GoOn(snapshotSubscribers)
            /\ UNCHANGED <<in, log, done>>
            /\ UNCHANGED <<regVars, queueVars, pubVars>>

Deliver == /\ pc = "dispatch"
           /\ Len(ch[cur]) < SubBuffer
           /\ ch' = [ch EXCEPT ![cur] = Append(@, evt)]
           /\ GoOn(left \ {cur})
           /\ UNCHANGED <<in, log, sent, done, drops, recv>>
           /\ UNCHANGED <<regVars, pubVars>>

DropWithoutBeingAsked == /\ pc = "dispatch"
                         /\ Len(ch[cur]) = SubBuffer
                         /\ drops' = [drops EXCEPT ![cur] = @ + 1]
                         /\ GoOn(left \ {cur})
                         /\ UNCHANGED <<in, log, sent, done, ch, recv>>
                         /\ UNCHANGED <<regVars, pubVars>>

DropUncounted == /\ pc = "dispatch"
                 /\ DropOnFull
                 /\ Len(ch[cur]) = SubBuffer
                 /\ GoOn(left \ {cur})
                 /\ UNCHANGED <<in, log, sent, done, queueVars>>
                 /\ UNCHANGED <<regVars, pubVars>>

Drop == /\ pc = "dispatch"
        /\ DropOnFull
        /\ Len(ch[cur]) = SubBuffer
        /\ drops' = [drops EXCEPT ![cur] = @ + 1]
        /\ GoOn(left \ {cur})
        /\ UNCHANGED <<in, log, sent, done, ch, recv>>
        /\ UNCHANGED <<regVars, pubVars>>

AbortNever == FALSE /\ UNCHANGED vars

(* dispatch returns to Run's loop, which may still choose another event:   *)
(* select picks at random among the cases that are ready.                  *)
Abort == /\ pc = "dispatch"
         /\ ~DropOnFull
         /\ done
         /\ GoOn({})
         /\ UNCHANGED <<in, log, sent, done>>
         /\ UNCHANGED <<regVars, queueVars, pubVars>>

-----------------------------------------------------------------------------
(* The environment: a reader of each channel, and the context. *)

Receive(s) == /\ ch[s] # <<>>
              /\ recv' = [recv EXCEPT ![s] = Append(@, Head(ch[s]))]
              /\ ch' = [ch EXCEPT ![s] = Tail(@)]
              /\ UNCHANGED <<in, log, sent, done, drops>>
              /\ UNCHANGED <<runVars, regVars, pubVars>>

CancelContext == /\ ~done
                 /\ done' = TRUE
                 /\ UNCHANGED <<in, log, sent>>
                 /\ UNCHANGED <<runVars, regVars, queueVars, pubVars>>

Publish(p) == Enqueue(p) \/ Reject(p) \/ GiveUp(p)
dispatch   == Snapshot \/ Deliver \/ Drop \/ Abort
Run        == Take \/ Exit \/ dispatch

Next == \/ \E p \in Publishers : NewEvent(p) \/ Publish(p)
        \/ \E s \in Subs : Subscribe(s) \/ Unsubscribe(s) \/ Receive(s)
        \/ Run
        \/ CancelContext

Spec == Init /\ [][Next]_vars

-----------------------------------------------------------------------------
(* The goroutine scheduler lets Run step when it can; select chooses at    *)
(* random, so a case that is ready again and again is chosen in the end;   *)
(* senders blocked on a channel are served first come, first served.       *)
CodeFairness == /\ WF_vars(Run) /\ SF_vars(Exit) /\ SF_vars(Abort)
                /\ \A p \in Publishers : /\ WF_vars(Publish(p))
                                         /\ SF_vars(Enqueue(p))
                                         /\ SF_vars(GiveUp(p))

(* The readers (Engine.Run, DNSWatcher.Run) come back to their channel: a  *)
(* hypothesis of the properties that need it, not of the specification.    *)
ReaderFairness == \A s \in Subs : WF_vars(Receive(s))

FairSpec == Spec /\ CodeFairness

-----------------------------------------------------------------------------
TypeOK == /\ in \in Seq(Event) /\ Len(in) <= BufferSize
          /\ log \in Seq(Event)
          /\ sent \in Nat
          /\ done \in BOOLEAN
          /\ subs \in [Names -> Subs \cup {NoSub}]
          /\ ch \in [Subs -> Seq(Event)]
          /\ \A s \in Subs : Len(ch[s]) <= SubBuffer
          /\ recv \in [Subs -> Seq(Event)]
          /\ drops \in [Subs -> Nat]
          /\ droppedIn \in Nat
          /\ since \in [Subs -> Nat]
          /\ until \in [Subs -> Nat]
          /\ opened \in SUBSET Subs
          /\ pub \in [Publishers -> Event \cup {NoEvent}]
          /\ nextId \in 0 .. MaxEvents
          /\ pc \in {"select", "snapshot", "dispatch", "exit"}
          /\ evt \in Event \cup {NoEvent}
          /\ left \in SUBSET Subs
          /\ cur \in Subs \cup {NoSub}

(* Every subscriber is given events in the order Publish accepted them,    *)
(* none twice, and only events dispatched between its Subscribe and the    *)
(* moment it left the registry: after cancel nothing but the event whose   *)
(* snapshot was already taken can still arrive.                            *)
InOrder ==
  \A s \in Subs : \A i \in 1 .. Len(Delivered(s)) :
    \E a \in since[s] + 1 .. End(s) :
      /\ log[a] = Delivered(s)[i]
      /\ \A j \in 1 .. i - 1 : \E b \in since[s] + 1 .. a - 1 : log[b] = Delivered(s)[j]

(* No event is lost silently: of the events dispatched while s was         *)
(* registered, each one is in its channel or was read, was counted in its  *)
(* drops, or is still to be sent by the dispatch under way.  Cancelling    *)
(* the context is the one thing that may break off a dispatch.             *)
Accounted ==
  (DropOnFull \/ ~done) =>
    \A s \in Subs : Len(Delivered(s)) + drops[s] = Offered(s) - since[s]

(* Backpressure (DropOnFull = false): until the context is cancelled a     *)
(* subscriber's feed is the log itself, from its subscription on, without  *)
(* a gap.                                                                  *)
Lossless ==
  (~DropOnFull /\ ~done) =>
    /\ droppedIn = 0
    /\ \A s \in Subs : Delivered(s) = SubSeq(log, since[s] + 1, Offered(s))

(* An event dispatched while s is registered is read by s in the end,      *)
(* unless the context ends first (backpressure, readers that keep          *)
(* reading).                                                               *)
EventuallyRead ==
  ReaderFairness =>
    \A s \in Subs : \A i \in Event :
      (i \in since[s] + 1 .. End(s)) ~> (done \/ Len(recv[s]) >= i - since[s])

(* Publish returns when the readers keep reading, which makes room in the  *)
(* end, or when the context ends, which the select waits for too.  With    *)
(* neither it blocks for good once the channels are full (backpressure).   *)
PublishReturns ==
  (ReaderFairness \/ <>done) =>
    \A p \in Publishers : (pub[p] # NoEvent) ~> (pub[p] = NoEvent)

(* Cancelling the context stops the Run goroutine whatever it is doing,    *)
(* even when no subscriber reads any more.                                 *)
RunStops == done ~> (pc = "exit")

(* The bus implements the feed: a subscription's position in the log is    *)
(* how much of it has been offered to the subscription.                    *)
Feed == INSTANCE EventFeed
          WITH Lossy  <- DropOnFull,
               closed <- done,
               pos    <- [s \in Subs |-> Offered(s)],
               feed   <- [s \in Subs |-> Delivered(s)]

(* Refinement: what Feed allows is all a subscriber of the bus ever sees. *)
FeedSpec == Feed!Spec
=============================================================================
