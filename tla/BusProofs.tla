----------------------------- MODULE BusProofs -----------------------------
(***************************************************************************)
(* What holds of the event bus for any number of publishers, names,        *)
(* subscriptions and events, and any capacity of the channels.             *)
(***************************************************************************)
EXTENDS Bus, SequenceTheorems, TLAPS

(* Where Run is decides what it holds: an event from the moment it has     *)
(* taken one, and, while it dispatches, the subscribers still to be served *)
(* with the current one among them.                                        *)
Holding ==
  /\ pc \in {"snapshot", "dispatch"} => evt \in Event
  /\ pc = "dispatch" => cur \in left
  /\ pc # "dispatch" => left = {}

(* A subscription is registered under its own name and only once it has    *)
(* been opened; before that it has no feed.  One that is still to be       *)
(* served is entitled to the latest event.                                 *)
Enrolled ==
  /\ \A n \in Names : subs[n] # NoSub => subs[n] \in opened /\ NameOf[subs[n]] = n
  /\ left \subseteq opened
  /\ \A s \in Subs \ opened : /\ since[s] = 0 /\ until[s] = 0 /\ drops[s] = 0
                             /\ ch[s] = <<>> /\ recv[s] = <<>>
  /\ \A s \in Subs : since[s] <= End(s) /\ End(s) <= sent
  /\ \A s \in left : End(s) = sent /\ since[s] < sent

(* How many events Run has taken from the channel but not yet dispatched. *)
Held == IF pc = "snapshot" THEN 1 ELSE 0

(* The log is what has been dispatched, then what Run holds, then what is  *)
(* waiting in the input channel.                                           *)
LogSplit ==
  /\ Len(log) = sent + Held + Len(in)
  /\ \A i \in 1 .. Len(in) : in[i] = log[sent + Held + i]
  /\ pc = "snapshot" => evt = log[sent + 1]
  /\ pc = "dispatch" => evt = log[sent] /\ sent > 0

(* Going on to the next subscriber, or back to the select, keeps the types *)
(* of what Run holds.                                                      *)
LEMMA GoOnTyping ==
  ASSUME evt \in Event, NEW rest \in SUBSET Subs, GoOn(rest)
  PROVE  /\ left' \in SUBSET Subs
         /\ cur' \in Subs \cup {NoSub}
         /\ evt' \in Event \cup {NoEvent}
         /\ pc' \in {"select", "dispatch"}
         /\ Holding'
  BY DEF GoOn, Holding

(* The types of every variable, and the capacity of the two kinds of       *)
(* channel: no step of any goroutine overfills one.                        *)
THEOREM Typing == Spec => [](TypeOK /\ Holding)
<1> USE BusAssumption
<1>1. Init => TypeOK /\ Holding
  <2> SUFFICES ASSUME Init PROVE TypeOK /\ Holding
    OBVIOUS
  <2>1. <<>> \in Seq(Event) /\ Len(<<>>) = 0
    OBVIOUS
  <2>2. ch \in [Subs -> Seq(Event)] /\ recv \in [Subs -> Seq(Event)]
    BY <2>1 DEF Init
  <2>3. \A s \in Subs : Len(ch[s]) <= SubBuffer
    BY <2>1 DEF Init
  <2>4. /\ in \in Seq(Event) /\ Len(in) <= BufferSize
        /\ log \in Seq(Event)
    BY <2>1 DEF Init
  <2>5. /\ subs \in [Names -> Subs \cup {NoSub}]
        /\ drops \in [Subs -> Nat]
        /\ since \in [Subs -> Nat]
        /\ until \in [Subs -> Nat]
        /\ pub \in [Publishers -> Event \cup {NoEvent}]
    BY DEF Init
  <2>6. sent \in Nat /\ droppedIn \in Nat /\ nextId \in 0 .. MaxEvents
    BY DEF Init
  <2>7. done \in BOOLEAN
    BY DEF Init
  <2>8. opened = {} /\ left = {} /\ cur = NoSub /\ evt = NoEvent /\ pc = "select"
    BY DEF Init
  <2>9. QED
    BY <2>2, <2>3, <2>4, <2>5, <2>6, <2>7, <2>8 DEF TypeOK, Holding
<1>2. TypeOK /\ Holding /\ [Next]_vars => (TypeOK /\ Holding)'
  <2> SUFFICES ASSUME TypeOK, Holding, [Next]_vars PROVE (TypeOK /\ Holding)'
    OBVIOUS
  <2> USE DEF TypeOK, Holding, NoEvent
  <2>1. ASSUME NEW p \in Publishers, NewEvent(p) PROVE (TypeOK /\ Holding)'
    <3>1. nextId' \in 0 .. MaxEvents /\ nextId + 1 \in Event
      BY <2>1 DEF NewEvent, Event
    <3>2. pub' \in [Publishers -> Event \cup {NoEvent}]
      BY <2>1, <3>1 DEF NewEvent
    <3>3. UNCHANGED <<in, log, sent, done, droppedIn, runVars, regVars, queueVars>>
      BY <2>1 DEF NewEvent
    <3>4. QED
      BY <3>1, <3>2, <3>3 DEF runVars, regVars, queueVars
  <2>2. ASSUME NEW p \in Publishers, Enqueue(p) PROVE (TypeOK /\ Holding)'
    <3>1. /\ in' \in Seq(Event) /\ Len(in') = Len(in) + 1
          /\ log' \in Seq(Event)
      BY <2>2 DEF Enqueue, Event
    <3>2. Len(in') <= BufferSize
      BY <2>2, <3>1 DEF Enqueue
    <3>3. pub' \in [Publishers -> Event \cup {NoEvent}]
      BY <2>2 DEF Enqueue
    <3>4. UNCHANGED <<sent, done, nextId, droppedIn, runVars, regVars, queueVars>>
      BY <2>2 DEF Enqueue
    <3>5. QED
      BY <3>1, <3>2, <3>3, <3>4 DEF runVars, regVars, queueVars
  <2>3. ASSUME NEW p \in Publishers, Reject(p) PROVE (TypeOK /\ Holding)'
    BY <2>3 DEF Reject, runVars, regVars, queueVars
  <2>4. ASSUME NEW p \in Publishers, GiveUp(p) PROVE (TypeOK /\ Holding)'
    BY <2>4 DEF GiveUp, runVars, regVars, queueVars
  <2>5. ASSUME NEW s \in Subs, Subscribe(s) PROVE (TypeOK /\ Holding)'
    BY <2>5 DEF Subscribe, Vacate, runVars, queueVars, pubVars
  <2>6. ASSUME NEW s \in Subs, Unsubscribe(s) PROVE (TypeOK /\ Holding)'
    BY <2>6 DEF Unsubscribe, Vacate, runVars, queueVars, pubVars
  <2>7. ASSUME NEW s \in Subs, Receive(s) PROVE (TypeOK /\ Holding)'
    <3>1. /\ Head(ch[s]) \in Event /\ Tail(ch[s]) \in Seq(Event)
          /\ Len(Tail(ch[s])) = Len(ch[s]) - 1
      <4>1. ch[s] \in Seq(Event) /\ ch[s] # <<>>
        BY <2>7 DEF Receive
      <4> HIDE DEF TypeOK, Holding
      <4>2. QED
        BY <4>1, HeadTailProperties
    <3>2. ch' \in [Subs -> Seq(Event)] /\ recv' \in [Subs -> Seq(Event)]
      <4>1. ch' = [ch EXCEPT ![s] = Tail(@)] /\ recv' = [recv EXCEPT ![s] = Append(@, Head(ch[s]))]
        BY <2>7 DEF Receive
      <4>2. recv[s] \in Seq(Event) /\ Append(recv[s], Head(ch[s])) \in Seq(Event)
        BY <3>1
      <4>3. ch' \in [Subs -> Seq(Event)]
        BY <3>1, <4>1
      <4>4. recv' \in [Subs -> Seq(Event)]
        BY <4>1, <4>2
      <4>5. QED
        BY <4>3, <4>4
    <3>3. \A t \in Subs : Len(ch'[t]) <= SubBuffer
      <4> TAKE t \in Subs
      <4>1. CASE t = s BY <4>1, <2>7, <3>1 DEF Receive
      <4>2. CASE t # s BY <4>2, <2>7 DEF Receive
      <4>3. QED BY <4>1, <4>2
    <3>4. QED
      BY <2>7, <3>2, <3>3 DEF Receive, runVars, regVars, pubVars
  <2>8. CASE Take
    <3>1. /\ Head(in) \in Event /\ Tail(in) \in Seq(Event)
          /\ Len(Tail(in)) = Len(in) - 1
      BY <2>8, HeadTailProperties DEF Take
    <3>2. QED
      BY <2>8, <3>1 DEF Take, regVars, queueVars, pubVars
  <2>9. CASE Exit
    BY <2>9 DEF Exit, regVars, queueVars, pubVars
  <2>10. CASE Snapshot
    <3>1. snapshotSubscribers \in SUBSET Subs
      BY DEF snapshotSubscribers, Registered
    <3>2. QED
      BY <2>10, <3>1, GoOnTyping DEF Snapshot, regVars, queueVars, pubVars
  <2>11. CASE Deliver
    <3>1. cur \in Subs /\ evt \in Event
      BY <2>11 DEF Deliver
    <3>2. ch' \in [Subs -> Seq(Event)]
      BY <2>11, <3>1 DEF Deliver
    <3>3. \A t \in Subs : Len(ch'[t]) <= SubBuffer
      <4> TAKE t \in Subs
      <4>1. CASE t = cur BY <4>1, <2>11, <3>1 DEF Deliver
      <4>2. CASE t # cur BY <4>2, <2>11 DEF Deliver
      <4>3. QED BY <4>1, <4>2
    <3>4. QED
      BY <2>11, <3>1, <3>2, <3>3, GoOnTyping DEF Deliver, regVars, pubVars
  <2>12. CASE Drop
    <3>1. cur \in Subs /\ left \ {cur} \in SUBSET Subs /\ evt \in Event
      BY <2>12 DEF Drop
    <3>2. drops' \in [Subs -> Nat]
      BY <2>12, <3>1 DEF Drop
    <3>3. QED
      BY <2>12, <3>1, <3>2, GoOnTyping DEF Drop, regVars, pubVars
  <2>13. CASE Abort
    BY <2>13, GoOnTyping DEF Abort, regVars, queueVars, pubVars
  <2>14. CASE CancelContext
    BY <2>14 DEF CancelContext, runVars, regVars, queueVars, pubVars
  <2>15. CASE UNCHANGED vars
    BY <2>15 DEF vars, runVars, regVars, queueVars, pubVars
  <2>16. QED
    BY <2>1, <2>2, <2>3, <2>4, <2>5, <2>6, <2>7, <2>8, <2>9, <2>10, <2>11,
       <2>12, <2>13, <2>14, <2>15 DEF Next, Publish, Run, dispatch
<1>3. QED
  BY <1>1, <1>2, PTL DEF Spec

-----------------------------------------------------------------------------
(* Where a subscription's part of the log ends, after each kind of step.   *)

(* The part of t in the log ends where it did if none of these changes.    *)
LEMMA EndUnchanged ==
  ASSUME UNCHANGED <<subs, until, sent>>, NEW t \in Subs
  PROVE  End(t)' = End(t)
  BY DEF End, Registered

(* Subscribing starts the part of s; whoever held the name keeps its part. *)
LEMMA EndSubscribe ==
  ASSUME TypeOK, Enrolled, NEW s \in Subs, Subscribe(s)
  PROVE  /\ End(s)' = sent
         /\ \A t \in Subs \ {s} : End(t)' = End(t)
<1>1. /\ subs' = [subs EXCEPT ![NameOf[s]] = s]
      /\ until' = [t \in Subs |-> IF subs[NameOf[s]] = t THEN sent ELSE until[t]]
      /\ sent' = sent
  BY DEF Subscribe, Vacate
<1>2. NameOf \in [Subs -> Names] /\ subs \in [Names -> Subs \cup {NoSub}]
  BY BusAssumption DEF TypeOK
<1>3. subs'[NameOf[s]] = s
  BY <1>1, <1>2
<1>4. End(s)' = sent
  BY <1>1, <1>3 DEF End, Registered
<1>5. ASSUME NEW t \in Subs \ {s} PROVE End(t)' = End(t)
  <2>1. CASE subs[NameOf[s]] = t
    <3>1. NameOf[t] = NameOf[s]
      BY <2>1, <1>2, BusAssumption DEF Enrolled
    <3>2. t \in Registered /\ ~(subs'[NameOf[t]] = t)
      BY <2>1, <3>1, <1>3 DEF Registered
    <3>3. QED
      BY <2>1, <3>2, <1>1 DEF End, Registered
  <2>2. CASE subs[NameOf[s]] # t
    <3>1. until'[t] = until[t]
      BY <2>2, <1>1
    <3>2. (subs'[NameOf[t]] = t) <=> (subs[NameOf[t]] = t)
      BY <2>2, <1>1, <1>2
    <3>3. QED
      BY <3>1, <3>2, <1>1 DEF End, Registered
  <2>3. QED
    BY <2>1, <2>2
<1>6. QED
  BY <1>4, <1>5

(* Leaving the registry does not move the end of anyone's part. *)
LEMMA EndUnsubscribe ==
  ASSUME TypeOK, Enrolled, NEW s \in Subs, Unsubscribe(s), NEW t \in Subs
  PROVE  End(t)' = End(t)
<1>1. /\ subs' = [subs EXCEPT ![NameOf[s]] = NoSub] /\ sent' = sent
      /\ until' = [r \in Subs |-> IF subs[NameOf[s]] = r THEN sent ELSE until[r]]
  BY DEF Unsubscribe, Vacate
<1>2. /\ NameOf \in [Subs -> Names] /\ subs \in [Names -> Subs \cup {NoSub}]
      /\ NoSub \notin Subs
  BY BusAssumption DEF TypeOK
<1>3. CASE subs[NameOf[s]] = t
  <2>1. NameOf[t] = NameOf[s]
    BY <1>2, <1>3 DEF Enrolled
  <2>2. subs[NameOf[t]] = t /\ subs'[NameOf[t]] # t /\ until'[t] = sent
    BY <1>1, <1>2, <1>3, <2>1
  <2>3. QED
    BY <1>1, <2>2 DEF End, Registered
<1>4. CASE subs[NameOf[s]] # t
  <2>1. until'[t] = until[t]
    BY <1>1, <1>4
  <2>2. (subs'[NameOf[t]] = t) <=> (subs[NameOf[t]] = t)
    BY <1>1, <1>2, <1>4
  <2>3. QED
    BY <1>1, <2>1, <2>2 DEF End, Registered
<1>5. QED
  BY <1>3, <1>4

(* A snapshot extends the part of exactly those it returns. *)
LEMMA EndSnapshot ==
  ASSUME TypeOK, Snapshot, NEW t \in Subs
  PROVE  /\ t \in Registered => End(t)' = sent + 1 /\ End(t) = sent
         /\ t \notin Registered => End(t)' = End(t)
         /\ left' = Registered
  BY DEF TypeOK, Snapshot, snapshotSubscribers, GoOn, End, Registered, regVars

(* The end of a part is a number.                                          *)
LEMMA EndNat ==
  ASSUME TypeOK, NEW t \in Subs
  PROVE  End(t) \in Nat
  BY DEF TypeOK, End, Registered

(* The registry, the dispatch under way and the history agree. *)
THEOREM Enrolment == Spec => []Enrolled
<1> USE BusAssumption
<1>1. Init => Enrolled
  BY DEF Init, Enrolled, End, Registered
<1>2. TypeOK /\ Holding /\ Enrolled /\ [Next]_vars => Enrolled'
  <2> SUFFICES ASSUME TypeOK, Holding, Enrolled, [Next]_vars PROVE Enrolled'
    OBVIOUS
  <2>1. ASSUME UNCHANGED <<subs, until, sent, since, opened, drops>>,
               \A s \in Subs \ opened : ch'[s] = ch[s] /\ recv'[s] = recv[s],
               left' \subseteq left
        PROVE  Enrolled'
    <3>1. /\ UNCHANGED <<subs, until, sent, since, opened, drops>>
          /\ left' \subseteq left
      BY <2>1
    <3>2. \A s \in Subs : End(s)' = End(s)
      BY <3>1, EndUnchanged
    <3>3. left \subseteq Subs
      BY DEF TypeOK
    <3>4. /\ \A s \in Subs : since'[s] <= End(s)' /\ End(s)' <= sent'
          /\ \A s \in left' : End(s)' = sent' /\ since'[s] < sent'
      BY <3>1, <3>2, <3>3 DEF Enrolled
    <3>5. \A s \in Subs \ opened' : /\ since'[s] = 0 /\ until'[s] = 0 /\ drops'[s] = 0
                                   /\ ch'[s] = <<>> /\ recv'[s] = <<>>
      BY <2>1, <3>1 DEF Enrolled
    <3>6. /\ \A n \in Names : subs'[n] # NoSub => subs'[n] \in opened' /\ NameOf[subs'[n]] = n
          /\ left' \subseteq opened'
      BY <3>1 DEF Enrolled
    <3>7. QED
      BY <3>4, <3>5, <3>6 DEF Enrolled
  <2>2. ASSUME NEW p \in Publishers, NewEvent(p) \/ Publish(p) PROVE Enrolled'
    BY <2>1, <2>2 DEF NewEvent, Publish, Enqueue, Reject, GiveUp,
                      runVars, regVars, queueVars
  <2>3. ASSUME NEW s \in Subs, Subscribe(s) PROVE Enrolled'
    <3>1. /\ opened' = opened \cup {s} /\ left' = left /\ sent' = sent
          /\ ch' = ch /\ recv' = recv /\ drops' = drops
          /\ since' = [since EXCEPT ![s] = sent]
          /\ subs' = [subs EXCEPT ![NameOf[s]] = s]
          /\ s \notin opened
      BY <2>3 DEF Subscribe, runVars, queueVars, pubVars
    <3>2. \A n \in Names : subs'[n] # NoSub => subs'[n] \in opened' /\ NameOf[subs'[n]] = n
      BY <3>1 DEF Enrolled, TypeOK
    <3>3. \A t \in Subs \ opened' :
            /\ since'[t] = 0 /\ until'[t] = 0 /\ drops'[t] = 0
            /\ ch'[t] = <<>> /\ recv'[t] = <<>>
      BY <2>3, <3>1 DEF Enrolled, TypeOK, Subscribe, Vacate
    <3>4. \A t \in Subs : since'[t] <= End(t)' /\ End(t)' <= sent'
      <4> TAKE t \in Subs
      <4>1. CASE t = s
        BY <2>3, <3>1, <4>1, EndSubscribe DEF TypeOK
      <4>2. CASE t # s
        <5>1. End(t)' = End(t) /\ since'[t] = since[t]
          BY <2>3, <3>1, <4>2, EndSubscribe DEF TypeOK
        <5>2. since[t] <= End(t) /\ End(t) <= sent
          BY DEF Enrolled
        <5>3. QED
          BY <3>1, <5>1, <5>2
      <4>3. QED
        BY <4>1, <4>2
    <3>5. \A t \in left' : End(t)' = sent' /\ since'[t] < sent'
      BY <2>3, <3>1, EndSubscribe DEF Enrolled, TypeOK
    <3>6. left' \subseteq opened'
      BY <3>1 DEF Enrolled
    <3>7. QED
      BY <3>2, <3>3, <3>4, <3>5, <3>6 DEF Enrolled
  <2>4. ASSUME NEW s \in Subs, Unsubscribe(s) PROVE Enrolled'
    <3>1. /\ UNCHANGED <<left, sent, since, opened, ch, recv, drops>>
          /\ s \in opened
          /\ subs' = [subs EXCEPT ![NameOf[s]] = NoSub]
      BY <2>4 DEF Unsubscribe, runVars, queueVars, pubVars
    <3>2. \A t \in Subs \ opened : until'[t] = 0
      BY <2>4 DEF Enrolled, TypeOK, Unsubscribe, Vacate
    <3>3. \A t \in Subs : End(t)' = End(t)
      BY <2>4, EndUnsubscribe
    <3>4. \A n \in Names : subs'[n] # NoSub => subs'[n] \in opened' /\ NameOf[subs'[n]] = n
      BY <3>1 DEF Enrolled, TypeOK
    <3>5. left \subseteq Subs
      BY DEF TypeOK
    <3>6. /\ \A t \in Subs : since'[t] <= End(t)' /\ End(t)' <= sent'
          /\ \A t \in left' : End(t)' = sent' /\ since'[t] < sent'
      BY <3>1, <3>3, <3>5 DEF Enrolled
    <3>7. QED
      BY <3>1, <3>2, <3>4, <3>6 DEF Enrolled
  <2>5. ASSUME NEW s \in Subs, Receive(s) PROVE Enrolled'
    <3>1. s \in opened
      BY <2>5 DEF Receive, Enrolled
    <3>2. QED
      BY <2>1, <2>5, <3>1 DEF Receive, TypeOK, runVars, regVars, pubVars
  <2>6. CASE Take \/ Exit \/ CancelContext
    BY <2>1, <2>6 DEF Take, Exit, CancelContext, runVars, regVars, queueVars, pubVars
  <2>7. CASE Snapshot
    <3>1. /\ UNCHANGED <<subs, since, until, opened, ch, recv, drops>>
          /\ sent' = sent + 1 /\ left' = Registered
      BY <2>7 DEF Snapshot, snapshotSubscribers, GoOn, regVars, queueVars, pubVars
    <3>2. \A t \in Subs : since'[t] <= End(t)' /\ End(t)' <= sent'
      <4> TAKE t \in Subs
      <4>1. /\ since[t] <= End(t) /\ End(t) <= sent
            /\ since[t] \in Nat /\ End(t) \in Nat /\ sent \in Nat
        BY EndNat DEF Enrolled, TypeOK
      <4>2. End(t)' = End(t) \/ (End(t)' = sent + 1 /\ End(t) = sent)
        BY <2>7, EndSnapshot
      <4>3. QED
        BY <3>1, <4>1, <4>2
    <3>3. \A t \in left' : End(t)' = sent' /\ since'[t] < sent'
      BY <2>7, <3>1, EndSnapshot DEF Enrolled, TypeOK, Registered
    <3>4. left' \subseteq opened'
      BY <3>1 DEF Enrolled, Registered, TypeOK
    <3>5. QED
      BY <3>1, <3>2, <3>3, <3>4 DEF Enrolled
  <2>8. CASE Deliver
    <3>1. /\ cur \in opened /\ left' \subseteq left
          /\ UNCHANGED <<subs, until, sent, since, opened, drops, recv>>
      BY <2>8 DEF Deliver, Holding, Enrolled, GoOn, regVars, pubVars
    <3>2. \A s \in Subs \ opened : ch'[s] = ch[s]
      BY <2>8, <3>1 DEF Deliver, TypeOK
    <3>3. QED
      BY <2>1, <3>1, <3>2
  <2>9. CASE Drop
    <3>1. /\ cur \in opened /\ left' \subseteq left
          /\ UNCHANGED <<subs, until, sent, since, opened, ch, recv>>
      BY <2>9 DEF Drop, Holding, Enrolled, GoOn, regVars, pubVars
    <3>2. \A s \in Subs \ opened : drops'[s] = drops[s]
      BY <2>9, <3>1 DEF Drop, TypeOK
    <3>3. \A t \in Subs : End(t)' = End(t)
      BY <3>1, EndUnchanged
    <3>4. QED
      BY <3>1, <3>2, <3>3 DEF Enrolled, TypeOK
  <2>10. CASE Abort
    BY <2>1, <2>10 DEF Abort, GoOn, regVars, queueVars, pubVars
  <2>11. CASE UNCHANGED vars
    BY <2>1, <2>11 DEF vars, runVars, regVars, queueVars, pubVars
  <2>12. QED
    BY <2>2, <2>3, <2>4, <2>5, <2>6, <2>7, <2>8, <2>9, <2>10, <2>11
       DEF Next, Run, dispatch
<1>3. QED
  BY <1>1, <1>2, Typing, PTL DEF Spec

-----------------------------------------------------------------------------
(* Every event of the log is in exactly one place: dispatched, held by Run *)
(* or waiting in the input channel, in the order in which it was accepted. *)
THEOREM Splitting == Spec => []LogSplit
<1>1. Init => LogSplit
  BY DEF Init, LogSplit, Held
<1>2. TypeOK /\ Holding /\ LogSplit /\ [Next]_vars => LogSplit'
  <2> SUFFICES ASSUME TypeOK, Holding, LogSplit, [Next]_vars PROVE LogSplit'
    OBVIOUS
  <2>1. ASSUME UNCHANGED <<in, log, sent>>,
               \/ pc' = pc /\ evt' = evt
               \/ pc # "snapshot" /\ pc' \in {"select", "exit"}
               \/ pc = "dispatch" /\ pc' = "dispatch" /\ evt' = evt
        PROVE  LogSplit'
    BY <2>1 DEF LogSplit, Held
  <2>2. ASSUME NEW p \in Publishers, Enqueue(p) PROVE LogSplit'
    <3>1. /\ in' = Append(in, pub[p]) /\ log' = Append(log, pub[p])
          /\ UNCHANGED <<sent, pc, evt>>
      BY <2>2 DEF Enqueue, runVars
    <3>2. /\ Len(in') = Len(in) + 1 /\ Len(log') = Len(log) + 1
          /\ \A i \in 1 .. Len(in) : in'[i] = in[i]
          /\ in'[Len(in) + 1] = pub[p]
          /\ \A i \in 1 .. Len(log) : log'[i] = log[i]
          /\ log'[Len(log) + 1] = pub[p]
      BY <3>1, AppendProperties DEF TypeOK
    <3>3. /\ Held' = Held /\ Held \in Nat /\ sent \in Nat
          /\ Len(in) \in Nat /\ Len(log) \in Nat
          /\ Len(log) = sent + Held + Len(in)
      BY <3>1 DEF LogSplit, Held, TypeOK
    <3>4. ASSUME NEW i \in 1 .. Len(in') PROVE in'[i] = log'[sent' + Held' + i]
      <4>1. CASE i = Len(in) + 1
        BY <4>1, <3>1, <3>2, <3>3
      <4>2. CASE i # Len(in) + 1
        <5>1. i \in 1 .. Len(in) /\ sent + Held + i \in 1 .. Len(log)
          BY <4>2, <3>2, <3>3
        <5>2. in[i] = log[sent + Held + i]
          BY <5>1 DEF LogSplit
        <5>3. QED
          BY <5>1, <5>2, <3>1, <3>2, <3>3
      <4>3. QED
        BY <4>1, <4>2
    <3>5. /\ pc' = "snapshot" => evt' = log'[sent' + 1]
          /\ pc' = "dispatch" => evt' = log'[sent'] /\ sent' > 0
      <4>1. CASE pc = "snapshot"
        <5>1. sent + 1 \in 1 .. Len(log)
          BY <4>1, <3>3 DEF Held
        <5>2. QED
          BY <4>1, <5>1, <3>1, <3>2 DEF LogSplit
      <4>2. CASE pc = "dispatch"
        <5>1. sent \in 1 .. Len(log)
          BY <4>2, <3>3 DEF LogSplit
        <5>2. QED
          BY <4>2, <5>1, <3>1, <3>2 DEF LogSplit
      <4>3. CASE pc \notin {"snapshot", "dispatch"}
        BY <4>3, <3>1
      <4>4. QED
        BY <4>1, <4>2, <4>3
    <3>6. Len(log') = sent' + Held' + Len(in')
      BY <3>1, <3>2, <3>3
    <3>7. QED
      BY <3>4, <3>5, <3>6 DEF LogSplit
  <2>3. CASE Take
    <3>1. /\ in # <<>> /\ in' = Tail(in) /\ evt' = Head(in)
          /\ pc = "select" /\ pc' = "snapshot" /\ UNCHANGED <<log, sent>>
      BY <2>3 DEF Take
    <3>2. /\ Len(in') = Len(in) - 1 /\ Len(in) > 0
          /\ evt' = in[1]
          /\ \A i \in 1 .. Len(in') : in'[i] = in[i + 1]
      BY <3>1, HeadTailProperties, EmptySeq DEF TypeOK
    <3>3. /\ Held = 0 /\ Held' = 1 /\ sent \in Nat /\ Len(in) \in Nat
          /\ Len(log) = sent + Len(in)
          /\ \A i \in 1 .. Len(in) : in[i] = log[sent + i]
      BY <3>1 DEF LogSplit, Held, TypeOK
    <3>4. ASSUME NEW i \in 1 .. Len(in') PROVE in'[i] = log'[sent' + Held' + i]
      <4>1. i + 1 \in 1 .. Len(in)
        BY <3>2, <3>3
      <4>2. in[i + 1] = log[sent + (i + 1)] /\ sent + (i + 1) = sent + 1 + i
        BY <4>1, <3>3
      <4>3. QED
        BY <4>2, <3>1, <3>2, <3>3
    <3>5. evt' = log'[sent' + 1]
      BY <3>1, <3>2, <3>3
    <3>6. QED
      BY <3>1, <3>2, <3>3, <3>4, <3>5 DEF LogSplit
  <2>4. CASE Snapshot
    <3>1. /\ pc = "snapshot" /\ UNCHANGED <<in, log>> /\ sent' = sent + 1
          /\ \/ pc' = "select"
             \/ pc' = "dispatch" /\ evt' = evt
      BY <2>4 DEF Snapshot, GoOn
    <3>2. /\ Held = 1 /\ Held' = 0 /\ sent \in Nat /\ Len(in) \in Nat
          /\ Len(log) = sent + 1 + Len(in) /\ evt = log[sent + 1]
          /\ \A i \in 1 .. Len(in) : in[i] = log[sent + 1 + i]
      BY <3>1 DEF LogSplit, Held, TypeOK
    <3>3. /\ sent' + Held' = sent + 1 /\ sent' > 0
          /\ \A i \in 1 .. Len(in) : sent' + Held' + i = sent + 1 + i
      BY <3>1, <3>2
    <3>4. QED
      BY <3>1, <3>2, <3>3 DEF LogSplit
  <2>5. ASSUME NEW p \in Publishers, NewEvent(p) \/ Reject(p) \/ GiveUp(p)
        PROVE  LogSplit'
    BY <2>1, <2>5 DEF NewEvent, Reject, GiveUp, runVars
  <2>6. ASSUME NEW s \in Subs, Subscribe(s) \/ Unsubscribe(s) \/ Receive(s)
        PROVE  LogSplit'
    BY <2>1, <2>6 DEF Subscribe, Unsubscribe, Receive, runVars
  <2>7. CASE Deliver \/ Drop \/ Abort
    BY <2>1, <2>7 DEF Deliver, Drop, Abort, GoOn
  <2>8. CASE Exit \/ CancelContext
    BY <2>1, <2>8 DEF Exit, CancelContext, runVars
  <2>9. CASE UNCHANGED vars
    BY <2>1, <2>9 DEF vars, runVars
  <2>10. QED
    BY <2>2, <2>3, <2>4, <2>5, <2>6, <2>7, <2>8, <2>9
       DEF Next, Publish, Run, dispatch
<1>3. QED
  BY <1>1, <1>2, Typing, PTL DEF Spec

-----------------------------------------------------------------------------
(* What a step does to the feed of a subscription.                         *)

(* What a subscription was given is what it has read and what waits in its channel. *)
LEMMA DeliveredSeq ==
  ASSUME TypeOK, NEW s \in Subs
  PROVE  /\ Delivered(s) \in Seq(Event)
         /\ Len(Delivered(s)) = Len(recv[s]) + Len(ch[s])
  BY ConcatProperties DEF TypeOK, Delivered

(* Moving the head of one sequence to the end of the one before it changes *)
(* nothing of the two together.                                            *)
LEMMA MoveHead ==
  ASSUME NEW S, NEW r \in Seq(S), NEW c \in Seq(S), c # <<>>
  PROVE  Append(r, Head(c)) \o Tail(c) = r \o c
<1>1. PICK h \in Seq(S) : h = <<Head(c)>>
  <2>1. <<Head(c)>> \in Seq(S)
    BY HeadTailProperties
  <2>2. QED
    BY <2>1, Zenon
<1>2. /\ Tail(c) \in Seq(S) /\ c = h \o Tail(c)
  BY <1>1, HeadTailProperties
<1>3. Append(r, Head(c)) = r \o h
  BY <1>1, HeadTailProperties, AppendIsConcat
<1>4. (r \o h) \o Tail(c) = r \o (h \o Tail(c))
  BY <1>2, ConcatAssociative, SMTT(60)
<1>5. QED
  BY <1>2, <1>3, <1>4

(* Appending to the second of two sequences appends to the two together. *)
LEMMA AppendAfter ==
  ASSUME NEW S, NEW r \in Seq(S), NEW c \in Seq(S), NEW e \in S
  PROVE  r \o Append(c, e) = Append(r \o c, e)
<1>1. PICK h \in Seq(S) : h = <<e>>
  <2>1. <<e>> \in Seq(S)
    OBVIOUS
  <2>2. QED
    BY <2>1, Zenon
<1>2. PICK rc \in Seq(S) : rc = r \o c
  BY ConcatProperties
<1>3. (r \o c) \o h = r \o (c \o h)
  BY ConcatAssociative, SMTT(60)
<1>4. Append(c, e) = c \o h /\ Append(rc, e) = rc \o h
  BY <1>1, AppendIsConcat
<1>5. QED
  BY <1>2, <1>3, <1>4

(* Reading moves an event from the channel to what has been received: the  *)
(* feed is the same.                                                       *)
LEMMA ReceiveKeeps ==
  ASSUME TypeOK, NEW s \in Subs, Receive(s), NEW t \in Subs
  PROVE  Delivered(t)' = Delivered(t)
<1>1. /\ ch[s] # <<>>
      /\ recv' = [recv EXCEPT ![s] = Append(@, Head(ch[s]))]
      /\ ch' = [ch EXCEPT ![s] = Tail(@)]
  BY DEF Receive
<1>2. recv \in [Subs -> Seq(Event)] /\ ch \in [Subs -> Seq(Event)]
  BY DEF TypeOK
<1>3. CASE t # s
  BY <1>1, <1>2, <1>3 DEF Delivered
<1>4. CASE t = s
  <2>1. recv[s] \in Seq(Event) /\ ch[s] \in Seq(Event)
    BY <1>2
  <2>2. recv'[s] = Append(recv[s], Head(ch[s])) /\ ch'[s] = Tail(ch[s])
    BY <1>1, <1>2
  <2>3. Append(recv[s], Head(ch[s])) \o Tail(ch[s]) = recv[s] \o ch[s]
    BY <1>1, <2>1, MoveHead
  <2>4. QED
    BY <2>2, <2>3, <1>4 DEF Delivered
<1>5. QED
  BY <1>3, <1>4

(* A send appends the event to the feed of the current subscriber alone. *)
LEMMA DeliverAppends ==
  ASSUME TypeOK, Holding, Deliver, NEW t \in Subs
  PROVE  Delivered(t)' = IF t = cur THEN Append(Delivered(t), evt) ELSE Delivered(t)
<1>1. /\ cur \in Subs /\ evt \in Event
      /\ recv' = recv
      /\ ch' = [ch EXCEPT ![cur] = Append(@, evt)]
  BY DEF Deliver, Holding, TypeOK
<1>2. recv \in [Subs -> Seq(Event)] /\ ch \in [Subs -> Seq(Event)]
  BY DEF TypeOK
<1>3. CASE t # cur
  BY <1>1, <1>2, <1>3 DEF Delivered
<1>4. CASE t = cur
  <2>1. recv[t] \in Seq(Event) /\ ch[t] \in Seq(Event) /\ evt \in Event
    BY <1>1, <1>2
  <2>2. recv'[t] = recv[t] /\ ch'[t] = Append(ch[t], evt)
    BY <1>1, <1>2, <1>4
  <2>3. ASSUME NEW r \in Seq(Event), NEW c \in Seq(Event), NEW e \in Event
        PROVE  r \o Append(c, e) = Append(r \o c, e)
    BY AppendAfter
  <2>4. PICK r \in Seq(Event), c \in Seq(Event), e \in Event :
           r = recv[t] /\ c = ch[t] /\ e = evt
    BY <2>1
  <2>5. Delivered(t)' = r \o Append(c, e)
    BY <2>2, <2>4 DEF Delivered
  <2>6. Delivered(t) = r \o c
    BY <2>4 DEF Delivered
  <2>7. r \o Append(c, e) = Append(r \o c, e)
    BY <2>3
  <2>8. Delivered(t)' = Append(Delivered(t), evt)
    BY <2>4, <2>5, <2>6, <2>7, Zenon
  <2>9. QED
    BY <2>8, <1>4
<1>5. QED
  BY <1>3, <1>4

-----------------------------------------------------------------------------
(* What any step of the system may do to the feed of one subscription.     *)

(* What t has been offered lies between its start and the end of the log.  *)
LEMMA OfferedBounds ==
  ASSUME TypeOK, Enrolled, LogSplit, NEW t \in Subs
  PROVE  /\ Offered(t) \in Nat /\ since[t] \in Nat
         /\ since[t] <= Offered(t) /\ Offered(t) <= Len(log)
         /\ t \in left => Offered(t) + 1 = sent /\ sent <= Len(log)
<1>1. /\ since[t] \in Nat /\ End(t) \in Nat /\ sent \in Nat
      /\ Len(in) \in Nat /\ Held \in Nat
  <2>1. in \in Seq(Event) /\ since[t] \in Nat /\ sent \in Nat
    BY DEF TypeOK
  <2>2. Held \in Nat
    BY DEF Held
  <2>3. QED
    BY <2>1, <2>2, EndNat, LenProperties
<1>2. sent <= Len(log)
  BY <1>1 DEF LogSplit
<1>3. since[t] <= End(t) /\ End(t) <= sent
  BY DEF Enrolled
<1>4. t \in left => End(t) = sent /\ since[t] < sent
  BY DEF Enrolled
<1>5. QED
  BY <1>1, <1>2, <1>3, <1>4, LenProperties DEF Offered, TypeOK

Stays(t) == /\ Delivered(t)' = Delivered(t) /\ drops'[t] = drops[t]
            /\ since'[t] = since[t] /\ Offered(t)' = Offered(t)

Gives(t) == /\ Offered(t) < Len(log)
            /\ Delivered(t)' = Append(Delivered(t), log[Offered(t) + 1])
            /\ drops'[t] = drops[t]
            /\ since'[t] = since[t] /\ Offered(t)' = Offered(t) + 1

Skips(t) == /\ Offered(t) < Len(log)
            /\ Delivered(t)' = Delivered(t)
            /\ \/ DropOnFull /\ drops'[t] = drops[t] + 1
               \/ ~DropOnFull /\ done /\ drops'[t] = drops[t]
            /\ since'[t] = since[t] /\ Offered(t)' = Offered(t) + 1

Joins(t) == /\ Delivered(t) = <<>> /\ Delivered(t)' = <<>>
            /\ drops[t] = 0 /\ drops'[t] = 0
            /\ Offered(t)' \in Offered(t) .. Len(log)
            /\ since'[t] = Offered(t)'

(* The steps that leave the dispatch and the registry alone. *)
LEMMA StaysWhen ==
  ASSUME NEW t \in Subs, UNCHANGED <<subs, until, sent, since, drops>>,
         left' = left, Delivered(t)' = Delivered(t)
  PROVE  Stays(t)
  BY EndUnchanged DEF Stays, Offered

(* One way or another every step moves each feed by at most one event.     *)
LEMMA FeedSteps ==
  ASSUME TypeOK, Holding, Enrolled, LogSplit, [Next]_vars
  PROVE  \/ \A t \in Subs : Stays(t)
         \/ /\ UNCHANGED <<log, done>>
            /\ \/ \E s \in Subs : (Gives(s) \/ Joins(s)) /\ \A t \in Subs \ {s} : Stays(t)
               \/ \A t \in Subs : Stays(t) \/ Skips(t)
<1>1. ASSUME NEW p \in Publishers, NewEvent(p) \/ Publish(p)
      PROVE  \A t \in Subs : Stays(t)
  BY <1>1, StaysWhen DEF NewEvent, Publish, Enqueue, Reject, GiveUp, Delivered,
                         runVars, regVars, queueVars
<1>2. ASSUME NEW s \in Subs, Subscribe(s)
      PROVE  Joins(s) /\ \A t \in Subs \ {s} : Stays(t)
  <2>1. /\ UNCHANGED <<log, sent, ch, recv, drops, left>> /\ s \notin opened
        /\ since' = [since EXCEPT ![s] = sent]
    BY <1>2 DEF Subscribe, runVars, queueVars
  <2>2. /\ s \notin left /\ ch[s] = <<>> /\ recv[s] = <<>> /\ drops[s] = 0
        /\ End(s) <= sent
    BY <2>1 DEF Enrolled
  <2>3. Delivered(s) = <<>> /\ Delivered(s)' = <<>>
    BY <2>1, <2>2 DEF Delivered
  <2>4. /\ Offered(s) = End(s) /\ Offered(s)' = sent
        /\ since'[s] = sent /\ sent <= Len(log)
    <3>1. Offered(s) = End(s) /\ Offered(s)' = End(s)'
      BY <2>1, <2>2 DEF Offered
    <3>2. Len(log) = sent + Held + Len(in) /\ sent \in Nat /\ Held \in Nat /\ Len(in) \in Nat
      BY LenProperties DEF LogSplit, Held, TypeOK
    <3>3. End(s)' = sent
      BY <1>2, EndSubscribe
    <3>4. since'[s] = sent
      BY <2>1 DEF TypeOK
    <3>5. sent <= Len(log)
      BY <3>2
    <3>6. QED
      BY <3>1, <3>3, <3>4, <3>5
  <2>5. Joins(s)
    <3>1. Offered(s) \in Nat /\ sent \in Nat /\ Len(log) \in Nat
      BY OfferedBounds, LenProperties DEF TypeOK
    <3>2. QED
      BY <2>1, <2>2, <2>3, <2>4, <3>1 DEF Joins
  <2>6. ASSUME NEW t \in Subs \ {s} PROVE Stays(t)
    <3>1. End(t)' = End(t) /\ since'[t] = since[t]
      BY <1>2, <2>1, EndSubscribe DEF TypeOK
    <3>2. QED
      BY <2>1, <3>1 DEF Stays, Offered, Delivered
  <2>7. QED
    BY <2>5, <2>6
<1>3. ASSUME NEW s \in Subs, Unsubscribe(s) PROVE \A t \in Subs : Stays(t)
  BY <1>3, EndUnsubscribe DEF Unsubscribe, Stays, Offered, Delivered, runVars, queueVars
<1>4. ASSUME NEW s \in Subs, Receive(s) PROVE \A t \in Subs : Stays(t)
  BY <1>4, ReceiveKeeps, StaysWhen DEF Receive, runVars, regVars
<1>5. CASE Take \/ Exit \/ CancelContext \/ UNCHANGED vars
  BY <1>5, StaysWhen DEF Take, Exit, CancelContext, Delivered, vars,
                         runVars, regVars, queueVars
<1>6. CASE Snapshot
  <2>1. /\ left = {} /\ left' = Registered
        /\ UNCHANGED <<since, drops, ch, recv>>
    BY <1>6, EndSnapshot DEF Snapshot, Holding, snapshotSubscribers, GoOn,
                             regVars, queueVars
  <2>2. ASSUME NEW t \in Subs PROVE Offered(t)' = Offered(t)
    <3>1. CASE t \in Registered
      BY <1>6, <2>1, <3>1, EndSnapshot DEF Offered, TypeOK
    <3>2. CASE t \notin Registered
      BY <1>6, <2>1, <3>2, EndSnapshot DEF Offered
    <3>3. QED
      BY <3>1, <3>2
  <2>3. QED
    BY <2>1, <2>2 DEF Stays, Delivered
<1>7. CASE Deliver \/ Drop
  <2>1. /\ cur \in left /\ cur \in Subs /\ left' = left \ {cur}
        /\ UNCHANGED <<subs, until, sent, since, log, done>>
        /\ evt = log[sent]
    BY <1>7 DEF Deliver, Drop, GoOn, Holding, TypeOK, LogSplit, regVars
  <2>2. \A t \in Subs : End(t)' = End(t)
    BY <2>1, EndUnchanged
  <2>3. /\ Offered(cur) + 1 = sent /\ Offered(cur) < Len(log) /\ Offered(cur) \in Nat
        /\ evt = log[Offered(cur) + 1]
    BY <2>1, OfferedBounds DEF TypeOK
  <2>4. PICK s \in Subs : s = cur
    BY <2>1
  <2>5. Offered(s)' = Offered(s) + 1
    <3>1. s \in left /\ s \notin left'
      BY <2>1, <2>4
    <3>2. Offered(s) = End(s) - 1 /\ Offered(s)' = End(s)
      BY <2>2, <3>1 DEF Offered
    <3>3. End(s) \in Nat
      BY EndNat
    <3>4. QED
      BY <3>2, <3>3
  <2>6. \A t \in Subs \ {s} : Offered(t)' = Offered(t)
    BY <2>1, <2>2, <2>4 DEF Offered
  <2>7. CASE Deliver
    <3>1. drops' = drops
      BY <2>7 DEF Deliver
    <3>2. Gives(s)
      BY <2>1, <2>3, <2>4, <2>5, <2>7, <3>1, DeliverAppends DEF Gives
    <3>3. \A t \in Subs \ {s} : Stays(t)
      BY <2>1, <2>4, <2>6, <2>7, <3>1, DeliverAppends DEF Stays
    <3>4. QED
      BY <2>1, <3>2, <3>3
  <2>8. CASE Drop
    <3>1. /\ DropOnFull /\ UNCHANGED <<ch, recv>>
          /\ drops'[s] = drops[s] + 1 /\ \A t \in Subs \ {s} : drops'[t] = drops[t]
      BY <2>4, <2>8 DEF Drop, TypeOK
    <3>2. Skips(s)
      BY <2>1, <2>3, <2>4, <2>5, <3>1 DEF Skips, Delivered
    <3>3. \A t \in Subs \ {s} : Stays(t)
      BY <2>1, <2>4, <2>6, <3>1 DEF Stays, Delivered
    <3>4. QED
      BY <2>1, <3>2, <3>3
  <2>9. QED
    BY <1>7, <2>7, <2>8
<1>8. CASE Abort
  <2>1. /\ left' = {} /\ ~DropOnFull /\ done
        /\ UNCHANGED <<subs, until, sent, since, log, done, ch, recv, drops>>
    BY <1>8 DEF Abort, GoOn, regVars, queueVars
  <2>2. ASSUME NEW t \in Subs PROVE Stays(t) \/ Skips(t)
    <3>1. End(t)' = End(t) /\ Delivered(t)' = Delivered(t)
      BY <2>1, EndUnchanged DEF Delivered
    <3>2. CASE t \notin left
      BY <2>1, <3>1, <3>2 DEF Stays, Offered
    <3>3. CASE t \in left
      <4>1. Offered(t) + 1 = sent /\ Offered(t) < Len(log)
        BY <3>3, OfferedBounds DEF TypeOK
      <4>2. Offered(t)' = Offered(t) + 1
        BY <2>1, <3>1, <3>3, EndNat DEF Offered, TypeOK
      <4>3. QED
        BY <2>1, <3>1, <4>1, <4>2 DEF Skips
    <3>4. QED
      BY <3>2, <3>3
  <2>3. QED
    BY <2>1, <2>2
<1>9. ASSUME NEW s \in Subs, Subscribe(s) PROVE UNCHANGED <<log, done>>
  BY <1>9 DEF Subscribe
<1>10. QED
  BY <1>1, <1>2, <1>3, <1>4, <1>5, <1>6, <1>7, <1>8, <1>9 DEF Next, Run, dispatch

(* The log only grows, and the context is never revived.                   *)
LEMMA LogGrows ==
  ASSUME TypeOK, [Next]_vars
  PROVE  /\ \/ log' = log
            \/ \E e \in Event : log' = Append(log, e)
         /\ done => done'
<1>1. ASSUME NEW p \in Publishers, Enqueue(p)
      PROVE  \E e \in Event : log' = Append(log, e)
  <2>1. pub[p] \in Event
    BY <1>1 DEF Enqueue, TypeOK
  <2>2. QED
    BY <1>1, <2>1 DEF Enqueue
<1>2. log' = log \/ \E p \in Publishers : Enqueue(p)
  BY DEF Next, NewEvent, Publish, Reject, GiveUp, Subscribe, Unsubscribe,
         Receive, Run, Take, Exit, dispatch, Snapshot, Deliver, Drop, Abort,
         CancelContext, vars
<1>3. done => done'
  BY DEF Next, NewEvent, Publish, Enqueue, Reject, GiveUp, Subscribe,
         Unsubscribe, Receive, Run, Take, Exit, dispatch, Snapshot, Deliver,
         Drop, Abort, CancelContext, vars
<1>4. QED
  BY <1>1, <1>2, <1>3

(* The log only grows at its end.                                          *)
LEMMA LogPrefix ==
  ASSUME TypeOK, [Next]_vars
  PROVE  /\ Len(log') \in Nat /\ Len(log) <= Len(log')
         /\ \A i \in 1 .. Len(log) : log'[i] = log[i]
<1>1. CASE log' = log
  BY <1>1, LenProperties DEF TypeOK
<1>2. ASSUME NEW e \in Event, log' = Append(log, e)
      PROVE  /\ Len(log') = Len(log) + 1
             /\ \A i \in 1 .. Len(log) : log'[i] = log[i]
  BY <1>2, AppendProperties DEF TypeOK
<1>3. Len(log) \in Nat
  BY LenProperties DEF TypeOK
<1>4. QED
  BY <1>1, <1>2, <1>3, LogGrows

(* Everything the proofs below rest on, in one formula. *)
Ground == TypeOK /\ Holding /\ Enrolled /\ LogSplit

(* The four layers together are an invariant.                              *)
LEMMA Grounded == Spec => []Ground
  BY Typing, Enrolment, Splitting, PTL DEF Ground

(* A step leaves t alone, or it alone is given, skips or joins.            *)
LEMMA StepCases ==
  ASSUME Ground, [Next]_vars, NEW t \in Subs
  PROVE  Stays(t) \/ (UNCHANGED <<log, done>> /\ (Gives(t) \/ Skips(t) \/ Joins(t)))
  BY FeedSteps DEF Ground

(* An event that is given comes from the log. *)
LEMMA GivesEvent ==
  ASSUME Ground, NEW t \in Subs, Gives(t)
  PROVE  Delivered(t) \in Seq(Event) /\ log[Offered(t) + 1] \in Event
<1>1. Delivered(t) \in Seq(Event)
  BY DeliveredSeq DEF Ground
<1>2. log \in Seq(Event) /\ Len(log) \in Nat
  BY LenProperties DEF Ground, TypeOK
<1>3. Offered(t) + 1 \in 1 .. Len(log)
  BY <1>2, OfferedBounds DEF Ground, Gives
<1>4. log[Offered(t) + 1] \in Event
  BY <1>2, <1>3, ElementOfSeq
<1>5. QED
  BY <1>1, <1>4

-----------------------------------------------------------------------------
(* No event is lost silently: each one dispatched to a subscription is in  *)
(* its feed or was counted in its drops, unless the context was cancelled  *)
(* under backpressure (Bus.dispatch).                                      *)
THEOREM Accounting == Spec => []Accounted
<1> DEFINE Acc(s) == Len(Delivered(s)) + drops[s] = Offered(s) - since[s]
<1>1. Init => Accounted
  <2> SUFFICES ASSUME Init, NEW s \in Subs PROVE Acc(s)
    BY DEF Accounted
  <2>1. Delivered(s) = <<>> /\ Offered(s) = 0 /\ since[s] = 0 /\ drops[s] = 0
    BY DEF Init, Delivered, Offered, End, Registered
  <2>2. QED
    BY <2>1
<1>2. Ground /\ Accounted /\ [Next]_vars => Accounted'
  <2> SUFFICES ASSUME Ground, Accounted, [Next]_vars,
                      DropOnFull \/ ~done', NEW s \in Subs
               PROVE  Acc(s)'
    BY DEF Accounted
  <2>1. DropOnFull \/ ~done
    BY LogGrows DEF Ground
  <2>2. Acc(s)
    BY <2>1 DEF Accounted
  <2>3. /\ Len(Delivered(s)) \in Nat /\ drops[s] \in Nat
        /\ Offered(s) \in Nat /\ since[s] \in Nat
    BY DeliveredSeq, OfferedBounds, LenProperties DEF Ground, TypeOK
  <2>4. CASE Stays(s)
    <3>1. Len(Delivered(s)') = Len(Delivered(s))
      BY <2>4 DEF Stays
    <3>2. QED
      BY <2>2, <2>3, <2>4, <3>1 DEF Stays
  <2>5. CASE Gives(s)
    <3>1. Delivered(s) \in Seq(Event) /\ log[Offered(s) + 1] \in Event
      BY <2>5, GivesEvent DEF Ground
    <3>2. Len(Delivered(s)') = Len(Delivered(s)) + 1
      BY <2>5, <3>1, AppendProperties DEF Gives
    <3>3. QED
      BY <2>2, <2>3, <2>5, <3>2 DEF Gives
  <2>6. CASE Skips(s)
    <3>1. drops'[s] = drops[s] + 1
      BY <2>1, <2>6, Zenon DEF Skips
    <3>2. Len(Delivered(s)') = Len(Delivered(s))
      BY <2>6 DEF Skips
    <3>3. since'[s] = since[s] /\ Offered(s)' = Offered(s) + 1
      BY <2>6 DEF Skips
    <3>4. QED
      BY <2>2, <2>3, <3>1, <3>2, <3>3
  <2>7. CASE Joins(s)
    <3>1. Len(Delivered(s)') = 0
      BY <2>7 DEF Joins
    <3>2. Offered(s)' \in Nat
      BY <2>3, <2>7, LenProperties DEF Joins, Ground, TypeOK
    <3>3. drops'[s] = 0 /\ since'[s] = Offered(s)'
      BY <2>7 DEF Joins
    <3>4. QED
      BY <3>1, <3>2, <3>3
  <2>8. QED
    BY <2>4, <2>5, <2>6, <2>7, StepCases
<1>3. QED
  BY <1>1, <1>2, Grounded, PTL DEF Spec

-----------------------------------------------------------------------------
(* The part of the log offered to a subscription so far holds its feed, in *)
(* order: InOrder with the bound that a step moves.                        *)
Placed(s, i, a) ==
  /\ log[a] = Delivered(s)[i]
  /\ \A j \in 1 .. i - 1 : \E b \in since[s] + 1 .. a - 1 : log[b] = Delivered(s)[j]

OrderedFor(s) ==
  \A i \in 1 .. Len(Delivered(s)) :
    \E a \in since[s] + 1 .. Offered(s) : Placed(s, i, a)

Ordered == \A s \in Subs : OrderedFor(s)

(* A feed that is not extended stays in order as the log and the offered   *)
(* part of it grow.                                                        *)
LEMMA PlacedStays ==
  ASSUME Ground, [Next]_vars, NEW s \in Subs,
         Delivered(s)' = Delivered(s), since'[s] = since[s],
         NEW i \in 1 .. Len(Delivered(s)),
         NEW a \in since[s] + 1 .. Offered(s), Placed(s, i, a)
  PROVE  Placed(s, i, a)'
<1>1. /\ since[s] \in Nat /\ Offered(s) \in Nat /\ Len(log) \in Nat
      /\ Offered(s) <= Len(log)
  BY OfferedBounds, LenProperties DEF Ground, TypeOK
<1>2. \A b \in 1 .. Len(log) : log'[b] = log[b]
  BY LogPrefix DEF Ground
<1>3. \A b \in since[s] + 1 .. a : log'[b] = log[b]
  BY <1>1, <1>2
<1>4. ASSUME NEW j \in 1 .. i - 1
      PROVE  \E b \in since'[s] + 1 .. a - 1 : log'[b] = Delivered(s)'[j]
  <2>1. PICK b \in since[s] + 1 .. a - 1 : log[b] = Delivered(s)[j]
    BY DEF Placed
  <2>2. b \in since[s] + 1 .. a
    BY <2>1, <1>1
  <2>3. QED
    BY <2>1, <2>2, <1>3
<1>5. log'[a] = Delivered(s)'[i]
  BY <1>1, <1>3 DEF Placed
<1>6. QED
  BY <1>4, <1>5 DEF Placed

(* Every subscriber's feed is in the order in which Publish accepted its   *)
(* events, has none twice, and has none from before its Subscribe or from  *)
(* after it left the registry (Bus.snapshotSubscribers, Bus.dispatch).     *)
THEOREM Ordering == Spec => []InOrder
<1>1. Init => Ordered
  <2> SUFFICES ASSUME Init, NEW s \in Subs PROVE OrderedFor(s)
    BY DEF Ordered
  <2>1. Delivered(s) = <<>>
    BY DEF Init, Delivered
  <2>2. QED
    BY <2>1 DEF OrderedFor
<1>2. Ground /\ Ordered /\ [Next]_vars => Ordered'
  <2> SUFFICES ASSUME Ground, Ordered, [Next]_vars, NEW s \in Subs
               PROVE  OrderedFor(s)'
    BY DEF Ordered
  <2>1. OrderedFor(s)
    BY DEF Ordered
  <2>2. /\ since[s] \in Nat /\ Offered(s) \in Nat /\ Len(log) \in Nat
        /\ since[s] <= Offered(s) /\ Offered(s) <= Len(log)
        /\ Len(Delivered(s)) \in Nat
    BY OfferedBounds, DeliveredSeq, LenProperties DEF Ground, TypeOK
  <2>3. ASSUME Delivered(s)' = Delivered(s), since'[s] = since[s],
               Offered(s)' \in {Offered(s), Offered(s) + 1}
        PROVE  OrderedFor(s)'
    <3>1. SUFFICES ASSUME NEW i \in 1 .. Len(Delivered(s))
                   PROVE  \E a \in since[s] + 1 .. Offered(s)' : Placed(s, i, a)'
      BY <2>3 DEF OrderedFor
    <3>2. PICK a \in since[s] + 1 .. Offered(s) : Placed(s, i, a)
      BY <2>1 DEF OrderedFor
    <3>3. Placed(s, i, a)'
      BY <2>3, <3>2, PlacedStays
    <3>4. a \in since[s] + 1 .. Offered(s)'
      BY <2>2, <2>3
    <3>5. QED
      BY <3>3, <3>4
  <2>4. CASE Stays(s)
    BY <2>3, <2>4 DEF Stays
  <2>5. CASE Skips(s)
    BY <2>3, <2>5 DEF Skips
  <2>6. CASE Joins(s)
    <3>1. Len(Delivered(s)') = 0
      BY <2>6 DEF Joins
    <3>2. QED
      BY <3>1 DEF OrderedFor
  <2>7. CASE UNCHANGED <<log, done>> /\ Gives(s)
    <3> DEFINE d == Delivered(s)
               e == Delivered(s)'
    <3>1. /\ d \in Seq(Event) /\ log[Offered(s) + 1] \in Event
      BY <2>7, GivesEvent
    <3>2. /\ Len(e) = Len(d) + 1 /\ e[Len(d) + 1] = log[Offered(s) + 1]
          /\ \A i \in 1 .. Len(d) : e[i] = d[i]
      BY <2>7, <3>1, AppendProperties DEF Gives
    <3>3. /\ log' = log /\ since'[s] = since[s] /\ Offered(s)' = Offered(s) + 1
      BY <2>7 DEF Gives
    <3>4. ASSUME NEW i \in 1 .. Len(d)
          PROVE  \E b \in since[s] + 1 .. Offered(s) :
                   /\ log[b] = e[i]
                   /\ \A j \in 1 .. i - 1 :
                        \E c \in since[s] + 1 .. b - 1 : log[c] = e[j]
      <4>1. PICK b \in since[s] + 1 .. Offered(s) : Placed(s, i, b)
        BY <2>1 DEF OrderedFor
      <4>2. log[b] = e[i]
        BY <3>2, <4>1 DEF Placed
      <4>3. ASSUME NEW j \in 1 .. i - 1
            PROVE  \E c \in since[s] + 1 .. b - 1 : log[c] = e[j]
        <5>1. j \in 1 .. Len(d)
          BY <2>2
        <5>2. QED
          BY <3>2, <4>1, <5>1 DEF Placed
      <4>4. QED
        BY <4>2, <4>3
    <3>5. ASSUME NEW i \in 1 .. Len(e)
          PROVE  \E a \in since'[s] + 1 .. Offered(s)' :
                   /\ log'[a] = e[i]
                   /\ \A j \in 1 .. i - 1 :
                        \E b \in since'[s] + 1 .. a - 1 : log'[b] = e[j]
      <4>1. CASE i = Len(d) + 1
        <5>1. Offered(s) + 1 \in since[s] + 1 .. Offered(s) + 1
          BY <2>2
        <5>2. ASSUME NEW j \in 1 .. i - 1
              PROVE  \E b \in since[s] + 1 .. Offered(s) : log[b] = e[j]
          <6>1. j \in 1 .. Len(d)
            BY <4>1, <2>2
          <6>2. QED
            BY <3>4, <6>1
        <5>3. (Offered(s) + 1) - 1 = Offered(s)
          BY <2>2
        <5>4. log[Offered(s) + 1] = e[i]
          BY <3>2, <4>1
        <5> HIDE DEF d, e
        <5>5. QED
          BY <3>3, <5>1, <5>2, <5>3, <5>4
      <4>2. CASE i # Len(d) + 1
        <5>1. i \in 1 .. Len(d)
          BY <4>2, <3>2, <2>2
        <5>2. PICK b \in since[s] + 1 .. Offered(s) :
                 /\ log[b] = e[i]
                 /\ \A j \in 1 .. i - 1 :
                      \E c \in since[s] + 1 .. b - 1 : log[c] = e[j]
          BY <3>4, <5>1
        <5>3. b \in since[s] + 1 .. Offered(s) + 1
          BY <5>2, <2>2
        <5> HIDE DEF d, e
        <5>4. QED
          BY <3>3, <5>2, <5>3
      <4>3. QED
        BY <4>1, <4>2
    <3>6. QED
      BY <3>5 DEF OrderedFor, Placed
  <2>8. QED
    BY <2>4, <2>5, <2>6, <2>7, StepCases
<1>3. Ground /\ Ordered => InOrder
  <2> SUFFICES ASSUME Ground, Ordered, NEW s \in Subs,
                      NEW i \in 1 .. Len(Delivered(s))
               PROVE  \E a \in since[s] + 1 .. End(s) : Placed(s, i, a)
    BY DEF InOrder, Placed
  <2>1. PICK a \in since[s] + 1 .. Offered(s) : Placed(s, i, a)
    BY DEF Ordered, OrderedFor
  <2>2. /\ since[s] \in Nat /\ End(s) \in Nat
        /\ Offered(s) <= End(s) /\ Offered(s) \in Int
    <3>1. TypeOK
      BY DEF Ground
    <3>2. End(s) \in Nat
      BY <3>1, EndNat
    <3>3. since[s] \in Nat
      BY <3>1 DEF TypeOK
    <3>4. QED
      BY <3>2, <3>3 DEF Offered
  <2>3. a \in Int /\ since[s] + 1 <= a /\ a <= Offered(s)
    BY <2>1, <2>2
  <2>4. a \in since[s] + 1 .. End(s)
    BY <2>2, <2>3
  <2>5. QED
    BY <2>1, <2>4
<1>4. QED
  BY <1>1, <1>2, <1>3, Grounded, PTL DEF Spec

-----------------------------------------------------------------------------
(* Backpressure, until the context ends: the feed is the log, from the     *)
(* subscription on, event by event.                                        *)
ExactFor(s) == /\ Len(Delivered(s)) = Offered(s) - since[s]
               /\ \A i \in 1 .. Offered(s) - since[s] :
                    Delivered(s)[i] = log[since[s] + i]

Exact == (~DropOnFull /\ ~done) => droppedIn = 0 /\ \A s \in Subs : ExactFor(s)

(* Without DropOnFull no counter of the bus ever moves.                    *)
LEMMA NothingRejected ==
  ASSUME [Next]_vars, ~DropOnFull
  PROVE  droppedIn' = droppedIn
  BY DEF Next, NewEvent, Publish, Enqueue, Reject, GiveUp, Subscribe,
         Unsubscribe, Receive, Run, Take, Exit, dispatch, Snapshot, Deliver,
         Drop, Abort, CancelContext, vars, pubVars

(* Under backpressure a subscriber that keeps up with the bus or not gets  *)
(* every event of its part of the log, without a gap, until the context is *)
(* cancelled (Bus.Publish and Bus.dispatch with DropOnFull = false).       *)
THEOREM NoLoss == Spec => []Lossless
<1>1. Init => Exact
  <2> SUFFICES ASSUME Init, NEW s \in Subs PROVE droppedIn = 0 /\ ExactFor(s)
    BY DEF Exact, Init
  <2>1. /\ Delivered(s) = <<>> /\ Offered(s) = 0 /\ since[s] = 0 /\ droppedIn = 0
    BY DEF Init, Delivered, Offered, End, Registered
  <2>2. QED
    BY <2>1 DEF ExactFor
<1>2. Ground /\ Exact /\ [Next]_vars => Exact'
  <2> SUFFICES ASSUME Ground, Exact, [Next]_vars, ~DropOnFull, ~done'
               PROVE  droppedIn' = 0 /\ \A s \in Subs : ExactFor(s)'
    BY DEF Exact
  <2>1. ~done
    BY LogGrows DEF Ground
  <2>2. droppedIn' = 0 /\ \A s \in Subs : ExactFor(s)
    BY <2>1, NothingRejected DEF Exact
  <2>3. ASSUME NEW s \in Subs PROVE ExactFor(s)'
    <3>1. ExactFor(s)
      BY <2>2
    <3>2. /\ since[s] \in Nat /\ Offered(s) \in Nat /\ Len(log) \in Nat
          /\ since[s] <= Offered(s) /\ Offered(s) <= Len(log)
          /\ Len(Delivered(s)) \in Nat
      BY OfferedBounds, DeliveredSeq, LenProperties DEF Ground, TypeOK
    <3>3. \A b \in 1 .. Len(log) : log'[b] = log[b]
      BY LogPrefix DEF Ground
    <3>4. CASE Stays(s)
      <4>1. /\ Delivered(s)' = Delivered(s) /\ since'[s] = since[s]
            /\ Offered(s)' = Offered(s)
        BY <3>4 DEF Stays
      <4>2. \A i \in 1 .. Offered(s) - since[s] : since[s] + i \in 1 .. Len(log)
        BY <3>2
      <4>3. \A i \in 1 .. Offered(s) - since[s] : log'[since[s] + i] = log[since[s] + i]
        BY <3>3, <4>2
      <4>4. QED
        BY <3>1, <4>1, <4>3 DEF ExactFor
    <3>5. CASE UNCHANGED log /\ Gives(s)
      <4> DEFINE d == Delivered(s)
                 e == Delivered(s)'
      <4>1. d \in Seq(Event) /\ log[Offered(s) + 1] \in Event
        BY <3>5, GivesEvent
      <4>2. /\ Len(e) = Len(d) + 1 /\ e[Len(d) + 1] = log[Offered(s) + 1]
            /\ \A i \in 1 .. Len(d) : e[i] = d[i]
        BY <3>5, <4>1, AppendProperties DEF Gives
      <4>3. /\ log' = log /\ since'[s] = since[s] /\ Offered(s)' = Offered(s) + 1
        BY <3>5 DEF Gives
      <4>4. /\ Len(d) = Offered(s) - since[s]
            /\ \A i \in 1 .. Len(d) : d[i] = log[since[s] + i]
        BY <3>1 DEF ExactFor
      <4> HIDE DEF d, e
      <4>5. ASSUME NEW i \in 1 .. Len(d) + 1 PROVE e[i] = log[since[s] + i]
        <5>1. CASE i = Len(d) + 1
          <6>0. i = Offered(s) - since[s] + 1
            BY <4>4, <5>1
          <6>1. since[s] + i = Offered(s) + 1
            BY <3>2, <6>0
          <6>2. QED
            BY <4>2, <5>1, <6>1
        <5>2. CASE i # Len(d) + 1
          <6>1. i \in 1 .. Len(d)
            BY <3>2, <4>4, <5>2
          <6>2. QED
            BY <4>2, <4>4, <6>1
        <5>3. QED
          BY <5>1, <5>2
      <4>6. Offered(s)' - since'[s] = Len(d) + 1
        BY <3>2, <4>3, <4>4
      <4>7. QED
        BY <4>2, <4>3, <4>5, <4>6 DEF ExactFor, e
    <3>6. CASE Skips(s)
      BY <2>1, <3>6, Zenon DEF Skips
    <3>7. CASE Joins(s)
      <4>1. Offered(s)' \in Nat
        BY <3>2, <3>7 DEF Joins
      <4>2. since'[s] = Offered(s)' /\ Len(Delivered(s)') = 0
        BY <3>7 DEF Joins
      <4>3. Offered(s)' - since'[s] = 0
        BY <4>1, <4>2
      <4>4. QED
        BY <4>2, <4>3 DEF ExactFor
    <3>8. QED
      BY <3>4, <3>5, <3>6, <3>7, StepCases
  <2>4. QED
    BY <2>2, <2>3
<1>3. Ground /\ Exact => Lossless
  <2> SUFFICES ASSUME Ground, Exact, ~DropOnFull, ~done, NEW s \in Subs
               PROVE  Delivered(s) = SubSeq(log, since[s] + 1, Offered(s))
    BY DEF Lossless, Exact
  <2>1. ExactFor(s)
    BY DEF Exact
  <2>2. /\ since[s] \in Nat /\ Offered(s) \in Nat /\ Len(log) \in Nat
        /\ since[s] <= Offered(s) /\ Offered(s) <= Len(log)
        /\ log \in Seq(Event) /\ Delivered(s) \in Seq(Event)
    BY OfferedBounds, DeliveredSeq, LenProperties DEF Ground, TypeOK
  <2>3. PICK m \in Nat, n \in Nat : m = since[s] + 1 /\ n = Offered(s)
    BY <2>2
  <2>4. \A i \in m .. n : log[i] \in Event
    BY <2>2, <2>3, ElementOfSeq
  <2>5. /\ SubSeq(log, m, n) \in Seq(Event)
        /\ Len(SubSeq(log, m, n)) = IF m <= n THEN n - m + 1 ELSE 0
        /\ \A i \in 1 .. n - m + 1 : SubSeq(log, m, n)[i] = log[m + i - 1]
    BY <2>4, SubSeqProperties
  <2>6. Len(SubSeq(log, m, n)) = Offered(s) - since[s]
    BY <2>2, <2>3, <2>5
  <2>7. \A i \in 1 .. Offered(s) - since[s] : SubSeq(log, m, n)[i] = log[since[s] + i]
    <3> TAKE i \in 1 .. Offered(s) - since[s]
    <3>0. m = since[s] + 1 /\ n = Offered(s) /\ since[s] \in Nat /\ Offered(s) \in Nat
      BY <2>2, <2>3
    <3>1. i \in Nat /\ 1 <= i /\ i <= n - m + 1 /\ m = since[s] + 1 /\ since[s] \in Nat
      BY <3>0
    <3>2. i \in 1 .. n - m + 1
      BY <3>0, <3>1
    <3>3. m + i - 1 = since[s] + i
      BY <3>1
    <3>4. QED
      BY <2>5, <3>2, <3>3
  <2>8. Delivered(s) = SubSeq(log, m, n)
    BY <2>1, <2>2, <2>5, <2>6, <2>7, SeqEqual DEF ExactFor
  <2>9. QED
    BY <2>3, <2>8
<1>4. QED
  BY <1>1, <1>2, <1>3, Grounded, PTL DEF Spec

-----------------------------------------------------------------------------
(* The bus implements the feed.                                            *)

(* A step appends to the log, or ends the context, or neither.             *)
LEMMA LogOrContext ==
  ASSUME TypeOK, [Next]_vars
  PROVE  \/ log' = log /\ done' = done
         \/ done' = done /\ \E e \in Event : log' = Append(log, e)
         \/ log' = log /\ done' = TRUE
<1>1. CASE done' = done
  BY <1>1, LogGrows
<1>2. CASE done' # done
  BY <1>2 DEF Next, NewEvent, Publish, Enqueue, Reject, GiveUp, Subscribe,
         Unsubscribe, Receive, Run, Take, Exit, dispatch, Snapshot, Deliver,
         Drop, Abort, CancelContext, vars
<1>3. QED
  BY <1>1, <1>2

(* The position and the feed of every subscription, as the feed sees them. *)
Pos  == [s \in Subs |-> Offered(s)]
Fed  == [s \in Subs |-> Delivered(s)]

(* Every behaviour of the bus, seen through the feeds of its subscribers,  *)
(* is a behaviour of EventFeed: each step of the code is a step of the     *)
(* feed or changes nothing a subscriber can see.                           *)
THEOREM Refinement == Spec => FeedSpec
<1>1. Init => Feed!Init
  <2> SUFFICES ASSUME Init PROVE Feed!Init
    OBVIOUS
  <2>1. \A s \in Subs : Offered(s) = 0 /\ Delivered(s) = <<>>
    BY DEF Init, Offered, End, Registered, Delivered
  <2>2. log = <<>> /\ done = FALSE
    BY DEF Init
  <2>3. QED
    BY <2>1, <2>2 DEF Feed!Init
<1>2. Ground /\ [Next]_vars => [Feed!Next]_(Feed!feedVars)
  <2> SUFFICES ASSUME Ground, [Next]_vars PROVE [Feed!Next]_(Feed!feedVars)
    OBVIOUS
  <2>1. CASE \A t \in Subs : Stays(t)
    <3>1. Pos' = Pos /\ Fed' = Fed
      BY <2>1 DEF Stays, Pos, Fed
    <3>2. CASE log' = log /\ done' = done
      BY <3>1, <3>2 DEF Feed!feedVars, Pos, Fed
    <3>3. ASSUME NEW e \in Event, log' = Append(log, e), done' = done
          PROVE  Feed!Next
      <4>1. Feed!Accept(e)
        BY <3>1, <3>3 DEF Feed!Accept, Pos, Fed
      <4>2. QED
        BY <4>1 DEF Feed!Next
    <3>4. CASE log' = log /\ done' = TRUE
      BY <3>1, <3>4 DEF Feed!Next, Feed!Close, Pos, Fed
    <3>5. QED
      BY <3>2, <3>3, <3>4, LogOrContext DEF Ground
  <2>2. ASSUME UNCHANGED <<log, done>>, NEW s \in Subs, Gives(s),
               \A t \in Subs \ {s} : Stays(t)
        PROVE  Feed!Next
    <3>1. Pos[s] < Len(log)
      BY <2>2 DEF Gives, Pos
    <3>2. Pos' = [Pos EXCEPT ![s] = @ + 1]
      BY <2>2 DEF Gives, Stays, Pos
    <3>3. Fed' = [Fed EXCEPT ![s] = Append(@, log[Pos[s] + 1])]
      BY <2>2 DEF Gives, Stays, Fed, Pos
    <3>4. Feed!Give(s)
      BY <2>2, <3>1, <3>2, <3>3 DEF Feed!Give, Pos, Fed
    <3>5. QED
      BY <3>4 DEF Feed!Next
  <2>3. ASSUME UNCHANGED <<log, done>>, NEW s \in Subs, Joins(s),
               \A t \in Subs \ {s} : Stays(t)
        PROVE  Feed!Next
    <3>1. Fed[s] = <<>> /\ Fed' = Fed
      BY <2>3 DEF Joins, Stays, Fed
    <3>2. PICK n \in Pos[s] .. Len(log) : n = Offered(s)'
      BY <2>3 DEF Joins, Pos
    <3>3. Pos' = [Pos EXCEPT ![s] = n]
      BY <2>3, <3>2 DEF Stays, Pos
    <3>4. Feed!Join(s)
      BY <2>3, <3>1, <3>2, <3>3 DEF Feed!Join, Pos, Fed
    <3>5. QED
      BY <3>4 DEF Feed!Next
  <2>4. ASSUME UNCHANGED <<log, done>>, \A t \in Subs : Stays(t) \/ Skips(t),
               NEW s \in Subs, Skips(s)
        PROVE  Feed!Next
    <3> DEFINE S == {t \in Subs : Skips(t)}
    <3>1. DropOnFull \/ done
      BY <2>4 DEF Skips
    <3>2. \A t \in S : Pos[t] < Len(log)
      BY DEF Skips, Pos
    <3>3. Fed' = Fed
      BY <2>4 DEF Stays, Skips, Fed
    <3>4. Pos' = [t \in Subs |-> IF t \in S THEN Pos[t] + 1 ELSE Pos[t]]
      BY <2>4 DEF Stays, Skips, Pos
    <3>5. Feed!Skip(S)
      BY <2>4, <3>1, <3>2, <3>3, <3>4 DEF Feed!Skip, Pos, Fed
    <3>6. QED
      BY <3>5 DEF Feed!Next
  <2>5. QED
    BY <2>1, <2>2, <2>3, <2>4, FeedSteps DEF Ground
<1>3. QED
  BY <1>1, <1>2, Grounded, PTL DEF Spec, FeedSpec, Feed!Spec
=============================================================================
