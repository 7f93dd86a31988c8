---------------------------- MODULE ObserveProofs ----------------------------
(***************************************************************************)
(* Theorems about kscope observe, for any modules, any threads that call   *)
(* recvfrom, any sizes of the ring buffer and of the channels, and any     *)
(* number of events: the command runs the bus as Bus specifies it, what    *)
(* its state may hold, that a reply is read with the arguments of its own  *)
(* call, and that with backpressure nothing is lost, doubled or overtaken  *)
(* from the capture to the output.  What the bus itself promises is taken  *)
(* from the theorems of BusProofs.                                         *)
(***************************************************************************)
EXTENDS Observe, SequenceTheorems, TLAPS

BusP == INSTANCE BusProofs WITH Publishers <- {"collector"}, Names <- {me}, Subs <- {me},
                                NameOf <- [s \in {me} |-> s], NoSub <- "none",
                                MaxEvents <- MaxCaptured

-----------------------------------------------------------------------------
Begun == {"load", "reader", "subscribe", "engine", "collector", "writer"}
Over  == {"unsubscribe", "close_reader", "close_manager", "stop", "exited"}

(* The statements of runObserve and its deferred calls, one by one.        *)
LEMMA StagesAre ==
  /\ Len(Statements) = 6
  /\ Statements[1] = "load" /\ Statements[2] = "reader" /\ Statements[3] = "subscribe"
  /\ Statements[4] = "engine" /\ Statements[5] = "collector" /\ Statements[6] = "writer"
  /\ Len(Stages) = 11
  /\ Stages[1] = "load" /\ Stages[2] = "reader" /\ Stages[3] = "subscribe"
  /\ Stages[4] = "engine" /\ Stages[5] = "collector" /\ Stages[6] = "writer"
  /\ Stages[7] = "unsubscribe" /\ Stages[8] = "close_reader" /\ Stages[9] = "close_manager"
  /\ Stages[10] = "stop" /\ Stages[11] = "exited"
<1>1. \A s, r \in Seq(Begun \cup Over) :
        /\ Len(s \o r) = Len(s) + Len(r)
        /\ \A k \in 1 .. Len(s) : (s \o r)[k] = s[k]
        /\ \A k \in 1 .. Len(r) : (s \o r)[Len(s) + k] = r[k]
  OBVIOUS
<1>2. Statements \in Seq(Begun \cup Over)
  BY DEF Statements, Begun
<1>3. <<"unsubscribe", "close_reader", "close_manager", "stop", "exited">> \in Seq(Begun \cup Over)
  BY DEF Over
<1>4. QED
  BY <1>1, <1>2, <1>3 DEF Stages, Statements

LEMMA StatementsAre == {Statements[k] : k \in 1 .. Len(Statements)} = Begun
<1>1. 1 .. Len(Statements) = {1, 2, 3, 4, 5, 6}
  BY StagesAre
<1>2. \A s : s \in Begun <=> \E k \in {1, 2, 3, 4, 5, 6} : Statements[k] = s
  BY StagesAre DEF Begun
<1>3. QED
  BY <1>1, <1>2

LEMMA AfterIs ==
  /\ After("load") = "reader" /\ After("reader") = "subscribe" /\ After("subscribe") = "engine"
  /\ After("engine") = "collector" /\ After("collector") = "writer"
  /\ After("writer") = "unsubscribe" /\ After("unsubscribe") = "close_reader"
  /\ After("close_reader") = "close_manager" /\ After("stop") = "exited"
<1>1. ASSUME NEW k \in 1 .. 10
      PROVE  After(Stages[k]) = Stages[1 + k]
  <2>1. \A j \in 1 .. Len(Stages) : Stages[j] = Stages[k] => j = k
    BY StagesAre
  <2>2. (CHOOSE j \in 1 .. Len(Stages) : Stages[j] = Stages[k]) = k
    BY <2>1, StagesAre
  <2>3. QED
    BY <2>2, Zenon DEF After
<1>2. QED
  BY <1>1, StagesAre

-----------------------------------------------------------------------------
(* The bus of the command is one that BusProofs speaks of.                 *)
LEMMA BusAssumed ==
  /\ [s \in {me} |-> s] \in [{me} -> {me}]
  /\ "none" \notin {me}
  /\ BufferSize \in Nat \ {0} /\ SubBuffer \in Nat \ {0} /\ EngineBuffer \in Nat \ {0}
  /\ DropOnFull \in BOOLEAN /\ MaxCaptured \in Nat
  BY PipeAssumption, CaptureAssumption DEF me

(* A step of the command that leaves the bus alone ... *)
LEMMA BusIdle ==
  ASSUME \/ Begin \/ NewReader \/ StartEngine \/ StartCollector \/ NewWriter
         \/ CloseReader \/ CloseManager \/ WriteNext \/ WriteLine \/ WriteFails
         \/ WriterStops \/ CloseOnDone \/ ReadClosed \/ Send \/ EngineStops \/ SystemCalls
  PROVE  UNCHANGED busVars
BY DEF Begin, NewReader, StartEngine, StartCollector, NewWriter, CloseReader, CloseManager,
       WriteNext, WriteLine, WriteFails, WriterStops, CloseOnDone, ReadClosed, Send, EngineStops,
       SystemCalls, busVars

(* ... or is one of its actions.                                           *)
LEMMA BusStep ==
  ASSUME [Next]_vars
  PROVE  UNCHANGED busVars \/ BusP!Next
<1>1. CASE Subscribe
  BY <1>1 DEF Subscribe, Bus!Subscribe, BusP!Subscribe, BusP!Next, Bus!Vacate, BusP!Vacate,
              Bus!runVars, Bus!queueVars, Bus!pubVars, BusP!runVars, BusP!queueVars, BusP!pubVars
<1>2. CASE CancelSub
  BY <1>2 DEF CancelSub, Bus!Unsubscribe, BusP!Unsubscribe, BusP!Next, Bus!Vacate, BusP!Vacate,
              Bus!runVars, Bus!queueVars, Bus!pubVars, BusP!runVars, BusP!queueVars, BusP!pubVars
<1>3. CASE Stop \/ Signal
  BY <1>3 DEF Stop, Signal, Bus!CancelContext, BusP!CancelContext, BusP!Next, busVars,
              Bus!runVars, Bus!queueVars, Bus!pubVars, BusP!runVars, BusP!queueVars, BusP!pubVars,
              Bus!regVars, BusP!regVars
<1>4. CASE Decode
  BY <1>4 DEF Decode, Bus!NewEvent, BusP!NewEvent, BusP!Next, Bus!NoEvent, BusP!NoEvent,
              Bus!runVars, Bus!queueVars, BusP!runVars, BusP!queueVars, Bus!regVars, BusP!regVars
<1>5. CASE Publish
  <2>1. Bus!Enqueue("collector") \/ Bus!Reject("collector") \/ Bus!GiveUp("collector")
    BY <1>5 DEF Publish
  <2>2. BusP!Publish("collector")
    BY <2>1 DEF BusP!Publish, Bus!Enqueue, Bus!Reject, Bus!GiveUp, BusP!Enqueue, BusP!Reject,
                BusP!GiveUp, Bus!NoEvent, BusP!NoEvent,
              Bus!runVars, Bus!queueVars, BusP!runVars, BusP!queueVars, Bus!regVars, BusP!regVars
  <2>3. QED
    BY <2>2 DEF BusP!Next
<1>6. CASE BusRuns
  <2>1. Bus!Run
    BY <1>6 DEF BusRuns
  <2>2. BusP!Run
    BY <2>1 DEF Bus!Run, BusP!Run, Bus!Take, BusP!Take, Bus!Exit, BusP!Exit, Bus!dispatch,
         BusP!dispatch, Bus!Snapshot, BusP!Snapshot, Bus!Deliver, BusP!Deliver, Bus!Drop, BusP!Drop,
         Bus!Abort, BusP!Abort, Bus!GoOn, BusP!GoOn, Bus!NoEvent, BusP!NoEvent,
         Bus!snapshotSubscribers, BusP!snapshotSubscribers, Bus!Registered, BusP!Registered,
         Bus!pubVars, Bus!queueVars, BusP!pubVars, BusP!queueVars, Bus!regVars, BusP!regVars
  <2>3. QED
    BY <2>2 DEF BusP!Next
<1>7. CASE Handle
  <2>1. BusP!Receive(me)
    BY <1>7 DEF Handle, Bus!Receive, BusP!Receive, Bus!runVars, Bus!regVars, Bus!pubVars,
                BusP!runVars, BusP!regVars, BusP!pubVars
  <2>2. QED
    BY <2>1 DEF BusP!Next
<1>8. CASE UNCHANGED vars
  BY <1>8 DEF vars
<1>9. QED
  BY <1>1, <1>2, <1>3, <1>4, <1>5, <1>6, <1>7, <1>8, BusIdle
     DEF Next, Startup, Deferred, Writer, Collect, Correlate

(* The command runs the bus as Bus specifies it: whatever BusProofs proves *)
(* of a bus holds of the one between the collector and the engine.         *)
THEOREM RunsBus == Spec => BusP!Spec
<1>1. Init => BusP!Init
  BY DEF Init, Bus!Init, BusP!Init, Bus!NoEvent, BusP!NoEvent
<1>2. [Next]_vars => [BusP!Next]_(BusP!vars)
  BY BusStep DEF BusP!vars, busVars, BusP!runVars, BusP!regVars, BusP!queueVars, BusP!pubVars
<1>3. QED
  BY <1>1, <1>2, PTL DEF Spec, BusP!Spec

(* The engine is given a feed of the bus's log as EventFeed promises it:   *)
(* in order, from where it subscribed, and with no gap until the context   *)
(* ends unless the bus may drop (bus.go behind runObserve).                *)
THEOREM Feeding == Spec => BusP!FeedSpec
  BY RunsBus, BusP!Refinement, BusAssumed, PTL

LEMMA BusAlways == Spec => [](BusP!TypeOK /\ BusP!Holding /\ BusP!Lossless /\ BusP!Ground)
<1>1. BusP!Spec => [](BusP!TypeOK /\ BusP!Holding)
  BY BusP!Typing, BusAssumed
<1>2. BusP!Spec => []BusP!Lossless
  BY BusP!NoLoss, BusAssumed
<1>3. BusP!Spec => []BusP!Ground
  BY BusP!Grounded, BusAssumed
<1>4. QED
  BY <1>1, <1>2, <1>3, RunsBus, PTL

-----------------------------------------------------------------------------
(* How far main has come tells what has been started: the engine runs only *)
(* after the subscription, the collector and the writer after the engine,  *)
(* and before the collector runs nothing has gone into the bus.            *)
Started ==
  /\ main \in Begun \cup Over
  /\ main \in {"load", "reader", "subscribe"} => opened = {} /\ subs[me] = "none"
  /\ main \in {"engine", "collector", "writer"} => subs[me] = me /\ opened = {me}
  /\ main \in Begun \ {"writer"} => collector = "off" /\ writer = "off"
  /\ writer \in {"select", "write"} => main = "writer"
  /\ main \in {"load", "reader", "subscribe", "engine"} => engine = "off"
  /\ collector = "off" => nextId = 0 /\ pub["collector"] = 0 /\ log = <<>>
  /\ since[me] = 0

(* Started speaks of nothing else.                                         *)
LEMMA Same ==
  ASSUME Started, UNCHANGED <<main, opened, subs, collector, writer, engine, nextId, pub, log, since>>
  PROVE  Started'
BY DEF Started

LEMMA BusParts ==
  ASSUME UNCHANGED busVars
  PROVE  UNCHANGED <<in, subs, ch, evt, pub, nextId, done, log, sent, recv, since, opened, pc, left, cur>>
BY DEF busVars

LEMMA StartedNext ==
  ASSUME Started, BusP!Ground, [Next]_vars
  PROVE  Started'
<1>1. CASE Begin
  <2>1. UNCHANGED <<opened, subs, collector, writer, engine, nextId, pub, log, since>>
    BY <1>1, BusIdle, BusParts DEF Begin, pipeVars, engineVars, writerVars
  <2>2. main = "load" /\ main' \in {"load", "reader", "stop"}
    BY <1>1, AfterIs DEF Begin
  <2>3. QED
    BY <2>1, <2>2 DEF Started, Begun, Over
<1>2. CASE NewReader
  <2>1. UNCHANGED <<opened, subs, collector, writer, engine, nextId, pub, log, since>>
    BY <1>2, BusIdle, BusParts DEF NewReader, engineVars, writerVars
  <2>2. main = "reader" /\ main' \in {"subscribe", "close_manager"}
    BY <1>2, AfterIs DEF NewReader, Goes
  <2>3. QED
    BY <2>1, <2>2 DEF Started, Begun, Over
<1>3. CASE Subscribe
  <2>1. /\ UNCHANGED <<collector, writer, engine, nextId, pub, log>>
        /\ opened' = opened \cup {me} /\ subs' = [subs EXCEPT ![me] = me]
        /\ since' = [since EXCEPT ![me] = sent]
    BY <1>3 DEF Subscribe, Bus!Subscribe, pipeVars, engineVars, writerVars, Bus!pubVars
  <2>2. main = "subscribe" /\ main' = "engine"
    BY <1>3, AfterIs DEF Subscribe, Goes
  <2>3. log = <<>> /\ subs \in [{me} -> {me} \cup {"none"}] /\ since \in [{me} -> Nat]
    BY <2>2 DEF Started, BusP!Ground, BusP!TypeOK, Begun
  <2>4. sent = 0
    BY <2>3 DEF BusP!Ground, BusP!TypeOK, BusP!LogSplit, BusP!Held
  <2>5. subs'[me] = me /\ opened' = {me} /\ since'[me] = 0
    BY <2>1, <2>2, <2>3, <2>4 DEF Started
  <2>6. QED
    BY <2>1, <2>2, <2>5 DEF Started, Begun, Over
<1>4. CASE StartEngine
  <2>1. UNCHANGED <<opened, subs, collector, writer, nextId, pub, log, since>>
    BY <1>4, BusIdle, BusParts DEF StartEngine, pipeVars, writerVars
  <2>2. main = "engine" /\ main' = "collector"
    BY <1>4, AfterIs DEF StartEngine, Goes
  <2>3. QED
    BY <2>1, <2>2 DEF Started, Begun, Over
<1>5. CASE StartCollector
  <2>1. UNCHANGED <<opened, subs, writer, engine, nextId, pub, log, since>> /\ collector' = "read"
    BY <1>5, BusIdle, BusParts DEF StartCollector, engineVars, writerVars
  <2>2. main = "collector" /\ main' = "writer"
    BY <1>5, AfterIs DEF StartCollector, Goes
  <2>3. QED
    BY <2>1, <2>2 DEF Started, Begun, Over
<1>6. CASE NewWriter \/ WriteNext \/ WriteLine \/ WriteFails \/ WriterStops
  <2>1. UNCHANGED <<opened, subs, collector, engine, nextId, pub, log, since>>
    BY <1>6, BusIdle, BusParts
       DEF NewWriter, WriteNext, WriteLine, WriteFails, WriterStops, pipeVars, engineVars
  <2>2. /\ \/ main' = main /\ (writer # "off" \/ main = "writer")
           \/ main' = "unsubscribe" /\ writer' = "returned"
        /\ writer' \in {"select", "write"} => main' = main
        /\ writer \in {"select", "write"} \/ main = "writer"
    BY <1>6, AfterIs DEF NewWriter, WriteNext, WriteLine, WriteFails, WriterStops
  <2>3. QED
    BY <2>1, <2>2 DEF Started, Begun, Over
<1>7. CASE CancelSub
  <2>1. UNCHANGED <<collector, writer, engine, nextId, pub, log, since>>
    BY <1>7 DEF CancelSub, Bus!Unsubscribe, pipeVars, engineVars, writerVars, Bus!pubVars
  <2>2. main = "unsubscribe" /\ main' = "close_reader"
    BY <1>7, AfterIs DEF CancelSub, Goes
  <2>3. QED
    BY <2>1, <2>2 DEF Started, Begun, Over
<1>8. CASE CloseReader \/ CloseManager
  <2>1. UNCHANGED <<opened, subs, collector, writer, engine, nextId, pub, log, since>>
    BY <1>8, BusIdle, BusParts DEF CloseReader, CloseManager, pipeVars, engineVars, writerVars
  <2>2. main \in {"close_reader", "close_manager"} /\ main' \in {"close_manager", "stop"}
    BY <1>8, AfterIs DEF CloseReader, CloseManager, Goes
  <2>3. QED
    BY <2>1, <2>2 DEF Started, Begun, Over
<1>9. CASE Stop
  <2>1. UNCHANGED <<opened, subs, collector, writer, engine, nextId, pub, log, since>>
    BY <1>9, BusParts DEF Stop, Bus!CancelContext, Bus!regVars, Bus!pubVars, pipeVars, engineVars, writerVars
  <2>2. main = "stop" /\ main' = "exited"
    BY <1>9, AfterIs DEF Stop, Goes
  <2>3. QED
    BY <2>1, <2>2 DEF Started, Begun, Over
<1>10. CASE CloseOnDone \/ ReadClosed
  <2>1. UNCHANGED <<main, opened, subs, writer, engine, nextId, pub, log, since>>
    BY <1>10, BusIdle, BusParts DEF CloseOnDone, ReadClosed, engineVars, writerVars
  <2>2. collector # "off" /\ collector' # "off"
    BY <1>10 DEF CloseOnDone, ReadClosed
  <2>3. QED
    BY <2>1, <2>2 DEF Started
<1>11. CASE Decode \/ Publish
  <2>1. UNCHANGED <<main, opened, subs, writer, engine, since>>
    BY <1>11 DEF Decode, Publish, Bus!NewEvent, Bus!Enqueue, Bus!Reject, Bus!GiveUp, Bus!regVars,
                 engineVars, writerVars
  <2>2. collector # "off" /\ collector' # "off"
    BY <1>11 DEF Decode, Publish
  <2>3. QED
    BY <2>1, <2>2 DEF Started
<1>12. CASE BusRuns
  <2>1. UNCHANGED <<main, collector, writer, engine>>
    BY <1>12 DEF BusRuns, pipeVars, engineVars, writerVars
  <2>2. UNCHANGED <<opened, subs, nextId, pub, log, since>>
    BY <1>12 DEF BusRuns, Bus!Run, Bus!Take, Bus!Exit, Bus!dispatch, Bus!Snapshot, Bus!Deliver,
                 Bus!Drop, Bus!Abort, Bus!regVars, Bus!pubVars
  <2>3. QED
    BY <2>1, <2>2, Same
<1>13. CASE Handle
  <2>1. UNCHANGED <<main, collector, writer, opened, subs, nextId, pub, log, since>>
    BY <1>13 DEF Handle, Bus!Receive, Bus!regVars, Bus!pubVars, pipeVars, writerVars
  <2>2. engine # "off"
    BY <1>13 DEF Handle
  <2>3. QED
    BY <2>1, <2>2 DEF Started
<1>14. CASE Send \/ EngineStops
  <2>1. UNCHANGED <<main, collector, writer, opened, subs, nextId, pub, log, since>>
    BY <1>14, BusIdle, BusParts DEF Send, EngineStops, pipeVars, writerVars
  <2>2. engine # "off"
    BY <1>14 DEF Send, EngineStops
  <2>3. QED
    BY <2>1, <2>2 DEF Started
<1>15. CASE SystemCalls
  BY <1>15, BusIdle, BusParts, Same DEF SystemCalls, pipeVars, engineVars, writerVars
<1>16. CASE Signal
  BY <1>16, Same DEF Signal, Bus!CancelContext, Bus!regVars, Bus!pubVars, pipeVars, engineVars, writerVars
<1>17. CASE UNCHANGED vars
  BY <1>17, BusParts, Same DEF vars, pipeVars, engineVars, writerVars
<1>18. QED
  BY <1>1, <1>2, <1>3, <1>4, <1>5, <1>6, <1>7, <1>8, <1>9, <1>10, <1>11, <1>12, <1>13, <1>14,
     <1>15, <1>16, <1>17
     DEF Next, Startup, Deferred, Writer, Collect, Correlate

LEMMA StartedAlways == Spec => []Started
<1>1. Init => Started
  BY DEF Init, Bus!Init, Bus!NoEvent, Started, Begun
<1>2. Started /\ BusP!Ground /\ [Next]_vars => Started'
  BY StartedNext
<1>3. QED
  BY <1>1, <1>2, BusAlways, PTL DEF Spec

-----------------------------------------------------------------------------
(* The loader and the kernel: what is attached, what a thread has left in  *)
(* recv_args, and what has been captured.                                  *)
LEMMA Points ==
  /\ Probes \in Seq(Hook) /\ Cgroups \in Seq(Hook)
  /\ DNSPoints \in Seq(Hook) /\ ProcessPoint \in Seq(Hook)
<1>1. Probes \in Seq(Hook)
  BY DEF Probes, Hook
<1>2. Cgroups \in Seq(Hook)
  BY DEF Cgroups, Hook
<1>3. DNSPoints \in Seq(Hook)
  BY DEF DNSPoints, Hook
<1>4. ProcessPoint \in Seq(Hook)
  BY DEF ProcessPoint, Hook
<1>5. QED
  BY <1>1, <1>2, <1>3, <1>4

LEMMA PlanTyped == Plan \in Seq(Hook)
<1>1. \A s, r \in Seq(Hook) : s \o r \in Seq(Hook)
  OBVIOUS
<1>2. <<>> \in Seq(Hook)
  OBVIOUS
<1>3. If(opts \cap {"TCP", "Redirect"} # {}, Probes) \in Seq(Hook)
  BY <1>2, Points DEF If
<1>4. If("Redirect" \in opts, Cgroups) \in Seq(Hook)
  BY <1>2, Points DEF If
<1>5. If("DNS" \in opts, DNSPoints) \in Seq(Hook)
  BY <1>2, Points DEF If
<1>6. If("Process" \in opts, ProcessPoint) \in Seq(Hook)
  BY <1>2, Points DEF If
<1>7. QED
  BY <1>1, <1>3, <1>4, <1>5, <1>6 DEF Plan

LEMMA LoadTyped ==
  ASSUME LoaderTypeOK, LoadAndAttach
  PROVE  LoaderTypeOK' /\ attached \subseteq attached'
<1>1. CASE Load \/ AttachFails \/ Attached
  BY <1>1 DEF Load, AttachFails, Attached, LoaderTypeOK
<1>2. CASE AttachNext
  <2>1. Plan[Len(local) + 1] \in Hook
    BY <1>2, PlanTyped DEF AttachNext, LoaderTypeOK
  <2>2. QED
    BY <1>2, <2>1 DEF AttachNext, LoaderTypeOK
<1>3. QED
  BY <1>1, <1>2 DEF LoadAndAttach

LEMMA CloseTyped ==
  ASSUME LoaderTypeOK, Close
  PROVE  LoaderTypeOK'
BY DEF Close, CloseLink, CloseObjects, LoaderTypeOK

(* What was read with the arguments of its own call.                       *)
Mine == [signal : BOOLEAN, own : {TRUE}]

(* The stages in which every program that has been attached still is, and  *)
(* those of them in which the reader may be open.                          *)
Undisturbed == Begun \cup {"unsubscribe", "close_reader"}
Readable    == Undisturbed \ {"load", "reader"}

(* Until the first link is closed recv_args has nothing before the entry   *)
(* program is attached, and after that nothing of an earlier call for a    *)
(* thread that is in one; so everything captured is read with its own      *)
(* arguments.  From then on a return may be read with the arguments of an  *)
(* earlier call, but the reader has been closed.  What is captured is in   *)
(* the ring or decoded, in the order of capture.                           *)
Observed ==
  /\ LoaderTypeOK /\ CaptureTypeOK
  /\ decoded \in Seq(Mine)
  /\ captured = decoded \o ring
  /\ Len(decoded) = nextId
  /\ readerOpen \in BOOLEAN /\ (readerOpen => main \in Readable)
  /\ main \in Undisturbed =>
       /\ ring \in Seq(Mine)
       /\ IF "sys_enter_recvfrom" \in attached
          THEN \A t \in Threads : call[t] # NoCall => recv_args[t] \in {NoCall, call[t]}
          ELSE \A t \in Threads : recv_args[t] = NoCall

(* Appending to the second of two sequences appends to the two together,   *)
(* and moving its head to the end of the first changes nothing.            *)
LEMMA Put ==
  \A S : \A d, r \in Seq(S), e \in S : d \o Append(r, e) = Append(d \o r, e)
BY BusP!AppendAfter, BusAssumed

LEMMA Moved ==
  \A S : \A d, r \in Seq(S) :
    r # <<>> => /\ Append(d, Head(r)) \o Tail(r) = d \o r
                /\ Head(r) \in S /\ Tail(r) \in Seq(S) /\ Append(d, Head(r)) \in Seq(S)
<1>1. \A S : \A d, r \in Seq(S) : r # <<>> => Append(d, Head(r)) \o Tail(r) = d \o r
  BY BusP!MoveHead, BusAssumed
<1>2. \A S : \A d, r \in Seq(S) :
        r # <<>> => Head(r) \in S /\ Tail(r) \in Seq(S) /\ Append(d, Head(r)) \in Seq(S)
  OBVIOUS
<1>3. QED
  BY <1>1, <1>2

LEMMA Submitted ==
  ASSUME Observed, NEW e \in Captured, Submit(e)
  PROVE  /\ ring' \in Seq(Captured) /\ Len(ring') <= RingSize
         /\ captured' \in Seq(Captured) /\ Len(captured') <= MaxCaptured
         /\ captured' = decoded \o ring'
         /\ ring \in Seq(Mine) /\ e \in Mine => ring' \in Seq(Mine)
<1>1. Mine \subseteq Captured
  BY DEF Mine, Captured
<1>2. ring \in Seq(Captured) /\ captured \in Seq(Captured) /\ captured = decoded \o ring
      /\ Len(ring) <= RingSize /\ Len(captured) <= MaxCaptured
  BY DEF Observed, CaptureTypeOK
<1>3. decoded \in Seq(Captured)
  <2>1. \A s \in Seq(Mine) : s \in Seq(Captured)
    BY <1>1
  <2>2. QED
    BY <2>1 DEF Observed
<1>4. CASE Len(ring) < RingSize
  <2>1. ring' = Append(ring, e) /\ captured' = Append(captured, e) /\ Len(captured) < MaxCaptured
    BY <1>4 DEF Submit
  <2>2. captured' = decoded \o ring'
    <3>1. decoded \o Append(ring, e) = Append(decoded \o ring, e)
      BY <1>2, <1>3, Put
    <3>2. QED
      BY <1>2, <2>1, <3>1, Zenon
  <2>3. Append(ring, e) \in Seq(Captured) /\ Len(Append(ring, e)) = Len(ring) + 1
    BY <1>2
  <2>4. Append(captured, e) \in Seq(Captured) /\ Len(Append(captured, e)) = Len(captured) + 1
    BY <1>2
  <2>5. ring \in Seq(Mine) /\ e \in Mine => Append(ring, e) \in Seq(Mine)
    OBVIOUS
  <2>6. QED
    BY <1>2, <1>4, <2>1, <2>2, <2>3, <2>4, <2>5, CaptureAssumption
<1>5. CASE ~(Len(ring) < RingSize)
  BY <1>2, <1>5 DEF Submit
<1>6. QED
  BY <1>4, <1>5

LEMMA ObservedKernel ==
  ASSUME Observed, SystemCalls
  PROVE  Observed'
<1>1. UNCHANGED <<main, nextId, decoded, readerOpen>>
  BY BusIdle, BusParts DEF SystemCalls, pipeVars
<1>2. Kernel
  BY DEF SystemCalls
<1>3. CASE \E t \in Threads : sys_enter_recvfrom(t)
  <2>1. PICK t \in Threads : sys_enter_recvfrom(t)
    BY <1>3
  <2>2. UNCHANGED <<ring, captured, opts, loading, local, links, attached>>
    BY <2>1 DEF sys_enter_recvfrom, loaderVars
  <2>3. /\ call[t] = NoCall /\ calls < MaxCalls /\ calls' = calls + 1
        /\ call' = [call EXCEPT ![t] = calls + 1]
        /\ IF "sys_enter_recvfrom" \in attached
           THEN recv_args' = [recv_args EXCEPT ![t] = calls + 1] ELSE recv_args' = recv_args
    BY <2>1 DEF sys_enter_recvfrom, StoreArgs
  <2>4. CaptureTypeOK'
    <3>1. calls \in Nat /\ calls + 1 \in 0 .. MaxCalls
      BY <2>3, CaptureAssumption DEF Observed, CaptureTypeOK
    <3>2. call' \in [Threads -> 0 .. MaxCalls]
      BY <2>3, <3>1 DEF Observed, CaptureTypeOK
    <3>3. recv_args' \in [Threads -> 0 .. MaxCalls]
      BY <2>3, <3>1 DEF Observed, CaptureTypeOK
    <3>4. QED
      BY <2>2, <2>3, <3>1, <3>2, <3>3 DEF Observed, CaptureTypeOK
  <2>5. LoaderTypeOK'
    BY <2>2 DEF Observed, LoaderTypeOK
  <2>6. ASSUME main \in Undisturbed
        PROVE  IF "sys_enter_recvfrom" \in attached
        THEN \A u \in Threads : call'[u] # NoCall => recv_args'[u] \in {NoCall, call'[u]}
        ELSE \A u \in Threads : recv_args'[u] = NoCall
    BY <1>1, <2>3, <2>6 DEF Observed, CaptureTypeOK
  <2>7. QED
    BY <1>1, <2>2, <2>4, <2>5, <2>6 DEF Observed
<1>4. CASE \E t \in Threads : sys_exit_recvfrom(t)
  <2>1. PICK t \in Threads : sys_exit_recvfrom(t)
    BY <1>4
  <2>2. UNCHANGED <<calls, opts, loading, local, links, attached>>
    BY <2>1 DEF sys_exit_recvfrom, loaderVars
  <2>3. /\ call[t] # NoCall /\ call' = [call EXCEPT ![t] = NoCall]
        /\ recv_args' = recv_args \/ recv_args' = [recv_args EXCEPT ![t] = NoCall]
    BY <2>1 DEF sys_exit_recvfrom
  <2>4. /\ ring' \in Seq(Captured) /\ Len(ring') <= RingSize
        /\ captured' \in Seq(Captured) /\ Len(captured') <= MaxCaptured
        /\ captured' = decoded \o ring'
        /\ main \in Undisturbed => ring' \in Seq(Mine)
    <3>1. CASE UNCHANGED <<ring, captured>>
      BY <3>1 DEF Observed, CaptureTypeOK
    <3>2. CASE ~UNCHANGED <<ring, captured>>
      <4>1. PICK s \in BOOLEAN : Submit([signal |-> s, own |-> recv_args[t] = call[t]])
        BY <2>1, <3>2 DEF sys_exit_recvfrom
      <4>2. recv_args[t] # NoCall
        BY <2>1, <3>2 DEF sys_exit_recvfrom
      <4>3. [signal |-> s, own |-> recv_args[t] = call[t]] \in Captured
        BY DEF Captured
      <4>4. ASSUME main \in Undisturbed
            PROVE  ring \in Seq(Mine) /\ [signal |-> s, own |-> recv_args[t] = call[t]] \in Mine
        <5>1. (recv_args[t] = call[t]) = TRUE
          BY <2>3, <4>2, <4>4 DEF Observed
        <5>2. QED
          BY <4>4, <5>1 DEF Mine, Observed
      <4>5. QED
        BY <4>1, <4>3, <4>4, Submitted
    <3>3. QED
      BY <3>1, <3>2
  <2>5. CaptureTypeOK'
    <3>1. NoCall \in 0 .. MaxCalls
      BY CaptureAssumption DEF NoCall
    <3>2. call' \in [Threads -> 0 .. MaxCalls]
      BY <2>3, <3>1 DEF Observed, CaptureTypeOK
    <3>3. recv_args' \in [Threads -> 0 .. MaxCalls]
      BY <2>3, <3>1 DEF Observed, CaptureTypeOK
    <3>4. QED
      BY <2>2, <2>4, <3>2, <3>3 DEF Observed, CaptureTypeOK
  <2>6. LoaderTypeOK'
    BY <2>2 DEF Observed, LoaderTypeOK
  <2>7. ASSUME main \in Undisturbed
        PROVE  IF "sys_enter_recvfrom" \in attached
        THEN \A u \in Threads : call'[u] # NoCall => recv_args'[u] \in {NoCall, call'[u]}
        ELSE \A u \in Threads : recv_args'[u] = NoCall
    BY <1>1, <2>3, <2>7 DEF Observed, CaptureTypeOK
  <2>8. QED
    BY <1>1, <2>2, <2>4, <2>5, <2>6, <2>7 DEF Observed
<1>5. CASE CaptureAtOnce
  <2>1. PICK s \in BOOLEAN : Submit([signal |-> s, own |-> TRUE])
    BY <1>5 DEF CaptureAtOnce
  <2>2. UNCHANGED <<recv_args, call, calls, opts, loading, local, links, attached>>
    BY <1>5 DEF CaptureAtOnce, loaderVars
  <2>3. [signal |-> s, own |-> TRUE] \in Mine \cap Captured
    BY DEF Mine, Captured
  <2>4. /\ ring' \in Seq(Captured) /\ Len(ring') <= RingSize
        /\ captured' \in Seq(Captured) /\ Len(captured') <= MaxCaptured
        /\ captured' = decoded \o ring'
        /\ main \in Undisturbed => ring' \in Seq(Mine)
    BY <2>1, <2>3, Submitted DEF Observed
  <2>5. CaptureTypeOK'
    BY <2>2, <2>4 DEF Observed, CaptureTypeOK
  <2>6. LoaderTypeOK'
    BY <2>2 DEF Observed, LoaderTypeOK
  <2>7. QED
    BY <1>1, <2>2, <2>4, <2>5, <2>6 DEF Observed
<1>6. QED
  BY <1>2, <1>3, <1>4, <1>5 DEF Kernel

LEMMA ObservedSame ==
  ASSUME Observed, UNCHANGED <<loaderVars, captureVars, decoded, nextId>>,
         main' \in Undisturbed => main \in Undisturbed,
         readerOpen' \in BOOLEAN, readerOpen' => main' \in Readable
  PROVE  Observed'
BY DEF Observed, loaderVars, captureVars, LoaderTypeOK, CaptureTypeOK

LEMMA ObservedLoader ==
  ASSUME Observed, Begin \/ CloseManager \/ Stop
  PROVE  Observed'
<1>1. UNCHANGED <<recv_args, call, calls, ring, captured, decoded, readerOpen>>
  BY DEF Begin, CloseManager, Stop, captureVars, pipeVars
<1>2. nextId' = nextId
  BY BusIdle, BusParts DEF Stop, Bus!CancelContext, Bus!pubVars
<1>3. /\ main \in {"load", "close_manager", "stop"}
      /\ LoaderTypeOK'
      /\ main' \in Undisturbed => main \in Undisturbed /\ attached \subseteq attached'
  <2>1. CASE Begin
    BY <2>1, LoadTyped DEF Begin, Undisturbed, Begun, Observed
  <2>2. CASE CloseManager
    BY <2>2, CloseTyped DEF CloseManager, Undisturbed, Begun, Observed
  <2>3. CASE Stop
    <3>1. main = "stop" /\ main' = "exited"
      BY <2>3, AfterIs DEF Stop, Goes
    <3>2. LoaderTypeOK'
      BY <2>3 DEF Stop, Observed, LoaderTypeOK
    <3>3. QED
      BY <3>1, <3>2 DEF Undisturbed, Begun
  <2>4. QED
    BY <2>1, <2>2, <2>3
<1>4. CaptureTypeOK'
  BY <1>1 DEF Observed, CaptureTypeOK
<1>5. readerOpen = FALSE
  BY <1>3 DEF Observed, Readable, Undisturbed, Begun
<1>6. ASSUME main' \in Undisturbed
      PROVE  /\ ring' \in Seq(Mine)
             /\ IF "sys_enter_recvfrom" \in attached'
                THEN \A t \in Threads : call'[t] # NoCall => recv_args'[t] \in {NoCall, call'[t]}
                ELSE \A t \in Threads : recv_args'[t] = NoCall
  BY <1>1, <1>3, <1>6 DEF Observed
<1>7. QED
  BY <1>1, <1>2, <1>3, <1>4, <1>5, <1>6 DEF Observed

LEMMA ObservedDecode ==
  ASSUME Observed, Decode
  PROVE  Observed'
<1>1. /\ ring # <<>> /\ decoded' = Append(decoded, Head(ring)) /\ ring' = Tail(ring)
      /\ nextId' = nextId + 1 /\ readerOpen
      /\ UNCHANGED <<main, opts, loading, local, links, attached, recv_args, call, calls, captured,
                     readerOpen>>
  BY DEF Decode, Bus!NewEvent, loaderVars
<1>2. ring \in Seq(Mine) /\ decoded \in Seq(Mine)
  BY <1>1 DEF Observed, Readable
<1>3. /\ decoded' \o ring' = decoded \o ring
      /\ ring' \in Seq(Mine) /\ decoded' \in Seq(Mine)
  <2>1. /\ Append(decoded, Head(ring)) \o Tail(ring) = decoded \o ring
        /\ Tail(ring) \in Seq(Mine) /\ Append(decoded, Head(ring)) \in Seq(Mine)
    <3>1. ring # <<>>
      BY <1>1
    <3>2. QED
      BY <1>2, <3>1, Moved
  <2>2. QED
    BY <1>1, <2>1, Zenon
<1>4. ring' \in Seq(Captured) /\ Len(ring') <= RingSize
  <2>1. ring \in Seq(Captured) /\ Len(ring) <= RingSize /\ ring # <<>>
    BY <1>1 DEF Observed, CaptureTypeOK
  <2>2. Tail(ring) \in Seq(Captured) /\ Len(Tail(ring)) <= RingSize
    BY <2>1, CaptureAssumption
  <2>3. QED
    BY <1>1, <2>2
<1>5. Len(decoded') = nextId'
  BY <1>1, <1>2 DEF Observed
<1>6. CaptureTypeOK'
  BY <1>1, <1>4 DEF Observed, CaptureTypeOK
<1>7. LoaderTypeOK'
  BY <1>1 DEF Observed, LoaderTypeOK
<1>8. captured' = decoded' \o ring'
  BY <1>1, <1>3 DEF Observed
<1>9. QED
  BY <1>1, <1>3, <1>5, <1>6, <1>7, <1>8 DEF Observed

LEMMA ObservedNext ==
  ASSUME Observed, Started, [Next]_vars
  PROVE  Observed'
<1>0. readerOpen \in BOOLEAN /\ (readerOpen => main \in Readable)
  BY DEF Observed
<1>1. CASE NewReader \/ CloseReader
  <2>1. UNCHANGED <<loaderVars, captureVars, decoded, nextId>>
    BY <1>1, BusIdle, BusParts DEF NewReader, CloseReader, kernelVars, pipeVars
  <2>2. \/ main = "reader" /\ main' = "subscribe" /\ readerOpen' = TRUE
        \/ main = "reader" /\ main' = "close_manager" /\ readerOpen' = readerOpen
        \/ main = "close_reader" /\ main' = "close_manager" /\ readerOpen' = FALSE
    BY <1>1, AfterIs DEF NewReader, CloseReader, Goes
  <2>3. main = "reader" => readerOpen = FALSE
    BY <1>0 DEF Readable
  <2>4. main' \in Undisturbed => main \in Undisturbed
    BY <2>2 DEF Undisturbed, Begun
  <2>5. main' = "subscribe" \/ readerOpen' = FALSE
    BY <2>2, <2>3
  <2>6. readerOpen' \in BOOLEAN
    BY <2>2, <2>3
  <2>7. readerOpen' => main' \in Readable
    BY <2>5 DEF Readable, Undisturbed, Begun
  <2>8. QED
    BY <2>1, <2>4, <2>6, <2>7, ObservedSame
<1>2. CASE \/ StartEngine \/ StartCollector \/ NewWriter \/ WriteNext \/ WriteLine \/ WriteFails
           \/ WriterStops
  <2>1. UNCHANGED <<loaderVars, captureVars, decoded, nextId, readerOpen>>
    BY <1>2, BusIdle, BusParts
       DEF StartEngine, StartCollector, NewWriter, WriteNext, WriteLine, WriteFails, WriterStops,
           kernelVars, pipeVars
  <2>2. \/ main' = main
        \/ main \in {"engine", "collector"} /\ main' \in Readable
        \/ main' = "unsubscribe" /\ (main = "writer" \/ writer \in {"write", "select"})
    BY <1>2, AfterIs
       DEF StartEngine, StartCollector, NewWriter, WriteNext, WriteLine, WriteFails, WriterStops, Goes,
           Readable, Undisturbed, Begun
  <2>3. main' \in Undisturbed => main \in Undisturbed
    BY <2>2 DEF Started, Undisturbed, Begun
  <2>4. readerOpen' \in BOOLEAN /\ (readerOpen' => main' \in Readable)
    BY <1>0, <2>1, <2>2 DEF Readable, Undisturbed, Begun
  <2>5. QED
    BY <2>1, <2>3, <2>4, ObservedSame
<1>3. CASE Subscribe \/ CancelSub
  <2>1. UNCHANGED <<loaderVars, captureVars, decoded, nextId, readerOpen>>
    BY <1>3 DEF Subscribe, CancelSub, Bus!Subscribe, Bus!Unsubscribe, Bus!pubVars, kernelVars, pipeVars
  <2>2. main \in {"subscribe", "unsubscribe"} /\ main' \in {"engine", "close_reader"}
    BY <1>3, AfterIs DEF Subscribe, CancelSub, Goes
  <2>3. main \in Undisturbed /\ main' \in Readable
    BY <2>2 DEF Readable, Undisturbed, Begun
  <2>4. QED
    BY <1>0, <2>1, <2>3, ObservedSame
<1>4. CASE CloseOnDone \/ ReadClosed \/ Send \/ EngineStops
  <2>1. UNCHANGED <<main, loaderVars, captureVars, decoded, nextId>> /\ readerOpen' \in {readerOpen, FALSE}
    BY <1>4, BusIdle, BusParts DEF CloseOnDone, ReadClosed, Send, EngineStops, kernelVars, pipeVars
  <2>2. readerOpen' \in BOOLEAN
    BY <1>0, <2>1
  <2>3. readerOpen' => main' \in Readable
    BY <1>0, <2>1
  <2>4. QED
    BY <2>1, <2>2, <2>3, ObservedSame
<1>5. CASE Publish
  <2>1. UNCHANGED <<main, loaderVars, captureVars, decoded, nextId, readerOpen>>
    BY <1>5 DEF Publish, Bus!Enqueue, Bus!Reject, Bus!GiveUp, kernelVars
  <2>2. QED
    BY <2>1, ObservedSame DEF Observed
<1>6. CASE BusRuns
  <2>1. nextId' = nextId
    BY <1>6 DEF BusRuns, Bus!Run, Bus!Take, Bus!Exit, Bus!dispatch, Bus!Snapshot, Bus!Deliver,
                Bus!Drop, Bus!Abort, Bus!pubVars
  <2>2. UNCHANGED <<main, loaderVars, captureVars, decoded, readerOpen>>
    BY <1>6 DEF BusRuns, kernelVars, pipeVars
  <2>3. QED
    BY <2>1, <2>2, ObservedSame DEF Observed
<1>7. CASE Handle \/ Signal
  <2>1. UNCHANGED <<main, loaderVars, captureVars, decoded, nextId, readerOpen>>
    BY <1>7 DEF Handle, Signal, Bus!Receive, Bus!CancelContext, Bus!pubVars, kernelVars, pipeVars
  <2>2. QED
    BY <2>1, ObservedSame DEF Observed
<1>8. CASE UNCHANGED vars
  <2>1. UNCHANGED <<main, loaderVars, captureVars, decoded, nextId, readerOpen>>
    BY <1>8, BusParts DEF vars, pipeVars
  <2>2. QED
    BY <2>1, ObservedSame DEF Observed
<1>9. QED
  BY <1>1, <1>2, <1>3, <1>4, <1>5, <1>6, <1>7, <1>8, ObservedLoader, ObservedDecode, ObservedKernel
     DEF Next, Startup, Deferred, Writer, Collect, Correlate

LEMMA ObservedInit == Init => Observed
<1> SUFFICES ASSUME Init PROVE Observed
  OBVIOUS
<1>1. PICK o \in Modules : LoaderInit(o)
  BY DEF Init
<1>2. LoaderTypeOK
  <2>1. o \in SUBSET Option
    BY PipeAssumption DEF Option
  <2>2. normalizeOptions(o) \in SUBSET Option
    BY <2>1 DEF normalizeOptions, Option
  <2>3. QED
    BY <1>1, <2>2 DEF LoaderInit, LoaderTypeOK
<1>3. CaptureTypeOK
  BY CaptureAssumption DEF Init, CaptureInit, CaptureTypeOK, NoCall
<1>4. /\ ring = <<>> /\ decoded = <<>> /\ captured = <<>> /\ nextId = 0
      /\ \A t \in Threads : recv_args[t] = NoCall /\ call[t] = NoCall
  BY DEF Init, CaptureInit, Bus!Init
<1>5. /\ captured = decoded \o ring /\ decoded \in Seq(Mine) /\ ring \in Seq(Mine)
      /\ Len(decoded) = 0 /\ readerOpen = FALSE
  BY <1>4 DEF Init
<1>6. QED
  BY <1>2, <1>3, <1>4, <1>5 DEF Observed

LEMMA ObservedAlways == Spec => []Observed
<1>1. Observed /\ Started /\ [Next]_vars => Observed'
  BY ObservedNext
<1>2. QED
  BY <1>1, ObservedInit, StartedAlways, PTL DEF Spec

(* A reply that is published was read with the arguments of the call that  *)
(* returned it: the programs at the entry and at the return of recvfrom    *)
(* (kscope.bpf.c) are attached one after the other (loader.go), and what a *)
(* thread leaves in recv_args in between is overwritten before a return is *)
(* read; they are detached one after the other too, but only after the     *)
(* reader has been closed (the deferred calls of observe.go).              *)
THEOREM Arguments == Spec => []OwnArgs
<1>1. Observed => OwnArgs
  <2> SUFFICES ASSUME Observed, NEW k \in 1 .. Len(decoded) PROVE decoded[k].own
    BY DEF OwnArgs
  <2>1. decoded[k] \in Mine
    BY DEF Observed
  <2>2. decoded[k].own = TRUE
    BY <2>1 DEF Mine
  <2>3. QED
    BY <2>2
<1>2. QED
  BY <1>1, ObservedAlways, PTL

-----------------------------------------------------------------------------
(* What the channels and the goroutines between them hold: numbers of      *)
(* events there have been, one in the hand of whoever is about to send it  *)
(* and, as long as the command serves, none in anybody else's.             *)
Up == ~done /\ main \in Begun

InBus == /\ in \in Seq(1 .. nextId) /\ ch[me] \in Seq(1 .. nextId)
         /\ evt \in 0 .. nextId /\ pub["collector"] \in 0 .. nextId
         /\ pc \in {"select", "exit"} => evt = 0

AtCollector == /\ readerOpen \in BOOLEAN
               /\ collector \in {"off", "read", "publish", "returned"}
               /\ (collector = "publish") = (pub["collector"] # 0)

AtEngine == /\ engine \in {"off", "select", "send", "returned"}
            /\ out \in Seq(1 .. nextId) /\ Len(out) <= EngineBuffer
            /\ sig \in 0 .. nextId /\ (engine = "send" => sig # 0)
            /\ Up => engine = "send" \/ sig = 0

AtWriter == /\ writer \in {"off", "select", "write", "returned"}
            /\ line \in 0 .. nextId /\ (writer = "write" => line # 0)
            /\ passed \in Seq(1 .. nextId) /\ lost \in BOOLEAN
            /\ Up => writer = "write" \/ line = 0

Carried == InBus /\ AtCollector /\ AtEngine /\ AtWriter

LEMMA ServingUp == Serving <=> Up
BY StatementsAre DEF Serving, Up

(* Nobody comes back: not from done, and main not from its way out.        *)
LEMMA UpStays ==
  ASSUME Started, [Next]_vars, Up'
  PROVE  Up
<1>1. done => done'
  <2>1. CASE UNCHANGED busVars
    BY <2>1 DEF busVars
  <2>2. CASE BusP!Next
    BY <2>2 DEF BusP!Next, BusP!NewEvent, BusP!Publish, BusP!Enqueue, BusP!Reject, BusP!GiveUp,
                BusP!Subscribe, BusP!Unsubscribe, BusP!Receive, BusP!Run, BusP!Take, BusP!Exit,
                BusP!dispatch, BusP!Snapshot, BusP!Deliver, BusP!Drop, BusP!Abort, BusP!CancelContext
  <2>3. QED
    BY <2>1, <2>2, BusStep
<1>2. main \in Over => main' \in Over
  BY AfterIs
     DEF Next, Startup, Deferred, Writer, Collect, Correlate, Goes, Begin, NewReader, Subscribe,
         StartEngine, StartCollector, NewWriter, CancelSub, CloseReader, CloseManager, Stop,
         WriteNext, WriteLine, WriteFails, WriterStops, CloseOnDone, Decode, Publish, ReadClosed,
         BusRuns, Handle, Send, EngineStops, SystemCalls, Signal, vars, Over
<1>3. QED
  BY <1>1, <1>2 DEF Up, Started, Begun, Over

(* A sequence of numbers so far is one of numbers from then on.            *)
LEMMA Wider ==
  ASSUME NEW n \in Nat
  PROVE  /\ \A s \in Seq(1 .. n) : s \in Seq(1 .. n + 1)
         /\ \A k \in 0 .. n : k \in 0 .. n + 1
<1>1. ASSUME NEW s \in Seq(1 .. n) PROVE s \in Seq(1 .. n + 1)
  OBVIOUS
<1>2. QED
  BY <1>1

LEMMA EngineSame ==
  ASSUME AtEngine, UNCHANGED <<engine, out, sig>>, Up' => Up,
         nextId \in Nat, nextId' \in {nextId, nextId + 1}
  PROVE  AtEngine'
<1>1. out \in Seq(1 .. nextId') /\ sig \in 0 .. nextId'
  BY Wider DEF AtEngine
<1>2. QED
  BY <1>1 DEF AtEngine

LEMMA WriterSame ==
  ASSUME AtWriter, UNCHANGED <<writer, line, passed, lost>>, Up' => Up,
         nextId \in Nat, nextId' \in {nextId, nextId + 1}
  PROVE  AtWriter'
<1>1. passed \in Seq(1 .. nextId') /\ line \in 0 .. nextId'
  BY Wider DEF AtWriter
<1>2. QED
  BY <1>1 DEF AtWriter

LEMMA BusSame ==
  ASSUME InBus, UNCHANGED <<in, ch, evt, pub, pc, nextId>>
  PROVE  InBus'
BY DEF InBus

(* The steps of main that hand nothing on.                                 *)
LEMMA CarriedMain ==
  ASSUME Carried, Started, nextId \in Nat, [Next]_vars,
         \/ Begin \/ NewReader \/ Subscribe \/ StartEngine \/ StartCollector \/ NewWriter
         \/ CancelSub \/ CloseReader \/ CloseManager \/ Stop \/ SystemCalls \/ Signal
         \/ CloseOnDone \/ ReadClosed \/ WriteFails \/ WriterStops \/ EngineStops
         \/ UNCHANGED vars
  PROVE  Carried'
<1>1. UNCHANGED <<in, ch, evt, pub, pc, nextId>>
  BY BusIdle, BusParts
     DEF vars, Subscribe, CancelSub, Stop, Signal, Bus!Subscribe, Bus!Unsubscribe, Bus!CancelContext,
         Bus!runVars, Bus!queueVars, Bus!pubVars
<1>2. InBus'
  BY <1>1, BusSame DEF Carried
<1>3. AtCollector'
  <2>1. \/ collector' = collector
        \/ collector = "off" /\ collector' = "read"
        \/ collector = "read" /\ collector' = "returned"
    <3>1. CASE StartCollector
      BY <3>1 DEF StartCollector, Goes, Started, Begun
    <3>2. CASE ReadClosed
      BY <3>2 DEF ReadClosed
    <3>3. CASE Begin \/ NewReader \/ Subscribe \/ StartEngine \/ NewWriter \/ CancelSub \/ CloseReader
      BY <3>3 DEF Begin, NewReader, Subscribe, StartEngine, NewWriter, CancelSub, CloseReader, pipeVars
    <3>4. CASE CloseManager \/ Stop \/ SystemCalls \/ Signal \/ CloseOnDone \/ WriteFails
               \/ WriterStops \/ EngineStops
      BY <3>4 DEF CloseManager, Stop, SystemCalls, Signal, CloseOnDone, WriteFails, WriterStops,
                  EngineStops, pipeVars
    <3>5. CASE UNCHANGED vars
      BY <3>5 DEF vars, pipeVars
    <3>6. QED
      BY <3>1, <3>2, <3>3, <3>4, <3>5
  <2>2. readerOpen' \in BOOLEAN
    BY DEF vars, Begin, NewReader, Subscribe, StartEngine, StartCollector, NewWriter, CancelSub,
           CloseReader, CloseManager, Stop, SystemCalls, Signal, CloseOnDone, ReadClosed, WriteFails,
           WriterStops, EngineStops, pipeVars, Carried, AtCollector
  <2>3. QED
    BY <1>1, <2>1, <2>2 DEF Carried, AtCollector, Started
<1>4. AtEngine'
  <2>1. CASE UNCHANGED <<engine, out, sig>>
    BY <2>1, <1>1, UpStays, EngineSame DEF Carried
  <2>2. CASE StartEngine
    <3>1. engine = "off" /\ engine' = "select" /\ UNCHANGED <<out, sig>>
      BY <2>2 DEF StartEngine, Goes, Started, Begun
    <3>2. QED
      BY <3>1, <1>1, UpStays DEF Carried, AtEngine
  <2>3. CASE EngineStops
    <3>1. engine' = "returned" /\ UNCHANGED <<out, sig>> /\ ~Up
      BY <2>3 DEF EngineStops, Up
    <3>2. QED
      BY <3>1, <1>1, UpStays DEF Carried, AtEngine
  <2>4. QED
    BY <2>1, <2>2, <2>3
       DEF vars, Begin, NewReader, Subscribe, StartCollector, NewWriter, CancelSub, CloseReader,
           CloseManager, Stop, SystemCalls, Signal, CloseOnDone, ReadClosed, WriteFails, WriterStops,
           engineVars
<1>5. AtWriter'
  <2>1. CASE UNCHANGED <<writer, line, passed, lost>>
    BY <2>1, <1>1, UpStays, WriterSame DEF Carried
  <2>2. CASE NewWriter
    <3>1. writer = "off" /\ writer' \in {"select", "returned"} /\ UNCHANGED <<line, passed, lost>>
      BY <2>2 DEF NewWriter
    <3>2. QED
      BY <3>1, <1>1, UpStays DEF Carried, AtWriter
  <2>3. CASE WriteFails \/ WriterStops
    <3>1. writer' = "returned" /\ UNCHANGED <<line, passed, lost>> /\ ~Up'
      BY <2>3, AfterIs DEF WriteFails, WriterStops, Up, Begun
    <3>2. QED
      BY <3>1, <1>1 DEF Carried, AtWriter
  <2>4. QED
    BY <2>1, <2>2, <2>3
       DEF vars, Begin, NewReader, Subscribe, StartEngine, StartCollector, CancelSub, CloseReader,
           CloseManager, Stop, SystemCalls, Signal, CloseOnDone, ReadClosed, EngineStops,
           writerVars
<1>6. QED
  BY <1>2, <1>3, <1>4, <1>5 DEF Carried

(* The steps that hand an event on.                                        *)
LEMMA CarriedDecode ==
  ASSUME Carried, nextId \in Nat, Decode, Up' => Up, BusP!TypeOK
  PROVE  Carried'
<1>1. /\ collector' = "publish" /\ nextId' = nextId + 1 /\ pub' = [pub EXCEPT !["collector"] = nextId + 1]
      /\ UNCHANGED <<in, ch, evt, pc, readerOpen, engine, sig, out, writer, line, passed, lost>>
  BY DEF Decode, Bus!NewEvent, Bus!runVars, Bus!queueVars, engineVars, writerVars
<1>2. pub'["collector"] = nextId + 1
  BY <1>1 DEF BusP!TypeOK
<1>3. InBus'
  BY <1>1, <1>2, Wider DEF Carried, InBus
<1>4. AtCollector'
  BY <1>1, <1>2 DEF Carried, AtCollector
<1>5. QED
  BY <1>1, <1>3, <1>4, EngineSame, WriterSame DEF Carried

LEMMA CarriedPublish ==
  ASSUME Carried, nextId \in Nat, Publish, Up' => Up, BusP!TypeOK
  PROVE  Carried'
<1>1. /\ collector' # "publish" /\ collector' \in {"read", "returned"}
      /\ pub' = [pub EXCEPT !["collector"] = 0]
      /\ pub["collector"] # 0 /\ in' \in {in, Append(in, pub["collector"])}
      /\ UNCHANGED <<nextId, ch, evt, pc, readerOpen, engine, sig, out, writer, line, passed, lost>>
  BY DEF Publish, Bus!Enqueue, Bus!Reject, Bus!GiveUp, Bus!NoEvent, Bus!runVars, Bus!queueVars,
         engineVars, writerVars
<1>2. pub'["collector"] = 0
  BY <1>1 DEF BusP!TypeOK
<1>3. in' \in Seq(1 .. nextId)
  <2>1. in \in Seq(1 .. nextId) /\ pub["collector"] \in 1 .. nextId
    BY <1>1 DEF Carried, InBus
  <2>2. Append(in, pub["collector"]) \in Seq(1 .. nextId)
    BY <2>1
  <2>3. QED
    BY <1>1, <2>1, <2>2
<1>4. InBus'
  BY <1>1, <1>2, <1>3 DEF Carried, InBus
<1>5. AtCollector'
  BY <1>1, <1>2 DEF Carried, AtCollector
<1>6. QED
  BY <1>1, <1>4, <1>5, EngineSame, WriterSame DEF Carried

LEMMA CarriedRun ==
  ASSUME Carried, nextId \in Nat, BusRuns, Up' => Up, BusP!TypeOK, BusP!Holding
  PROVE  Carried'
<1>1. UNCHANGED <<pub, nextId, collector, readerOpen, engine, sig, out, writer, line, passed, lost>>
  BY DEF BusRuns, Bus!Run, Bus!Take, Bus!Exit, Bus!dispatch, Bus!Snapshot, Bus!Deliver,
         Bus!Drop, Bus!Abort, Bus!pubVars, pipeVars, engineVars, writerVars
<1>2. InBus'
  <2>1. CASE Bus!Take
    <3>1. /\ in # <<>> /\ evt' = Head(in) /\ in' = Tail(in) /\ pc' = "snapshot" /\ ch' = ch
      BY <2>1 DEF Bus!Take, Bus!queueVars
    <3>2. Head(in) \in 1 .. nextId /\ Tail(in) \in Seq(1 .. nextId)
      BY <3>1 DEF Carried, InBus
    <3>3. QED
      BY <1>1, <3>1, <3>2 DEF Carried, InBus
  <2>2. CASE Bus!Exit
    BY <1>1, <2>2 DEF Bus!Exit, Bus!queueVars, Carried, InBus
  <2>3. CASE Bus!Snapshot \/ Bus!Drop \/ Bus!Abort
    <3>1. in' = in /\ ch' = ch
      BY <2>3 DEF Bus!Snapshot, Bus!Drop, Bus!Abort, Bus!queueVars
    <3>2. \/ pc' = "select" /\ evt' = 0
          \/ pc' = "dispatch" /\ evt' = evt
      BY <2>3 DEF Bus!Snapshot, Bus!Drop, Bus!Abort, Bus!GoOn, Bus!NoEvent
    <3>3. QED
      BY <1>1, <3>1, <3>2 DEF Carried, InBus
  <2>4. CASE Bus!Deliver
    <3>1. in' = in /\ ch' = [ch EXCEPT ![cur] = Append(@, evt)] /\ pc = "dispatch"
      BY <2>4 DEF Bus!Deliver
    <3>2. \/ pc' = "select" /\ evt' = 0
          \/ pc' = "dispatch" /\ evt' = evt
      BY <2>4 DEF Bus!Deliver, Bus!GoOn, Bus!NoEvent
    <3>3. cur = me /\ evt \in 1 .. nextId
      BY <3>1 DEF BusP!Holding, BusP!TypeOK, BusP!Event, Carried, InBus
    <3>4. ch'[me] = Append(ch[me], evt)
      BY <3>1, <3>3 DEF BusP!TypeOK
    <3>5. ch'[me] \in Seq(1 .. nextId)
      BY <3>3, <3>4 DEF Carried, InBus
    <3>6. QED
      BY <1>1, <3>1, <3>2, <3>5 DEF Carried, InBus
  <2>5. QED
    BY <2>1, <2>2, <2>3, <2>4 DEF BusRuns, Bus!Run, Bus!dispatch
<1>3. AtCollector'
  BY <1>1 DEF Carried, AtCollector
<1>4. QED
  BY <1>1, <1>2, <1>3, EngineSame, WriterSame DEF Carried

LEMMA CarriedHandle ==
  ASSUME Carried, nextId \in Nat, Handle, Up' => Up, BusP!TypeOK
  PROVE  Carried'
<1>1. /\ ch[me] # <<>> /\ ch' = [ch EXCEPT ![me] = Tail(@)] /\ engine = "select"
      /\ \/ engine' = "send" /\ sig' = Head(ch[me])
         \/ UNCHANGED <<engine, sig>>
      /\ UNCHANGED <<in, evt, pub, pc, nextId, collector, readerOpen, out, writer, line, passed, lost>>
  BY DEF Handle, Bus!Receive, Bus!runVars, Bus!pubVars, pipeVars, writerVars
<1>2. Head(ch[me]) \in 1 .. nextId /\ Tail(ch[me]) \in Seq(1 .. nextId)
  <2>1. ch[me] \in Seq(1 .. nextId) /\ ch[me] # <<>>
    BY <1>1 DEF Carried, InBus
  <2>2. \A s \in Seq(1 .. nextId) :
          s # <<>> => Head(s) \in 1 .. nextId /\ Tail(s) \in Seq(1 .. nextId)
    OBVIOUS
  <2>3. QED
    BY <2>1, <2>2, Zenon
<1>3. ch'[me] = Tail(ch[me])
  BY <1>1 DEF BusP!TypeOK
<1>4. InBus'
  BY <1>1, <1>2, <1>3 DEF Carried, InBus
<1>5. AtEngine'
  BY <1>1, <1>2 DEF Carried, AtEngine
<1>6. AtCollector'
  BY <1>1 DEF Carried, AtCollector
<1>7. QED
  BY <1>1, <1>4, <1>5, <1>6, WriterSame DEF Carried

LEMMA CarriedSend ==
  ASSUME Carried, nextId \in Nat, Send \/ WriteNext \/ WriteLine, Up' => Up
  PROVE  Carried'
<1>1. UNCHANGED <<in, ch, evt, pub, pc, nextId, collector, readerOpen>>
  BY BusIdle, BusParts DEF Send, WriteNext, WriteLine, pipeVars
<1>2. InBus' /\ AtCollector'
  BY <1>1, BusSame DEF Carried, AtCollector
<1>3. CASE Send
  <2>1. /\ engine = "send" /\ engine' = "select" /\ sig' = 0 /\ out' = Append(out, sig)
        /\ Len(out) < EngineBuffer
    BY <1>3 DEF Send
  <2>2. out \in Seq(1 .. nextId) /\ sig \in 1 .. nextId
    BY <2>1 DEF Carried, AtEngine
  <2>3. out' \in Seq(1 .. nextId) /\ Len(out') <= EngineBuffer
    BY <2>1, <2>2, BusAssumed
  <2>4. AtEngine'
    BY <1>1, <2>1, <2>3 DEF AtEngine
  <2>5. AtWriter'
    BY <1>1, <1>3, WriterSame DEF Carried, Send, writerVars
  <2>6. QED
    BY <1>2, <2>4, <2>5 DEF Carried
<1>4. CASE WriteNext
  <2>1. /\ writer' = "write" /\ line' = Head(out) /\ out' = Tail(out) /\ out # <<>>
        /\ UNCHANGED <<engine, sig, passed, lost>>
    BY <1>4 DEF WriteNext
  <2>2. out \in Seq(1 .. nextId) /\ Len(out) <= EngineBuffer
    BY DEF Carried, AtEngine
  <2>3. Head(out) \in 1 .. nextId /\ Tail(out) \in Seq(1 .. nextId) /\ Len(Tail(out)) <= EngineBuffer
    BY <2>1, <2>2, BusAssumed
  <2>4. AtEngine'
    BY <1>1, <2>1, <2>3 DEF Carried, AtEngine
  <2>5. AtWriter'
    BY <1>1, <2>1, <2>3 DEF Carried, AtWriter
  <2>6. QED
    BY <1>2, <2>4, <2>5 DEF Carried
<1>5. CASE WriteLine
  <2>1. /\ writer = "write" /\ writer' = "select" /\ line' = 0 /\ passed' = Append(passed, line)
        /\ UNCHANGED <<engine, sig, out>>
    BY <1>5 DEF WriteLine, engineVars
  <2>2. line \in 1 .. nextId /\ passed \in Seq(1 .. nextId)
    BY <2>1 DEF Carried, AtWriter
  <2>3. passed' \in Seq(1 .. nextId)
    BY <2>1, <2>2
  <2>4. lost' \in BOOLEAN
    <3>1. lost' = lost \/ lost' = TRUE
      BY <1>5 DEF WriteLine
    <3>2. lost \in BOOLEAN
      BY DEF Carried, AtWriter
    <3>3. QED
      BY <3>1, <3>2
  <2>5. AtWriter'
    BY <1>1, <2>1, <2>3, <2>4 DEF AtWriter
  <2>6. AtEngine'
    BY <1>1, <2>1, EngineSame DEF Carried
  <2>7. QED
    BY <1>2, <2>5, <2>6 DEF Carried
<1>6. QED
  BY <1>3, <1>4, <1>5

LEMMA CarriedAlways == Spec => []Carried
<1>1. Init => Carried
  <2> SUFFICES ASSUME Init PROVE Carried
    OBVIOUS
  <2>1. /\ in = <<>> /\ ch = [s \in {me} |-> <<>>] /\ pub = [p \in {"collector"} |-> 0]
        /\ nextId = 0 /\ pc = "select" /\ evt = 0
    BY DEF Init, Bus!Init, Bus!NoEvent
  <2>2. ch[me] = <<>> /\ pub["collector"] = 0
    BY <2>1
  <2>3. InBus
    BY <2>1, <2>2 DEF InBus
  <2>4. AtCollector
    BY <2>2 DEF Init, AtCollector
  <2>5. AtEngine
    BY <2>1, BusAssumed DEF Init, AtEngine
  <2>6. lost \in BOOLEAN
    BY DEF Init
  <2>7. AtWriter
    BY <2>1, <2>6 DEF Init, AtWriter
  <2>8. QED
    BY <2>3, <2>4, <2>5, <2>7 DEF Carried
<1>2. Carried /\ Started /\ BusP!TypeOK /\ BusP!Holding /\ [Next]_vars => Carried'
  <2> SUFFICES ASSUME Carried, Started, BusP!TypeOK, BusP!Holding, [Next]_vars PROVE Carried'
    OBVIOUS
  <2>1. nextId \in Nat
    BY DEF BusP!TypeOK
  <2>2. Up' => Up
    BY UpStays
  <2>3. QED
    BY <2>1, <2>2, CarriedMain, CarriedDecode, CarriedPublish, CarriedRun, CarriedHandle, CarriedSend
       DEF Next, Startup, Deferred, Writer, Collect, Correlate
<1>3. QED
  BY <1>1, <1>2, StartedAlways, BusAlways, PTL DEF Spec

(* Every variable of the command holds what it is declared to hold: no     *)
(* buffer is overrun, and nobody passes on the number of an event that     *)
(* there has not been, or nothing.                                         *)
THEOREM Typing == Spec => []TypeOK
<1>1. BusP!TypeOK = Bus!TypeOK
  BY DEF BusP!TypeOK, Bus!TypeOK, BusP!Event, Bus!Event, BusP!NoEvent, Bus!NoEvent
<1>2. main \in Begun \cup Over => main \in {Stages[k] : k \in 1 .. Len(Stages)}
  BY StagesAre DEF Begun, Over
<1>3. Mine \subseteq Captured
  BY DEF Mine, Captured
<1>4. Carried /\ Started /\ Observed /\ BusP!TypeOK => TypeOK
  BY <1>1, <1>2, <1>3
     DEF Carried, InBus, AtCollector, AtEngine, AtWriter, Started, Observed, TypeOK
<1>5. QED
  BY <1>4, CarriedAlways, StartedAlways, ObservedAlways, BusAlways, PTL

-----------------------------------------------------------------------------
(* What joining sequences of numbers comes to.                             *)
LEMMA Numbers == \A s \in Seq(BusP!Event) : s \in Seq(Nat)
<1>1. ASSUME NEW S, S \subseteq Nat, NEW s \in Seq(S) PROVE s \in Seq(Nat)
  <2>1. Len(s) \in Nat /\ s \in [1 .. Len(s) -> S]
    BY <1>1, LenProperties
  <2>2. s \in [1 .. Len(s) -> Nat]
    BY <1>1, <2>1
  <2>3. QED
    BY <2>1, <2>2, SeqDef
<1>2. BusP!Event \subseteq Nat
  BY BusAssumed DEF BusP!Event
<1>3. QED
  BY <1>1, <1>2

LEMMA Halves ==
  \A s, r \in Seq(Nat) :
    /\ s \o r \in Seq(Nat) /\ Len(s \o r) = Len(s) + Len(r) /\ Len(s) \in Nat /\ Len(r) \in Nat
    /\ \A k \in 1 .. Len(s) : (s \o r)[k] = s[k]
    /\ \A k \in 1 .. Len(r) : (s \o r)[Len(s) + k] = r[k]
OBVIOUS

(* The sequence s counts from a, which it has not, to b.                   *)
Counts(s, a, b) == /\ s \in Seq(Nat) /\ a \in Nat /\ a + Len(s) = b
                   /\ \A k \in 1 .. Len(s) : s[k] = a + k

LEMMA CountsOn ==
  \A s, t, a, b, c : Counts(s, a, b) /\ Counts(t, b, c) => Counts(s \o t, a, c)
<1> SUFFICES ASSUME NEW s, NEW t, NEW a, NEW b, NEW c, Counts(s, a, b), Counts(t, b, c)
             PROVE  Counts(s \o t, a, c)
  OBVIOUS
<1>1. /\ s \in Seq(Nat) /\ t \in Seq(Nat) /\ a \in Nat /\ a + Len(s) = b /\ b + Len(t) = c
      /\ \A k \in 1 .. Len(s) : s[k] = a + k
      /\ \A k \in 1 .. Len(t) : t[k] = b + k
  BY DEF Counts
<1>2. s \o t \in Seq(Nat) /\ Len(s \o t) = Len(s) + Len(t)
  BY <1>1
<1>3. ASSUME NEW k \in 1 .. Len(s \o t) PROVE (s \o t)[k] = a + k
  <2>1. CASE k \in 1 .. Len(s)
    BY <1>1, <2>1
  <2>2. CASE k \notin 1 .. Len(s)
    <3>1. k - Len(s) \in 1 .. Len(t) /\ (s \o t)[k] = t[k - Len(s)]
      BY <1>1, <1>2, <2>2
    <3>2. t[k - Len(s)] = b + (k - Len(s))
      BY <1>1, <3>1
    <3>3. Len(s) \in Nat /\ k \in Nat
      BY <1>1, <1>2
    <3>4. QED
      BY <1>1, <3>1, <3>2, <3>3
  <2>3. QED
    BY <2>1, <2>2
<1>4. a + Len(s \o t) = c
  BY <1>1, <1>2
<1>5. QED
  BY <1>1, <1>2, <1>3, <1>4 DEF Counts

LEMMA CountsOne ==
  \A a \in Nat : \A n : n \in {0, a + 1} => Counts(One(n), a, IF n = 0 THEN a ELSE a + 1)
<1> SUFFICES ASSUME NEW a \in Nat, NEW n \in {0, a + 1}
             PROVE  Counts(One(n), a, IF n = 0 THEN a ELSE a + 1)
  OBVIOUS
<1>1. CASE n = 0
  BY <1>1 DEF One, Counts
<1>2. CASE n # 0
  <2>1. One(n) = <<a + 1>>
    BY <1>2 DEF One
  <2>2. QED
    BY <1>2, <2>1 DEF Counts
<1>3. QED
  BY <1>1, <1>2

(* Until the command is told to stop the log has every event the collector *)
(* has made but the one it is publishing.                                  *)
Numbered ==
  (~DropOnFull /\ ~done) =>
    /\ \A i \in 1 .. Len(log) : log[i] = i
    /\ pub["collector"] \in {0, nextId}
    /\ nextId = IF pub["collector"] = 0 THEN Len(log) ELSE Len(log) + 1

LEMMA NumberedNext ==
  ASSUME Numbered, BusP!TypeOK, [Next]_vars
  PROVE  Numbered'
<1> SUFFICES ASSUME ~DropOnFull, ~done' PROVE Numbered'
  BY DEF Numbered
<1>1. log \in Seq(Nat) /\ nextId \in Nat /\ pub \in [{"collector"} -> Nat]
  <2>1. BusP!Event \subseteq Nat /\ BusP!NoEvent = 0
    BY DEF BusP!Event, BusP!NoEvent
  <2>2. QED
    <3>1. log \in Seq(BusP!Event) /\ nextId \in 0 .. MaxCaptured
          /\ pub \in [{"collector"} -> BusP!Event \cup {BusP!NoEvent}]
      BY DEF BusP!TypeOK
    <3>2. BusP!Event \cup {BusP!NoEvent} \subseteq Nat
      BY <2>1
    <3>3. QED
      BY <3>1, <3>2, Numbers
<1>2. CASE UNCHANGED <<log, pub, nextId, done>>
  BY <1>2 DEF Numbered
<1>3. CASE BusP!NewEvent("collector")
  <2>1. /\ ~done /\ log' = log /\ nextId' = nextId + 1 /\ pub["collector"] = 0
        /\ pub' = [pub EXCEPT !["collector"] = nextId + 1]
    BY <1>3 DEF BusP!NewEvent, BusP!NoEvent
  <2>2. pub'["collector"] = nextId + 1
    BY <1>1, <2>1
  <2>3. QED
    BY <1>1, <2>1, <2>2 DEF Numbered
<1>4. CASE BusP!Enqueue("collector")
  <2>1. /\ ~done /\ nextId' = nextId /\ pub["collector"] # 0 /\ log' = Append(log, pub["collector"])
        /\ pub' = [pub EXCEPT !["collector"] = 0]
    BY <1>4 DEF BusP!Enqueue, BusP!NoEvent
  <2>2. pub'["collector"] = 0
    BY <1>1, <2>1
  <2>3. pub["collector"] = Len(log) + 1 /\ nextId = Len(log) + 1
    BY <1>1, <2>1 DEF Numbered
  <2>4. /\ Len(log') = Len(log) + 1 /\ log'[Len(log) + 1] = Len(log) + 1
        /\ \A i \in 1 .. Len(log) : log'[i] = log[i]
    BY <1>1, <2>1, <2>3
  <2>5. \A i \in 1 .. Len(log') : log'[i] = i
    BY <1>1, <2>1, <2>4 DEF Numbered
  <2>6. QED
    BY <2>1, <2>2, <2>3, <2>4, <2>5 DEF Numbered
<1>5. CASE BusP!Next /\ ~BusP!NewEvent("collector") /\ ~BusP!Enqueue("collector")
  <2>1. ~BusP!GiveUp("collector") /\ ~BusP!Reject("collector") /\ ~BusP!CancelContext
    BY DEF BusP!GiveUp, BusP!Reject, BusP!CancelContext
  <2>2. UNCHANGED <<log, pub, nextId, done>>
    BY <1>5, <2>1
       DEF BusP!Next, BusP!Publish, BusP!Subscribe, BusP!Unsubscribe, BusP!Receive, BusP!Run,
           BusP!Take, BusP!Exit, BusP!dispatch, BusP!Snapshot, BusP!Deliver, BusP!Drop, BusP!Abort,
           BusP!pubVars
  <2>3. QED
    BY <1>2, <2>2
<1>6. QED
  BY <1>2, <1>3, <1>4, <1>5, BusStep DEF busVars

LEMMA NumberedAlways == Spec => []Numbered
<1>1. Init => Numbered
  BY DEF Init, Bus!Init, Bus!NoEvent, Numbered
<1>2. Numbered /\ BusP!TypeOK /\ [Next]_vars => Numbered'
  BY NumberedNext
<1>3. QED
  BY <1>1, <1>2, BusAlways, PTL DEF Spec

(* What is on its way to the engine are the events from the first it has   *)
(* not received to the last there has been: the feed of Bus, what Run      *)
(* holds, what waits in its channel and what the collector is publishing   *)
(* join without a gap.                                                     *)
LEMMA BusCounts ==
  ASSUME ~DropOnFull, Up, Numbered, Started, Carried, BusP!Ground, BusP!Lossless
  PROVE  /\ Counts(InTheBus, Len(recv[me]), nextId)
         /\ \E n \in Nat : Counts(ch[me], Len(recv[me]), n) /\ n <= nextId
<1> DEFINE R == Len(recv[me])
           P == BusP!Offered(me)
           h == IF evt = 0 THEN 0 ELSE 1
<1>1. /\ in \in Seq(Nat) /\ log \in Seq(Nat) /\ recv[me] \in Seq(Nat) /\ ch[me] \in Seq(Nat)
      /\ nextId \in Nat /\ sent \in Nat /\ evt \in Nat /\ left \subseteq {me}
      /\ pub["collector"] \in Nat /\ pc \in {"select", "snapshot", "dispatch", "exit"}
  <2>1. BusP!Event \subseteq Nat /\ BusP!NoEvent = 0
    BY DEF BusP!Event, BusP!NoEvent
  <2>2. QED
    <3>1. /\ in \in Seq(BusP!Event) /\ log \in Seq(BusP!Event)
          /\ ch \in [{me} -> Seq(BusP!Event)] /\ recv \in [{me} -> Seq(BusP!Event)]
          /\ evt \in BusP!Event \cup {BusP!NoEvent} /\ left \in SUBSET {me} /\ sent \in Nat
          /\ pub \in [{"collector"} -> BusP!Event \cup {BusP!NoEvent}] /\ nextId \in 0 .. MaxCaptured
          /\ pc \in {"select", "snapshot", "dispatch", "exit"}
      BY DEF BusP!Ground, BusP!TypeOK
    <3>2. recv[me] \in Seq(BusP!Event) /\ ch[me] \in Seq(BusP!Event)
      BY <3>1
    <3>3. recv[me] \in Seq(Nat) /\ ch[me] \in Seq(Nat) /\ in \in Seq(Nat) /\ log \in Seq(Nat)
      BY <3>1, <3>2, Numbers
    <3>4. evt \in Nat /\ pub["collector"] \in Nat /\ nextId \in Nat
      <4>1. BusP!Event \cup {BusP!NoEvent} \subseteq Nat
        BY <2>1
      <4>2. pub["collector"] \in BusP!Event \cup {BusP!NoEvent}
        BY <3>1
      <4>3. nextId \in Nat
        BY <3>1
      <4>4. QED
        BY <3>1, <4>1, <4>2, <4>3
    <3>5. QED
      BY <3>1, <3>3, <3>4
<1>2. BusP!End(me) = sent
  <2>1. CASE main \in {"engine", "collector", "writer"}
    BY <2>1 DEF Started, BusP!End, BusP!Registered
  <2>2. CASE main \in {"load", "reader", "subscribe"}
    <3>1. opened = {} /\ subs[me] = "none" /\ log = <<>>
      BY <2>2 DEF Started, Begun
    <3>2. until[me] = 0
      BY <3>1 DEF BusP!Ground, BusP!Enrolled
    <3>3. sent = 0
      BY <1>1, <3>1 DEF BusP!Ground, BusP!LogSplit, BusP!Held
    <3>4. QED
      BY <3>1, <3>2, <3>3 DEF BusP!End, BusP!Registered, me
  <2>3. QED
    BY <2>1, <2>2 DEF Up, Begun
<1>3. /\ P \in Nat /\ P + h + Len(in) = Len(log)
      /\ evt \in {0, P + 1}
      /\ \A i \in 1 .. Len(in) : in[i] = P + h + i
  <2>1. /\ Len(log) = sent + BusP!Held + Len(in)
        /\ \A i \in 1 .. Len(in) : in[i] = log[sent + BusP!Held + i]
        /\ pc = "snapshot" => evt = log[sent + 1]
        /\ pc = "dispatch" => evt = log[sent] /\ sent > 0
    BY DEF BusP!Ground, BusP!LogSplit
  <2>2. \A i \in 1 .. Len(log) : log[i] = i
    BY DEF Numbered, Up
  <2>3. CASE pc \in {"select", "exit"}
    <3>1. evt = 0 /\ left = {} /\ BusP!Held = 0
      BY <2>3 DEF Carried, InBus, BusP!Ground, BusP!Holding, BusP!Held
    <3>2. P = sent
      BY <1>2, <3>1 DEF BusP!Offered
    <3>3. QED
      BY <1>1, <2>1, <2>2, <3>1, <3>2
  <2>4. CASE pc = "snapshot"
    <3>1. left = {} /\ BusP!Held = 1
      BY <2>4 DEF BusP!Ground, BusP!Holding, BusP!Held
    <3>2. P = sent
      BY <1>2, <3>1 DEF BusP!Offered
    <3>3. evt = sent + 1
      BY <1>1, <2>1, <2>2, <2>4, <3>1
    <3>4. QED
      BY <1>1, <2>1, <2>2, <3>1, <3>2, <3>3
  <2>5. CASE pc = "dispatch"
    <3>1. me \in left /\ BusP!Held = 0
      BY <1>1, <2>5 DEF BusP!Ground, BusP!Holding, BusP!Held
    <3>2. P = sent - 1
      BY <1>2, <3>1 DEF BusP!Offered
    <3>3. evt = sent /\ sent > 0
      BY <1>1, <2>1, <2>2, <2>5, <3>1
    <3>4. QED
      BY <1>1, <2>1, <2>2, <3>1, <3>2, <3>3
  <2>6. QED
    BY <1>1, <2>3, <2>4, <2>5
<1> HIDE DEF P, h
<1>4. Counts(ch[me], R, P)
  <2>1. recv[me] \o ch[me] = SubSeq(log, 1, P)
    <3>1. recv[me] \o ch[me] = SubSeq(log, since[me] + 1, P)
      BY DEF BusP!Lossless, BusP!Delivered, Up, P
    <3>2. since[me] + 1 = 1
      BY DEF Started
    <3>3. QED
      BY <3>1, <3>2
  <2>2. P <= Len(log) /\ h \in Nat
    BY <1>1, <1>3 DEF h
  <2>3. Len(SubSeq(log, 1, P)) = P /\ \A i \in 1 .. P : SubSeq(log, 1, P)[i] = i
    BY <1>1, <1>3, <2>2 DEF Numbered, Up
  <2>4. /\ Len(recv[me] \o ch[me]) = Len(recv[me]) + Len(ch[me])
        /\ \A k \in 1 .. Len(ch[me]) : (recv[me] \o ch[me])[Len(recv[me]) + k] = ch[me][k]
        /\ Len(recv[me]) \in Nat /\ Len(ch[me]) \in Nat
    <3>1. recv[me] \in Seq(Nat) /\ ch[me] \in Seq(Nat)
      BY <1>1
    <3>2. QED
      BY <3>1, Halves
  <2>5. R \in Nat /\ R + Len(ch[me]) = P
    BY <2>1, <2>3, <2>4
  <2>6. ASSUME NEW k \in 1 .. Len(ch[me]) PROVE ch[me][k] = R + k
    <3>1. R \in Nat /\ Len(ch[me]) \in Nat /\ R + Len(ch[me]) = P
      BY <2>4, <2>5
    <3> HIDE DEF R
    <3>2. R + k \in 1 .. P
      BY <3>1
    <3> USE DEF R
    <3>3. QED
      BY <2>1, <2>3, <2>4, <3>2
  <2>7. QED
    BY <1>1, <2>5, <2>6 DEF Counts
<1>5. Counts(One(evt), P, P + h)
  <2>1. Counts(One(evt), P, IF evt = 0 THEN P ELSE P + 1)
    BY <1>3, CountsOne
  <2>2. P + h = IF evt = 0 THEN P ELSE P + 1
    BY <1>3 DEF h
  <2>3. QED
    BY <2>1, <2>2
<1>6. Counts(in, P + h, Len(log))
  BY <1>1, <1>3 DEF Counts, h
<1>7. Counts(One(pub["collector"]), Len(log), nextId)
  <2>1. /\ pub["collector"] \in {0, Len(log) + 1}
        /\ nextId = IF pub["collector"] = 0 THEN Len(log) ELSE Len(log) + 1
    BY DEF Numbered, Up
  <2>2. Len(log) \in Nat
    BY <1>1
  <2>3. QED
    BY <2>1, <2>2, CountsOne
<1>8. Counts(ch[me] \o One(evt), R, P + h)
  BY <1>4, <1>5, CountsOn
<1>9. Counts(ch[me] \o One(evt) \o in, R, Len(log))
  BY <1>6, <1>8, CountsOn
<1>10. Counts(ch[me] \o One(evt) \o in \o One(pub["collector"]), R, nextId)
  BY <1>7, <1>9, CountsOn
<1>11. P \in Nat /\ P <= nextId
  <2>1. Len(log) <= nextId
    BY <1>1 DEF Numbered, Up
  <2>2. h \in Nat /\ Len(in) \in Nat /\ Len(log) \in Nat
    BY <1>1 DEF h
  <2>3. QED
    BY <1>1, <1>3, <2>1, <2>2
<1>12. QED
  BY <1>4, <1>10, <1>11 DEF InTheBus

-----------------------------------------------------------------------------
(* b is what is left of the first r events of d when those that give no    *)
(* signal are taken out.                                                   *)
Sifted(b, r, d) ==
  /\ b \in Seq(Nat) /\ r \in Nat /\ r <= Len(d)
  /\ \A j, k \in 1 .. Len(b) : j < k => b[j] < b[k]
  /\ \A k \in 1 .. Len(b) : b[k] \in 1 .. r /\ d[b[k]].signal
  /\ \A n \in 1 .. r : d[n].signal => \E k \in 1 .. Len(b) : b[k] = n

LEMMA SiftedLonger ==
  \A b, r, d, e : d \in Seq(Mine) /\ e \in Mine /\ Sifted(b, r, d) => Sifted(b, r, Append(d, e))
<1> SUFFICES ASSUME NEW b, NEW r, NEW d \in Seq(Mine), NEW e \in Mine, Sifted(b, r, d)
             PROVE  Sifted(b, r, Append(d, e))
  OBVIOUS
<1>1. /\ Len(Append(d, e)) = Len(d) + 1 /\ Len(d) \in Nat
      /\ \A n \in 1 .. Len(d) : Append(d, e)[n] = d[n]
  OBVIOUS
<1>2. r \in Nat /\ r <= Len(d) /\ \A n \in 1 .. r : Append(d, e)[n] = d[n]
  BY <1>1 DEF Sifted
<1>3. \A k \in 1 .. Len(b) : b[k] \in 1 .. r
  BY DEF Sifted
<1> DEFINE f == Append(d, e)
<1>4. r <= Len(f) /\ \A n \in 1 .. r : f[n] = d[n]
  BY <1>1, <1>2
<1> HIDE DEF f
<1>5. Sifted(b, r, f)
  BY <1>3, <1>4 DEF Sifted
<1>6. QED
  BY <1>5 DEF f

LEMMA SiftedTake ==
  \A b, r, d : /\ d \in Seq(Mine) /\ Sifted(b, r, d) /\ r + 1 <= Len(d) /\ d[r + 1].signal
               => Sifted(Append(b, r + 1), r + 1, d)
<1> SUFFICES ASSUME NEW b, NEW r, NEW d \in Seq(Mine), Sifted(b, r, d), r + 1 <= Len(d), d[r + 1].signal
             PROVE  Sifted(Append(b, r + 1), r + 1, d)
  OBVIOUS
<1>1. b \in Seq(Nat) /\ r \in Nat
  BY DEF Sifted
<1> DEFINE c == Append(b, r + 1)
<1>2. /\ c \in Seq(Nat) /\ Len(c) = Len(b) + 1 /\ Len(b) \in Nat
      /\ \A k \in 1 .. Len(b) : c[k] = b[k]
      /\ c[Len(b) + 1] = r + 1
  BY <1>1
<1> HIDE DEF c
<1>3. ASSUME NEW j \in 1 .. Len(c), NEW k \in 1 .. Len(c), j < k PROVE c[j] < c[k]
  <2>1. j \in 1 .. Len(b) /\ c[j] = b[j] /\ b[j] \in 1 .. r
    BY <1>2, <1>3 DEF Sifted
  <2>2. CASE k \in 1 .. Len(b)
    BY <1>2, <1>3, <2>1, <2>2 DEF Sifted
  <2>3. CASE k = Len(b) + 1
    BY <1>1, <1>2, <2>1, <2>3
  <2>4. QED
    BY <1>2, <2>2, <2>3
<1>4. ASSUME NEW k \in 1 .. Len(c) PROVE c[k] \in 1 .. r + 1 /\ d[c[k]].signal
  <2>1. CASE k \in 1 .. Len(b)
    <3>1. c[k] = b[k]
      BY <1>2, <2>1
    <3>2. b[k] \in 1 .. r /\ d[b[k]].signal
      BY <2>1 DEF Sifted
    <3>3. QED
      BY <1>1, <3>1, <3>2
  <2>2. CASE k = Len(b) + 1
    BY <1>1, <1>2, <2>2
  <2>3. QED
    BY <1>2, <2>1, <2>2
<1>5. ASSUME NEW n \in 1 .. r + 1, d[n].signal PROVE \E k \in 1 .. Len(c) : c[k] = n
  <2>1. CASE n \in 1 .. r
    <3>1. PICK k \in 1 .. Len(b) : b[k] = n
      BY <1>5, <2>1 DEF Sifted
    <3>2. QED
      BY <1>2, <3>1
  <2>2. CASE n = r + 1
    BY <1>2, <2>2
  <2>3. QED
    BY <1>1, <2>1, <2>2
<1>6. Sifted(c, r + 1, d)
  BY <1>1, <1>2, <1>3, <1>4, <1>5 DEF Sifted
<1>7. QED
  BY <1>6 DEF c

LEMMA SiftedPass ==
  \A b, r, d : Sifted(b, r, d) /\ r + 1 <= Len(d) /\ ~d[r + 1].signal => Sifted(b, r + 1, d)
<1> SUFFICES ASSUME NEW b, NEW r, NEW d, Sifted(b, r, d), r + 1 <= Len(d), ~d[r + 1].signal
             PROVE  Sifted(b, r + 1, d)
  OBVIOUS
<1>1. r \in Nat /\ \A k \in 1 .. Len(b) : b[k] \in 1 .. r + 1
  BY DEF Sifted
<1>2. ASSUME NEW n \in 1 .. r + 1, d[n].signal PROVE \E k \in 1 .. Len(b) : b[k] = n
  <2>1. n \in 1 .. r
    BY <1>1, <1>2
  <2>2. QED
    BY <1>2, <2>1 DEF Sifted
<1>3. QED
  BY <1>1, <1>2 DEF Sifted

(* What has been sifted and what is still to come: on the way are all that *)
(* give a signal, each once and in order.                                  *)
LEMMA SiftedThenCounts ==
  ASSUME NEW b, NEW s, NEW r, NEW n \in Nat, NEW d, Sifted(b, r, d), Counts(s, r, n)
  PROVE  /\ \A j, k \in 1 .. Len(b \o s) : j < k => (b \o s)[j] < (b \o s)[k]
         /\ \A m \in 1 .. n : d[m].signal => \E k \in 1 .. Len(b \o s) : (b \o s)[k] = m
<1>1. /\ b \in Seq(Nat) /\ s \in Seq(Nat) /\ r \in Nat /\ r + Len(s) = n
      /\ \A k \in 1 .. Len(s) : s[k] = r + k
      /\ \A k \in 1 .. Len(b) : b[k] \in 1 .. r
  BY DEF Sifted, Counts
<1> DEFINE w == b \o s
<1>2. /\ Len(w) = Len(b) + Len(s) /\ Len(b) \in Nat /\ Len(s) \in Nat
      /\ \A k \in 1 .. Len(b) : w[k] = b[k]
      /\ \A k \in 1 .. Len(s) : w[Len(b) + k] = s[k]
  BY <1>1, Halves
<1> HIDE DEF w
<1>3. \A k \in 1 .. Len(w) : k \notin 1 .. Len(b) => /\ k - Len(b) \in 1 .. Len(s)
                                                      /\ w[k] = r + (k - Len(b))
  <2> SUFFICES ASSUME NEW k \in 1 .. Len(w), k \notin 1 .. Len(b)
               PROVE  k - Len(b) \in 1 .. Len(s) /\ w[k] = r + (k - Len(b))
    OBVIOUS
  <2>1. k - Len(b) \in 1 .. Len(s) /\ Len(b) + (k - Len(b)) = k
    BY <1>2
  <2>2. QED
    BY <1>1, <1>2, <2>1
<1>4. ASSUME NEW j \in 1 .. Len(w), NEW k \in 1 .. Len(w), j < k PROVE w[j] < w[k]
  <2>1. CASE k \in 1 .. Len(b)
    <3>1. j \in 1 .. Len(b)
      BY <1>2, <1>4, <2>1
    <3>2. QED
      BY <1>2, <1>4, <2>1, <3>1 DEF Sifted
  <2>2. CASE k \notin 1 .. Len(b) /\ j \in 1 .. Len(b)
    <3>1. w[j] \in 1 .. r
      BY <1>1, <1>2, <2>2
    <3>2. w[k] = r + (k - Len(b)) /\ k - Len(b) \in 1 .. Len(s)
      BY <1>3, <2>2
    <3>3. QED
      BY <1>1, <1>2, <3>1, <3>2
  <2>3. CASE k \notin 1 .. Len(b) /\ j \notin 1 .. Len(b)
    BY <1>1, <1>2, <1>3, <1>4, <2>3
  <2>4. QED
    BY <2>1, <2>2, <2>3
<1>5. ASSUME NEW m \in 1 .. n, d[m].signal PROVE \E k \in 1 .. Len(w) : w[k] = m
  <2>1. CASE m \in 1 .. r
    <3>1. PICK k \in 1 .. Len(b) : b[k] = m
      BY <1>5, <2>1 DEF Sifted
    <3>2. QED
      BY <1>2, <3>1
  <2>2. CASE m \notin 1 .. r
    <3>1. m - r \in 1 .. Len(s) /\ r + (m - r) = m
      BY <1>1, <2>2
    <3> DEFINE i == m - r
    <3>2. i \in 1 .. Len(s) /\ r + i = m
      BY <3>1
    <3> HIDE DEF i
    <3>3. Len(b) + i \in 1 .. Len(w) /\ w[Len(b) + i] = s[i] /\ s[i] = r + i
      BY <1>1, <1>2, <3>2
    <3>4. QED
      BY <3>2, <3>3
  <2>3. QED
    BY <2>1, <2>2
<1>6. QED
  BY <1>4, <1>5 DEF w

-----------------------------------------------------------------------------
(* Joining what the stages beyond the bus hold.                            *)
LEMMA OneMore ==
  \A S : \A s \in Seq(S) : /\ s \o <<>> = s
                           /\ \A e \in S : s \o <<e>> = Append(s, e)
<1>1. \A S : \A s \in Seq(S) : s \o <<>> = s
  BY ConcatEmptySeq
<1>2. \A S : \A s \in Seq(S), e \in S : s \o <<e>> = Append(s, e)
  BY AppendIsConcat
<1>3. QED
  BY <1>1, <1>2

LEMMA Together == \A S : \A s, r \in Seq(S) : s \o r \in Seq(S)
OBVIOUS

LEMMA OneTyped == \A n \in Nat : \A e \in 0 .. n : One(e) \in Seq(1 .. n)
<1> SUFFICES ASSUME NEW n \in Nat, NEW e \in 0 .. n PROVE One(e) \in Seq(1 .. n)
  OBVIOUS
<1>1. CASE e = 0
  BY <1>1 DEF One
<1>2. CASE e # 0
  <2>1. e \in 1 .. n
    BY <1>2
  <2>2. <<e>> \in Seq(1 .. n)
    BY <2>1
  <2>3. QED
    BY <1>2, <2>2 DEF One
<1>3. QED
  BY <1>1, <1>2

(* From the engine to the output a signal is passed on from hand to hand.  *)
LEMMA HandedOn ==
  ASSUME Carried, nextId \in Nat, Up, Send \/ WriteNext \/ WriteLine
  PROVE  BeyondIt' = BeyondIt
<1> DEFINE N == 1 .. nextId
<1>1. /\ passed \in Seq(N) /\ out \in Seq(N) /\ line \in 0 .. nextId /\ sig \in 0 .. nextId
      /\ writer = "write" \/ line = 0
      /\ engine = "send" => sig # 0
      /\ writer = "write" => line # 0
  BY DEF Carried, AtEngine, AtWriter
<1>2. One(line) \in Seq(N) /\ One(sig) \in Seq(N)
  BY <1>1, OneTyped
<1> HIDE DEF N
<1>3. CASE Send
  <2>1. /\ sig # 0 /\ sig' = 0 /\ out' = Append(out, sig) /\ passed' = passed /\ line' = line
    BY <1>1, <1>3 DEF Send, writerVars
  <2>2. sig \in N
    BY <1>1, <2>1 DEF N
  <2>3. PICK x \in Seq(N) : x = passed \o One(line)
    BY <1>1, <1>2, Together
  <2>4. x \o out \in Seq(N) /\ Append(out, sig) \in Seq(N) /\ x \o Append(out, sig) \in Seq(N)
    <3>1. Append(out, sig) \in Seq(N)
      BY <1>1, <2>2
    <3>2. QED
      BY <1>1, <3>1, Together
  <2>5. (x \o out) \o <<sig>> = Append(x \o out, sig)
    BY <2>2, <2>4, OneMore
  <2>6. (x \o Append(out, sig)) \o <<>> = x \o Append(out, sig)
    BY <2>4, OneMore
  <2>7. x \o Append(out, sig) = Append(x \o out, sig)
    BY <1>1, <2>2, Put
  <2>8. BeyondIt = (x \o out) \o <<sig>>
    BY <2>1, <2>3 DEF BeyondIt, One
  <2>9. BeyondIt' = (x \o Append(out, sig)) \o <<>>
    BY <2>1, <2>3 DEF BeyondIt, One
  <2>10. QED
    BY <2>5, <2>6, <2>7, <2>8, <2>9
<1>4. CASE WriteNext
  <2>1. /\ out # <<>> /\ line = 0 /\ line' = Head(out) /\ out' = Tail(out) /\ passed' = passed
        /\ sig' = sig
    BY <1>1, <1>4 DEF WriteNext
  <2>2. Head(out) \in N /\ Head(out) # 0
    <3>1. \A c \in Seq(N) : c # <<>> => Head(c) \in N
      OBVIOUS
    <3>2. Head(out) \in N
      BY <1>1, <2>1, <3>1
    <3>3. QED
      BY <3>2 DEF N
  <2>3. passed \o <<>> = passed /\ passed \o <<Head(out)>> = Append(passed, Head(out))
    BY <1>1, <2>2, OneMore
  <2>4. Append(passed, Head(out)) \o Tail(out) = passed \o out
    BY <1>1, <2>1, Moved
  <2>5. BeyondIt = passed \o <<>> \o out \o One(sig)
    BY <2>1 DEF BeyondIt, One
  <2>6. BeyondIt' = passed \o <<Head(out)>> \o Tail(out) \o One(sig)
    BY <2>1, <2>2 DEF BeyondIt, One
  <2>7. QED
    BY <2>3, <2>4, <2>5, <2>6
<1>5. CASE WriteLine
  <2>1. /\ line # 0 /\ line' = 0 /\ passed' = Append(passed, line) /\ out' = out /\ sig' = sig
    BY <1>1, <1>5 DEF WriteLine, engineVars
  <2>2. line \in N
    BY <1>1, <2>1 DEF N
  <2>3. passed \o <<line>> = Append(passed, line)
    BY <1>1, <2>2, OneMore
  <2>4. Append(passed, line) \in Seq(N)
    BY <1>1, <2>2
  <2>5. Append(passed, line) \o <<>> = Append(passed, line)
    BY <2>4, OneMore
  <2>6. BeyondIt = passed \o <<line>> \o out \o One(sig)
    BY <2>1 DEF BeyondIt, One
  <2>7. BeyondIt' = Append(passed, line) \o <<>> \o out \o One(sig)
    BY <2>1 DEF BeyondIt, One
  <2>8. QED
    BY <2>3, <2>5, <2>6, <2>7
<1>6. QED
  BY <1>3, <1>4, <1>5

Beyond == (~DropOnFull /\ Up) => Sifted(BeyondIt, Len(recv[me]), decoded)

(* The engine takes the next event: its number follows those received so   *)
(* far, and it is sent on if it gives a signal.                            *)
LEMMA BeyondHandle ==
  ASSUME Carried, Started, Observed, Numbered, BusP!Ground, BusP!Lossless, Beyond,
         ~DropOnFull, Up, Handle
  PROVE  Sifted(BeyondIt', Len(recv'[me]), decoded')
<1> DEFINE R == Len(recv[me])
           y == passed \o One(line) \o out
<1>1. nextId \in Nat /\ ch \in [{me} -> Seq(BusP!Event)] /\ recv \in [{me} -> Seq(BusP!Event)]
  BY DEF BusP!Ground, BusP!TypeOK
<1>2. /\ ch[me] # <<>> /\ recv' = [recv EXCEPT ![me] = Append(@, Head(ch[me]))]
      /\ IF decoded[Head(ch[me])].signal THEN sig' = Head(ch[me]) ELSE sig' = sig
      /\ UNCHANGED <<passed, line, out, decoded>>
  BY DEF Handle, Bus!Receive, pipeVars, writerVars
<1>3. Sifted(BeyondIt, R, decoded) /\ decoded \in Seq(Mine) /\ Len(decoded) = nextId
  BY DEF Beyond, Observed
<1>4. Head(ch[me]) = R + 1 /\ R \in Nat /\ R + 1 <= nextId
  <2>1. PICK n \in Nat : Counts(ch[me], R, n) /\ n <= nextId
    BY BusCounts
  <2>2. \A s \in Seq(Nat) : s # <<>> => Len(s) \in Nat /\ 1 \in 1 .. Len(s) /\ Head(s) = s[1]
    OBVIOUS
  <2>3. R \in Nat /\ R + Len(ch[me]) = n /\ ch[me] \in Seq(Nat)
        /\ \A k \in 1 .. Len(ch[me]) : ch[me][k] = R + k
    BY <2>1 DEF Counts
  <2>4. Len(ch[me]) \in Nat /\ 1 \in 1 .. Len(ch[me]) /\ Head(ch[me]) = ch[me][1]
    BY <1>2, <2>2, <2>3
  <2> HIDE DEF R
  <2>5. QED
    BY <1>1, <2>1, <2>3, <2>4
<1>5. Len(recv'[me]) = R + 1
  <2>1. recv[me] \in Seq(BusP!Event) /\ Head(ch[me]) \in BusP!Event
    <3>1. \A s \in Seq(BusP!Event) : s # <<>> => Head(s) \in BusP!Event
      OBVIOUS
    <3>2. QED
      BY <1>1, <1>2, <3>1
  <2>2. recv'[me] = Append(recv[me], Head(ch[me]))
    BY <1>1, <1>2
  <2>3. QED
    BY <2>1, <2>2
<1>6. sig = 0
  BY DEF Handle, Carried, AtEngine
<1>7. y \in Seq(1 .. nextId)
  <2>1. passed \in Seq(1 .. nextId) /\ One(line) \in Seq(1 .. nextId) /\ out \in Seq(1 .. nextId)
    BY <1>1, OneTyped DEF Carried, AtEngine, AtWriter
  <2>2. QED
    BY <2>1, Together
<1>8. BeyondIt = y
  <2>1. BeyondIt = y \o <<>>
    BY <1>6 DEF BeyondIt, One
  <2> HIDE DEF y
  <2>2. QED
    BY <1>7, <2>1, OneMore
<1> HIDE DEF R
<1>9. CASE decoded[Head(ch[me])].signal
  <2>1. BeyondIt' = y \o <<R + 1>>
    <3>1. sig' = R + 1 /\ R + 1 # 0
      BY <1>2, <1>4, <1>9
    <3>2. QED
      BY <1>2, <3>1 DEF BeyondIt, One
  <2>2. R + 1 \in 1 .. nextId
    BY <1>1, <1>4
  <2> HIDE DEF y
  <2>3. BeyondIt' = Append(BeyondIt, R + 1)
    BY <1>7, <1>8, <2>1, <2>2, OneMore
  <2>4. Sifted(Append(BeyondIt, R + 1), R + 1, decoded)
    BY <1>3, <1>4, <1>9, SiftedTake
  <2>5. QED
    BY <1>2, <1>5, <2>3, <2>4
<1>10. CASE ~decoded[Head(ch[me])].signal
  <2>1. BeyondIt' = BeyondIt
    BY <1>2, <1>10 DEF BeyondIt
  <2>2. Sifted(BeyondIt, R + 1, decoded)
    BY <1>3, <1>4, <1>10, SiftedPass
  <2>3. QED
    BY <1>2, <1>5, <2>1, <2>2
<1>11. QED
  BY <1>9, <1>10

LEMMA BeyondNext ==
  ASSUME Carried, Started, Observed, Numbered, BusP!Ground, BusP!Lossless, Beyond, [Next]_vars
  PROVE  Beyond'
<1> SUFFICES ASSUME ~DropOnFull, Up' PROVE Sifted(BeyondIt', Len(recv'[me]), decoded')
  BY DEF Beyond
<1>1. Up /\ nextId \in Nat
  BY UpStays DEF BusP!Ground, BusP!TypeOK
<1>2. Sifted(BeyondIt, Len(recv[me]), decoded)
  BY <1>1 DEF Beyond
<1>3. CASE UNCHANGED <<passed, line, out, sig, recv, decoded>>
  BY <1>2, <1>3 DEF BeyondIt
<1>4. CASE Send \/ WriteNext \/ WriteLine
  <2>1. UNCHANGED <<recv, decoded>>
    BY <1>4, BusIdle, BusParts DEF Send, WriteNext, WriteLine, pipeVars
  <2>2. QED
    BY <1>1, <1>2, <1>4, <2>1, HandedOn
<1>5. CASE Handle
  BY <1>1, <1>5, BeyondHandle
<1>6. CASE Decode
  <2>1. /\ ring # <<>> /\ decoded' = Append(decoded, Head(ring))
        /\ UNCHANGED <<passed, line, out, sig, recv>>
    BY <1>6 DEF Decode, Bus!NewEvent, Bus!queueVars, engineVars, writerVars
  <2>2. decoded \in Seq(Mine) /\ ring \in Seq(Mine)
    <3>1. main \in Undisturbed
      BY <1>1 DEF Up, Undisturbed
    <3>2. QED
      BY <3>1 DEF Observed
  <2>3. Head(ring) \in Mine
    BY <2>1, <2>2, Moved
  <2>4. Sifted(BeyondIt, Len(recv[me]), Append(decoded, Head(ring)))
    BY <1>2, <2>2, <2>3, SiftedLonger
  <2>5. BeyondIt' = BeyondIt
    BY <2>1 DEF BeyondIt
  <2>6. QED
    BY <2>1, <2>4, <2>5
<1>7. CASE Begin \/ NewReader \/ StartEngine \/ StartCollector \/ NewWriter \/ CloseReader
           \/ CloseManager \/ SystemCalls \/ CloseOnDone \/ ReadClosed \/ WriteFails
           \/ WriterStops \/ EngineStops
  BY <1>3, <1>7, BusIdle, BusParts
     DEF Begin, NewReader, StartEngine, StartCollector, NewWriter, CloseReader, CloseManager,
         SystemCalls, CloseOnDone, ReadClosed, WriteFails, WriterStops, EngineStops, pipeVars,
         engineVars, writerVars
<1>8. CASE Subscribe \/ CancelSub \/ Stop \/ Signal
  BY <1>3, <1>8, BusParts
     DEF Subscribe, CancelSub, Stop, Signal, Bus!Subscribe, Bus!Unsubscribe, Bus!CancelContext,
         Bus!queueVars, pipeVars, engineVars, writerVars
<1>9. CASE Publish
  BY <1>3, <1>9 DEF Publish, Bus!Enqueue, Bus!Reject, Bus!GiveUp, Bus!queueVars, engineVars, writerVars
<1>10. CASE BusRuns
  BY <1>3, <1>10
     DEF BusRuns, Bus!Run, Bus!Take, Bus!Exit, Bus!dispatch, Bus!Snapshot, Bus!Deliver,
         Bus!Drop, Bus!Abort, Bus!queueVars, pipeVars, engineVars, writerVars
<1>11. CASE UNCHANGED vars
  BY <1>3, <1>11, BusParts DEF vars, pipeVars, engineVars, writerVars
<1>12. QED
  BY <1>4, <1>5, <1>6, <1>7, <1>8, <1>9, <1>10, <1>11
     DEF Next, Startup, Deferred, Writer, Collect, Correlate

LEMMA BeyondAlways == Spec => []Beyond
<1>1. Init => Beyond
  <2> SUFFICES ASSUME Init PROVE Sifted(BeyondIt, Len(recv[me]), decoded)
    BY DEF Beyond
  <2>1. /\ passed = <<>> /\ line = 0 /\ out = <<>> /\ sig = 0 /\ decoded = <<>>
        /\ recv = [s \in {me} |-> <<>>]
    BY DEF Init, Bus!Init
  <2>2. BeyondIt = <<>>
    BY <2>1 DEF BeyondIt, One
  <2>3. recv[me] = <<>>
    BY <2>1
  <2>4. Sifted(<<>>, 0, <<>>)
    BY DEF Sifted
  <2>5. QED
    BY <2>1, <2>2, <2>3, <2>4
<1>2. /\ Carried /\ Started /\ Observed /\ Numbered /\ BusP!Ground /\ BusP!Lossless
      /\ Beyond /\ [Next]_vars
      => Beyond'
  BY BeyondNext
<1>3. QED
  BY <1>1, <1>2, CarriedAlways, StartedAlways, ObservedAlways, NumberedAlways, BusAlways, PTL DEF Spec

(* Backpressure from the capture to the output (kscope.bpf.c, collector.go,*)
(* bus.go, engine.go, output.go): while the command serves, nothing        *)
(* captured is lost or overtaken before it is decoded, and of the decoded  *)
(* events exactly those that give a signal get past the bus, each once and *)
(* in order, whatever the sizes of the ring and the three channels.        *)
THEOREM Backpressure == Spec => []EndToEnd
<1>1. /\ Carried /\ Started /\ Observed /\ Numbered /\ BusP!Ground /\ BusP!Lossless /\ Beyond
      => EndToEnd
  <2> SUFFICES ASSUME Carried, Started, Observed, Numbered, BusP!Ground, BusP!Lossless, Beyond,
                      ~DropOnFull, Up
               PROVE  /\ captured = decoded \o ring
                      /\ \A j, k \in 1 .. Len(OnTheWay) : j < k => OnTheWay[j] < OnTheWay[k]
                      /\ \A n \in 1 .. nextId :
                           decoded[n].signal => \E k \in 1 .. Len(OnTheWay) : OnTheWay[k] = n
                      /\ \A k \in 1 .. Len(BeyondIt) : decoded[BeyondIt[k]].signal
    BY ServingUp DEF EndToEnd
  <2>1. nextId \in Nat
    BY DEF BusP!Ground, BusP!TypeOK
  <2>2. Counts(InTheBus, Len(recv[me]), nextId)
    BY BusCounts
  <2>3. Sifted(BeyondIt, Len(recv[me]), decoded)
    BY DEF Beyond
  <2>4. captured = decoded \o ring
    BY DEF Observed
  <2>5. \A k \in 1 .. Len(BeyondIt) : decoded[BeyondIt[k]].signal
    BY <2>3 DEF Sifted
  <2>6. QED
    BY <2>1, <2>2, <2>3, <2>4, <2>5, SiftedThenCounts DEF OnTheWay
<1>2. QED
  BY <1>1, CarriedAlways, StartedAlways, ObservedAlways, NumberedAlways, BusAlways, BeyondAlways, PTL
=============================================================================
