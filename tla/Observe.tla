------------------------------ MODULE Observe ------------------------------
(***************************************************************************)
(* kscope observe (runObserve of cmd/kscope/observe.go) from end to end:   *)
(* the kernel captures events, the collector decodes and publishes them,   *)
(* the bus hands them to the engine, the engine sends the signals they     *)
(* give to the writer, and main, which runs the writer, starts everything  *)
(* and on the way out undoes it in its deferred calls.                     *)
(*                                                                         *)
(* What the engine records is in Store, how a DNS message is read is in    *)
(* DNSWire.  An event is its number, as in Bus, and decoded gives what was *)
(* captured for it.                                                        *)
(***************************************************************************)
EXTENDS Capture

CONSTANTS BufferSize, SubBuffer, DropOnFull,  \* as in Bus
          EngineBuffer,                       \* capacity of Engine.out
          Modules                             \* what --modules may enable

(* Every buffer has a default when it is asked for with no size, and       *)
(* parseModules knows three modules.                                       *)
ASSUME PipeAssumption == /\ {BufferSize, SubBuffer, EngineBuffer} \subseteq Nat \ {0}
                         /\ DropOnFull \in BOOLEAN
                         /\ Modules \subseteq SUBSET {"DNS", "TCP", "Process"}

VARIABLES in, subs, ch, drops, droppedIn, pc, evt, left, cur, pub, nextId,
          done, log, sent, recv, since, until, opened     \* of the bus

VARIABLES main,       \* where runObserve is
          readerOpen, \* the ring buffer reader has not been closed
          collector,  \* where Collector.Run is
          decoded,    \* what each published event carries
          engine,     \* where Engine.Run is
          sig,        \* the signal it is sending
          out,        \* Engine.out
          writer,     \* where the writer's Run is
          line,       \* the signal it is writing
          passed,     \* the lines it is done with
          lost        \* the writer, the human one, has lost one of them

engineVars   == <<engine, sig, out>>
writerVars   == <<writer, line, passed, lost>>
pipeVars     == <<readerOpen, collector, decoded>>

me == "correlation"

Bus == INSTANCE Bus WITH Publishers <- {"collector"}, Names <- {me}, Subs <- {me},
                         NameOf <- [s \in {me} |-> s], NoSub <- "none",
                         MaxEvents <- MaxCaptured

busVars == <<in, subs, ch, drops, droppedIn, pc, evt, left, cur, pub, nextId,
             done, log, sent, recv, since, until, opened>>
vars == <<loaderVars, captureVars, busVars, main, pipeVars, engineVars, writerVars>>

kernelVars == <<loaderVars, captureVars>>

(* The statements of runObserve, and its deferred calls. *)
SubscribeLate == <<"load", "reader", "engine", "collector", "subscribe", "writer">>

WriterFirst == <<"load", "reader", "subscribe", "engine", "writer", "collector">>

Statements == <<"load", "reader", "subscribe", "engine", "collector", "writer">>

ManagerFirst == Statements \o <<"unsubscribe", "close_manager", "close_reader", "stop", "exited">>

Stages == Statements \o <<"unsubscribe", "close_reader", "close_manager", "stop", "exited">>

After(s) == Stages[1 + CHOOSE k \in 1 .. Len(Stages) : Stages[k] = s]

Init == /\ \E o \in Modules : LoaderInit(o)
        /\ CaptureInit /\ Bus!Init
        /\ main = "load" /\ readerOpen = FALSE
        /\ collector = "off" /\ decoded = <<>>
        /\ engine = "off" /\ sig = 0 /\ out = <<>>
        /\ writer = "off" /\ line = 0 /\ passed = <<>> /\ lost = FALSE

-----------------------------------------------------------------------------
(* main. *)

Goes(from) == main = from /\ main' = After(from)

Begin == /\ main = "load"
         /\ LoadAndAttach
         /\ main' = IF loading' = "attached" THEN After("load")
                    ELSE IF loading' = "failed" THEN "stop" ELSE "load"
         /\ UNCHANGED <<captureVars, busVars, pipeVars, engineVars, writerVars>>

NewReader == /\ \/ Goes("reader") /\ readerOpen' = TRUE
                \/ main = "reader" /\ main' = "close_manager" /\ UNCHANGED readerOpen
             /\ UNCHANGED <<kernelVars, busVars, collector, decoded, engineVars, writerVars>>

Subscribe == /\ Goes("subscribe")
             /\ Bus!Subscribe(me)
             /\ UNCHANGED <<kernelVars, pipeVars, engineVars, writerVars>>

StartEngine == /\ Goes("engine")
               /\ engine' = "select"
               /\ UNCHANGED <<kernelVars, busVars, pipeVars, sig, out, writerVars>>

StartCollector == /\ Goes("collector")
                  /\ collector' = "read"
                  /\ UNCHANGED <<kernelVars, busVars, readerOpen, decoded, engineVars, writerVars>>

(* An unknown output format ends the command. *)
NewWriter == /\ main = "writer" /\ writer = "off"
             /\ \/ writer' = "select" /\ UNCHANGED main
                \/ writer' = "returned" /\ main' = After("writer")
             /\ UNCHANGED <<kernelVars, busVars, pipeVars, engineVars, line, passed, lost>>

CancelSub == /\ Goes("unsubscribe")
             /\ Bus!Unsubscribe(me)
             /\ UNCHANGED <<kernelVars, pipeVars, engineVars, writerVars>>

CloseReader == /\ Goes("close_reader")
               /\ readerOpen' = FALSE
               /\ UNCHANGED <<kernelVars, busVars, collector, decoded, engineVars, writerVars>>

CloseManager == /\ main = "close_manager"
                /\ Close
                /\ main' = IF loading' = "closed" THEN "stop" ELSE main
                /\ UNCHANGED <<captureVars, busVars, pipeVars, engineVars, writerVars>>

(* stop ends the context, and the process exits with main. *)
Stop == /\ Goes("stop")
        /\ \/ Bus!CancelContext
           \/ done /\ UNCHANGED busVars
        /\ attached' = {}
        /\ UNCHANGED <<opts, loading, local, links, captureVars, pipeVars, engineVars, writerVars>>

(* The writer runs in main's own goroutine. *)
WriteNext == /\ writer = "select" /\ out # <<>>
             /\ writer' = "write" /\ line' = Head(out) /\ out' = Tail(out)
             /\ UNCHANGED <<main, kernelVars, busVars, pipeVars, engine, sig, passed, lost>>

(* The human writer ignores what Fprintf returns: a line that standard     *)
(* output does not take is lost, and it goes on with the next.  Which of   *)
(* the two writers it is, is chosen at the first write that fails.         *)
WriteLine == /\ writer = "write"
             /\ writer' = "select" /\ line' = 0
             /\ passed' = Append(passed, line)
             /\ lost' \in {lost, TRUE}
             /\ UNCHANGED <<main, kernelVars, busVars, pipeVars, engineVars>>

(* The JSON writer, which loses nothing, returns what Encode reports.      *)
WriteFails == /\ writer = "write" /\ ~lost
              /\ writer' = "returned" /\ main' = After("writer")
              /\ UNCHANGED <<kernelVars, busVars, pipeVars, engineVars, line, passed, lost>>

OnlyTheChannel == FALSE /\ UNCHANGED vars

WriterStops == /\ writer = "select" /\ done
               /\ writer' = "returned" /\ main' = After("writer")
               /\ UNCHANGED <<kernelVars, busVars, pipeVars, engineVars, line, passed, lost>>

Startup  == Begin \/ NewReader \/ Subscribe \/ StartEngine \/ StartCollector \/ NewWriter
Deferred == CancelSub \/ CloseReader \/ CloseManager \/ Stop
Writer   == WriteNext \/ WriterStops

-----------------------------------------------------------------------------
(* The other goroutines, until the process exits. *)

Alive == main # "exited"

(* The goroutine inside Collector.Run that waits for the context. *)
CloseOnDone == /\ Alive /\ collector # "off" /\ done /\ readerOpen
               /\ readerOpen' = FALSE
               /\ UNCHANGED <<main, kernelVars, busVars, collector, decoded, engineVars, writerVars>>

(* Read and decodeEvent.  The kernel submits whole events of known types,  *)
(* so that decodeEvent makes an event of each; one whose message cannot be *)
(* read has no name.                                                       *)
Decode == /\ Alive /\ collector = "read" /\ readerOpen /\ ring # <<>>
          /\ Bus!NewEvent("collector")
          /\ decoded' = Append(decoded, Head(ring))
          /\ ring' = Tail(ring)
          /\ collector' = "publish"
          /\ UNCHANGED <<main, loaderVars, recv_args, call, calls, captured>>
          /\ UNCHANGED <<readerOpen, engineVars, writerVars>>

Publish == /\ Alive /\ collector = "publish"
           /\ \/ (Bus!Enqueue("collector") \/ Bus!Reject("collector")) /\ collector' = "read"
              \/ Bus!GiveUp("collector") /\ collector' = "returned"
           /\ UNCHANGED <<main, kernelVars, readerOpen, decoded, engineVars, writerVars>>

ReadClosed == /\ Alive /\ collector = "read" /\ ~readerOpen
              /\ collector' = "returned"
              /\ UNCHANGED <<main, kernelVars, busVars, readerOpen, decoded, engineVars, writerVars>>

Collect == CloseOnDone \/ Decode \/ Publish \/ ReadClosed

BusRuns == /\ Alive /\ Bus!Run
           /\ UNCHANGED <<main, kernelVars, pipeVars, engineVars, writerVars>>

(* The event is handled: a signal, or none when the handler rejects it or  *)
(* its type is not asked for.                                              *)
Handle == /\ Alive /\ engine = "select"
          /\ Bus!Receive(me)
          /\ LET e == Head(ch[me])
             IN  IF decoded[e].signal THEN engine' = "send" /\ sig' = e
                                      ELSE UNCHANGED <<engine, sig>>
          /\ UNCHANGED <<main, kernelVars, pipeVars, out, writerVars>>

SendUnbounded == /\ Alive /\ engine = "send"
                 /\ engine' = "select" /\ sig' = 0 /\ out' = Append(out, sig)
                 /\ UNCHANGED <<main, kernelVars, busVars, pipeVars, writerVars>>

Send == /\ Alive /\ engine = "send"
        /\ Len(out) < EngineBuffer
        /\ engine' = "select" /\ sig' = 0 /\ out' = Append(out, sig)
        /\ UNCHANGED <<main, kernelVars, busVars, pipeVars, writerVars>>

EngineStops == /\ Alive /\ engine \in {"select", "send"} /\ done
               /\ engine' = "returned"
               /\ UNCHANGED <<main, kernelVars, busVars, pipeVars, sig, out, writerVars>>

Correlate == Handle \/ Send \/ EngineStops

-----------------------------------------------------------------------------
(* System calls go on while the loader attaches and while it closes, link  *)
(* by link.                                                                *)
SystemCalls == /\ Alive
               /\ Kernel
               /\ UNCHANGED <<main, busVars, pipeVars, engineVars, writerVars>>

Signal == /\ Alive /\ Bus!CancelContext
          /\ UNCHANGED <<main, kernelVars, pipeVars, engineVars, writerVars>>

Next == \/ Startup \/ Deferred \/ Writer \/ WriteLine \/ WriteFails
        \/ Collect \/ BusRuns \/ Correlate
        \/ SystemCalls \/ Signal

Spec == Init /\ [][Next]_vars

(* Each goroutine keeps running; select chooses at random, so the case of  *)
(* the context is chosen in the end.                                       *)
CodeFairness == /\ WF_vars(Startup \/ Deferred \/ Writer)
                /\ WF_vars(Collect) /\ WF_vars(BusRuns) /\ WF_vars(Correlate)

(* Standard output takes the line in the end, or reports an error: a       *)
(* hypothesis of the liveness properties.                                  *)
OutputFairness == WF_vars(WriteLine \/ WriteFails)

FairSpec == Spec /\ CodeFairness

-----------------------------------------------------------------------------
One(n) == IF n = 0 THEN <<>> ELSE <<n>>

InTheBus    == ch[me] \o One(evt) \o in \o One(pub["collector"])
BeyondIt    == passed \o One(line) \o out \o One(sig)
OnTheWay    == BeyondIt \o InTheBus
Serving     == ~done /\ main \in {Statements[k] : k \in 1 .. Len(Statements)}

TypeOK == /\ LoaderTypeOK /\ CaptureTypeOK /\ Bus!TypeOK
          /\ main \in {Stages[k] : k \in 1 .. Len(Stages)}
          /\ readerOpen \in BOOLEAN
          /\ collector \in {"off", "read", "publish", "returned"}
          /\ (collector = "publish") = (pub["collector"] # 0)
          /\ decoded \in Seq(Captured) /\ Len(decoded) = nextId
          /\ engine \in {"off", "select", "send", "returned"}
          /\ out \in Seq(1 .. nextId) /\ Len(out) <= EngineBuffer
          /\ sig \in 0 .. nextId /\ (engine = "send" => sig # 0)
          /\ writer \in {"off", "select", "write", "returned"}
          /\ line \in 0 .. nextId /\ passed \in Seq(1 .. nextId)
          /\ lost \in BOOLEAN

(* Backpressure, from the first captured event to the last line written:   *)
(* until the command is told to stop, what was captured has been decoded,  *)
(* or waits in the ring, in the order of capture - also what was captured  *)
(* before there was a reader - and every decoded event that gives a signal *)
(* is on its way or has been handed to standard output, once and in that   *)
(* order, with nothing beyond the bus that gives none.                     *)
EndToEnd ==
  (~DropOnFull /\ Serving) =>
    /\ captured = decoded \o ring
    /\ \A j, k \in 1 .. Len(OnTheWay) : j < k => OnTheWay[j] < OnTheWay[k]
    /\ \A n \in 1 .. nextId : decoded[n].signal => \E k \in 1 .. Len(OnTheWay) : OnTheWay[k] = n
    /\ \A k \in 1 .. Len(BeyondIt) : decoded[BeyondIt[k]].signal

(* A reply the collector publishes was read with the arguments of the very *)
(* call that returned it, although a call may begin or end while only one  *)
(* of the two programs is attached and leave its arguments behind: at      *)
(* startup the next entry overwrites them, at the end, where the program   *)
(* at the entry goes first, the reader has been closed before.             *)
OwnArgs == \A k \in 1 .. Len(decoded) : decoded[k].own

(* Every captured signal is handed to standard output in the end, unless   *)
(* the command ends.  Whether it takes the line is another matter: the     *)
(* human writer loses the ones it does not take.                           *)
EventuallyWritten ==
  OutputFairness =>
    \A n \in 1 .. MaxCaptured :
      (Serving /\ Cardinality({k \in 1 .. Len(captured) : captured[k].signal}) >= n)
        ~> (Len(passed) >= n \/ ~Serving)

(* A signal ends the process, whichever goroutine is blocked on which      *)
(* channel, and so does a JSON writer that cannot write, or no writer.     *)
Ends == OutputFairness => (done \/ writer = "returned") ~> (main = "exited")
=============================================================================
