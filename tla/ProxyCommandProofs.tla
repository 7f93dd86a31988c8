------------------------- MODULE ProxyCommandProofs -------------------------
(***************************************************************************)
(* Theorems about kscope proxy: what its state may hold, what Run returns, *)
(* what is attached while a listener takes connections, and what the two   *)
(* ends of a connection are given; for any flags and files, any set of     *)
(* hooks that may not close, any number of chunks and any window.          *)
(***************************************************************************)
EXTENDS ProxyCommand, FiniteSetTheorems, TLAPS

(* What a step of the command may do to the server.                        *)
ServerNext == \/ StartRun \/ Run \/ EndContext
              \/ \E v \in listen : acceptLoop(v) \/ AcceptFails(v)

(* What Run returns and why: an error is "closed" only after Run itself    *)
(* has closed the listeners, when no error is looked at any more.          *)
ServerTyped ==
  /\ running \in {"off", "listen", "select", "close", "returned"}
  /\ listen \subseteq Family /\ listening \subseteq listen
  /\ loop \in [Family -> {"off", "accept", "failed", "report", "exit"}]
  /\ failure \in [Family -> {"none", "accept error", "closed"}]
  /\ pendingErr \in Seq({"accept error", "closed"})

Starting == running \in {"off", "listen"} =>
              /\ pendingErr = <<>>
              /\ \A v \in Family : loop[v] = "off" /\ failure[v] = "none"

Selecting == running = "select" =>
               /\ listen \subseteq listening
               /\ \A v \in Family : failure[v] # "closed"
               /\ \A k \in 1 .. Len(pendingErr) : pendingErr[k] # "closed"

Caused == /\ \A v \in Family : loop[v] \in {"failed", "report"} => failure[v] # "none"
          /\ \A v \in Family : failure[v] = "accept error" => cause # {}
          /\ \A k \in 1 .. Len(pendingErr) : pendingErr[k] = "accept error" => cause # {}

Closing == running = "close" => \/ result = "nil" /\ ctxDone
                                \/ result = "accept error" /\ cause # {}

Genuine == ServerTyped /\ Starting /\ Selecting /\ Caused /\ Closing /\ GenuineError

LEMMA StartRunGenuine == ASSUME Genuine, StartRun PROVE Genuine'
<1> USE DEF StartRun, Genuine
<1>1. ServerTyped'
  BY DEF ServerTyped
<1>2. Starting' /\ Selecting' /\ Closing' /\ GenuineError'
  BY DEF Starting, Selecting, Closing, GenuineError
<1>3. Caused'
  BY DEF Caused
<1>4. QED
  BY <1>1, <1>2, <1>3

LEMMA TwoFamilies == Family = {V4, V6} /\ Rank(V4) = 1 /\ Rank(V6) = 2
  BY CommandAssumption DEF Family, Rank

(* Of some listeners one comes first: the families are two.                *)
LEMMA FirstOf == ASSUME NEW V, V \subseteq Family, V # {} PROVE First(V) \in V
<1>1. Family = {V4, V6} /\ Rank(V4) = 1 /\ Rank(V6) = 2
  BY TwoFamilies
<1>2. \E v \in V : \A w \in V : Rank(v) <= Rank(w)
  BY <1>1
<1>3. QED
  BY <1>2 DEF First

LEMMA OpeningGenuine ==
  ASSUME Genuine, listenTCP \/ ListenFails \/ NoListener PROVE Genuine'
<1>1. UNCHANGED <<listen, loop, failure, pendingErr, ctxDone, cause>> /\ running = "listen"
  BY DEF listenTCP, ListenFails, NoListener
<1>2. Caused'
  BY <1>1 DEF Genuine, Caused
<1>3. CASE listenTCP
  <2>1. First(Wanted) \in Wanted
    <3>1. Wanted \subseteq Family /\ Wanted # {}
      BY <1>3 DEF listenTCP, Genuine, ServerTyped, Wanted
    <3>2. QED
      BY <3>1, FirstOf
  <2>2. listening' \subseteq listen' /\ running' = "listen"
    BY <1>1, <1>3, <2>1 DEF listenTCP, Wanted, Genuine, ServerTyped
  <2>3. ServerTyped' /\ Starting'
    BY <1>1, <2>2 DEF Genuine, ServerTyped, Starting
  <2>4. QED
    BY <1>2, <2>2, <2>3 DEF Genuine, Selecting, Closing, GenuineError
<1>4. CASE ListenFails \/ NoListener
  <2>1. /\ running' = "returned" /\ result' \in {"listen error", "no listener"}
        /\ listening' = {}
    BY <1>4 DEF ListenFails, NoListener, Genuine, ServerTyped
  <2>2. ServerTyped'
    BY <1>1, <2>1 DEF Genuine, ServerTyped
  <2>3. QED
    BY <1>2, <2>1, <2>2 DEF Genuine, Starting, Selecting, Closing, GenuineError
<1>5. QED
  BY <1>3, <1>4

LEMMA SpawnGenuine == ASSUME Genuine, SpawnLoops PROVE Genuine'
<1>1. /\ running = "listen" /\ running' = "select" /\ listen \subseteq listening
      /\ loop' = [v \in Family |-> IF v \in listen THEN "accept" ELSE "off"]
      /\ UNCHANGED <<listen, listening, failure, pendingErr, result, ctxDone, cause>>
  BY DEF SpawnLoops, Wanted
<1>2. pendingErr = <<>> /\ \A v \in Family : failure[v] = "none"
  BY <1>1 DEF Genuine, Starting
<1>3. Len(pendingErr) = 0
  BY <1>2
<1>4. ServerTyped'
  BY <1>1 DEF Genuine, ServerTyped
<1>5. Selecting'
  BY <1>1, <1>2, <1>3 DEF Selecting
<1>6. Caused'
  <2>1. \A v \in Family : failure'[v] = "none" /\ loop'[v] \notin {"failed", "report"}
    BY <1>1, <1>2
  <2>2. \A k \in 1 .. Len(pendingErr') : FALSE
    BY <1>1, <1>3
  <2>3. QED
    BY <2>1, <2>2 DEF Caused
<1>7. QED
  BY <1>1, <1>4, <1>5, <1>6 DEF Genuine, Starting, Closing, GenuineError

LEMMA Popped ==
  ASSUME NEW S, NEW s \in Seq(S), s # <<>>
  PROVE  /\ Head(s) = s[1] /\ 1 \in 1 .. Len(s) /\ s[1] \in S
         /\ Tail(s) \in Seq(S)
         /\ \A k \in 1 .. Len(Tail(s)) : k + 1 \in 1 .. Len(s) /\ Tail(s)[k] = s[k + 1]
  OBVIOUS

LEMMA Pushed ==
  ASSUME NEW S, NEW s \in Seq(S), NEW e \in S
  PROVE  /\ Append(s, e) \in Seq(S)
         /\ \A k \in 1 .. Len(Append(s, e)) :
              \/ k \in 1 .. Len(s) /\ Append(s, e)[k] = s[k]
              \/ Append(s, e)[k] = e
  OBVIOUS

LEMMA SelectGenuine == ASSUME Genuine, SelectDone \/ SelectError PROVE Genuine'
<1>1. /\ running = "select" /\ running' = "close"
      /\ UNCHANGED <<listen, listening, loop, failure, ctxDone, cause>>
  BY DEF SelectDone, SelectError
<1>2. CASE SelectDone
  <2>1. UNCHANGED pendingErr /\ result' = "nil" /\ ctxDone'
    BY <1>2 DEF SelectDone
  <2>2. ServerTyped' /\ Caused'
    BY <1>1, <2>1 DEF Genuine, ServerTyped, Caused
  <2>3. QED
    BY <1>1, <2>1, <2>2 DEF Genuine, Starting, Selecting, Closing, GenuineError
<1>3. CASE SelectError
  <2>1. /\ pendingErr # <<>> /\ pendingErr \in Seq({"accept error", "closed"})
        /\ pendingErr' = Tail(pendingErr) /\ result' = Head(pendingErr)
    BY <1>3 DEF SelectError, Genuine, ServerTyped
  <2>2. /\ result' = pendingErr[1] /\ 1 \in 1 .. Len(pendingErr)
        /\ pendingErr[1] \in {"accept error", "closed"}
        /\ pendingErr' \in Seq({"accept error", "closed"})
    BY <2>1, Popped
  <2>3. result' = "accept error" /\ cause' # {}
    <3>1. result' \in {"accept error", "closed"}
      BY <2>2
    <3>2. result' # "closed"
      BY <1>1, <2>2 DEF Genuine, Selecting
    <3>3. QED
      BY <1>1, <2>2, <3>1, <3>2 DEF Genuine, Caused
  <2>4. ServerTyped'
    BY <1>1, <2>2 DEF Genuine, ServerTyped
  <2>5. Caused'
    BY <1>1, <2>3 DEF Genuine, Caused
  <2>6. QED
    BY <1>1, <2>3, <2>4, <2>5 DEF Genuine, Starting, Selecting, Closing, GenuineError
<1>4. QED
  BY <1>2, <1>3

LEMMA ClosingGenuine == ASSUME Genuine, CloseListener \/ WaitLoops PROVE Genuine'
<1>1. /\ running = "close" /\ running' \in {"close", "returned"} /\ listening' \subseteq listening
      /\ UNCHANGED <<listen, loop, failure, pendingErr, result, ctxDone, cause>>
  BY DEF CloseListener, WaitLoops
<1>2. ServerTyped' /\ Caused'
  BY <1>1 DEF Genuine, ServerTyped, Caused
<1>3. QED
  BY <1>1, <1>2 DEF Genuine, Starting, Selecting, Closing, GenuineError

LEMMA ContextGenuine == ASSUME Genuine, EndContext PROVE Genuine'
<1>1. ctxDone' = TRUE /\ UNCHANGED <<running, listen, listening, loop, failure, pendingErr, result, cause>>
  BY DEF EndContext
<1>2. ServerTyped' /\ Caused' /\ Starting' /\ Selecting'
  BY <1>1 DEF Genuine, ServerTyped, Caused, Starting, Selecting
<1>3. QED
  BY <1>1, <1>2 DEF Genuine, Closing, GenuineError

LEMMA LoopGenuine ==
  ASSUME Genuine, NEW v \in listen, acceptLoop(v) \/ AcceptFails(v) PROVE Genuine'
<1>1. /\ UNCHANGED <<running, listen, listening, result, ctxDone>>
      /\ loop[v] # "off" /\ v \in Family
  BY DEF acceptLoop, AcceptClosed, CheckContext, ReportError, AcceptFails, Genuine, ServerTyped
<1>2. Starting' /\ running \notin {"off", "listen"}
  BY <1>1 DEF Genuine, Starting
<1>3. CASE AcceptFails(v)
  <2>1. /\ loop' = [loop EXCEPT ![v] = "failed"]
        /\ failure' = [failure EXCEPT ![v] = "accept error"]
        /\ cause' # {} /\ UNCHANGED pendingErr
    BY <1>3 DEF AcceptFails
  <2>2. ServerTyped'
    BY <1>1, <2>1 DEF Genuine, ServerTyped
  <2>3. Caused' /\ Selecting'
    BY <1>1, <2>1 DEF Genuine, ServerTyped, Caused, Selecting
  <2>4. QED
    BY <1>1, <1>2, <2>1, <2>2, <2>3 DEF Genuine, Closing, GenuineError
<1>4. CASE AcceptClosed(v)
  <2>1. /\ loop' = [loop EXCEPT ![v] = "failed"] /\ v \notin listening
        /\ failure' = [failure EXCEPT ![v] = "closed"]
        /\ UNCHANGED <<pendingErr, cause>>
    BY <1>4 DEF AcceptClosed
  <2>2. running # "select"
    BY <2>1 DEF Genuine, Selecting
  <2>3. ServerTyped'
    BY <1>1, <2>1 DEF Genuine, ServerTyped
  <2>4. Caused' /\ Selecting'
    BY <1>1, <2>1, <2>2 DEF Genuine, ServerTyped, Caused, Selecting
  <2>5. QED
    BY <1>1, <1>2, <2>1, <2>3, <2>4 DEF Genuine, Closing, GenuineError
<1>5. CASE CheckContext(v)
  <2>1. /\ loop[v] = "failed" /\ loop' = [loop EXCEPT ![v] = IF ctxDone THEN "exit" ELSE "report"]
        /\ UNCHANGED <<failure, pendingErr, cause>>
    BY <1>5 DEF CheckContext
  <2>2. ServerTyped'
    BY <1>1, <2>1 DEF Genuine, ServerTyped
  <2>3. Caused' /\ Selecting'
    BY <1>1, <2>1 DEF Genuine, ServerTyped, Caused, Selecting
  <2>4. QED
    BY <1>1, <1>2, <2>1, <2>2, <2>3 DEF Genuine, Closing, GenuineError
<1>6. CASE ReportError(v)
  <2>1. /\ loop[v] = "report" /\ loop' = [loop EXCEPT ![v] = "exit"]
        /\ pendingErr' = Append(pendingErr, failure[v])
        /\ UNCHANGED <<failure, cause>>
    BY <1>6 DEF ReportError
  <2>2. failure[v] \in {"accept error", "closed"}
    BY <1>1, <2>1 DEF Genuine, ServerTyped, Caused
  <2> DEFINE Errors == {"accept error", "closed"}
  <2>3. /\ pendingErr' \in Seq(Errors)
        /\ \A k \in 1 .. Len(pendingErr') :
             \/ k \in 1 .. Len(pendingErr) /\ pendingErr'[k] = pendingErr[k]
             \/ pendingErr'[k] = failure[v]
    <3>1. pendingErr \in Seq(Errors) /\ failure[v] \in Errors
      BY <2>2 DEF Genuine, ServerTyped
    <3> HIDE DEF Errors
    <3>2. QED
      BY <2>1, <3>1, Pushed
  <2>4. ServerTyped'
    BY <1>1, <2>1, <2>3 DEF Genuine, ServerTyped
  <2>5. Caused'
    BY <1>1, <2>1, <2>3 DEF Genuine, ServerTyped, Caused
  <2>6. Selecting'
    BY <1>1, <2>1, <2>3 DEF Genuine, Selecting
  <2>7. QED
    BY <1>1, <1>2, <2>1, <2>4, <2>5, <2>6 DEF Genuine, Closing, GenuineError
<1>7. QED
  BY <1>3, <1>4, <1>5, <1>6 DEF acceptLoop

(* Every step of the command is a step of the server or leaves it alone.   *)
LEMMA ServerSteps == [Next]_vars => ServerNext \/ UNCHANGED serverVars
<1> SUFFICES ASSUME [Next]_vars PROVE ServerNext \/ UNCHANGED serverVars
  OBVIOUS
<1>1. CASE Startup
  BY <1>1 DEF Startup, LoadStep, ExemptPID, ApplyConfig, StartWatcher, ParseDomainRules,
              setProxyTarget, InstallRules, Step, Elsewhere
<1>2. CASE Serve
  BY <1>2 DEF Serve, ServerNext
<1>3. CASE CloseManager \/ Exit \/ DomainAnswered
  BY <1>3 DEF CloseManager, Exit, DomainAnswered, Elsewhere
<1>4. CASE Accepting \/ ListenerFails \/ Signal
  BY <1>4 DEF Accepting, ListenerFails, Signal, ServerNext
<1>5. CASE Connection \/ Handling \/ OutsideWorld
  BY <1>5 DEF Connection, Handling, OutsideWorld
<1>6. CASE UNCHANGED vars
  BY <1>6 DEF vars
<1>7. QED
  BY <1>1, <1>2, <1>3, <1>4, <1>5, <1>6 DEF Next, runProxy

LEMMA GenuineInit == Init => Genuine
<1> SUFFICES ASSUME Init PROVE Genuine
  OBVIOUS
<1>2. Family = {V4, V6}
  BY TwoFamilies
<1>3. listen \subseteq Family
  BY <1>2 DEF Init
<1>4. /\ running = "off" /\ listening = {} /\ pendingErr = <<>>
      /\ loop = [v \in Family |-> "off"] /\ failure = [v \in Family |-> "none"]
  BY DEF Init, ServerInit
<1>5. ServerTyped
  BY <1>3, <1>4 DEF ServerTyped
<1>6. Starting /\ Selecting /\ Closing /\ GenuineError
  BY <1>4 DEF Starting, Selecting, Closing, GenuineError
<1>7. Caused
  <2>1. Len(pendingErr) = 0
    BY <1>4
  <2>2. QED
    BY <1>4, <2>1 DEF Caused
<1>8. QED
  BY <1>5, <1>6, <1>7 DEF Genuine

LEMMA GenuineNext == Genuine /\ [Next]_vars => Genuine'
<1> SUFFICES ASSUME Genuine, [Next]_vars PROVE Genuine'
  OBVIOUS
<1>1. CASE ServerNext
  BY <1>1, StartRunGenuine, OpeningGenuine, SpawnGenuine, SelectGenuine, ClosingGenuine,
     ContextGenuine, LoopGenuine DEF ServerNext, Run
<1>2. CASE UNCHANGED serverVars
  BY <1>2 DEF serverVars, Genuine, ServerTyped, Starting, Selecting, Caused, Closing, GenuineError
<1>3. QED
  BY <1>1, <1>2, ServerSteps

(* What Run returns is why it ended, whichever listeners fail and whenever *)
(* the context ends (Run and acceptLoop of internal/proxy/server.go).      *)
THEOREM TrueResult == Spec => []GenuineError
<1>1. Spec => []Genuine
  BY GenuineInit, GenuineNext, PTL DEF Spec
<1>2. Genuine => GenuineError
  BY DEF Genuine
<1>3. QED
  BY <1>1, <1>2, PTL

-----------------------------------------------------------------------------
(* NoBlindRedirect.  A listener is open only while the command serves, and *)
(* it serves only between attaching the last hook and closing the first    *)
(* link: no part of that order is in one place of the code.                *)
Probed == {Probes[k] : k \in 1 .. 4}

Loading == /\ "Redirect" \in opts
           /\ main = "load" => /\ local \in Seq(Hook)
                              /\ \A k \in 1 .. Len(local) : Plan[k] \in attached
           /\ main \in {"exempt", "parse", "target4", "target6", "rules", "watch", "serve"}
                => Probed \subseteq attached

Serving == /\ main \in {"load", "exempt", "parse", "target4", "target6", "rules", "watch"}
                => running = "off" /\ listening = {}
           /\ main \in {"close", "exit", "exited"} => listening = {}
           /\ main \in {"load", "exempt", "parse", "target4", "target6", "rules", "watch",
                        "serve", "close", "exit", "exited"}

LEMMA Joined ==
  ASSUME NEW S, NEW s \in Seq(S), NEW r \in Seq(S)
  PROVE  /\ s \o r \in Seq(S) /\ Len(s \o r) = Len(s) + Len(r)
         /\ Len(s) \in Nat /\ Len(r) \in Nat
         /\ \A k \in 1 .. Len(s) : (s \o r)[k] = s[k]
  OBVIOUS

LEMMA Single == \A S : \A a \in S : <<a>> \in Seq(S) /\ Len(<<a>>) = 1
  OBVIOUS

LEMMA Pair == \A S : \A a, b \in S : <<a, b>> \in Seq(S) /\ Len(<<a, b>>) = 2
  OBVIOUS

LEMMA Triple ==
  \A S : \A a, b, c \in S : <<a, b, c>> \in Seq(S) /\ Len(<<a, b, c>>) = 3
  OBVIOUS

LEMMA Quadruple ==
  \A S : \A a, b, c, d \in S : <<a, b, c, d>> \in Seq(S) /\ Len(<<a, b, c, d>>) = 4
  OBVIOUS

LEMMA NoneOf == \A S : <<>> \in Seq(S)
  OBVIOUS

LEMMA Points ==
  /\ Probes \in Seq(Hook) /\ Len(Probes) = 4 /\ Cgroups \in Seq(Hook) /\ Len(Cgroups) = 2
  /\ DNSPoints \in Seq(Hook) /\ Len(DNSPoints) = 3
  /\ ProcessPoint \in Seq(Hook) /\ Len(ProcessPoint) = 1
<1>1. /\ "tcp_v4_connect" \in Hook /\ "tcp_v4_connect_return" \in Hook
      /\ "tcp_v6_connect" \in Hook /\ "tcp_v6_connect_return" \in Hook
      /\ "connect4" \in Hook /\ "connect6" \in Hook /\ "sys_enter_sendto" \in Hook
      /\ "sys_enter_recvfrom" \in Hook /\ "sys_exit_recvfrom" \in Hook /\ "sched_process_exec" \in Hook
  BY DEF Hook
<1>2. Probes \in Seq(Hook) /\ Len(Probes) = 4
  BY <1>1, Quadruple DEF Probes
<1>3. Cgroups \in Seq(Hook) /\ Len(Cgroups) = 2
  BY <1>1, Pair DEF Cgroups
<1>4. DNSPoints \in Seq(Hook) /\ Len(DNSPoints) = 3
  BY <1>1, Triple DEF DNSPoints
<1>5. ProcessPoint \in Seq(Hook) /\ Len(ProcessPoint) = 1
  BY <1>1, Single DEF ProcessPoint
<1>6. QED
  BY <1>2, <1>3, <1>4, <1>5

LEMMA PlanProbes ==
  ASSUME "Redirect" \in opts
  PROVE  Plan \in Seq(Hook) /\ Len(Plan) >= 4 /\ \A k \in 1 .. 4 : Plan[k] = Probes[k]
<1> DEFINE dns  == If("DNS" \in opts, DNSPoints)
           proc == If("Process" \in opts, ProcessPoint)
<1>1. Probes \in Seq(Hook) /\ Len(Probes) = 4
  BY Points
<1>2. Cgroups \in Seq(Hook)
  BY Points
<1>3. dns \in Seq(Hook)
  BY Points, NoneOf DEF If
<1>4. proc \in Seq(Hook)
  BY Points, NoneOf DEF If
<1>5. Plan = Probes \o Cgroups \o dns \o proc
  <2>1. Plan = If(opts \cap {"TCP", "Redirect"} # {}, Probes) \o If("Redirect" \in opts, Cgroups)
               \o dns \o proc
    BY DEF Plan
  <2>2. opts \cap {"TCP", "Redirect"} # {}
    OBVIOUS
  <2>3. If(opts \cap {"TCP", "Redirect"} # {}, Probes) = Probes
        /\ If("Redirect" \in opts, Cgroups) = Cgroups
    BY <2>2 DEF If
  <2>4. QED
    BY <2>1, <2>3
<1> HIDE DEF dns, proc
<1> DEFINE two   == Probes \o Cgroups
           three == two \o dns
<1>6. /\ two \in Seq(Hook) /\ Len(two) = Len(Probes) + Len(Cgroups) /\ Len(Cgroups) \in Nat
      /\ \A k \in 1 .. Len(Probes) : two[k] = Probes[k]
  <2>1. Probes \in Seq(Hook)
    BY <1>1
  <2>2. QED
    BY <2>1, <1>2, Joined
<1>7. Plan = three \o proc
  BY <1>5
<1> HIDE DEF two
<1>8. /\ three \in Seq(Hook) /\ Len(three) = Len(two) + Len(dns) /\ Len(dns) \in Nat
      /\ \A k \in 1 .. Len(two) : three[k] = two[k]
  BY <1>6, <1>3, Joined
<1> HIDE DEF three
<1>9. /\ Plan \in Seq(Hook) /\ Len(Plan) = Len(three) + Len(proc) /\ Len(proc) \in Nat
      /\ \A k \in 1 .. Len(three) : Plan[k] = three[k]
  BY <1>7, <1>8, <1>4, Joined
<1>10. Len(Plan) >= Len(Probes) /\ \A k \in 1 .. Len(Probes) : Plan[k] = Probes[k]
  <2>1. Len(Probes) \in Nat /\ Len(two) \in Nat /\ Len(three) \in Nat
    BY <1>1, <1>6, <1>8
  <2>2. Len(Probes) <= Len(two) /\ Len(two) <= Len(three) /\ Len(three) <= Len(Plan)
    BY <2>1, <1>6, <1>8, <1>9
  <2>3. ASSUME NEW k \in 1 .. Len(Probes) PROVE Plan[k] = Probes[k]
    <3>1. k \in 1 .. Len(two) /\ k \in 1 .. Len(three)
      BY <2>1, <2>2
    <3>2. QED
      BY <3>1, <1>6, <1>8, <1>9
  <2>4. QED
    BY <2>1, <2>2, <2>3, <1>9
<1>11. QED
  BY <1>1, <1>9, <1>10

LEMMA ServingInit == Init => Loading /\ Serving
<1> SUFFICES ASSUME Init PROVE Loading /\ Serving
  OBVIOUS
<1>1. "Redirect" \in opts
  BY DEF Init, LoaderInit, normalizeOptions
<1>2. local = <<>> /\ main = "load" /\ running = "off" /\ listening = {}
  BY DEF Init, LoaderInit, ServerInit
<1>3. local \in Seq(Hook) /\ \A k \in 1 .. Len(local) : FALSE
  BY <1>2
<1>4. QED
  BY <1>1, <1>2, <1>3 DEF Loading, Serving

LEMMA LoadServing == ASSUME Loading, Serving, LoadStep PROVE Loading' /\ Serving'
<1>1. /\ main = "load" /\ UNCHANGED <<opts, running, listening>>
      /\ main' = IF loading' = "attached" THEN "exempt"
                 ELSE IF loading' = "failed" THEN "exit" ELSE "load"
  BY DEF LoadStep, LoadAndAttach, Load, AttachNext, AttachFails, Attached, Elsewhere, serverVars
<1>2. Serving'
  BY <1>1 DEF Serving
<1>3. "Redirect" \in opts /\ Plan' = Plan
  BY <1>1 DEF Loading, Plan
<1>4. local \in Seq(Hook) /\ Len(local) \in Nat /\ \A k \in 1 .. Len(local) : Plan[k] \in attached
  BY <1>1 DEF Loading
<1>5. CASE Load \/ AttachFails
  <2>1. UNCHANGED <<local, attached>> /\ main' \in {"load", "exit"}
    BY <1>1, <1>5 DEF Load, AttachFails
  <2>2. QED
    BY <1>1, <1>2, <1>3, <1>4, <2>1 DEF Loading
<1>6. CASE AttachNext
  <2>1. /\ Len(local) < Len(Plan) /\ local' = Append(local, Plan[Len(local) + 1])
        /\ attached' = attached \cup {Plan[Len(local) + 1]} /\ main' = "load"
    BY <1>1, <1>6 DEF AttachNext
  <2>2. Plan[Len(local) + 1] \in Hook
    BY <1>3, <1>4, <2>1, PlanProbes
  <2>3. local' \in Seq(Hook) /\ Len(local') = Len(local) + 1
    BY <1>4, <2>1, <2>2
  <2>4. \A k \in 1 .. Len(local') : Plan'[k] \in attached'
    BY <1>3, <1>4, <2>1, <2>3
  <2>5. QED
    BY <1>1, <1>2, <1>3, <2>1, <2>3, <2>4 DEF Loading
<1>7. CASE Attached
  <2>1. Len(local) = Len(Plan) /\ UNCHANGED attached /\ main' = "exempt"
    BY <1>1, <1>7 DEF Attached
  <2>2. \A k \in 1 .. 4 : k \in 1 .. Len(local) /\ Probes[k] \in attached
    BY <1>3, <1>4, <2>1, PlanProbes
  <2>3. Probed' \subseteq attached'
    BY <2>1, <2>2 DEF Probed
  <2>4. QED
    BY <1>1, <1>2, <1>3, <2>1, <2>3 DEF Loading
<1>8. QED
  BY <1>5, <1>6, <1>7 DEF LoadStep, LoadAndAttach

(* The rest of the startup leaves hooks and listeners alone.               *)
LEMMA StartupServing ==
  ASSUME Loading, Serving, ExemptPID \/ ApplyConfig \/ StartWatcher
  PROVE  Loading' /\ Serving'
<1>1. /\ UNCHANGED <<opts, attached, running, listening>>
      /\ main \in {"exempt", "parse", "target4", "target6", "rules", "watch"}
      /\ main' \in {"parse", "target4", "target6", "rules", "watch", "serve", "close"}
  BY DEF ExemptPID, ApplyConfig, StartWatcher, ParseDomainRules, setProxyTarget, InstallRules,
         Step, Elsewhere, loaderVars, serverVars
<1>2. QED
  BY <1>1 DEF Loading, Serving, Probed

(* When the server has returned, no listener is open.                      *)
LEMMA ServeServing == ASSUME Genuine, Loading, Serving, Serve PROVE Loading' /\ Serving'
<1>1. /\ main = "serve" /\ UNCHANGED <<opts, attached>>
      /\ main' = IF running' = "returned" THEN "close" ELSE "serve"
  BY DEF Serve, loaderVars
<1>2. running' = "returned" => listening' = {}
  BY DEF Serve, StartRun, Run, listenTCP, ListenFails, NoListener, SpawnLoops, SelectDone,
         SelectError, CloseListener, WaitLoops, Genuine, ServerTyped
<1>3. QED
  BY <1>1, <1>2 DEF Loading, Serving, Probed

LEMMA ServingNext == Genuine /\ Loading /\ Serving /\ [Next]_vars => Loading' /\ Serving'
<1> SUFFICES ASSUME Genuine, Loading, Serving, [Next]_vars PROVE Loading' /\ Serving'
  OBVIOUS
<1>1. CASE Startup
  BY <1>1, LoadServing, StartupServing DEF Startup
<1>2. CASE Serve
  BY <1>2, ServeServing
<1>3. CASE CloseManager \/ Exit
  <2>1. /\ main \in {"close", "exit"} /\ main' \in {"close", "exit", "exited"}
        /\ UNCHANGED <<opts, listening>>
    BY <1>3 DEF CloseManager, Close, CloseLink, CloseObjects, Exit, Elsewhere, serverVars
  <2>2. QED
    BY <2>1 DEF Loading, Serving
<1>4. CASE \/ DomainAnswered \/ Accepting \/ ListenerFails \/ Signal
           \/ Connection \/ Handling \/ OutsideWorld \/ UNCHANGED vars
  <2>1. UNCHANGED <<main, opts, local, attached, running, listening>>
    BY <1>4 DEF DomainAnswered, Accepting, ListenerFails, Signal, Connection, Handling, OutsideWorld,
                acceptLoop, AcceptClosed, CheckContext, ReportError, AcceptFails, EndContext,
                Elsewhere, vars, loaderVars, serverVars, commandVars
  <2>2. QED
    BY <2>1 DEF Loading, Serving, Probed, Plan
<1>5. QED
  BY <1>1, <1>2, <1>3, <1>4 DEF Next, runProxy

LEMMA ServingHolds == Loading /\ Serving => NoBlindRedirect
<1> SUFFICES ASSUME Loading, Serving, NEW v \in listening PROVE ProbesOf(v) \subseteq attached
  BY DEF NoBlindRedirect
<1>1. main = "serve"
  BY DEF Serving
<1>2. Probed \subseteq attached
  BY <1>1 DEF Loading
<1>3. ProbesOf(v) \subseteq Probed
  BY DEF ProbesOf, Probed
<1>4. QED
  BY <1>2, <1>3

(* A listener takes connections only while the probes that record where    *)
(* they were going are attached: from attach to Run and from Run to Close  *)
(* (runProxy of cmd/kscope/proxy.go, attach and Close of the loader).      *)
THEOREM Recorded == Spec => []NoBlindRedirect
<1>1. Spec => [](Genuine /\ Loading /\ Serving)
  <2>1. Init => Genuine /\ Loading /\ Serving
    BY GenuineInit, ServingInit
  <2>2. Genuine /\ Loading /\ Serving /\ [Next]_vars => (Genuine /\ Loading /\ Serving)'
    BY GenuineNext, ServingNext
  <2>3. QED
    BY <2>1, <2>2, PTL DEF Spec
<1>2. Genuine /\ Loading /\ Serving => NoBlindRedirect
  BY ServingHolds
<1>3. QED
  BY <1>1, <1>2, PTL

-----------------------------------------------------------------------------
(* CleanMeansWhole: one connection inside the proxy, for any number of     *)
(* chunks in each direction, any window, and any moment at which an end    *)
(* finishes, a listener fails, a signal comes or the process exits.        *)
Stage == {"none", "read", "write", "report", "done"}

RelayTyped ==
  /\ handler \in {"none", "start", "relay", "close write", "close read",
                  "close upstream", "close conn", "gone"}
  /\ copier \in [Direction -> Stage]
  /\ errCh \in Nat
  /\ fin \in [Direction -> BOOLEAN]
  /\ sent \in [Direction -> Nat] /\ inq \in [Direction -> Nat]
  /\ outq \in [Direction -> Nat] /\ rcvd \in [Direction -> Nat]
  /\ told \in [Direction -> {"nothing", "fin", "reset"}]
  /\ seen \in [Direction -> {"nothing", "fin", "reset"}]
  /\ aborted \subseteq {"a", "b"}

(* Until relay takes the first error, nothing is closed or said to be.     *)
Early == handler \in {"none", "start", "relay"}

Quiet == /\ Early => /\ shut = {}
                     /\ \A d \in Direction : told[d] = "nothing" /\ seen[d] = "nothing"
         /\ handler \in {"none", "start"} =>
              errCh = 0 /\ \A d \in Direction : copier[d] = "none"
         /\ handler = "start" => isOpen = {"a"}
         /\ handler = "relay" => /\ isOpen = {"a", "b"}
                                 /\ \A d \in Direction : copier[d] # "none"

(* The chunk a copier has read and not yet written.                        *)
InHand(d) == IF copier[d] = "write" THEN 1 ELSE 0

(* Until then no chunk is lost, and a copier that is done has copied all.  *)
Lossless ==
  Early /\ aborted = {} =>
    \A d \in Direction :
      /\ sent[d] = rcvd[d] + outq[d] + inq[d] + InHand(d)
      /\ copier[d] \in {"report", "done"} => fin[d] /\ inq[d] = 0

Reported == errCh > 0 => \E d \in Direction : copier[d] = "done"

(* Afterwards: if one end has not finished, it was the other direction     *)
(* that was done first, so that all of it had been copied.  Otherwise one  *)
(* end has reset its connection: the sender, or the receiver before it     *)
(* could see the end of the stream.                                        *)
Delivered(d) == /\ fin[d] /\ copier[d] \in {"report", "done"} /\ inq[d] = 0
                /\ sent[d] = rcvd[d] + outq[d]
                /\ seen[d] = "fin" => outq[d] = 0

Undone(d) == From(d) \in aborted \/ (To(d) \in aborted /\ seen[d] # "fin")

Kept == ~Early =>
          \A d \in Direction :
            copier[d] # "none" /\ ~fin[Other(d)] => Delivered(d) \/ Undone(d)

Sound == RelayTyped /\ Quiet /\ Lossless /\ Reported /\ Kept

LEMMA Directions ==
  /\ \A d \in Direction : Other(d) \in Direction /\ Other(d) # d /\ Other(Other(d)) = d
  /\ \A d, e \in Direction : e # Other(d) => e = d
  /\ \A d \in Direction : From(d) \in {"a", "b"} /\ To(d) \in {"a", "b"} /\ To(d) = From(Other(d))
  BY DEF Direction, Other, From, To

LEMMA Counts ==
  ASSUME Sound
  PROVE  \A d \in Direction : /\ sent[d] \in Nat /\ inq[d] \in Nat
                              /\ outq[d] \in Nat /\ rcvd[d] \in Nat
  BY DEF Sound, RelayTyped

LEMMA Changed ==
  ASSUME NEW S, NEW f \in [Direction -> S], NEW d \in Direction, NEW v \in S
  PROVE  /\ [f EXCEPT ![d] = v] \in [Direction -> S]
         /\ [f EXCEPT ![d] = v][d] = v
         /\ \A e \in Direction : e # d => [f EXCEPT ![d] = v][e] = f[e]
  OBVIOUS

-----------------------------------------------------------------------------
(* The handler.                                                            *)
LEMMA StartSound == ASSUME Sound, StartHandler PROVE Sound'
<1>1. /\ handler = "none" /\ handler' = "start" /\ isOpen' = {"a"}
      /\ UNCHANGED <<copier, errCh, shut, inq, outq, told, sent, fin, rcvd, seen, aborted>>
  BY DEF StartHandler, endVars
<1>2. RelayTyped' /\ Reported'
  BY <1>1 DEF Sound, RelayTyped, Reported
<1>3. Quiet'
  BY <1>1 DEF Sound, Quiet, Early
<1>4. Lossless' /\ Kept'
  BY <1>1 DEF Sound, Lossless, Kept, Early, InHand
<1>5. QED
  BY <1>2, <1>3, <1>4 DEF Sound

LEMMA DialledSound == ASSUME Sound, Dialled PROVE Sound'
<1>1. /\ handler = "start" /\ handler' = "relay" /\ isOpen' = {"a", "b"} /\ errCh = 0
      /\ copier' = [d \in Direction |-> "read"]
      /\ UNCHANGED <<errCh, shut, inq, outq, told, sent, fin, rcvd, seen, aborted>>
  BY DEF Dialled, endVars, Sound, Quiet
<1>2. RelayTyped' /\ Reported'
  BY <1>1 DEF Sound, RelayTyped, Reported, Stage
<1>3. Quiet'
  BY <1>1 DEF Sound, Quiet, Early
<1>4. \A d \in Direction : copier[d] = "none" /\ copier'[d] = "read"
  BY <1>1 DEF Sound, Quiet
<1>5. Lossless' /\ Kept'
  BY <1>1, <1>4 DEF Sound, Lossless, Kept, Early, InHand
<1>6. QED
  BY <1>2, <1>3, <1>5 DEF Sound

LEMMA NoUpstreamSound == ASSUME Sound, NoUpstream PROVE Sound'
<1>1. /\ handler = "start" /\ handler' = "close conn"
      /\ UNCHANGED <<copier, errCh, shut, isOpen, inq, outq, told, sent, fin, rcvd, seen, aborted>>
  BY DEF NoUpstream, endVars
<1>2. \A d \in Direction : copier'[d] = "none"
  BY <1>1 DEF Sound, Quiet
<1>3. RelayTyped' /\ Reported' /\ Quiet' /\ Lossless'
  BY <1>1 DEF Sound, RelayTyped, Reported, Quiet, Lossless, Early
<1>4. Kept'
  BY <1>2 DEF Kept
<1>5. QED
  BY <1>3, <1>4 DEF Sound

(* The step the property depends on: who was done first.                   *)
LEMMA FirstEndsSound == ASSUME Sound, FirstEnds PROVE Sound'
<1>1. /\ handler = "relay" /\ handler' = "close write" /\ errCh > 0 /\ errCh' = errCh - 1
      /\ UNCHANGED <<copier, shut, isOpen, inq, outq, told, sent, fin, rcvd, seen, aborted>>
  BY DEF FirstEnds, endVars
<1>2. PICK e \in Direction : copier[e] = "done"
  BY <1>1 DEF Sound, Reported
<1>3. RelayTyped' /\ Quiet' /\ Lossless' /\ Reported'
  <2>1. RelayTyped'
    <3>1. errCh \in Nat /\ errCh > 0 /\ errCh' = errCh - 1
      BY <1>1 DEF Sound, RelayTyped
    <3>2. errCh' \in Nat
      BY <3>1
    <3>3. QED
      BY <1>1, <3>2 DEF Sound, RelayTyped
  <2>2. Quiet' /\ Lossless'
    BY <1>1 DEF Quiet, Lossless, Early
  <2>3. Reported'
    BY <1>1, <1>2 DEF Reported
  <2>4. QED
    BY <2>1, <2>2, <2>3
<1>4. ASSUME aborted = {}, NEW d \in Direction, ~fin[Other(d)] PROVE Delivered(d)
  <2>1. fin[e] /\ inq[e] = 0 /\ sent[e] = rcvd[e] + outq[e] + inq[e] + InHand(e)
    BY <1>1, <1>2, <1>4 DEF Sound, Lossless, Early
  <2>2. e = d
    BY <1>4, <2>1, Directions
  <2>3. seen[d] = "nothing" /\ InHand(d) = 0
    BY <1>1, <1>2, <2>2 DEF Sound, Quiet, Early, InHand
  <2>4. rcvd[d] \in Nat /\ outq[d] \in Nat /\ sent[d] \in Nat
    BY DEF Sound, RelayTyped
  <2>5. QED
    BY <1>2, <2>1, <2>2, <2>3, <2>4 DEF Delivered
<1>5. ASSUME aborted # {}, NEW d \in Direction PROVE Undone(d)
  <2>1. seen[d] = "nothing"
    BY <1>1 DEF Sound, Quiet, Early
  <2>2. \A s \in {"a", "b"} : s = From(d) \/ s = To(d)
    BY DEF Direction, From, To
  <2>3. From(d) \in aborted \/ To(d) \in aborted
    <3>1. aborted \subseteq {"a", "b"}
      BY DEF Sound, RelayTyped
    <3>2. QED
      BY <1>5, <2>2, <3>1
  <2>4. QED
    BY <2>1, <2>3 DEF Undone
<1>6. Kept'
  BY <1>1, <1>4, <1>5 DEF Kept, Delivered, Undone
<1>7. QED
  BY <1>3, <1>6 DEF Sound

(* Closing tells the two ends something and loses nothing that is counted. *)
LEMMA LateSound ==
  ASSUME Sound, ~Early, ~Early',
         handler' \in {"close write", "close read", "close upstream", "close conn", "gone"},
         told' \in [Direction -> {"nothing", "fin", "reset"}],
         UNCHANGED <<copier, errCh, inq, outq, sent, fin, rcvd, seen, aborted>>
  PROVE  Sound'
<1>1. RelayTyped' /\ Reported'
  BY DEF Sound, RelayTyped, Reported
<1>2. Quiet' /\ Lossless'
  BY DEF Quiet, Lossless, Early
<1>3. Kept'
  BY DEF Sound, Kept, Delivered, Undone
<1>4. QED
  BY <1>1, <1>2, <1>3 DEF Sound

LEMMA FarewellTyped ==
  ASSUME RelayTyped, NEW s \in {"a", "b"}, NEW f \in Farewell(s)
  PROVE  f \in {"nothing", "fin", "reset"}
<1>1. Outgoing(s) \in Direction
  <2>1. \E d \in Direction : To(d) = s
    BY DEF Direction, To
  <2>2. QED
    BY <2>1 DEF Outgoing
<1>2. QED
  BY <1>1 DEF Farewell, RelayTyped

LEMMA ClosingSound ==
  ASSUME Sound, CloseWrite \/ CloseRead \/ CloseUpstream \/ CloseConn PROVE Sound'
<1>1. /\ handler \in {"close write", "close read", "close upstream", "close conn"}
      /\ handler' \in {"close read", "close upstream", "close conn", "gone"}
      /\ UNCHANGED <<copier, errCh, inq, outq, sent, fin, rcvd, seen, aborted>>
  BY DEF CloseWrite, CloseRead, CloseUpstream, CloseConn, endVars
<1>2. told' \in [Direction -> {"nothing", "fin", "reset"}]
  <2>1. told \in [Direction -> {"nothing", "fin", "reset"}]
    BY DEF Sound, RelayTyped
  <2>2. CASE CloseWrite \/ CloseRead
    BY <2>1, <2>2 DEF CloseWrite, CloseRead
  <2>3. CASE CloseUpstream \/ CloseConn
    <3>1. PICK s \in {"a", "b"} :
            \E f \in Farewell(s) : told' = [told EXCEPT ![Outgoing(s)] = f]
      BY <2>3 DEF CloseUpstream, CloseConn, CloseSocket
    <3>2. QED
      BY <2>1, <3>1, FarewellTyped DEF Sound
  <2>4. QED
    BY <2>2, <2>3
<1>3. QED
  BY <1>1, <1>2, LateSound DEF Early

-----------------------------------------------------------------------------
(* The copiers.  What a copier that is still at work does concerns no      *)
(* direction that Kept says anything about.                                *)
LEMMA AtWork ==
  ASSUME Sound, NEW d \in Direction, copier[d] \in {"read", "write"},
         UNCHANGED <<handler, fin, aborted, seen, sent, rcvd>>,
         \A e \in Direction : e # d => /\ copier'[e] = copier[e]
                                      /\ inq'[e] = inq[e] /\ outq'[e] = outq[e]
  PROVE  Kept'
<1> SUFFICES ASSUME ~Early, NEW e \in Direction, copier'[e] # "none", ~fin[Other(e)]
             PROVE  (Delivered(e) \/ Undone(e))'
  BY DEF Kept, Early
<1>1. CASE e = d
  BY <1>1 DEF Sound, Kept, Delivered, Undone
<1>2. CASE e # d
  BY <1>2 DEF Sound, Kept, Delivered, Undone
<1>3. QED
  BY <1>1, <1>2

LEMMA ReadSound == ASSUME Sound, NEW d \in Direction, CopyRead(d) PROVE Sound'
<1>1. /\ copier[d] = "read" /\ inq[d] > 0
      /\ inq' = [inq EXCEPT ![d] = inq[d] - 1] /\ copier' = [copier EXCEPT ![d] = "write"]
      /\ UNCHANGED <<handler, errCh, shut, isOpen, outq, told, sent, fin, rcvd, seen, aborted>>
  BY DEF CopyRead, endVars
<1>2. /\ inq' \in [Direction -> Nat] /\ inq'[d] = inq[d] - 1
      /\ \A e \in Direction : e # d => inq'[e] = inq[e]
  <2>1. inq[d] - 1 \in Nat
    BY <1>1, Counts
  <2>2. QED
    BY <1>1, <2>1, Changed DEF Sound, RelayTyped
<1>3. /\ copier' \in [Direction -> Stage] /\ copier'[d] = "write"
      /\ \A e \in Direction : e # d => copier'[e] = copier[e]
  BY <1>1, Changed, "write" \in Stage DEF Sound, RelayTyped, Stage
<1>4. RelayTyped'
  BY <1>1, <1>2, <1>3 DEF Sound, RelayTyped
<1>5. Quiet' /\ Reported'
  BY <1>1, <1>3 DEF Sound, Quiet, Reported, Early
<1>6. Lossless'
  <2> SUFFICES ASSUME Early, aborted = {}, NEW e \in Direction
               PROVE  /\ sent[e] = rcvd[e] + outq[e] + inq'[e] + InHand(e)'
                      /\ copier'[e] \in {"report", "done"} => fin[e] /\ inq'[e] = 0
    BY <1>1 DEF Lossless, Early, InHand
  <2>1. CASE e = d
    <3>1. sent[d] = rcvd[d] + outq[d] + inq[d] + 0
      BY <1>1 DEF Sound, Lossless, InHand
    <3>2. InHand(d)' = 1
      BY <1>3 DEF InHand
    <3>3. QED
      BY <2>1, <3>1, <3>2, <1>2, <1>3, Counts
  <2>2. CASE e # d
    BY <2>2, <1>2, <1>3 DEF Sound, Lossless, InHand
  <2>3. QED
    BY <2>1, <2>2
<1>7. Kept'
  BY <1>1, <1>2, <1>3, AtWork
<1>8. QED
  BY <1>4, <1>5, <1>6, <1>7 DEF Sound

LEMMA WriteSound == ASSUME Sound, NEW d \in Direction, CopyWrite(d) PROVE Sound'
<1>1. /\ copier[d] = "write"
      /\ outq' = [outq EXCEPT ![d] = outq[d] + 1] /\ copier' = [copier EXCEPT ![d] = "read"]
      /\ UNCHANGED <<handler, errCh, shut, isOpen, inq, told, sent, fin, rcvd, seen, aborted>>
  BY DEF CopyWrite, endVars
<1>2. /\ outq' \in [Direction -> Nat] /\ outq'[d] = outq[d] + 1
      /\ \A e \in Direction : e # d => outq'[e] = outq[e]
  <2>1. outq[d] + 1 \in Nat
    BY Counts
  <2>2. QED
    BY <1>1, <2>1, Changed DEF Sound, RelayTyped
<1>3. /\ copier' \in [Direction -> Stage] /\ copier'[d] = "read"
      /\ \A e \in Direction : e # d => copier'[e] = copier[e]
  BY <1>1, Changed, "read" \in Stage DEF Sound, RelayTyped, Stage
<1>4. RelayTyped'
  BY <1>1, <1>2, <1>3 DEF Sound, RelayTyped
<1>5. Quiet' /\ Reported'
  BY <1>1, <1>3 DEF Sound, Quiet, Reported, Early
<1>6. Lossless'
  <2> SUFFICES ASSUME Early, aborted = {}, NEW e \in Direction
               PROVE  /\ sent[e] = rcvd[e] + outq'[e] + inq[e] + InHand(e)'
                      /\ copier'[e] \in {"report", "done"} => fin[e] /\ inq[e] = 0
    BY <1>1 DEF Lossless, Early, InHand
  <2>1. CASE e = d
    <3>1. sent[d] = rcvd[d] + outq[d] + inq[d] + 1
      BY <1>1 DEF Sound, Lossless, InHand
    <3>2. InHand(d)' = 0
      BY <1>3 DEF InHand
    <3>3. QED
      BY <2>1, <3>1, <3>2, <1>2, <1>3, Counts
  <2>2. CASE e # d
    BY <2>2, <1>2, <1>3 DEF Sound, Lossless, InHand
  <2>3. QED
    BY <2>1, <2>2
<1>7. Kept'
  BY <1>1, <1>2, <1>3, AtWork
<1>8. QED
  BY <1>4, <1>5, <1>6, <1>7 DEF Sound

(* As long as nothing is closed or reset, a copier ends only at the end of *)
(* its stream, and no write fails.                                         *)
LEMMA EndsSound == ASSUME Sound, NEW d \in Direction, ReadEnds(d) \/ WriteFails(d) PROVE Sound'
<1>1. /\ copier[d] \in {"read", "write"} /\ copier' = [copier EXCEPT ![d] = "report"]
      /\ UNCHANGED <<handler, errCh, shut, isOpen, inq, outq, told, sent, fin, rcvd, seen, aborted>>
  BY DEF ReadEnds, WriteFails, endVars
<1>2. /\ copier' \in [Direction -> Stage] /\ copier'[d] = "report"
      /\ \A e \in Direction : e # d => copier'[e] = copier[e]
  BY <1>1, Changed, "report" \in Stage DEF Sound, RelayTyped, Stage
<1>3. RelayTyped'
  BY <1>1, <1>2 DEF Sound, RelayTyped
<1>4. Quiet' /\ Reported'
  BY <1>1, <1>2 DEF Sound, Quiet, Reported, Early
<1>5. ASSUME Early, aborted = {} PROVE copier[d] = "read" /\ inq[d] = 0 /\ fin[d]
  <2>1. handler = "relay" /\ isOpen = {"a", "b"} /\ shut = {}
    BY <1>1, <1>5 DEF Sound, Quiet, Early
  <2>2. QED
    BY <1>5, <2>1, Directions DEF ReadEnds, WriteFails, CanWrite
<1>6. Lossless'
  BY <1>1, <1>2, <1>5 DEF Sound, Lossless, Early, InHand
<1>7. Kept'
  BY <1>1, <1>2, AtWork
<1>8. QED
  BY <1>3, <1>4, <1>6, <1>7 DEF Sound

LEMMA ReportSound == ASSUME Sound, NEW d \in Direction, Report(d) PROVE Sound'
<1>1. /\ copier[d] = "report" /\ copier' = [copier EXCEPT ![d] = "done"] /\ errCh' = errCh + 1
      /\ UNCHANGED <<handler, shut, isOpen, inq, outq, told, sent, fin, rcvd, seen, aborted>>
  BY DEF Report, endVars
<1>2. /\ copier' \in [Direction -> Stage] /\ copier'[d] = "done"
      /\ \A e \in Direction : e # d => copier'[e] = copier[e]
  BY <1>1, Changed, "done" \in Stage DEF Sound, RelayTyped, Stage
<1>3. RelayTyped'
  <2>1. errCh \in Nat
    BY DEF Sound, RelayTyped
  <2>2. errCh' \in Nat
    BY <1>1, <2>1
  <2>3. QED
    BY <1>1, <1>2, <2>2 DEF Sound, RelayTyped
<1>4. Quiet'
  BY <1>1, <1>2 DEF Sound, Quiet, Early
<1>5. Reported'
  BY <1>2 DEF Reported
<1>6. Lossless'
  BY <1>1, <1>2 DEF Sound, Lossless, Early, InHand
<1>7. Kept'
  BY <1>1, <1>2 DEF Sound, Kept, Delivered, Undone, Early
<1>8. QED
  BY <1>3, <1>4, <1>5, <1>6, <1>7 DEF Sound

-----------------------------------------------------------------------------
(* The two ends.                                                           *)
LEMMA SendSound == ASSUME Sound, NEW d \in Direction, Send(d) PROVE Sound'
<1>1. /\ ~fin[d] /\ sent' = [sent EXCEPT ![d] = sent[d] + 1] /\ Talking(From(d))
      /\ UNCHANGED <<handler, copier, errCh, shut, isOpen, outq, fin, rcvd, seen, aborted>>
  BY DEF Send, proxyVars
<1>2. \/ From(d) \in isOpen /\ inq' = [inq EXCEPT ![d] = inq[d] + 1] /\ UNCHANGED told
      \/ /\ From(d) \notin isOpen /\ UNCHANGED inq
         /\ told' = [told EXCEPT ![Other(d)] = "reset"]
  BY DEF Send
<1>3. Early => From(d) \in isOpen
  <2>1. handler # "none" /\ (From(d) = "b" => copier["up"] # "none") /\ "up" \in Direction
    BY <1>1 DEF Talking, Direction
  <2>2. CASE handler = "start"
    BY <2>1, <2>2, Directions DEF Sound, Quiet
  <2>3. CASE handler = "relay"
    BY <2>3, Directions DEF Sound, Quiet
  <2>4. QED
    BY <2>1, <2>2, <2>3 DEF Early
<1>4. /\ sent' \in [Direction -> Nat] /\ sent'[d] = sent[d] + 1
      /\ \A e \in Direction : e # d => sent'[e] = sent[e]
  <2>1. sent[d] + 1 \in Nat
    BY Counts
  <2>2. QED
    BY <1>1, <2>1, Changed DEF Sound, RelayTyped
<1>5. /\ inq' \in [Direction -> Nat]
      /\ Early => inq'[d] = inq[d] + 1
      /\ \A e \in Direction : e # d => inq'[e] = inq[e]
  <2>1. inq[d] + 1 \in Nat /\ inq \in [Direction -> Nat]
    <3>1. inq \in [Direction -> Nat]
      BY DEF Sound, RelayTyped
    <3>2. QED
      BY <3>1, Counts
  <2>2. CASE From(d) \in isOpen /\ inq' = [inq EXCEPT ![d] = inq[d] + 1]
    BY <2>1, <2>2, Changed
  <2>3. CASE From(d) \notin isOpen /\ UNCHANGED inq
    BY <1>3, <2>1, <2>3
  <2>4. QED
    BY <1>2, <2>2, <2>3
<1>6. told' \in [Direction -> {"nothing", "fin", "reset"}] /\ (Early => told' = told)
  BY <1>2, <1>3 DEF Sound, RelayTyped
<1>7. RelayTyped'
  BY <1>1, <1>4, <1>5, <1>6 DEF Sound, RelayTyped
<1>8. Quiet' /\ Reported'
  BY <1>1, <1>6 DEF Sound, Quiet, Reported, Early
<1>9. Lossless'
  <2> SUFFICES ASSUME Early, aborted = {}, NEW e \in Direction
               PROVE  /\ sent'[e] = rcvd[e] + outq[e] + inq'[e] + InHand(e)
                      /\ copier[e] \in {"report", "done"} => fin[e] /\ inq'[e] = 0
    BY <1>1 DEF Lossless, Early, InHand
  <2>1. /\ sent[e] = rcvd[e] + outq[e] + inq[e] + InHand(e) /\ InHand(e) \in Nat
        /\ copier[e] \in {"report", "done"} => fin[e] /\ inq[e] = 0
    BY DEF Sound, Lossless, InHand
  <2>2. CASE e = d
    <3>1. sent'[d] = rcvd[d] + outq[d] + inq'[d] + InHand(d)
      BY <2>1, <2>2, <1>4, <1>5, Counts
    <3>2. QED
      BY <3>1, <2>1, <2>2, <1>1
  <2>3. CASE e # d
    BY <2>1, <2>3, <1>4, <1>5
  <2>4. QED
    BY <2>2, <2>3
<1>10. Kept'
  BY <1>1, <1>4, <1>5 DEF Sound, Kept, Delivered, Undone, Early
<1>11. QED
  BY <1>7, <1>8, <1>9, <1>10 DEF Sound

LEMMA FinishSound == ASSUME Sound, NEW d \in Direction, Finish(d) PROVE Sound'
<1>1. /\ fin' = [fin EXCEPT ![d] = TRUE]
      /\ UNCHANGED <<handler, copier, errCh, shut, isOpen, inq, outq, told, sent, rcvd, seen, aborted>>
  BY DEF Finish, proxyVars
<1>2. RelayTyped' /\ Quiet' /\ Reported'
  BY <1>1 DEF Sound, RelayTyped, Quiet, Reported, Early
<1>3. \A e \in Direction : fin[e] => fin'[e]
  BY <1>1 DEF Sound, RelayTyped
<1>4. Lossless'
  BY <1>1, <1>3 DEF Sound, Lossless, Early, InHand
<1>5. Kept'
  BY <1>1, <1>3, Directions DEF Sound, Kept, Delivered, Undone, Early
<1>6. QED
  BY <1>2, <1>4, <1>5 DEF Sound

LEMMA ReceiveSound == ASSUME Sound, NEW d \in Direction, Receive(d) PROVE Sound'
<1>1. /\ outq[d] > 0 /\ outq' = [outq EXCEPT ![d] = outq[d] - 1]
      /\ rcvd' = [rcvd EXCEPT ![d] = rcvd[d] + 1]
      /\ UNCHANGED <<handler, copier, errCh, shut, isOpen, inq, told, sent, fin, seen, aborted>>
  BY DEF Receive, proxyVars
<1>2. /\ outq' \in [Direction -> Nat] /\ outq'[d] = outq[d] - 1
      /\ \A e \in Direction : e # d => outq'[e] = outq[e]
  <2>1. outq[d] - 1 \in Nat
    BY <1>1, Counts
  <2>2. QED
    BY <1>1, <2>1, Changed DEF Sound, RelayTyped
<1>3. /\ rcvd' \in [Direction -> Nat] /\ rcvd'[d] = rcvd[d] + 1
      /\ \A e \in Direction : e # d => rcvd'[e] = rcvd[e]
  <2>1. rcvd[d] + 1 \in Nat
    BY Counts
  <2>2. QED
    BY <1>1, <2>1, Changed DEF Sound, RelayTyped
<1>4. RelayTyped'
  BY <1>1, <1>2, <1>3 DEF Sound, RelayTyped
<1>5. Quiet' /\ Reported'
  BY <1>1 DEF Sound, Quiet, Reported, Early
<1>6. ASSUME NEW e \in Direction
      PROVE  rcvd'[e] + outq'[e] = rcvd[e] + outq[e] /\ (outq[e] = 0 => outq'[e] = 0)
  <2>1. CASE e = d
    BY <2>1, <1>1, <1>2, <1>3, Counts
  <2>2. CASE e # d
    BY <2>2, <1>2, <1>3
  <2>3. QED
    BY <2>1, <2>2
<1>7. Lossless'
  BY <1>1, <1>6 DEF Sound, Lossless, Early, InHand
<1>8. Kept'
  BY <1>1, <1>6 DEF Sound, Kept, Delivered, Undone, Early
<1>9. QED
  BY <1>4, <1>5, <1>7, <1>8 DEF Sound

LEMMA SeeEndSound == ASSUME Sound, NEW d \in Direction, SeeEnd(d) PROVE Sound'
<1>1. /\ (told[d] = "fin" /\ outq[d] = 0) \/ told[d] = "reset"
      /\ seen' = [seen EXCEPT ![d] = told[d]]
      /\ UNCHANGED <<handler, copier, errCh, shut, isOpen, inq, outq, told, sent, fin, rcvd, aborted>>
  BY DEF SeeEnd, proxyVars
<1>2. ~Early
  BY <1>1 DEF Sound, Quiet
<1>3. RelayTyped'
  BY <1>1 DEF Sound, RelayTyped
<1>4. Quiet' /\ Reported' /\ Lossless'
  BY <1>1, <1>2 DEF Sound, Quiet, Reported, Lossless, Early
<1>5. ASSUME NEW e \in Direction, Delivered(e) PROVE Delivered(e)'
  BY <1>1, <1>5 DEF Sound, RelayTyped, Delivered
<1>6. ASSUME NEW e \in Direction, Undone(e) PROVE Undone(e)'
  <2>1. To(d) \notin aborted
    BY DEF SeeEnd, Talking
  <2>2. seen'[e] = seen[e] \/ e = d
    BY <1>1 DEF Sound, RelayTyped
  <2>3. QED
    BY <1>1, <1>6, <2>1, <2>2 DEF Undone
<1>7. Kept'
  BY <1>1, <1>5, <1>6 DEF Sound, Kept, Early
<1>8. QED
  BY <1>3, <1>4, <1>7 DEF Sound

LEMMA AbortSound == ASSUME Sound, NEW d \in Direction, Abort(d) PROVE Sound'
<1>1. /\ aborted' = aborted \cup {From(d)}
      /\ UNCHANGED <<handler, copier, errCh, shut, isOpen, outq, told, sent, fin, rcvd, seen>>
  BY DEF Abort, proxyVars
<1>2. RelayTyped'
  <2>1. PICK n \in 0 .. inq[d] : inq' = [inq EXCEPT ![d] = n]
    BY DEF Abort
  <2>2. n \in Nat
    BY <2>1, Counts
  <2>3. inq' \in [Direction -> Nat]
    BY <2>1, <2>2, Changed DEF Sound, RelayTyped
  <2>4. QED
    BY <1>1, <2>3, Directions DEF Sound, RelayTyped
<1>3. Quiet' /\ Reported' /\ Lossless'
  BY <1>1 DEF Sound, Quiet, Reported, Lossless, Early
<1>4. ASSUME NEW e \in Direction, Delivered(e) \/ Undone(e) PROVE (Delivered(e) \/ Undone(e))'
  <2>1. CASE Undone(e)
    BY <1>1, <2>1 DEF Undone
  <2>2. CASE e = d
    BY <1>1, <2>2 DEF Undone
  <2>3. CASE e # d /\ Delivered(e)
    <3>1. inq'[e] = inq[e]
      BY <2>3 DEF Abort, Sound, RelayTyped
    <3>2. QED
      BY <1>1, <2>3, <3>1 DEF Delivered
  <2>4. QED
    BY <1>4, <2>1, <2>2, <2>3
<1>5. Kept'
  BY <1>1, <1>4 DEF Sound, Kept, Early
<1>6. QED
  BY <1>2, <1>3, <1>5 DEF Sound

-----------------------------------------------------------------------------
(* The rest of the command leaves the connection alone until it exits.     *)
Living == main # "exited" => Sound

LEMMA SoundInit == Init => Living
<1> SUFFICES ASSUME Init PROVE Sound
  BY DEF Living
<1>1. /\ handler = "none" /\ errCh = 0 /\ shut = {} /\ aborted = {}
      /\ copier = [d \in Direction |-> "none"] /\ fin = [d \in Direction |-> FALSE]
      /\ told = [d \in Direction |-> "nothing"] /\ seen = [d \in Direction |-> "nothing"]
      /\ sent = [d \in Direction |-> 0] /\ rcvd = [d \in Direction |-> 0]
      /\ inq = [d \in Direction |-> 0] /\ outq = [d \in Direction |-> 0]
  BY DEF Init, RelayInit
<1>2. RelayTyped
  BY <1>1 DEF RelayTyped, Stage
<1>3. Quiet /\ Reported
  BY <1>1 DEF Quiet, Reported, Early
<1>4. Lossless /\ Kept
  BY <1>1 DEF Lossless, Kept, Early, InHand
<1>5. QED
  BY <1>2, <1>3, <1>4 DEF Sound

LEMMA RelaySound == ASSUME Sound, StartHandler \/ RelayNext PROVE Sound'
<1>1. CASE StartHandler \/ handleConn
  BY <1>1, StartSound, NoUpstreamSound, DialledSound, FirstEndsSound, ClosingSound
     DEF handleConn, relay
<1>2. ASSUME NEW d \in Direction, Copy(d) PROVE Sound'
  BY <1>2, ReadSound, WriteSound, EndsSound, ReportSound DEF Copy
<1>3. CASE Ends
  BY <1>3, SendSound, FinishSound, ReceiveSound, SeeEndSound, AbortSound DEF Ends
<1>4. QED
  BY <1>1, <1>2, <1>3 DEF RelayNext

(* To the relay a step of the command is one of its own, the start of its  *)
(* handler, the exit of the process, or nothing.                           *)
LEMMA RelaySteps ==
  ASSUME [Next]_vars
  PROVE  StartHandler \/ RelayNext \/ Exit \/ UNCHANGED relayVars
<1>1. CASE Startup
  BY <1>1 DEF Startup, LoadStep, ExemptPID, ApplyConfig, StartWatcher, ParseDomainRules,
              setProxyTarget, InstallRules, Step, Elsewhere
<1>2. CASE Serve \/ CloseManager \/ DomainAnswered
  BY <1>2 DEF Serve, CloseManager, DomainAnswered, Elsewhere
<1>3. CASE Accepting \/ ListenerFails \/ Signal
  BY <1>3 DEF Accepting, ListenerFails, Signal
<1>4. CASE Connection \/ Handling \/ OutsideWorld
  BY <1>4 DEF Connection, Handling, OutsideWorld, RelayNext
<1>5. CASE UNCHANGED vars
  BY <1>5 DEF vars
<1>6. QED
  BY <1>1, <1>2, <1>3, <1>4, <1>5 DEF Next, runProxy

LEMMA ExitedStays == ASSUME [Next]_vars, main = "exited" PROVE main' = "exited"
<1>1. CASE Startup
  BY <1>1 DEF Startup, LoadStep, ExemptPID, ApplyConfig, StartWatcher, ParseDomainRules,
              setProxyTarget, InstallRules, Step
<1>2. CASE Serve \/ CloseManager \/ DomainAnswered \/ Exit
  BY <1>2 DEF Serve, CloseManager, DomainAnswered, Exit
<1>3. CASE \/ Accepting \/ ListenerFails \/ Signal
           \/ Connection \/ Handling \/ OutsideWorld \/ UNCHANGED vars
  BY <1>3 DEF Accepting, ListenerFails, Signal, Connection, Handling, OutsideWorld,
              vars, commandVars
<1>4. QED
  BY <1>1, <1>2, <1>3 DEF Next, runProxy

LEMMA SoundNext == Living /\ [Next]_vars => Living'
<1> SUFFICES ASSUME Living, [Next]_vars, main' # "exited" PROVE Sound'
  BY DEF Living
<1>1. Sound
  BY ExitedStays DEF Living
<1>2. CASE StartHandler \/ RelayNext
  BY <1>1, <1>2, RelaySound
<1>3. CASE UNCHANGED relayVars
  BY <1>1, <1>3 DEF relayVars, endVars, proxyVars, Sound, RelayTyped, Quiet, Lossless, Reported,
                    Kept, Delivered, Undone, Early, InHand
<1>4. ~Exit
  BY DEF Exit
<1>5. QED
  BY <1>2, <1>3, <1>4, RelaySteps

LEMMA WholeHolds == Living => CleanMeansWhole
<1> SUFFICES ASSUME Living, NEW d \in Direction, seen[d] = "fin", copier[d] # "none",
                    ~fin[Other(d)], From(d) \notin aborted, main # "exited"
             PROVE  fin[d] /\ rcvd[d] = sent[d]
  BY DEF CleanMeansWhole
<1>1. Sound
  BY DEF Living
<1>2. ~Early
  BY <1>1 DEF Sound, Quiet
<1>3. Delivered(d)
  BY <1>1, <1>2 DEF Sound, Kept, Undone
<1>4. QED
  BY <1>1, <1>3, Counts DEF Delivered

(* An end that has not finished and sees a clean end of the stream has     *)
(* been given all of it, unless the other end has reset its connection     *)
(* (relay and handleConn of internal/proxy/server.go).                     *)
THEOREM Whole == Spec => []CleanMeansWhole
<1>1. Spec => []Living
  BY SoundInit, SoundNext, PTL DEF Spec
<1>2. Living => CleanMeansWhole
  BY WholeHolds
<1>3. QED
  BY <1>1, <1>2, PTL

-----------------------------------------------------------------------------
(* TypeOK.  What attach lists are hooks, errCh has room for both copiers,  *)
(* and a chunk in a copier's hand counts among those sent.                 *)
LEMMA AddOne ==
  ASSUME NEW S, NEW s \in Seq(S), NEW e \in S PROVE Append(s, e) \in Seq(S)
  OBVIOUS

LEMMA LoaderSteps ==
  ASSUME LoaderTypeOK, "Redirect" \in opts, LoadAndAttach \/ Close
  PROVE  LoaderTypeOK'
<1> USE DEF LoaderTypeOK
<1>1. CASE Load \/ AttachFails \/ CloseObjects
  BY <1>1 DEF Load, AttachFails, CloseObjects
<1>2. CASE AttachNext
  <2>1. Plan[Len(local) + 1] \in Hook
    <3>1. Plan \in Seq(Hook) /\ Len(local) \in Nat /\ Len(local) < Len(Plan)
      BY <1>2, PlanProbes DEF AttachNext
    <3>2. Len(Plan) \in Nat /\ \A k \in 1 .. Len(Plan) : Plan[k] \in Hook
      BY <3>1
    <3>3. QED
      BY <3>1, <3>2
  <2> HIDE DEF Plan
  <2>2. QED
    BY <1>2, <2>1, AddOne DEF AttachNext
<1>3. CASE Attached
  BY <1>3 DEF Attached
<1>4. CASE CloseLink
  <2>1. Tail(links) \in Seq(Hook)
    BY <1>4 DEF CloseLink
  <2>2. QED
    BY <1>4, <2>1 DEF CloseLink
<1>5. QED
  BY <1>1, <1>2, <1>3, <1>4 DEF LoadAndAttach, Close

(* A chunk of a direction is in one place at a time.                       *)
Fitting == /\ RelayTypeOK
           /\ \A d \in Direction : inq[d] + outq[d] + rcvd[d] + InHand(d) <= sent[d]

LEMMA RelayAssumed == MaxChunks \in [Direction -> Nat] /\ Window \in Nat /\ Window > 0
  BY RelayAssumption

LEMMA FarewellOf ==
  ASSUME RelayTypeOK, NEW s \in {"a", "b"}, NEW f \in Farewell(s)
  PROVE  f \in {"nothing", "fin", "reset"}
<1>1. Outgoing(s) \in Direction
  <2>1. \E d \in Direction : To(d) = s
    BY DEF Direction, To
  <2>2. QED
    BY <2>1 DEF Outgoing
<1>2. QED
  BY <1>1 DEF Farewell, RelayTypeOK

LEMMA FittingCounts ==
  ASSUME Fitting, NEW d \in Direction
  PROVE  /\ inq[d] \in Nat /\ outq[d] \in Nat /\ rcvd[d] \in Nat /\ sent[d] \in Nat
         /\ outq[d] <= Window /\ sent[d] <= MaxChunks[d] /\ MaxChunks[d] \in Nat
         /\ inq[d] + outq[d] + rcvd[d] + InHand(d) <= sent[d]
         /\ outq \in [Direction -> Nat] /\ copier \in [Direction -> Stage]
<1>1. outq \in [Direction -> 0 .. Window]
  BY DEF Fitting, RelayTypeOK
<1>2. outq \in [Direction -> Nat] /\ outq[d] \in 0 .. Window
  BY <1>1, RelayAssumed
<1>3. /\ inq[d] \in Nat /\ rcvd[d] \in Nat /\ sent[d] \in Nat /\ sent[d] <= MaxChunks[d]
      /\ inq[d] + outq[d] + rcvd[d] + InHand(d) <= sent[d]
      /\ copier \in [Direction -> Stage]
  BY DEF Fitting, RelayTypeOK, Stage
<1>4. QED
  BY <1>2, <1>3, RelayAssumed

LEMMA HandlerFits == ASSUME Fitting, StartHandler \/ handleConn PROVE Fitting'
<1>1. /\ handler' \in {"start", "relay", "close write", "close read",
                       "close upstream", "close conn", "gone"}
      /\ UNCHANGED <<endVars, inq, outq>>
  BY DEF StartHandler, handleConn, relay, NoUpstream, Dialled, FirstEnds, CloseWrite, CloseRead,
         CloseUpstream, CloseConn
<1>2. copier' \in [Direction -> Stage]
      /\ \A d \in Direction : copier'[d] = "write" => copier[d] = "write"
  BY DEF StartHandler, handleConn, relay, NoUpstream, Dialled, FirstEnds, CloseWrite, CloseRead,
         CloseUpstream, CloseConn, Fitting, RelayTypeOK, Stage
<1>3. errCh' \in 0 .. 2
  <2>1. errCh \in 0 .. 2
    BY DEF Fitting, RelayTypeOK
  <2>2. errCh' = errCh \/ (errCh > 0 /\ errCh' = errCh - 1)
    BY DEF StartHandler, handleConn, relay, NoUpstream, Dialled, FirstEnds, CloseWrite, CloseRead,
           CloseUpstream, CloseConn
  <2>3. QED
    BY <2>1, <2>2
<1>4. shut' \in SUBSET {"write", "read"} /\ isOpen' \in SUBSET {"a", "b"}
  BY DEF StartHandler, handleConn, relay, NoUpstream, Dialled, FirstEnds, CloseWrite, CloseRead,
         CloseUpstream, CloseConn, CloseSocket, Fitting, RelayTypeOK
<1>5. told' \in [Direction -> {"nothing", "fin", "reset"}]
  <2>1. told \in [Direction -> {"nothing", "fin", "reset"}]
    BY DEF Fitting, RelayTypeOK
  <2>2. CASE CloseUpstream \/ CloseConn
    <3>1. PICK s \in {"a", "b"} :
            \E f \in Farewell(s) : told' = [told EXCEPT ![Outgoing(s)] = f]
      BY <2>2 DEF CloseUpstream, CloseConn, CloseSocket
    <3>2. QED
      BY <2>1, <3>1, FarewellOf DEF Fitting
  <2>3. CASE CloseWrite
    BY <2>1, <2>3 DEF CloseWrite
  <2>4. CASE StartHandler \/ NoUpstream \/ Dialled \/ FirstEnds \/ CloseRead
    BY <2>1, <2>4 DEF StartHandler, NoUpstream, Dialled, FirstEnds, CloseRead
  <2>5. QED
    BY <2>2, <2>3, <2>4 DEF handleConn, relay
<1>6. RelayTypeOK'
  BY <1>1, <1>2, <1>3, <1>4, <1>5 DEF endVars, Fitting, RelayTypeOK, Stage
<1>7. ASSUME NEW d \in Direction PROVE (inq[d] + outq[d] + rcvd[d] + InHand(d) <= sent[d])'
  <2>1. InHand(d)' \in {0, 1} /\ InHand(d)' <= InHand(d) /\ InHand(d) \in {0, 1}
    BY <1>2 DEF InHand
  <2>2. inq' = inq /\ outq' = outq /\ rcvd' = rcvd /\ sent' = sent
    BY <1>1 DEF endVars
  <2>3. QED
    BY <2>1, <2>2, FittingCounts
<1>8. QED
  BY <1>6, <1>7 DEF Fitting

(* What a step in one direction leaves as it is.                           *)
OthersStay(d) == \A e \in Direction : e # d => /\ copier'[e] = copier[e] /\ inq'[e] = inq[e]
                                              /\ outq'[e] = outq[e] /\ rcvd'[e] = rcvd[e]
                                              /\ sent'[e] = sent[e]

LEMMA FitsOne ==
  ASSUME Fitting, NEW d \in Direction, OthersStay(d),
         /\ handler' = handler /\ isOpen' = isOpen /\ shut' = shut
         /\ errCh' \in 0 .. 2 /\ aborted' \in SUBSET {"a", "b"}
         /\ fin' \in [Direction -> BOOLEAN] /\ copier' \in [Direction -> Stage]
         /\ sent' \in [Direction -> Nat] /\ inq' \in [Direction -> Nat]
         /\ rcvd' \in [Direction -> Nat] /\ outq' \in [Direction -> Nat]
         /\ told' \in [Direction -> {"nothing", "fin", "reset"}]
         /\ seen' \in [Direction -> {"nothing", "fin", "reset"}],
         /\ outq'[d] <= Window /\ sent'[d] <= MaxChunks[d]
         /\ inq'[d] + outq'[d] + rcvd'[d] + InHand(d)' <= sent'[d]
  PROVE  Fitting'
<1> USE RelayAssumed
<1>1. \A e \in Direction : inq'[e] \in Nat /\ outq'[e] \in Nat /\ rcvd'[e] \in Nat /\ sent'[e] \in Nat
  OBVIOUS
<1>2. ASSUME NEW e \in Direction
      PROVE  /\ outq'[e] \in 0 .. Window /\ sent'[e] <= MaxChunks[e]
             /\ inq'[e] + outq'[e] + rcvd'[e] + InHand(e)' <= sent'[e]
  <2>1. CASE e = d
    BY <1>1, <2>1
  <2>2. CASE e # d
    BY <1>1, <2>2 DEF OthersStay, Fitting, RelayTypeOK, InHand
  <2>3. QED
    BY <2>1, <2>2
<1>3. outq' \in [Direction -> 0 .. Window]
  BY <1>2
<1>4. \A e \in Direction : /\ inq'[e] + outq'[e] + rcvd'[e] <= sent'[e]
                           /\ (inq[e] + outq[e] + rcvd[e] + InHand(e) <= sent[e])'
  BY <1>1, <1>2 DEF InHand
<1>5. RelayTypeOK'
  <2>1. handler' \in {"none", "start", "relay", "close write", "close read",
                      "close upstream", "close conn", "gone"}
        /\ isOpen' \in SUBSET {"a", "b"} /\ shut' \in SUBSET {"write", "read"}
    BY DEF Fitting, RelayTypeOK
  <2>2. QED
    BY <1>2, <1>3, <1>4, <2>1 DEF RelayTypeOK, Stage
<1>6. QED
  BY <1>4, <1>5 DEF Fitting

LEMMA CopierFits == ASSUME Fitting, NEW d \in Direction, Copy(d) PROVE Fitting'
<1>1. /\ UNCHANGED <<handler, isOpen, shut, fin, sent, rcvd, seen, aborted, told>>
  BY DEF Copy, CopyRead, ReadEnds, CopyWrite, WriteFails, Report, endVars
<1>2. errCh' \in 0 .. 2
  <2>1. errCh \in 0 .. 2
    BY DEF Fitting, RelayTypeOK
  <2>2. errCh' = errCh \/ (errCh < 2 /\ errCh' = errCh + 1)
    BY DEF Copy, CopyRead, ReadEnds, CopyWrite, WriteFails, Report
  <2>3. QED
    BY <2>1, <2>2
<1>3. /\ OthersStay(d) /\ copier' \in [Direction -> Stage]
      /\ inq' \in [Direction -> Nat] /\ outq' \in [Direction -> Nat]
      /\ outq'[d] <= Window /\ inq'[d] + outq'[d] + rcvd'[d] + InHand(d)' <= sent'[d]
  <2>1. /\ copier \in [Direction -> Stage]
        /\ inq \in [Direction -> Nat] /\ outq \in [Direction -> Nat]
    BY FittingCounts DEF Fitting, RelayTypeOK
  <2>2. CASE CopyRead(d)
    <3>1. inq[d] - 1 \in Nat
      BY <2>2, FittingCounts DEF CopyRead
    <3>2. /\ inq' = [inq EXCEPT ![d] = inq[d] - 1] /\ copier' = [copier EXCEPT ![d] = "write"]
          /\ copier[d] = "read" /\ outq' = outq
      BY <2>2 DEF CopyRead
    <3>3. inq'[d] = inq[d] - 1 /\ inq' \in [Direction -> Nat] /\ InHand(d)' = 1 /\ InHand(d) = 0
      BY <2>1, <3>1, <3>2 DEF InHand, Stage
    <3>4. OthersStay(d) /\ copier' \in [Direction -> Stage]
      BY <1>1, <2>1, <3>2 DEF OthersStay, Stage
    <3>5. QED
      BY <1>1, <2>1, <3>2, <3>3, <3>4, FittingCounts
  <2>3. CASE CopyWrite(d)
    <3>1. /\ outq' = [outq EXCEPT ![d] = outq[d] + 1] /\ copier' = [copier EXCEPT ![d] = "read"]
          /\ copier[d] = "write" /\ inq' = inq /\ outq[d] < Window
      BY <2>3 DEF CopyWrite
    <3>2. outq'[d] = outq[d] + 1 /\ outq' \in [Direction -> Nat] /\ InHand(d)' = 0 /\ InHand(d) = 1
      BY <2>1, <3>1, FittingCounts DEF InHand, Stage
    <3>3. OthersStay(d) /\ copier' \in [Direction -> Stage]
      BY <1>1, <2>1, <3>1 DEF OthersStay, Stage
    <3>4. QED
      BY <1>1, <2>1, <3>1, <3>2, <3>3, FittingCounts, RelayAssumed
  <2>4. CASE ReadEnds(d) \/ WriteFails(d) \/ Report(d)
    <3>1. /\ \E c \in {"report", "done"} : copier' = [copier EXCEPT ![d] = c]
          /\ inq' = inq /\ outq' = outq
      BY <2>4 DEF ReadEnds, WriteFails, Report
    <3>2. InHand(d)' = 0 /\ InHand(d) \in {0, 1} /\ copier' \in [Direction -> Stage]
      BY <2>1, <3>1 DEF InHand, Stage
    <3>3. OthersStay(d)
      BY <1>1, <2>1, <3>1 DEF OthersStay
    <3>4. QED
      BY <1>1, <2>1, <3>1, <3>2, <3>3, FittingCounts
  <2>5. QED
    BY <2>2, <2>3, <2>4 DEF Copy
<1>4. sent'[d] <= MaxChunks[d]
  BY <1>1, FittingCounts
<1>5. /\ fin' \in [Direction -> BOOLEAN] /\ sent' \in [Direction -> Nat]
      /\ rcvd' \in [Direction -> Nat] /\ aborted' \in SUBSET {"a", "b"}
      /\ told' \in [Direction -> {"nothing", "fin", "reset"}]
      /\ seen' \in [Direction -> {"nothing", "fin", "reset"}]
  BY <1>1 DEF Fitting, RelayTypeOK
<1>6. QED
  BY <1>1, <1>2, <1>3, <1>4, <1>5, FitsOne

LEMMA EndFits ==
  ASSUME Fitting, NEW d \in Direction,
         Send(d) \/ Finish(d) \/ Receive(d) \/ SeeEnd(d) \/ Abort(d)
  PROVE  Fitting'
<1>1. UNCHANGED <<handler, copier, errCh, isOpen, shut>>
  BY DEF Send, Finish, Receive, SeeEnd, Abort, proxyVars
<1>2. /\ copier \in [Direction -> Stage] /\ errCh \in 0 .. 2 /\ aborted \in SUBSET {"a", "b"}
      /\ fin \in [Direction -> BOOLEAN] /\ outq \in [Direction -> Nat]
      /\ sent \in [Direction -> Nat] /\ inq \in [Direction -> Nat] /\ rcvd \in [Direction -> Nat]
      /\ told \in [Direction -> {"nothing", "fin", "reset"}]
      /\ seen \in [Direction -> {"nothing", "fin", "reset"}]
  BY FittingCounts DEF Fitting, RelayTypeOK
<1>3. InHand(d)' = InHand(d) /\ InHand(d) \in {0, 1}
  BY <1>1 DEF InHand
<1> HIDE DEF InHand
<1>4. CASE Send(d)
  <2>1. /\ sent' = [sent EXCEPT ![d] = sent[d] + 1] /\ sent[d] < MaxChunks[d]
        /\ UNCHANGED <<fin, rcvd, seen, aborted, outq>>
    BY <1>4 DEF Send
  <2>2. /\ sent' \in [Direction -> Nat] /\ sent'[d] = sent[d] + 1 /\ sent'[d] <= MaxChunks[d]
    BY <1>2, <2>1, FittingCounts
  <2>3. /\ inq' \in [Direction -> Nat] /\ inq'[d] <= inq[d] + 1 /\ inq'[d] \in Nat
        /\ \A e \in Direction : e # d => inq'[e] = inq[e]
    <3>1. inq' = inq \/ inq' = [inq EXCEPT ![d] = inq[d] + 1]
      BY <1>4 DEF Send
    <3>2. QED
      BY <1>2, <3>1
  <2>4. told' \in [Direction -> {"nothing", "fin", "reset"}]
    BY <1>2, <1>4 DEF Send
  <2>5. OthersStay(d)
    BY <1>1, <2>1, <2>3 DEF OthersStay
  <2>6. inq'[d] + outq'[d] + rcvd'[d] + InHand(d)' <= sent'[d] /\ outq'[d] <= Window
    BY <1>3, <2>1, <2>2, <2>3, FittingCounts
  <2>7. QED
    BY <1>1, <1>2, <2>1, <2>2, <2>3, <2>4, <2>5, <2>6, FitsOne
<1>5. CASE Receive(d)
  <2>1. /\ outq' = [outq EXCEPT ![d] = outq[d] - 1] /\ outq[d] > 0
        /\ rcvd' = [rcvd EXCEPT ![d] = rcvd[d] + 1]
        /\ UNCHANGED <<sent, fin, seen, aborted, inq, told>>
    BY <1>5 DEF Receive
  <2>2. outq[d] - 1 \in Nat /\ rcvd[d] + 1 \in Nat
    BY <2>1, FittingCounts
  <2>3. /\ outq' \in [Direction -> Nat] /\ outq'[d] = outq[d] - 1
        /\ rcvd' \in [Direction -> Nat] /\ rcvd'[d] = rcvd[d] + 1
    BY <1>2, <2>1, <2>2
  <2>4. OthersStay(d)
    BY <1>1, <2>1 DEF OthersStay
  <2>5. /\ inq'[d] + outq'[d] + rcvd'[d] + InHand(d)' <= sent'[d] /\ outq'[d] <= Window
        /\ sent'[d] <= MaxChunks[d]
    BY <1>3, <2>1, <2>3, FittingCounts, RelayAssumed
  <2>6. QED
    BY <1>1, <1>2, <2>1, <2>3, <2>4, <2>5, FitsOne
<1>6. CASE Finish(d) \/ SeeEnd(d) \/ Abort(d)
  <2>1. UNCHANGED <<sent, rcvd, outq, told>>
    BY <1>6 DEF Finish, SeeEnd, Abort
  <2>2. /\ fin' \in [Direction -> BOOLEAN] /\ aborted' \in SUBSET {"a", "b"}
        /\ seen' \in [Direction -> {"nothing", "fin", "reset"}]
    <3>1. From(d) \in {"a", "b"}
      BY DEF From
    <3>2. QED
      BY <1>2, <1>6, <3>1 DEF Finish, SeeEnd, Abort
  <2>3. /\ inq' \in [Direction -> Nat] /\ inq'[d] <= inq[d] /\ inq'[d] \in Nat
        /\ \A e \in Direction : e # d => inq'[e] = inq[e]
    <3>1. CASE Finish(d) \/ SeeEnd(d)
      BY <1>2, <3>1 DEF Finish, SeeEnd
    <3>2. CASE Abort(d)
      <4>1. PICK n \in 0 .. inq[d] : inq' = [inq EXCEPT ![d] = n]
        BY <3>2 DEF Abort
      <4>2. n \in Nat /\ n <= inq[d]
        BY <4>1, FittingCounts
      <4>3. QED
        BY <1>2, <4>1, <4>2
    <3>3. QED
      BY <1>6, <3>1, <3>2
  <2>4. OthersStay(d)
    BY <1>1, <2>1, <2>3 DEF OthersStay
  <2>5. /\ inq'[d] + outq'[d] + rcvd'[d] + InHand(d)' <= sent'[d] /\ outq'[d] <= Window
        /\ sent'[d] <= MaxChunks[d]
    BY <1>3, <2>1, <2>3, FittingCounts
  <2>6. QED
    BY <1>1, <1>2, <2>1, <2>2, <2>3, <2>4, <2>5, FitsOne
<1>7. QED
  BY <1>4, <1>5, <1>6

(* The exit of the process stops the copiers and tells the ends.           *)
LEMMA ExitFits == ASSUME Fitting, Exit PROVE Fitting'
<1>1. /\ UNCHANGED <<endVars, errCh, shut, inq, outq>> /\ isOpen' = {}
      /\ handler' \in {"none", "gone"}
      /\ told' \in [Direction -> {"nothing", "fin", "reset"}]
      /\ copier' \in [Direction -> {"none", "done"}]
  BY DEF Exit
<1>2. RelayTypeOK'
  BY <1>1 DEF Fitting, RelayTypeOK, endVars
<1>3. ASSUME NEW d \in Direction PROVE (inq[d] + outq[d] + rcvd[d] + InHand(d) <= sent[d])'
  <2>1. InHand(d)' = 0 /\ InHand(d) \in {0, 1}
    BY <1>1 DEF InHand
  <2>2. QED
    BY <1>1, <2>1, FittingCounts DEF endVars
<1>4. QED
  BY <1>2, <1>3 DEF Fitting

LEMMA FittingNext == Fitting /\ [Next]_vars => Fitting'
<1> SUFFICES ASSUME Fitting, [Next]_vars PROVE Fitting'
  OBVIOUS
<1>1. CASE Exit
  BY <1>1, ExitFits
<1>2. CASE StartHandler \/ RelayNext
  BY <1>2, HandlerFits, CopierFits, EndFits DEF RelayNext, Ends
<1>3. CASE UNCHANGED relayVars
  BY <1>3 DEF relayVars, endVars, proxyVars, Fitting, RelayTypeOK, InHand
<1>4. QED
  BY <1>1, <1>2, <1>3, RelaySteps

LEMMA FittingInit == Init => Fitting
<1> SUFFICES ASSUME Init PROVE Fitting
  OBVIOUS
<1>1. /\ handler = "none" /\ errCh = 0 /\ shut = {} /\ isOpen = {} /\ aborted = {}
      /\ copier = [d \in Direction |-> "none"] /\ fin = [d \in Direction |-> FALSE]
      /\ told = [d \in Direction |-> "nothing"] /\ seen = [d \in Direction |-> "nothing"]
      /\ sent = [d \in Direction |-> 0] /\ rcvd = [d \in Direction |-> 0]
      /\ inq = [d \in Direction |-> 0] /\ outq = [d \in Direction |-> 0]
  BY DEF Init, RelayInit
<1>2. 0 \in 0 .. Window /\ 0 \in 0 .. 2 /\ \A d \in Direction : 0 <= MaxChunks[d]
  BY RelayAssumed
<1>3. RelayTypeOK
  BY <1>1, <1>2 DEF RelayTypeOK
<1>4. \A d \in Direction : inq[d] + outq[d] + rcvd[d] + InHand(d) <= sent[d]
  BY <1>1 DEF InHand
<1>5. QED
  BY <1>3, <1>4 DEF Fitting

-----------------------------------------------------------------------------
(* The server's variables: errCh of Run has room for every listener.       *)
LEMMA Lengths ==
  ASSUME NEW S, NEW s \in Seq(S)
  PROVE  /\ Len(s) \in Nat
         /\ s # <<>> => Head(s) \in S /\ Len(Tail(s)) = Len(s) - 1
         /\ \A e \in S : Len(Append(s, e)) = Len(s) + 1
  OBVIOUS

LEMMA Empty == Len(<<>>) = 0
  OBVIOUS

LEMMA ListenFinite ==
  ASSUME NEW S, S \subseteq Family PROVE IsFiniteSet(S) /\ Cardinality(S) \in Nat
<1>1. IsFiniteSet({V4, V6})
  <2>1. IsFiniteSet({V4})
    BY FS_Singleton
  <2>2. IsFiniteSet({V4} \cup {V6})
    BY <2>1, FS_AddElement
  <2>3. {V4} \cup {V6} = {V4, V6}
    OBVIOUS
  <2>4. QED
    BY <2>2, <2>3
<1>2. QED
  BY <1>1, TwoFamilies, FS_Subset, FS_CardinalityType

LEMMA ServerInitTyped == Init => ServerTypeOK
<1> SUFFICES ASSUME Init PROVE ServerTypeOK
  OBVIOUS
<1>1. ServerTyped
  BY GenuineInit DEF Genuine
<1>2. pendingErr = <<>> /\ result = "none" /\ ctxDone = FALSE /\ cause = {}
  BY DEF Init, ServerInit
<1>3. Len(pendingErr) = 0 /\ Cardinality(listen) \in Nat
  BY <1>1, <1>2, ListenFinite, Empty DEF ServerTyped
<1>4. Len(pendingErr) <= Cardinality(listen)
  BY <1>3
<1>5. QED
  BY <1>1, <1>2, <1>4 DEF ServerTyped, ServerTypeOK

LEMMA ServerStepTyped == ASSUME Genuine, Genuine', ServerTypeOK, ServerNext PROVE ServerTypeOK'
<1>1. ServerTyped'
  BY DEF Genuine
<1>2. listen' = listen /\ ctxDone' \in BOOLEAN /\ cause' \in SUBSET Family
  BY DEF ServerNext, Run, acceptLoop, StartRun, listenTCP, ListenFails, NoListener, SpawnLoops,
         SelectDone, SelectError, CloseListener, WaitLoops, EndContext, AcceptClosed, CheckContext,
         ReportError, AcceptFails, ServerTypeOK
<1>3. result' \in {"none", "nil", "accept error", "closed", "listen error", "no listener"}
  <2>1. CASE SelectError
    <3>1. Head(pendingErr) \in {"accept error", "closed"}
      BY <2>1, Lengths DEF SelectError, ServerTypeOK
    <3>2. QED
      BY <2>1, <3>1 DEF SelectError
  <2>2. CASE ~SelectError
    BY <2>2 DEF ServerNext, Run, acceptLoop, StartRun, listenTCP, ListenFails, NoListener,
         SpawnLoops, SelectDone, CloseListener, WaitLoops, EndContext, AcceptClosed, CheckContext,
         ReportError, AcceptFails, ServerTypeOK
  <2>3. QED
    BY <2>1, <2>2
<1>4. Len(pendingErr') <= Cardinality(listen')
  <2>1. Cardinality(listen) \in Nat
    BY ListenFinite DEF ServerTypeOK
  <2>2. pendingErr \in Seq({"accept error", "closed"}) /\ Len(pendingErr) <= Cardinality(listen)
    BY DEF ServerTypeOK
  <2>3. /\ Len(pendingErr) \in Nat
        /\ pendingErr # <<>> => Len(Tail(pendingErr)) = Len(pendingErr) - 1
        /\ \A e \in {"accept error", "closed"} : Len(Append(pendingErr, e)) = Len(pendingErr) + 1
    BY <2>2, Lengths
  <2>4. CASE SelectError
    <3>1. pendingErr # <<>> /\ pendingErr' = Tail(pendingErr)
      BY <2>4 DEF SelectError
    <3>2. Len(pendingErr') = Len(pendingErr) - 1
      BY <2>3, <3>1
    <3>3. Len(pendingErr) <= Cardinality(listen)
      BY <2>2
    <3> HIDE DEF SelectError
    <3>4. QED
      BY <1>2, <2>1, <2>3, <3>2, <3>3
  <2>5. ASSUME NEW v \in listen, ReportError(v) PROVE Len(pendingErr') <= Cardinality(listen')
    <3>1. pendingErr' = Append(pendingErr, failure[v]) /\ Len(pendingErr) < Cardinality(listen)
      BY <2>5 DEF ReportError
    <3>2. failure[v] \in {"accept error", "closed"}
      BY <2>5 DEF ReportError, Genuine, ServerTyped, Caused
    <3>3. Len(Append(pendingErr, failure[v])) = Len(pendingErr) + 1
      BY <2>3, <3>2
    <3>4. QED
      BY <1>2, <2>1, <2>3, <3>1, <3>3
  <2>6. CASE UNCHANGED pendingErr
    BY <1>2, <2>2, <2>6
  <2>7. QED
    BY <2>4, <2>5, <2>6 DEF ServerNext, Run, acceptLoop, StartRun, listenTCP, ListenFails,
         NoListener, SpawnLoops, SelectDone, CloseListener, WaitLoops, EndContext, AcceptClosed,
         CheckContext, AcceptFails
<1>5. QED
  BY <1>1, <1>2, <1>3, <1>4 DEF ServerTyped, ServerTypeOK

-----------------------------------------------------------------------------
(* What the flags and the file ask for is a configuration again, with and  *)
(* without the defaults, and targets are only set for its families.        *)
Commanded == /\ given \in Conf!Configs /\ config \in Conf!Configs
             /\ targets \in SUBSET {V4, V6} /\ ruled \in BOOLEAN

LEMMA GivenTyped ==
  ASSUME NEW cli \in CliConfigs, NEW file \in FileConfigs
  PROVE  Conf!MergeConfig(cli, file) \in Conf!Configs
<1>1. cli \in Conf!Configs /\ file \in Conf!Configs
  BY CommandAssumption
<1>2. /\ Conf!Override(cli.static, file.static) \in Conf!RuleList
      /\ Conf!Override(cli.domains, file.domains) \in Conf!RuleList
  BY <1>1 DEF Conf!Configs, Conf!Override
<1>3. ASSUME NEW v \in {V4, V6}
      PROVE  /\ Conf!Override(cli.listen[v], file.listen[v]) \in Conf!Setting
             /\ Conf!Override(cli.redirect[v], file.redirect[v])
                  \in Conf!Setting \ {"wildcard"}
  <2>1. /\ cli.listen[v] \in Conf!Setting /\ file.listen[v] \in Conf!Setting
        /\ cli.redirect[v] \in Conf!Setting \ {"wildcard"}
        /\ file.redirect[v] \in Conf!Setting \ {"wildcard"}
    BY <1>1 DEF Conf!Configs
  <2>2. QED
    BY <2>1 DEF Conf!Override
<1>4. QED
  BY <1>2, <1>3 DEF Conf!MergeConfig, Conf!Configs

LEMMA ConfigTyped ==
  ASSUME NEW c \in Conf!Configs PROVE Conf!WithDefaults(c) \in Conf!Configs
<1>1. ASSUME NEW v \in {V4, V6}
      PROVE  /\ c.listen[v] \in Conf!Setting /\ c.redirect[v] \in Conf!Setting \ {"wildcard"}
             /\ Conf!OrDefault(c.listen[v]) \in Conf!Setting
             /\ Conf!OrDefault(c.redirect[v]) \in Conf!Setting \ {"wildcard"}
  BY DEF Conf!Configs, Conf!OrDefault, Conf!Setting, Conf!Address
<1>2. QED
  BY <1>1 DEF Conf!WithDefaults, Conf!Configs

LEMMA CommandedNext == ASSUME Commanded, [Next]_vars PROVE Commanded'
<1>1. given' = given /\ config' = config
  BY DEF Next, runProxy, Startup, LoadStep, ExemptPID, ApplyConfig, StartWatcher, ParseDomainRules,
         setProxyTarget, InstallRules, Step, Serve, CloseManager, Exit, DomainAnswered, Accepting,
         ListenerFails, Signal, Connection, Handling, OutsideWorld, vars, commandVars
<1>2. targets' \in SUBSET {V4, V6}
  BY DEF Commanded, Next, runProxy, Startup, LoadStep, ExemptPID, ApplyConfig, StartWatcher,
         ParseDomainRules, setProxyTarget, InstallRules, Step, Serve, CloseManager, Exit,
         DomainAnswered, Accepting, ListenerFails, Signal, Connection, Handling, OutsideWorld,
         vars, commandVars
<1>3. ruled' \in BOOLEAN
  BY DEF Commanded, Next, runProxy, Startup, LoadStep, ExemptPID, ApplyConfig, StartWatcher,
         ParseDomainRules, setProxyTarget, InstallRules, Step, Serve, CloseManager, Exit,
         DomainAnswered, Accepting, ListenerFails, Signal, Connection, Handling, OutsideWorld,
         vars, commandVars
<1>4. QED
  BY <1>1, <1>2, <1>3 DEF Commanded

LEMMA LoaderNext == ASSUME LoaderTypeOK, Loading, [Next]_vars PROVE LoaderTypeOK'
<1>1. CASE LoadStep \/ CloseManager
  BY <1>1, LoaderSteps DEF LoadStep, CloseManager, Loading
<1>2. CASE Exit
  BY <1>2 DEF Exit, LoaderTypeOK
<1>3. CASE UNCHANGED loaderVars
  BY <1>3 DEF loaderVars, LoaderTypeOK
<1>4. LoadStep \/ CloseManager \/ Exit \/ UNCHANGED loaderVars
  BY DEF Next, runProxy, Startup, ExemptPID, ApplyConfig, StartWatcher, ParseDomainRules,
         setProxyTarget, InstallRules, Step, Serve, DomainAnswered, Accepting,
         ListenerFails, Signal, Connection, Handling, OutsideWorld, vars
<1>5. QED
  BY <1>1, <1>2, <1>3, <1>4

(* The invariant of the command as a whole.                                *)
Ordered == Genuine /\ Loading /\ Serving /\ Fitting /\ ServerTypeOK /\ LoaderTypeOK /\ Commanded

LEMMA OrderedInit == Init => Ordered
<1> SUFFICES ASSUME Init PROVE Ordered
  OBVIOUS
<1>1. Genuine /\ Loading /\ Serving /\ Fitting /\ ServerTypeOK
  BY GenuineInit, ServingInit, FittingInit, ServerInitTyped
<1>2. LoaderTypeOK
  BY NoneOf DEF Init, LoaderInit, LoaderTypeOK, normalizeOptions, Option
<1>3. given \in Conf!Configs /\ config \in Conf!Configs
  BY GivenTyped, ConfigTyped DEF Init
<1>4. Commanded
  BY <1>3 DEF Init, Commanded
<1>5. QED
  BY <1>1, <1>2, <1>4 DEF Ordered

LEMMA OrderedNext == Ordered /\ [Next]_vars => Ordered'
<1> SUFFICES ASSUME Ordered, [Next]_vars PROVE Ordered'
  OBVIOUS
<1>1. Genuine /\ Loading /\ Serving /\ Fitting /\ ServerTypeOK /\ LoaderTypeOK /\ Commanded
  BY DEF Ordered
<1>2. Genuine' /\ Loading' /\ Serving' /\ Fitting' /\ LoaderTypeOK' /\ Commanded'
  BY <1>1, GenuineNext, ServingNext, FittingNext, LoaderNext, CommandedNext
<1>3. ServerTypeOK'
  <2>1. CASE ServerNext
    BY <1>1, <1>2, <2>1, ServerStepTyped
  <2>2. CASE UNCHANGED serverVars
    BY <1>1, <2>2 DEF serverVars, ServerTypeOK
  <2>3. QED
    BY <2>1, <2>2, ServerSteps
<1>4. QED
  BY <1>2, <1>3 DEF Ordered

(* The types of every variable of the command, with the bounds the code    *)
(* relies on: neither errCh ever has more errors than it has room for, no  *)
(* listener is open that is not configured, and no more chunks are on      *)
(* their way than were sent (attach of internal/ebpf/loader.go, Run and    *)
(* relay of internal/proxy/server.go).                                     *)
THEOREM Typing == Spec => []TypeOK
<1>1. Spec => []Ordered
  BY OrderedInit, OrderedNext, PTL DEF Spec
<1>2. Ordered => TypeOK
  BY DEF Ordered, Serving, Commanded, Fitting, TypeOK
<1>3. QED
  BY <1>1, <1>2, PTL
=============================================================================
