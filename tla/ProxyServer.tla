---------------------------- MODULE ProxyServer ----------------------------
(***************************************************************************)
(* The proxy's listeners (Run and acceptLoop of internal/proxy/server.go): *)
(* one goroutine per listener accepts connections until its listener fails *)
(* or is closed; Run waits for the context or the first error, closes      *)
(* every listener and waits for the goroutines.                            *)
(*                                                                         *)
(* cause is a history variable: how a listener really failed.              *)
(***************************************************************************)
EXTENDS Naturals, Sequences, FiniteSets

CONSTANT Families   \* the address families, v4 first

ASSUME FamiliesAssumption == Families \in Seq(STRING) /\ Families # <<>>

VARIABLES running,    \* where Server.Run is
          listen,     \* the families whose address is configured
          listening,  \* the listeners that are open
          loop,       \* where the acceptLoop of each listener is
          failure,    \* the error each acceptLoop has met
          pendingErr, \* errCh of Run
          result,     \* what Run returns
          ctxDone,    \* the context has ended
          cause       \* the listeners that have failed by themselves

serverVars == <<running, listen, listening, loop, failure, pendingErr, result, ctxDone, cause>>

Family == {Families[k] : k \in 1 .. Len(Families)}

ServerInit == /\ running = "off" /\ listening = {} /\ pendingErr = <<>>
              /\ loop = [v \in Family |-> "off"]
              /\ failure = [v \in Family |-> "none"]
              /\ result = "none" /\ ctxDone = FALSE /\ cause = {}

Rank(v) == CHOOSE k \in 1 .. Len(Families) : Families[k] = v

(* The listeners still to be opened, v4 first. *)
Wanted == {v \in listen : v \notin listening}

First(V) == CHOOSE v \in V : \A w \in V : Rank(v) <= Rank(w)

-----------------------------------------------------------------------------
StartRun == /\ running = "off"
            /\ running' = "listen"
            /\ UNCHANGED <<listen, listening, loop, failure, pendingErr, result, ctxDone, cause>>

listenTCP == /\ running = "listen" /\ Wanted # {}
             /\ listening' = listening \cup {First(Wanted)}
             /\ UNCHANGED <<running, listen, loop, failure, pendingErr, result, ctxDone, cause>>

(* A listener that cannot be opened closes those that could. *)
ListenFails == /\ running = "listen" /\ Wanted # {}
               /\ running' = "returned" /\ result' = "listen error"
               /\ listening' = {}
               /\ UNCHANGED <<listen, loop, failure, pendingErr, ctxDone, cause>>

NoListener == /\ running = "listen" /\ listen = {}
              /\ running' = "returned" /\ result' = "no listener"
              /\ UNCHANGED <<listen, listening, loop, failure, pendingErr, ctxDone, cause>>

SpawnLoops == /\ running = "listen" /\ listen # {} /\ Wanted = {}
              /\ running' = "select"
              /\ loop' = [v \in Family |-> IF v \in listen THEN "accept" ELSE "off"]
              /\ UNCHANGED <<listen, listening, failure, pendingErr, result, ctxDone, cause>>

(* The two cases of the select. *)
SelectDone == /\ running = "select" /\ ctxDone
              /\ running' = "close" /\ result' = "nil"
              /\ UNCHANGED <<listen, listening, loop, failure, pendingErr, ctxDone, cause>>

SelectError == /\ running = "select" /\ pendingErr # <<>>
               /\ running' = "close" /\ result' = Head(pendingErr)
               /\ pendingErr' = Tail(pendingErr)
               /\ UNCHANGED <<listen, listening, loop, failure, ctxDone, cause>>

CloseListener == /\ running = "close" /\ listening # {}
                 /\ listening' = listening \ {First(listening)}
                 /\ UNCHANGED <<running, listen, loop, failure, pendingErr, result, ctxDone, cause>>

LastErrorWins == /\ running = "close" /\ listening = {}
                 /\ \A v \in listen : loop[v] = "exit"
                 /\ running' = "returned"
                 /\ result' = IF pendingErr = <<>> THEN result ELSE Head(pendingErr)
                 /\ UNCHANGED <<listen, listening, loop, failure, pendingErr, ctxDone, cause>>

WithoutWaiting == /\ running = "close"
                  /\ running' = "returned"
                  /\ UNCHANGED <<listen, listening, loop, failure, pendingErr, result, ctxDone, cause>>

(* wg.Wait, then return. *)
WaitLoops == /\ running = "close" /\ listening = {}
             /\ \A v \in listen : loop[v] = "exit"
             /\ running' = "returned"
             /\ UNCHANGED <<listen, listening, loop, failure, pendingErr, result, ctxDone, cause>>

Run == listenTCP \/ ListenFails \/ NoListener \/ SpawnLoops
       \/ SelectDone \/ SelectError \/ CloseListener \/ WaitLoops

-----------------------------------------------------------------------------
(* acceptLoop.  A temporary error leaves the loop where it is. *)

AcceptFails(v) == /\ loop[v] = "accept" /\ v \in listening
                  /\ loop' = [loop EXCEPT ![v] = "failed"]
                  /\ failure' = [failure EXCEPT ![v] = "accept error"]
                  /\ cause' = cause \cup {v}
                  /\ UNCHANGED <<running, listen, listening, pendingErr, result, ctxDone>>

AcceptClosed(v) == /\ loop[v] = "accept" /\ v \notin listening
                   /\ loop' = [loop EXCEPT ![v] = "failed"]
                   /\ failure' = [failure EXCEPT ![v] = "closed"]
                   /\ UNCHANGED <<running, listen, listening, pendingErr, result, ctxDone, cause>>

(* The error counts only while the context has not ended. *)
CheckContext(v) == /\ loop[v] = "failed"
                   /\ loop' = [loop EXCEPT ![v] = IF ctxDone THEN "exit" ELSE "report"]
                   /\ UNCHANGED <<running, listen, listening, failure, pendingErr, result, ctxDone, cause>>

ReportToOne(v) == /\ loop[v] = "report" /\ Len(pendingErr) < 1
                  /\ loop' = [loop EXCEPT ![v] = "exit"]
                  /\ pendingErr' = Append(pendingErr, failure[v])
                  /\ UNCHANGED <<running, listen, listening, failure, result, ctxDone, cause>>

(* errCh has room for an error of every listener. *)
ReportError(v) == /\ loop[v] = "report" /\ Len(pendingErr) < Cardinality(listen)
                  /\ loop' = [loop EXCEPT ![v] = "exit"]
                  /\ pendingErr' = Append(pendingErr, failure[v])
                  /\ UNCHANGED <<running, listen, listening, failure, result, ctxDone, cause>>

acceptLoop(v) == AcceptClosed(v) \/ CheckContext(v) \/ ReportError(v)

EndContext == /\ ~ctxDone
              /\ ctxDone' = TRUE
              /\ UNCHANGED <<running, listen, listening, loop, failure, pendingErr, result, cause>>

ServerTypeOK ==
  /\ running \in {"off", "listen", "select", "close", "returned"}
  /\ listen \in SUBSET Family /\ listening \in SUBSET listen
  /\ loop \in [Family -> {"off", "accept", "failed", "report", "exit"}]
  /\ failure \in [Family -> {"none", "accept error", "closed"}]
  /\ pendingErr \in Seq({"accept error", "closed"}) /\ Len(pendingErr) <= Cardinality(listen)
  /\ result \in {"none", "nil", "accept error", "closed", "listen error", "no listener"}
  /\ ctxDone \in BOOLEAN /\ cause \in SUBSET Family
=============================================================================
