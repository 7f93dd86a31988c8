------------------------------- MODULE Relay -------------------------------
(***************************************************************************)
(* One redirected connection inside the proxy (handleConn and relay of     *)
(* internal/proxy/server.go): a client behind socket a, the original       *)
(* destination behind socket b, and two goroutines that copy, one each     *)
(* way.  relay returns as soon as one of them is done, and the closing of  *)
(* both sockets is what ends the other.                                    *)
(*                                                                         *)
(* Data is counted in chunks, what one Read returns.  TCP keeps their      *)
(* order, so a direction is how many chunks wait in each place.  The two   *)
(* ends and the kernel's part of TCP (what a close tells the other end)    *)
(* are external.                                                           *)
(***************************************************************************)
EXTENDS Naturals

CONSTANTS MaxChunks,  \* bound: chunks sent in each direction
          Window      \* bound: chunks a receiver that does not read takes

Direction == {"up", "down"}     \* from the client, to the client

ASSUME RelayAssumption == MaxChunks \in [Direction -> Nat] /\ Window \in Nat \ {0}

VARIABLES handler,   \* where handleConn is
          copier,    \* where the goroutine that copies each way is
          errCh,     \* relay: errors waiting in errCh
          isOpen,    \* the sockets the proxy has not closed
          shut,      \* relay: which of CloseWrite, CloseRead it has called
          sent,      \* chunks the sender of a direction has sent
          fin,       \* the sender of a direction has said it is finished
          inq,       \* sent, not read by the proxy
          outq,      \* written by the proxy, not read by the receiver
          rcvd,      \* read by the receiver
          told,      \* what the proxy's end of the stream tells the receiver
          seen,      \* what the receiver has seen of it
          aborted    \* the ends that have reset their connection

endVars   == <<sent, fin, rcvd, seen, aborted>>
proxyVars == <<handler, copier, errCh, shut>>
relayVars == <<endVars, proxyVars, isOpen, inq, outq, told>>

Other(d)  == IF d = "up" THEN "down" ELSE "up"
From(d)   == IF d = "up" THEN "a" ELSE "b"     \* the socket it is read from
To(d)     == IF d = "up" THEN "b" ELSE "a"     \* and written to

RelayInit == /\ handler = "none" /\ errCh = 0 /\ shut = {} /\ isOpen = {} /\ aborted = {}
             /\ copier = [d \in Direction |-> "none"]
             /\ fin = [d \in Direction |-> FALSE]
             /\ told = [d \in Direction |-> "nothing"]
             /\ seen = [d \in Direction |-> "nothing"]
             /\ sent = [d \in Direction |-> 0] /\ rcvd = [d \in Direction |-> 0]
             /\ inq = [d \in Direction |-> 0] /\ outq = [d \in Direction |-> 0]

-----------------------------------------------------------------------------
(* What the kernel tells the other end when socket s is closed: the end of *)
(* the stream, after everything written; a reset when data is left unread, *)
(* unless that data is still under way.                                    *)
Outgoing(s) == CHOOSE d \in Direction : To(d) = s
Incoming(s) == CHOOSE d \in Direction : From(d) = s

Farewell(s) == IF told[Outgoing(s)] # "nothing" THEN {told[Outgoing(s)]}
               ELSE IF inq[Incoming(s)] > 0 THEN {"fin", "reset"} ELSE {"fin"}

CloseSocket(s) == /\ isOpen' = isOpen \ {s}
                  /\ \E f \in Farewell(s) : told' = [told EXCEPT ![Outgoing(s)] = f]

-----------------------------------------------------------------------------
(* handleConn. *)

(* The goroutine acceptLoop starts for a connection. *)
StartHandler == /\ handler = "none"
                /\ handler' = "start"
                /\ isOpen' = {"a"}
                /\ UNCHANGED <<endVars, copier, errCh, shut, inq, outq, told>>

(* No cookie, no recorded destination, none that can be dialled. *)
NoUpstream == /\ handler = "start"
              /\ handler' = "close conn"
              /\ UNCHANGED <<endVars, copier, errCh, shut, isOpen, inq, outq, told>>

Dialled == /\ handler = "start"
           /\ handler' = "relay"
           /\ isOpen' = isOpen \cup {"b"}
           /\ copier' = [d \in Direction |-> "read"]
           /\ UNCHANGED <<endVars, errCh, shut, inq, outq, told>>

(* relay: the first error, nil for the end of a stream, is enough. *)
FirstEnds == /\ handler = "relay" /\ errCh > 0
             /\ errCh' = errCh - 1
             /\ handler' = "close write"
             /\ UNCHANGED <<endVars, copier, shut, isOpen, inq, outq, told>>

CloseWrite == /\ handler = "close write"
              /\ handler' = "close read"
              /\ shut' = shut \cup {"write"}
              /\ told' = [told EXCEPT !["down"] = IF @ = "nothing" THEN "fin" ELSE @]
              /\ UNCHANGED <<endVars, copier, errCh, isOpen, inq, outq>>

NoDeferredClose == /\ handler = "close read"
                   /\ handler' = "close conn"
                   /\ shut' = shut \cup {"read"}
                   /\ UNCHANGED <<endVars, copier, errCh, isOpen, inq, outq, told>>

CloseRead == /\ handler = "close read"
             /\ handler' = "close upstream"
             /\ shut' = shut \cup {"read"}
             /\ UNCHANGED <<endVars, copier, errCh, isOpen, inq, outq, told>>

(* The deferred calls, last one first. *)
CloseUpstream == /\ handler = "close upstream"
                 /\ handler' = "close conn"
                 /\ CloseSocket("b")
                 /\ UNCHANGED <<endVars, copier, errCh, shut, inq, outq>>

CloseConn == /\ handler = "close conn"
             /\ handler' = "gone"
             /\ CloseSocket("a")
             /\ UNCHANGED <<endVars, copier, errCh, shut, inq, outq>>

relay      == FirstEnds \/ CloseWrite \/ CloseRead
handleConn == NoUpstream \/ Dialled \/ relay \/ CloseUpstream \/ CloseConn

-----------------------------------------------------------------------------
(* io.Copy in direction d: Read, Write, Read, ... *)

CopyRead(d) == /\ copier[d] = "read" /\ From(d) \in isOpen
               /\ inq[d] > 0
               /\ inq' = [inq EXCEPT ![d] = @ - 1]
               /\ copier' = [copier EXCEPT ![d] = "write"]
               /\ UNCHANGED <<endVars, handler, errCh, shut, isOpen, outq, told>>

(* Read returns no data: the socket has been closed, the stream has ended, *)
(* its reading side has been shut, or the other end has reset it.          *)
ReadEnds(d) == /\ copier[d] = "read"
               /\ \/ From(d) \notin isOpen \/ From(d) \in aborted
                  \/ inq[d] = 0 /\ (fin[d] \/ (d = "up" /\ "read" \in shut))
               /\ copier' = [copier EXCEPT ![d] = "report"]
               /\ UNCHANGED <<endVars, handler, errCh, shut, isOpen, inq, outq, told>>

(* A hand-written loop that drops what comes together with io.EOF. *)
CopyUntilEOF(d) == /\ copier[d] = "write" /\ To(d) \in isOpen
                   /\ outq[d] < Window
                   /\ outq' = [outq EXCEPT ![d] = IF fin[d] /\ inq[d] = 0 THEN @ ELSE @ + 1]
                   /\ copier' = [copier EXCEPT ![d] = "read"]
                   /\ UNCHANGED <<endVars, handler, errCh, shut, isOpen, inq, told>>

CanWrite(d) == /\ To(d) \in isOpen
               /\ ~(d = "down" /\ "write" \in shut)

(* A write that is repeated although it has gone through. *)
CopyAgain(d) == /\ copier[d] = "write" /\ CanWrite(d)
                /\ outq[d] < Window
                /\ outq' = [outq EXCEPT ![d] = @ + 1]
                /\ \E c \in {"read", "write"} : copier' = [copier EXCEPT ![d] = c]
                /\ UNCHANGED <<endVars, handler, errCh, shut, isOpen, inq, told>>

CopyWrite(d) == /\ copier[d] = "write" /\ CanWrite(d)
                /\ outq[d] < Window
                /\ outq' = [outq EXCEPT ![d] = @ + 1]
                /\ copier' = [copier EXCEPT ![d] = "read"]
                /\ UNCHANGED <<endVars, handler, errCh, shut, isOpen, inq, told>>

(* The chunk in hand is lost. *)
WriteFails(d) == /\ copier[d] = "write"
                 /\ ~CanWrite(d) \/ To(d) \in aborted
                 /\ copier' = [copier EXCEPT ![d] = "report"]
                 /\ UNCHANGED <<endVars, handler, errCh, shut, isOpen, inq, outq, told>>

(* errCh has room for both. *)
Report(d) == /\ copier[d] = "report" /\ errCh < 2
             /\ errCh' = errCh + 1
             /\ copier' = [copier EXCEPT ![d] = "done"]
             /\ UNCHANGED <<endVars, handler, shut, isOpen, inq, outq, told>>

Copy(d) == CopyRead(d) \/ ReadEnds(d) \/ CopyWrite(d) \/ WriteFails(d) \/ Report(d)

-----------------------------------------------------------------------------
(* The two ends: the client once it is connected, the destination once it  *)
(* has been dialled.  The end of a direction is named by its socket.       *)

Talking(s) == /\ handler # "none"
              /\ s = "b" => copier["up"] # "none"
              /\ s \notin aborted /\ seen[Outgoing(s)] # "reset"

Send(d) == /\ Talking(From(d)) /\ ~fin[d] /\ sent[d] < MaxChunks[d]
           /\ sent' = [sent EXCEPT ![d] = @ + 1]
           /\ IF From(d) \in isOpen
              THEN inq' = [inq EXCEPT ![d] = @ + 1] /\ UNCHANGED told
              ELSE told' = [told EXCEPT ![Other(d)] = "reset"] /\ UNCHANGED inq
           /\ UNCHANGED <<fin, rcvd, seen, aborted, proxyVars, isOpen, outq>>

Finish(d) == /\ Talking(From(d)) /\ ~fin[d]
             /\ fin' = [fin EXCEPT ![d] = TRUE]
             /\ UNCHANGED <<sent, rcvd, seen, aborted, proxyVars, isOpen, inq, outq, told>>

Receive(d) == /\ Talking(To(d)) /\ outq[d] > 0
              /\ outq' = [outq EXCEPT ![d] = @ - 1]
              /\ rcvd' = [rcvd EXCEPT ![d] = @ + 1]
              /\ UNCHANGED <<sent, fin, seen, aborted, proxyVars, isOpen, inq, told>>

SeeEnd(d) == /\ Talking(To(d)) /\ seen[d] = "nothing"
             /\ \/ told[d] = "fin" /\ outq[d] = 0
                \/ told[d] = "reset"
             /\ seen' = [seen EXCEPT ![d] = told[d]]
             /\ UNCHANGED <<sent, fin, rcvd, aborted, proxyVars, isOpen, inq, outq, told>>

(* What it had sent and the proxy has not read may be lost. *)
Abort(d) == /\ Talking(From(d))
            /\ aborted' = aborted \cup {From(d)}
            /\ \E n \in 0 .. inq[d] : inq' = [inq EXCEPT ![d] = n]
            /\ UNCHANGED <<sent, fin, rcvd, seen, proxyVars, isOpen, outq, told>>

Ends == \E d \in Direction : Send(d) \/ Finish(d) \/ Receive(d) \/ SeeEnd(d) \/ Abort(d)

RelayNext == handleConn \/ (\E d \in Direction : Copy(d)) \/ Ends

-----------------------------------------------------------------------------
RelayTypeOK ==
  /\ handler \in {"none", "start", "relay", "close write", "close read",
                  "close upstream", "close conn", "gone"}
  /\ copier \in [Direction -> {"none", "read", "write", "report", "done"}]
  /\ errCh \in 0 .. 2
  /\ isOpen \in SUBSET {"a", "b"} /\ aborted \in SUBSET {"a", "b"}
  /\ shut \in SUBSET {"write", "read"}
  /\ fin \in [Direction -> BOOLEAN]
  /\ sent \in [Direction -> Nat] /\ inq \in [Direction -> Nat] /\ rcvd \in [Direction -> Nat]
  /\ outq \in [Direction -> 0 .. Window]
  /\ \A d \in Direction : inq[d] + outq[d] + rcvd[d] <= sent[d] /\ sent[d] <= MaxChunks[d]
  /\ told \in [Direction -> {"nothing", "fin", "reset"}]
  /\ seen \in [Direction -> {"nothing", "fin", "reset"}]
=============================================================================
