----------------------------- MODULE EventFeed -----------------------------
(***************************************************************************)
(* What the event bus promises to its subscribers, without its channels,   *)
(* its goroutine or its locks: one log of accepted events, and for every   *)
(* subscription a position in that log that only moves forward, one event  *)
(* at a time.  An event the position passes is appended to the feed of the *)
(* subscription; it may be skipped only when the bus was built to drop, or *)
(* once it has been closed.                                                *)
(***************************************************************************)
EXTENDS Naturals, Sequences

CONSTANTS Subs,     \* the subscriptions
          Event,    \* the events that may be published
          Lossy     \* TRUE when the bus drops for a slow subscriber

VARIABLES log,      \* every accepted event, in the order of acceptance
          pos,      \* pos[s]: how much of the log has been offered to s
          feed,     \* feed[s]: what s has been given, oldest first
          closed    \* the bus has been told to stop

feedVars == <<log, pos, feed, closed>>

Init == /\ log = <<>>
        /\ pos = [s \in Subs |-> 0]
        /\ feed = [s \in Subs |-> <<>>]
        /\ closed = FALSE

Accept(e) == /\ log' = Append(log, e)
             /\ UNCHANGED <<pos, feed, closed>>

(* A subscription that has been given nothing starts at a point of the log. *)
Join(s) == /\ feed[s] = <<>>
           /\ \E n \in pos[s] .. Len(log) : pos' = [pos EXCEPT ![s] = n]
           /\ UNCHANGED <<log, feed, closed>>

Give(s) == /\ pos[s] < Len(log)
           /\ pos' = [pos EXCEPT ![s] = @ + 1]
           /\ feed' = [feed EXCEPT ![s] = Append(@, log[pos[s] + 1])]
           /\ UNCHANGED <<log, closed>>

Skip(S) == /\ Lossy \/ closed
           /\ \A s \in S : pos[s] < Len(log)
           /\ pos' = [s \in Subs |-> IF s \in S THEN pos[s] + 1 ELSE pos[s]]
           /\ UNCHANGED <<log, feed, closed>>

Close == /\ closed' = TRUE
         /\ UNCHANGED <<log, pos, feed>>

Next == \/ \E e \in Event : Accept(e)
        \/ \E s \in Subs : Join(s) \/ Give(s)
        \/ \E S \in SUBSET Subs : Skip(S)
        \/ Close

Spec == Init /\ [][Next]_feedVars
=============================================================================
