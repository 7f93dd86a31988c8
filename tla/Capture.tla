------------------------------ MODULE Capture ------------------------------
(***************************************************************************)
(* How the kernel programs of internal/ebpf/kscope.bpf.c observe system    *)
(* calls: what a thread passes to recvfrom is kept in recv_args from the   *)
(* call's entry to its return, where a DNS reply is copied into the ring   *)
(* buffer; a DNS query (sendto), a connect (its return probe) and an exec  *)
(* are copied at once.  A program runs only while it is attached.          *)
(*                                                                         *)
(* A captured event is a record: whether it will give a signal, and        *)
(* whether it was read with the arguments of the call that returned.       *)
(* captured is a history variable.                                         *)
(***************************************************************************)
EXTENDS Loader, FiniteSets

CONSTANTS Threads,      \* threads that call recvfrom
          RingSize,     \* bound: events the ring buffer has room for
          MaxCalls,     \* bound: calls of recvfrom
          MaxCaptured   \* bound: events captured

ASSUME CaptureAssumption == /\ RingSize \in Nat /\ MaxCalls \in Nat /\ MaxCaptured \in Nat
                            /\ IsFiniteSet(Threads)

VARIABLES recv_args,  \* the map: thread -> the call that stored its arguments
          call,       \* the recvfrom each thread is in
          calls,      \* how many there have been
          ring,       \* the events map
          captured    \* everything ever put into it

captureVars == <<recv_args, call, calls, ring, captured>>

NoCall == 0

Captured == [signal : BOOLEAN, own : BOOLEAN]

CaptureInit == /\ recv_args = [t \in Threads |-> NoCall]
               /\ call = [t \in Threads |-> NoCall] /\ calls = 0
               /\ ring = <<>> /\ captured = <<>>

(* bpf_ringbuf_reserve and submit: with no room the event is lost. *)
Submit(e) == /\ Len(captured) < MaxCaptured
             /\ IF Len(ring) < RingSize
                THEN ring' = Append(ring, e) /\ captured' = Append(captured, e)
                ELSE UNCHANGED <<ring, captured>>

(* Whatever the map held for the thread is overwritten (BPF_ANY). *)
StoreArgs(t) == IF "sys_enter_recvfrom" \in attached
                THEN recv_args' = [recv_args EXCEPT ![t] = calls + 1]
                ELSE UNCHANGED recv_args

sys_enter_recvfrom(t) == /\ call[t] = NoCall /\ calls < MaxCalls
                         /\ calls' = calls + 1
                         /\ call' = [call EXCEPT ![t] = calls + 1]
                         /\ StoreArgs(t)
                         /\ UNCHANGED <<ring, captured, loaderVars>>

(* The arguments go, whether the call returned a DNS reply or not. *)
sys_exit_recvfrom(t) ==
  /\ call[t] # NoCall
  /\ call' = [call EXCEPT ![t] = NoCall]
  /\ IF "sys_exit_recvfrom" \in attached /\ recv_args[t] # NoCall
     THEN /\ recv_args' = [recv_args EXCEPT ![t] = NoCall]
          /\ \/ UNCHANGED <<ring, captured>>
             \/ \E s \in BOOLEAN : Submit([signal |-> s, own |-> recv_args[t] = call[t]])
     ELSE UNCHANGED <<recv_args, ring, captured>>
  /\ UNCHANGED <<calls, loaderVars>>

(* The programs that copy what they see at once: the connects' return      *)
(* probes, the one for queries and the one for execs.                      *)
Connects == {"tcp_v4_connect_return", "tcp_v6_connect_return"}
Queries  == {"sys_enter_sendto"}
Execs    == {"sched_process_exec"}

CaptureAtOnce == /\ attached \cap (Connects \cup Queries \cup Execs) # {}
                 /\ \E s \in BOOLEAN : Submit([signal |-> s, own |-> TRUE])
                 /\ UNCHANGED <<recv_args, call, calls, loaderVars>>

Kernel == \/ \E t \in Threads : sys_enter_recvfrom(t) \/ sys_exit_recvfrom(t)
          \/ CaptureAtOnce

CaptureTypeOK == /\ recv_args \in [Threads -> 0 .. MaxCalls]
                 /\ call \in [Threads -> 0 .. MaxCalls] /\ calls \in 0 .. MaxCalls
                 /\ ring \in Seq(Captured) /\ Len(ring) <= RingSize
                 /\ captured \in Seq(Captured) /\ Len(captured) <= MaxCaptured
=============================================================================
