------------------------------- MODULE Loader -------------------------------
(***************************************************************************)
(* Loading and attaching the kernel programs (internal/ebpf/loader.go).    *)
(* What is attached stays attached until its link is closed or the process *)
(* exits; attach hands its links to the manager only when all of them have *)
(* succeeded.                                                              *)
(***************************************************************************)
EXTENDS Sequences, Naturals

CONSTANT Sticky   \* the hooks whose link may fail to close

VARIABLES opts,      \* Manager.opts
          loading,   \* where LoadAndAttach, and later Close, is
          local,     \* attach's own list of links
          links,     \* Manager.links
          attached   \* the hooks attached in the kernel

loaderVars == <<opts, loading, local, links, attached>>

Option == {"DNS", "TCP", "Process", "Redirect"}

Probes      == <<"tcp_v4_connect", "tcp_v4_connect_return", "tcp_v6_connect", "tcp_v6_connect_return">>
Cgroups     == <<"connect4", "connect6">>
DNSPoints   == <<"sys_enter_sendto", "sys_enter_recvfrom", "sys_exit_recvfrom">>
ProcessPoint == <<"sched_process_exec">>

Hook == {"tcp_v4_connect", "tcp_v4_connect_return", "tcp_v6_connect", "tcp_v6_connect_return",
         "connect4", "connect6", "sys_enter_sendto", "sys_enter_recvfrom", "sys_exit_recvfrom",
         "sched_process_exec"}

(* With nothing enabled everything is observed. *)
normalizeOptions(o) == IF o = {} THEN {"DNS", "TCP", "Process"} ELSE o

If(b, s) == IF b THEN s ELSE <<>>

(* The hooks in the order attach attaches them. *)
Plan == If(opts \cap {"TCP", "Redirect"} # {}, Probes) \o If("Redirect" \in opts, Cgroups)
        \o If("DNS" \in opts, DNSPoints) \o If("Process" \in opts, ProcessPoint)

LoaderInit(o) == /\ opts = normalizeOptions(o)
                 /\ loading = "off" /\ local = <<>> /\ links = <<>> /\ attached = {}

(* rlimit and loadKscopeObjects, which may fail. *)
Load == /\ loading = "off"
        /\ loading' \in {"attach", "failed"}
        /\ UNCHANGED <<opts, local, links, attached>>

AttachNext == /\ loading = "attach" /\ Len(local) < Len(Plan)
              /\ local' = Append(local, Plan[Len(local) + 1])
              /\ attached' = attached \cup {Plan[Len(local) + 1]}
              /\ UNCHANGED <<opts, loading, links>>

(* LoadAndAttach calls Close, which finds no link to close. *)
AttachFails == /\ loading = "attach" /\ Len(local) < Len(Plan)
               /\ loading' = "failed"
               /\ UNCHANGED <<opts, local, links, attached>>

Attached == /\ loading = "attach" /\ Len(local) = Len(Plan)
            /\ loading' = "attached"
            /\ links' = local
            /\ UNCHANGED <<opts, local, attached>>

(* Close goes through the links in the order they were attached, whether   *)
(* or not one of them fails to close.                                      *)
CloseLink == /\ loading = "attached" /\ links # <<>>
             /\ links' = Tail(links)
             /\ \/ attached' = attached \ {Head(links)}
                \/ Head(links) \in Sticky /\ attached' = attached
             /\ UNCHANGED <<opts, loading, local>>

CloseObjects == /\ loading = "attached" /\ links = <<>>
                /\ loading' = "closed"
                /\ UNCHANGED <<opts, local, links, attached>>

LoadAndAttach == Load \/ AttachNext \/ AttachFails \/ Attached
Close         == CloseLink \/ CloseObjects

LoaderTypeOK == /\ opts \in SUBSET Option
                /\ loading \in {"off", "attach", "failed", "attached", "closed"}
                /\ local \in Seq(Hook) /\ links \in Seq(Hook)
                /\ attached \in SUBSET Hook
=============================================================================
