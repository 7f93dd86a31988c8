----------------------------- MODULE MCObserve -----------------------------
(* The command with every channel of capacity one and a thread in recvfrom. *)
EXTENDS Observe

MCSticky  == {}
MCModules == {{"DNS"}}
=============================================================================
