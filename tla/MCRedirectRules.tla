--------------------------- MODULE MCRedirectRules ---------------------------
(* Rules of every kind: by address over two addresses that are each other  *)
(* reversed, by name over names of which one fills the 16 bytes.           *)
EXTENDS RedirectRules, TLC

CONSTANTS self, worker, curl, long, other, i, j, l

MCReversed == [ip \in IPs |-> IF ip = i THEN j ELSE IF ip = j THEN i ELSE ip]
Named      == [p \in Pids |-> p]
OneIPRule  == {<<i, AnyPort>>}
BothPorts  == [d \in Domains |-> {AnyPort, 80}]
OnePort    == [d \in Domains |-> {80}]
=============================================================================
