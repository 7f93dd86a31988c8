--------------------------- MODULE MCRedirectFlow ---------------------------
(* Threads, connections and the destinations but the proxy itself are      *)
(* interchangeable; addresses and ports are not, Init chooses one.         *)
EXTENDS RedirectFlow, TLC

Symmetric == Permutations(Threads) \cup Permutations(Dests \ {Proxy}) \cup Permutations(Conns)

(* What TLC explores of flow: once an entry has outlived its connect, all  *)
(* but the types goes unclaimed for good.                                  *)
NoStray == "stray" \notin seen
=============================================================================
