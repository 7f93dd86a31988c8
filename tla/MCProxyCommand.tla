-------------------------- MODULE MCProxyCommand --------------------------
(* The command with addresses its flags and file may give it: the defaults, *)
(* a listener on every address with a target on one (README.md), IPv6 by    *)
(* listener or by target alone, a listener on a port nobody is sent to.     *)
(* There is a client where everything is the default and the rules static.  *)
EXTENDS ProxyCommand, TLC

MCFamilies == <<V4, V6>>

Pair(a, b) == (V4 :> a) @@ (V6 :> b)
Flags(L, R, s, n) == [listen |-> L, redirect |-> R, static |-> s, domains |-> n]
Neither == Pair("unset", "unset")
Default == Pair("loopback", "unset")

MCCliConfigs  == {Flags(Default, Default, "good", "none"),
                  Flags(Pair("wildcard", "unset"), Pair("host", "unset"), "none", "good")}
MCFileConfigs == {Flags(Neither, Neither, "none", "none"),
                  Flags(Pair("unset", "loopback"), Neither, "bad", "none"),
                  Flags(Pair("other port", "unset"), Pair("unset", "loopback"), "none", "none"),
                  Flags(Neither, Neither, "none", "bad")}
MCServed      == {Flags(Default, Default, "good", "none")}
MCMaxChunks   == [up |-> 1, down |-> 2]
MCSticky      == {"connect4"}
=============================================================================
