------------------------------- MODULE MCBus -------------------------------
(* Small buses for TLC: three Subscribe calls, two of which use one name,  *)
(* and two calls that both use it.                                         *)
EXTENDS Bus, TLC

CONSTANTS p1, p2, s1, s2, s3, a, b

MCNameOf == (s1 :> a) @@ (s2 :> a) @@ (s3 :> b)
OneName  == (s1 :> a) @@ (s2 :> a)
=============================================================================
