------------------------------- MODULE Config -------------------------------
(***************************************************************************)
(* The proxy's configuration (internal/redirect/config.go).  A             *)
(* configuration is a record: for each family the address the proxy        *)
(* listens on and the one connects are redirected to, the rules that hold  *)
(* from the start and the domain rules, each list empty, good or with a    *)
(* rule that cannot be parsed.                                             *)
(*                                                                         *)
(* Addresses are told apart as far as one answers for another: the         *)
(* default (127.0.0.1:18080, [::1]:18080), all addresses of the host at    *)
(* that port, one of the others at that port, and one at another port.     *)
(***************************************************************************)
CONSTANTS V4, V6

Address == {"loopback", "wildcard", "host", "other port"}
Setting == Address \cup {"unset"}

RuleList == {"none", "good", "bad"}

Configs == [listen   : [{V4, V6} -> Setting],
            redirect : [{V4, V6} -> Setting \ {"wildcard"}],
            static   : RuleList, domains : RuleList]

(* A listener on address l takes the connects sent to address t. *)
Covers(l, t) == l = t \/ (l = "wildcard" /\ t \in {"loopback", "host"})

(* A setting of the file replaces the one of the flags; so does a list of  *)
(* rules, as a whole.                                                      *)
Override(cli, file) == IF file \in {"unset", "none"} THEN cli ELSE file

MergeConfig(cli, file) ==
  [listen   |-> [v \in {V4, V6} |-> Override(cli.listen[v], file.listen[v])],
   redirect |-> [v \in {V4, V6} |-> Override(cli.redirect[v], file.redirect[v])],
   static   |-> Override(cli.static, file.static),
   domains  |-> Override(cli.domains, file.domains)]

(* IPv4 always has both addresses; IPv6 has both when it has one. *)
Asked(c) == {V4} \cup {v \in {V4, V6} : c.listen[v] # "unset" \/ c.redirect[v] # "unset"}

OrDefault(a) == IF a = "unset" THEN "loopback" ELSE a

TargetOnly(c) ==
  [c EXCEPT !.listen[V4] = OrDefault(@),
            !.redirect = [v \in {V4, V6} |-> IF v \in Asked(c) THEN OrDefault(@[v]) ELSE @[v]]]

WithDefaults(c) ==
  [c EXCEPT !.listen   = [v \in {V4, V6} |-> IF v \in Asked(c) THEN OrDefault(@[v]) ELSE @[v]],
            !.redirect = [v \in {V4, V6} |-> IF v \in Asked(c) THEN OrDefault(@[v]) ELSE @[v]]]
=============================================================================
