---------------------------- MODULE ProxyCommand ----------------------------
(***************************************************************************)
(* kscope proxy (runProxy of cmd/kscope/proxy.go) from its configuration   *)
(* to the exit of the process: it attaches the kernel programs, exempts    *)
(* itself, installs targets and rules one after the other, lets the server *)
(* listen and, when the server returns, detaches and exits.                *)
(*                                                                         *)
(* What the attached programs do to connects is in RedirectFlow and        *)
(* RedirectRules; here a family is redirected or it is not.  The           *)
(* goroutines that watch DNS replies appear as the rules they may add.     *)
(***************************************************************************)
EXTENDS Loader, ProxyServer, Relay

CONSTANTS V4, V6,       \* the address families
          CliConfigs,   \* what the flags may say
          FileConfigs,  \* what the file may say, a missing file included
          Served        \* bound: the configurations tried with a client; in
                        \* the others the listeners may fail

Conf == INSTANCE Config

ASSUME CommandAssumption == /\ Families = <<V4, V6>> /\ V4 # V6
                            /\ CliConfigs \cup FileConfigs \subseteq Conf!Configs

VARIABLES main,     \* where runProxy is
          given,    \* what the flags and the file say together
          config,   \* runProxy: merged, with the defaults
          targets,  \* the families with an entry in proxy_target
          ruled     \* some rule is in the kernel's maps

commandVars == <<main, given, config, targets, ruled>>
vars == <<loaderVars, serverVars, relayVars, commandVars>>

ProbesOf(v)  == IF v = V4 THEN {Probes[1], Probes[2]} ELSE {Probes[3], Probes[4]}
ConnectOf(v) == IF v = V4 THEN Cgroups[1] ELSE Cgroups[2]

(* Connects of family v are sent to the proxy. *)
Redirecting(v) == ConnectOf(v) \in attached /\ v \in targets /\ ruled

Init == /\ \E cli \in CliConfigs, file \in FileConfigs :
             given = Conf!MergeConfig(cli, file)
        /\ config = Conf!WithDefaults(given)
        /\ LoaderInit({"Redirect"} \cup IF config.domains = "none" THEN {} ELSE {"DNS"})
        /\ ServerInit /\ listen = {v \in {V4, V6} : config.listen[v] # "unset"}
        /\ RelayInit
        /\ main = "load" /\ targets = {} /\ ruled = FALSE

Elsewhere == UNCHANGED <<serverVars, relayVars>>

-----------------------------------------------------------------------------
(* Startup. *)

LoadStep == /\ main = "load"
            /\ LoadAndAttach
            /\ main' = IF loading' = "attached" THEN "exempt"
                       ELSE IF loading' = "failed" THEN "exit" ELSE "load"
            /\ UNCHANGED <<given, config, targets, ruled>> /\ Elsewhere

(* A step of runProxy that may end the command instead. *)
Step(from, to) == /\ main = from /\ main' \in {to, "close"}
                  /\ UNCHANGED <<given, config, loaderVars>> /\ Elsewhere

ExemptPID == Step("exempt", "parse") /\ UNCHANGED <<targets, ruled>>

ParseDomainRules == /\ main = "parse"
                    /\ main' = IF config.domains = "bad" THEN "close" ELSE "target4"
                    /\ UNCHANGED <<given, config, targets, ruled, loaderVars>> /\ Elsewhere

setProxyTarget(from, v, to) ==
  /\ Step(from, to)
  /\ targets' = IF main' = to /\ config.redirect[v] # "unset" THEN targets \cup {v} ELSE targets
  /\ UNCHANGED ruled

(* The maps are new, so that clearing them changes nothing.  The rules     *)
(* before one that cannot be parsed have been installed when it is met.    *)
InstallRules ==
  /\ Step("rules", "watch")
  /\ config.static = "bad" => main' = "close"
  /\ ruled' \in IF config.static = "none" THEN {FALSE} ELSE
                IF main' = "close" THEN BOOLEAN ELSE {TRUE}
  /\ UNCHANGED targets

ApplyConfig == \/ ParseDomainRules
               \/ setProxyTarget("target4", V4, "target6")
               \/ setProxyTarget("target6", V6, "rules")
               \/ InstallRules

(* The reader, bus, collector and watcher of DNS events. *)
StartWatcher == /\ Step("watch", "serve")
                /\ config.domains = "none" => main' = "serve"
                /\ UNCHANGED <<targets, ruled>>

(* Also after the server has returned, until the process exits.            *)
DomainAnswered == /\ main = "serve" \/ (main = "close" /\ running = "returned")
                  /\ config.domains = "good"
                  /\ ruled' = TRUE
                  /\ UNCHANGED <<main, given, config, targets, loaderVars>> /\ Elsewhere

-----------------------------------------------------------------------------
(* Service and the way out. *)

Serve == /\ main = "serve"
         /\ StartRun \/ Run
         /\ main' = IF running' = "returned" THEN "close" ELSE "serve"
         /\ UNCHANGED <<given, config, targets, ruled, loaderVars, relayVars>>

Accepting == /\ main = "serve" /\ \E v \in listen : acceptLoop(v)
             /\ UNCHANGED <<commandVars, loaderVars, relayVars>>

ListenerFails == /\ config \notin Served
                 /\ \E v \in listen : AcceptFails(v)
                 /\ UNCHANGED <<commandVars, loaderVars, relayVars>>

Signal == /\ main # "exited" /\ aborted = {}
          /\ EndContext
          /\ UNCHANGED <<commandVars, loaderVars, relayVars>>

Connection == /\ config \in Served
              /\ \E v \in listening : loop[v] = "accept"
              /\ StartHandler
              /\ UNCHANGED <<commandVars, loaderVars, serverVars>>

Handling == /\ main # "exited"
            /\ handleConn \/ \E d \in Direction : Copy(d)
            /\ UNCHANGED <<commandVars, loaderVars, serverVars>>

(* Bound: an end resets its connection, or a signal comes, not both. *)
OutsideWorld == /\ Ends
                /\ ctxDone => aborted' = aborted
                /\ UNCHANGED <<commandVars, loaderVars, serverVars>>

CloseManager == /\ main = "close"
                /\ Close
                /\ main' = IF loading' = "closed" THEN "exit" ELSE "close"
                /\ UNCHANGED <<given, config, targets, ruled>> /\ Elsewhere

(* The kernel takes back what the process leaves: hooks and connections.   *)
Exit == /\ main = "exit"
        /\ main' = "exited"
        /\ attached' = {}
        /\ isOpen' = {}
        /\ handler' = IF handler = "none" THEN "none" ELSE "gone"
        /\ copier' = [d \in Direction |-> IF copier[d] = "none" THEN "none" ELSE "done"]
        /\ told' \in {t \in [Direction -> {"nothing", "fin", "reset"}] :
                        \A d \in Direction : IF To(d) \in isOpen THEN t[d] \in Farewell(To(d))
                                                                 ELSE t[d] = told[d]}
        /\ UNCHANGED <<given, config, targets, ruled, opts, loading, local, links, serverVars>>
        /\ UNCHANGED <<endVars, errCh, shut, inq, outq>>

Startup  == LoadStep \/ ExemptPID \/ ApplyConfig \/ StartWatcher
runProxy == Startup \/ Serve \/ CloseManager \/ Exit

Next == \/ runProxy \/ DomainAnswered
        \/ Accepting \/ ListenerFails \/ Signal
        \/ Connection \/ Handling \/ OutsideWorld

Spec == Init /\ [][Next]_vars

(* Every goroutine of the command keeps running: main, the accept loops,   *)
(* the handler and its two copiers.  Nothing is assumed of clients,        *)
(* destinations, listeners or signals.                                     *)
LoopFair(v)   == WF_vars(/\ main = "serve" /\ acceptLoop(v)
                         /\ UNCHANGED <<commandVars, loaderVars, relayVars>>)
CopierFair(d) == WF_vars(/\ main # "exited" /\ Copy(d)
                         /\ UNCHANGED <<commandVars, loaderVars, serverVars>>)
HandlerFair   == WF_vars(/\ main # "exited" /\ handleConn
                         /\ UNCHANGED <<commandVars, loaderVars, serverVars>>)

FairSpec == /\ Spec /\ WF_vars(runProxy) /\ HandlerFair
            /\ \A v \in {V4, V6} : LoopFair(v)
            /\ \A d \in Direction : CopierFair(d)

-----------------------------------------------------------------------------
TypeOK == /\ LoaderTypeOK /\ ServerTypeOK /\ RelayTypeOK
          /\ main \in {"load", "exempt", "parse", "target4", "target6", "rules",
                       "watch", "serve", "close", "exit", "exited"}
          /\ given \in Conf!Configs /\ config \in Conf!Configs
          /\ targets \in SUBSET {V4, V6} /\ ruled \in BOOLEAN

(* While a listener takes connections, the probes that record where a      *)
(* redirected connect was going are attached: at shutdown, where they are  *)
(* detached before the hooks that redirect, no listener is left to accept  *)
(* a connection whose destination nobody recorded.                         *)
NoBlindRedirect ==
  \A v \in listening : Redirecting(v) => ProbesOf(v) \subseteq attached

(* What Run returns is why it ended: nil only for the context, a listen    *)
(* error, or an error a listener met while it was still open.  That the    *)
(* other listener was closed by Run itself is never the result.            *)
GenuineError ==
  running = "returned" =>
    \/ result = "nil" /\ ctxDone
    \/ result = "accept error" /\ cause # {}
    \/ result \in {"listen error", "no listener"} /\ listening = {}

(* A signal, or a listener that fails, ends the command, whatever the      *)
(* accept loops are doing and also when both listeners fail at the moment  *)
(* the context ends.                                                       *)
RunReturns ==
  (running = "select" /\ (ctxDone \/ cause # {})) ~> (main = "exited")

(* The proxy takes the connects of family v sent to its target. *)
Reachable(v) == v \in listening /\ Conf!Covers(config.listen[v], config.redirect[v])

(* The addresses asked for fit each other, one that is not given being the *)
(* default.                                                                *)
Fits(v) == Conf!Covers(Conf!OrDefault(given.listen[v]), Conf!OrDefault(given.redirect[v]))

(* Connects are never sent for good to an address where the proxy does not *)
(* listen: before the listener opens and after it closes they are refused  *)
(* for a while, in every family that is redirected, whichever of the       *)
(* addresses the flags and the file name.  Only who asks for a listener    *)
(* and a target that do not fit, such as a listener on another port and no *)
(* target, is promised nothing: nothing in the command compares the two.   *)
OutageEnds ==
  \A v \in {V4, V6} :
    (Fits(v) /\ Redirecting(v) /\ ~Reachable(v)) ~> (~Redirecting(v) \/ Reachable(v))

(* An end that has not itself finished sending, and sees the stream end    *)
(* without a reset, has been given everything the other end sent, also     *)
(* when it then resets the connection itself; the one exception is that    *)
(* the other end reset its own connection.  relay passes the end of a      *)
(* stream on only after its last chunk, but an error of io.Copy just as if *)
(* it were the end.  (An end that finishes first may be cut off, as relay  *)
(* then closes both directions; so may every connection when the process   *)
(* exits.)                                                                 *)
CleanMeansWhole ==
  \A d \in Direction :
    (seen[d] = "fin" /\ copier[d] # "none" /\ ~fin[Other(d)] /\ main # "exited")
      => \/ fin[d] /\ rcvd[d] = sent[d]
         \/ From(d) \in aborted

(* When one direction is done, the other copier and the handler end too,   *)
(* even if neither end of the connection ever does anything again.         *)
BothEnd ==
  (\E d \in Direction : copier[d] = "done")
    ~> (handler = "gone" /\ \A d \in Direction : copier[d] = "done")
=============================================================================
