------------------------------- MODULE Startup -------------------------------
(***************************************************************************)
(* The start and the end of the program (src/cmd/gluetun/main.go): _main goes *)
(* through its steps, each of which may fail, starts the services, waits to    *)
(* be told to end and ends them in order.  main waits for it, or for a signal   *)
(* and then no longer than its grace period.  The control server, and pprof,    *)
(* are servers of internal/httpserver, which _main waits for.                  *)
(***************************************************************************)
EXTENDS Naturals, Sequences, FiniteSets

CONSTANT
    MaxLate     \* bound on the services of a group that are slow to end

\* What the constants are assumed to be.
StartupConstants == MaxLate \in Nat

VARIABLE m
(* at: the step of _main; set: the steps that succeeded; services: the goroutines that  *)
(* run; told and late: those told to end, and given up on; failed: _main returns an     *)
(* error; torn: the routing was undone; signal: it was received, and the context is     *)
(* done; main: what main waits for; server, ready: the control server and pprof, and    *)
(* whether they said that they listen; deaf: those that cannot listen; pprof, proxy:    *)
(* whether pprof and the http proxy are enabled.                                       *)

\* The steps of _main in order: those that may fail, then the services it starts.
Fallible ==
    <<"settings", "routes", "iptables", "firewall", "storage", "ipv6", "validate", "versions",
      "folders", "user", "routing", "outbound", "local", "tun", "ports">>
Launched ==
    <<"pprof", "portForwarding", "dns", "dnsTicker", "publicIP", "health", "vpn", "updater",
      "updaterTicker", "httpProxy", "shadowsocks", "httpServer">>
\* The groups of the order handler, in its order.
Groups == <<"control", "tickers", "healthGroup", "vpnGroup", "other">>
Steps ==
    Fallible \o Launched \o <<"apply", "run", "stopPortForwarding", "stopPublicIP">>
        \o Groups \o <<"return">>

\* A bug: the updater is added to no group.
Group_NoTickers(g) ==
    CASE g = "control" -> {"httpServer", "dnsTicker", "updaterTicker"}
      [] g = "healthGroup" -> {"health"}
      [] g = "vpnGroup" -> {"vpn"}
      [] g = "other" -> {"dns", "httpProxy", "shadowsocks", "pprof"}
      [] OTHER -> {}

Group(g) ==
    CASE g = "control" -> {"httpServer", "dnsTicker", "updaterTicker"}
      [] g = "tickers" -> {"updater"}
      [] g = "healthGroup" -> {"health"}
      [] g = "vpnGroup" -> {"vpn"}
      [] g = "other" -> {"dns", "httpProxy", "shadowsocks", "pprof"}
      [] OTHER -> {}

All(seq) == {seq[i] : i \in DOMAIN seq}
Servers == {"pprof", "httpServer"}
\* Stopped by their Stop, and not by the order handler.
Loops == {"portForwarding", "publicIP"}

Step == IF m.at <= Len(Steps) THEN Steps[m.at] ELSE "end"
IndexOf(step) == CHOOSE i \in DOMAIN Steps : Steps[i] = step
Advance(v) == [v EXCEPT !.at = @ + 1]
Alive == m.main # "exited"
Members == Group(Step) \cap m.services

(* The states, and that the VPN runs only when every step before it succeeded. *)
StartupTypeOK ==
    /\ m.at \in 1 .. Len(Steps) + 1
    /\ m.services \subseteq All(Launched) /\ m.late \subseteq m.told /\ m.told \subseteq All(Launched)
    /\ m.main \in {"wait", "grace", "exited"} /\ m.exit \in {"none", "clean", "timeout"}
    /\ m.server \in [Servers -> {"none", "listening", "serving", "closing", "done"}]
    /\ "vpn" \in m.services => All(Fallible) \subseteq m.set

StartupInit ==
    \E pprof, proxy \in BOOLEAN :
    m = [at |-> 1, set |-> {}, services |-> {}, told |-> {}, late |-> {}, failed |-> FALSE,
         torn |-> FALSE, signal |-> FALSE, main |-> "wait", exit |-> "none",
         server |-> [s \in Servers |-> "none"], ready |-> {}, deaf |-> {},
         pprof |-> pprof, proxy |-> proxy, vpnUp |-> FALSE]

----------------------------------- (* _main *) ------------------------------

Succeeds ==
    /\ Alive /\ Step \in All(Fallible)
    /\ m' = Advance([m EXCEPT !.set = @ \cup {Step}])

MayFail ==
    \/ Step \in All(Fallible) \cup {"portForwarding", "dns", "publicIP"}
    \/ Step = "httpServer" /\ m.server[Step] = "none"

\* A bug: the error of a step is only logged.
Fails_Logged ==
    /\ Alive /\ MayFail
    /\ m' = IF Step = "tun" THEN Advance(m)
            ELSE [m EXCEPT !.at = IndexOf("return"), !.failed = TRUE]

\* _main returns the error; what it deferred is done, the services are not told to end.
Fails ==
    /\ Alive /\ MayFail
    /\ m' = [m EXCEPT !.at = IndexOf("return"), !.failed = TRUE]

\* go ...Run(...); a server is then waited for, <-pprofReady and <-httpServerReady.
Launch ==
    /\ Alive /\ Step \in All(Launched)
    /\ IF Step = "pprof" /\ ~m.pprof THEN m' = Advance(m)
       ELSE IF Step \in Servers
            THEN /\ m.server[Step] = "none"
                 /\ m' = [m EXCEPT !.services = @ \cup {Step}, !.server[Step] = "listening"]
            ELSE m' = Advance([m EXCEPT !.services = @ \cup {Step}])

ServerReady == Alive /\ Step \in m.ready /\ m' = Advance(m)

\* ApplyStatus, until the VPN runs or the context is done.
StartVPN ==
    /\ Alive /\ Step = "apply"
    /\ \/ m' = Advance([m EXCEPT !.vpnUp = TRUE])
       \/ m.signal /\ m' = Advance(m)

\* The context is done, or one of the two loops crashed, which are then not stopped.
RunEnds ==
    /\ Alive /\ Step = "run"
    /\ \/ m.signal /\ m' = Advance(m)
       \/ \E l \in Loops \cap m.services :
             m' = [m EXCEPT !.at = IndexOf("control"), !.services = @ \ {l}]

StopLoop ==
    /\ Alive /\ Step \in {"stopPortForwarding", "stopPublicIP"}
    /\ m' = Advance([m EXCEPT !.services = @ \ {IF Step = "stopPublicIP" THEN "publicIP"
                                                   ELSE "portForwarding"}])

\* The context of each goroutine of a group is cancelled.
Tell ==
    /\ Alive /\ Step \in All(Groups) /\ ~(Members \subseteq m.told)
    /\ m' = [m EXCEPT !.told = @ \cup Members]

(* Those of a group that are told to end do, or their time is over: the loop of the http   *)
(* proxy, when enabled, waits for good to say that it runs.                              *)
MustBeLate(s) == \/ s \in Servers /\ m.server[s] # "done"
                 \/ s = "httpProxy" /\ m.proxy
GroupOver ==
    /\ Alive /\ Step \in All(Groups) /\ Members \subseteq m.told
    /\ \E slow \in SUBSET Members :
          /\ Cardinality(slow) <= MaxLate
          /\ LET late == slow \cup {s \in Members : MustBeLate(s)} IN
             m' = Advance([m EXCEPT !.late = @ \cup late, !.services = @ \ (Members \ late)])

\* A bug: the teardown is not deferred, and an error skips it.
Return_NoDefer ==
    /\ Alive /\ Step = "return"
    /\ m' = Advance([m EXCEPT !.torn = ~m.failed])

\* The deferred teardown of the routing, once it was set up.
Return ==
    /\ Alive /\ Step = "return"
    /\ m' = Advance([m EXCEPT !.torn = "routing" \in m.set])

-------------------------------- (* The servers *) ---------------------------

\* httpserver Run: it listens and says so, or it cannot and ends without a word.
Listens(s) ==
    /\ Alive /\ m.server[s] = "listening"
    /\ m' = [m EXCEPT !.server[s] = "serving", !.ready = @ \cup {s}]

ListenFails(s) ==
    /\ Alive /\ m.server[s] = "listening"
    /\ m' = [m EXCEPT !.server[s] = "done", !.deaf = @ \cup {s}]

\* Serve fails, or the context is done and Shutdown takes its time.
ServerEnds(s) ==
    /\ Alive
    /\ \/ /\ m.server[s] = "serving"
          /\ m' = [m EXCEPT !.server[s] = IF s \in m.told THEN "closing" ELSE "done"]
       \/ m.server[s] = "closing" /\ m' = [m EXCEPT !.server[s] = "done"]

----------------------------------- (* main *) -------------------------------

Signal == Alive /\ m.main = "wait" /\ m' = [m EXCEPT !.signal = TRUE, !.main = "grace"]

\* _main returned: the program ends, with its error or with none.
Returned ==
    /\ m.main \in {"wait", "grace"} /\ Step = "end"
    /\ m' = [m EXCEPT !.main = "exited", !.exit = "clean"]

\* 5 seconds after the signal.
GraceOver == m.main = "grace" /\ m' = [m EXCEPT !.main = "exited", !.exit = "timeout"]

MainStep ==
    Succeeds \/ Launch \/ ServerReady \/ StartVPN \/ RunEnds \/ StopLoop \/ Tell \/ GroupOver \/ Return

StartupNext ==
    \/ MainStep \/ Fails \/ Signal \/ Returned \/ GraceOver
    \/ \E s \in Servers : Listens(s) \/ ListenFails(s) \/ ServerEnds(s)

StartupFairness ==
    /\ WF_m(MainStep /\ Step # "run") /\ WF_m(Returned) /\ WF_m(GraceOver)
    /\ \A s \in Servers : WF_m(Listens(s) \/ ListenFails(s))

------------------------------- (* Properties *) -----------------------------

(* When _main returns after it was told to end, every service of the order handler was  *)
(* told to end and is gone, or it was given up on after its time (main.go:493-540).      *)
AllTold == Step \in {"return", "end"} /\ ~m.failed => m.services \ Loops \subseteq m.late

(* A program that ends by itself, also with an error at any step, leaves the routing    *)
(* that it set up as it was (main.go:326-332, the deferred TearDown).                   *)
RoutingUndone == m.exit = "clean" /\ "routing" \in m.set => m.torn

(* The VPN is started, or the program ends, unless a server that is waited for cannot    *)
(* listen: then nothing tells _main, which waits for good (main.go:488,                 *)
(* httpserver/run.go:44-50).                                                           *)
StartsOrEnds == m.main = "wait" ~> m.vpnUp \/ m.main = "exited" \/ m.deaf # {}
=============================================================================
