----------------------------- MODULE Healthcheck -----------------------------
(***************************************************************************)
(* The health checker (internal/healthcheck/checker.go), the error its server *)
(* answers with, and the goroutines of internal/vpn/tunnelup.go that configure, *)
(* start, follow and stop the one checker there is, a pair of them for each    *)
(* tunnel.  A tunnel that goes down cancels the context of its goroutines and   *)
(* does not wait for them.                                                 *)
(***************************************************************************)
EXTENDS Naturals, FiniteSets

CONSTANTS
    MaxTunnels, \* bound on tunnels
    MaxChecks   \* bound on periodic checks

\* What the constants are assumed to be.
HealthConstants == MaxTunnels \in Nat \ {0} /\ MaxChecks \in Nat

VARIABLE h
(* tunnel: the last one, and live: the one that is up; up and collector: where its *)
(* two goroutines are; checker: where the periodic goroutine its Start launched is, *)
(* cancelled or not, and buffer: the result in runErrorCh; result: that of the      *)
(* check it makes; current: the run c.stop and c.done are of; joins: the one each   *)
(* Stop waits for; configured: SetConfig was called and Stop was not since;         *)
(* smallCheck: the type of small check, and notPermitted: ICMP was found not to be;  *)
(* server: what the health server answers; restartVPN: the setting; restarted: the  *)
(* tunnels whose goroutines restarted the VPN; overlapped: a tunnel came up while    *)
(* goroutines of an earlier one had not finished; panicked: the program ended.      *)

Tunnels == 1..MaxTunnels
UpPlaces == {"none", "config", "start", "startup", "launch", "report", "restart", "done"}
CollectorPlaces == {"none", "watch", "stop", "join", "restart", "done"}
Results == {"none", "ok", "bad"}

(* The states, and that a Stop waits for a goroutine that Start launched. *)
HealthTypeOK ==
    /\ \A t \in Tunnels : h.collector[t] = "join" => h.joins[t] \in Tunnels
    /\ h \in [tunnel : 0..MaxTunnels, live : 0..MaxTunnels, up : [Tunnels -> UpPlaces],
              collector : [Tunnels -> CollectorPlaces],
              checker : [Tunnels -> {"none", "wait", "check", "report", "done"}],
              cancelled : SUBSET Tunnels, buffer : [Tunnels -> Results], result : [Tunnels -> Results],
              current : 0..MaxTunnels, joins : [Tunnels -> 0..MaxTunnels], configured : BOOLEAN,
              smallCheck : {"icmp", "dns"}, notPermitted : BOOLEAN,
              server : {"not run", "ok", "bad"}, restartVPN : BOOLEAN, failed : SUBSET Tunnels,
              restarted : SUBSET Tunnels, overlapped : BOOLEAN, panicked : BOOLEAN, checks : 0..MaxChecks]

HealthInit ==
    \E restart \in BOOLEAN :
        h = [tunnel |-> 0, live |-> 0, up |-> [t \in Tunnels |-> "none"],
             collector |-> [t \in Tunnels |-> "none"], checker |-> [t \in Tunnels |-> "none"],
             cancelled |-> {}, buffer |-> [t \in Tunnels |-> "none"], result |-> [t \in Tunnels |-> "none"],
             current |-> 0, joins |-> [t \in Tunnels |-> 0], configured |-> FALSE, smallCheck |-> "icmp",
             notPermitted |-> FALSE, server |-> "not run", restartVPN |-> restart, failed |-> {},
             restarted |-> {}, overlapped |-> FALSE, panicked |-> FALSE, checks |-> 0]

Panics == h' = [h EXCEPT !.panicked = TRUE]
Live(t) == h.live = t

--------------------------------- (* The tunnels *) --------------------------

\* The goroutines of a tunnel may still use the checker.
Busy(t) == h.up[t] \notin {"none", "restart", "done"} \/ h.collector[t] \in {"watch", "stop", "join"}

TunnelUp ==
    /\ h.live = 0 /\ h.tunnel < MaxTunnels
    /\ LET t == h.tunnel + 1 IN
       h' = [h EXCEPT !.tunnel = t, !.live = t, !.up[t] = "config",
                      !.overlapped = @ \/ \E older \in Tunnels : Busy(older)]

TunnelDown == h.live # 0 /\ h' = [h EXCEPT !.live = 0]

------------------------------- (* onTunnelUp *) -----------------------------

SetConfig(t) ==
    /\ h.up[t] = "config"
    /\ h' = [h EXCEPT !.up[t] = "start", !.configured = TRUE, !.smallCheck = "icmp"]

\* A bug: what was found of ICMP is forgotten.
StartCheck_Forgets(t) ==
    /\ h.up[t] = "start"
    /\ IF ~h.configured THEN Panics ELSE h' = [h EXCEPT !.up[t] = "startup"]

\* The checker has to be configured; the fallback to DNS stays.
StartCheck(t) ==
    /\ h.up[t] = "start"
    /\ IF ~h.configured THEN Panics
       ELSE h' = [h EXCEPT !.up[t] = "startup", !.smallCheck = IF h.notPermitted THEN "dns" ELSE @]

(* startupCheck: one address that answers is enough.  On a failure Start returns    *)
(* the error, or sends it in the buffer and goes on.                          *)
Startup(t) ==
    /\ h.up[t] = "startup"
    /\ \/ Live(t) /\ h' = [h EXCEPT !.up[t] = "launch"]
       \/ /\ h.restartVPN
          /\ h' = [h EXCEPT !.up[t] = "restart", !.server = "bad", !.failed = @ \cup {t}]
       \/ ~h.restartVPN /\ h' = [h EXCEPT !.up[t] = "launch", !.buffer[t] = "bad"]

\* A bug: the goroutine is launched before its channels are those of the checker.
Launch_Unset(t) ==
    /\ h.up[t] = "launch"
    /\ h' = [h EXCEPT !.up[t] = "report", !.checker[t] = "wait"]

\* The periodic goroutine, with a context of its own.
Launch(t) ==
    /\ h.up[t] = "launch"
    /\ h' = [h EXCEPT !.up[t] = "report", !.checker[t] = "wait", !.current = t]

\* healthServer.SetError(nil), then the goroutine that collects.
Report(t) ==
    /\ h.up[t] = "report"
    /\ h' = [h EXCEPT !.up[t] = "done", !.server = "ok", !.collector[t] = "watch"]

\* restartVPN, which takes down the tunnel there is.
RestartVPN(t) ==
    \/ h.up[t] = "restart"
       /\ h' = [h EXCEPT !.up[t] = "done", !.live = 0, !.restarted = @ \cup {t}]
    \/ h.collector[t] = "restart"
       /\ h' = [h EXCEPT !.collector[t] = "done", !.live = 0, !.restarted = @ \cup {t}]

------------------------------ (* The periodic checks *) ----------------------

\* A timer fires; a check without targets divides by their number.
CheckBegins(t) ==
    /\ h.checker[t] = "wait" /\ h.checks < MaxChecks
    /\ IF ~h.configured THEN Panics
       ELSE h' = [h EXCEPT !.checker[t] = "check", !.checks = @ + 1]

(* withRetries: one of the tries succeeds, or none does, or the context is done.    *)
(* A small check that finds ICMP not permitted falls back to DNS for good.       *)
CheckEnds(t) ==
    /\ h.checker[t] = "check"
    /\ \E r \in {"ok", "bad"}, denied \in BOOLEAN :
          /\ t \in h.cancelled => r = "bad"
          /\ denied => h.smallCheck = "icmp" /\ ~h.notPermitted
          /\ h' = [h EXCEPT !.checker[t] = "report", !.result[t] = r,
                            !.notPermitted = @ \/ denied,
                            !.smallCheck = IF denied THEN "dns" ELSE @]

\* A bug: the goroutine does not look at its context while nobody reads.
CheckReports_Blocks(t) ==
    /\ h.checker[t] = "report" /\ h.buffer[t] = "none" /\ t \notin h.cancelled
    /\ h' = [h EXCEPT !.checker[t] = "wait", !.buffer[t] = h.result[t]]

\* runErrorCh <- err, unless the context is done.
CheckReports(t) ==
    /\ h.checker[t] = "report"
    /\ \/ t \in h.cancelled /\ h' = [h EXCEPT !.checker[t] = "wait"]
       \/ h.buffer[t] = "none" /\ h' = [h EXCEPT !.checker[t] = "wait", !.buffer[t] = h.result[t]]

CheckerQuits(t) ==
    /\ h.checker[t] = "wait" /\ t \in h.cancelled
    /\ h' = [h EXCEPT !.checker[t] = "done"]

---------------------------- (* collectHealthErrors *) ------------------------

\* A bug: a failure restarts the VPN even if that is not asked for.
Collect_Always(t) ==
    /\ h.collector[t] = "watch"
    /\ \/ ~Live(t) /\ h' = [h EXCEPT !.collector[t] = "stop"]
       \/ LET r == h.buffer[t] IN
          /\ r # "none"
          /\ h' = [h EXCEPT !.buffer[t] = "none", !.server = r,
                            !.failed = IF r = "bad" THEN @ \cup {t} ELSE @,
                            !.collector[t] = IF r = "bad" THEN "stop" ELSE "watch"]

Collect(t) ==
    /\ h.collector[t] = "watch"
    /\ \/ ~Live(t) /\ h' = [h EXCEPT !.collector[t] = "stop"]
       \/ LET r == h.buffer[t]
              fails == r = "bad" /\ h.restartVPN
          IN /\ r # "none"
             /\ h' = [h EXCEPT !.buffer[t] = "none", !.server = r,
                               !.failed = IF fails THEN @ \cup {t} ELSE @,
                               !.collector[t] = IF fails THEN "stop" ELSE "watch"]

\* A bug: Stop returns without waiting for the goroutine.
StopChecker_NoWait(t) ==
    /\ h.collector[t] = "stop"
    /\ h' = [h EXCEPT !.cancelled = @ \cup {h.current}, !.configured = FALSE,
                      !.collector[t] = IF t \in h.failed THEN "restart" ELSE "done"]

\* c.stop(): that of the last Start.
StopChecker(t) ==
    /\ h.collector[t] = "stop"
    /\ h' = [h EXCEPT !.cancelled = @ \cup {h.current}, !.joins[t] = h.current, !.collector[t] = "join"]

\* <-c.done, and the configuration is dropped.
Stopped(t) ==
    /\ h.collector[t] = "join" /\ h.checker[h.joins[t]] = "done"
    /\ h' = [h EXCEPT !.configured = FALSE,
                      !.collector[t] = IF t \in h.failed THEN "restart" ELSE "done"]

UpStep(t) == SetConfig(t) \/ StartCheck(t) \/ Startup(t) \/ Launch(t) \/ Report(t) \/ RestartVPN(t)
CheckerStep(t) == CheckEnds(t) \/ CheckReports(t) \/ CheckerQuits(t)
CollectorStep(t) == Collect(t) \/ StopChecker(t) \/ Stopped(t)

HealthNext ==
    /\ ~h.panicked
    /\ \/ TunnelUp \/ TunnelDown
       \/ \E t \in Tunnels : UpStep(t) \/ CheckBegins(t) \/ CheckerStep(t) \/ CollectorStep(t)

\* Goroutines that can run do, and a check has a timeout.
HealthFairness ==
    \A t \in Tunnels :
        /\ WF_h(~h.panicked /\ UpStep(t)) /\ WF_h(~h.panicked /\ CheckerStep(t))
        /\ WF_h(~h.panicked /\ CheckerQuits(t)) /\ WF_h(~h.panicked /\ CollectorStep(t))

------------------------------- (* Properties *) -----------------------------

Running(t) == h.checker[t] \notin {"none", "done"}

(* One goroutine checks at a time, and neither Start nor a check ever finds the       *)
(* configuration dropped by the Stop of an earlier tunnel, unless a tunnel came up     *)
(* before the goroutines of the one before had finished, which nothing prevents       *)
(* (healthcheck/checker.go Start and Stop, vpn/tunnelup.go).                      *)
OneChecker ==
    ~h.overlapped => ~h.panicked /\ \A t, u \in Tunnels : Running(t) /\ Running(u) => t = u

(* A check only uses ICMP if it has not been found to be not permitted, whatever the   *)
(* settings ask for at each tunnel ("permanently falling back",                   *)
(* healthcheck/checker.go:195).                                                  *)
FallbackStays ==
    (\E t \in Tunnels : Running(t)) /\ h.notPermitted /\ ~h.overlapped => h.smallCheck = "dns"

(* The VPN is restarted by the goroutines of a tunnel only if a check of that tunnel    *)
(* failed, and only when restarting is asked for (vpn/tunnelup.go).                *)
RestartedForFailure == h.restarted \subseteq h.failed /\ (h.restarted # {} => h.restartVPN)

(* The checker of a tunnel that is down ends, whatever it was doing, unless another     *)
(* tunnel came up meanwhile and took its place (healthcheck/checker.go Stop).       *)
CheckerFollows ==
    \A t \in Tunnels : Running(t) /\ ~Live(t) ~> ~Running(t) \/ h.overlapped \/ h.panicked

(* The result of a check is seen by the server, or makes the VPN restart, unless the    *)
(* tunnel goes down before (vpn/tunnelup.go collectHealthErrors).                  *)
FailureSeen ==
    \A t \in Tunnels : h.buffer[t] = "bad" /\ h.collector[t] = "watch"
        ~> h.server = "bad" \/ ~Live(t) \/ h.panicked
=============================================================================
