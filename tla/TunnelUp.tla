----------------------------- MODULE TunnelUp ------------------------------
(***************************************************************************)
(* What runs beside the VPN loop while a tunnel is up (internal/vpn,        *)
(* onTunnelUp, collectHealthErrors and restartVPN).  A goroutine of each    *)
(* kind per slot of Tasks; both were given the tunnel's context and keep     *)
(* going until they look at it.  A restart is a call to ApplyStatus in the   *)
(* name of the slot, with the context of the loop: onTunnelUp restarts only  *)
(* when it has not launched collectHealthErrors, so one name is enough.      *)
(***************************************************************************)
EXTENDS VPNLoop

CONSTANT RestartVPN     \* Health.RestartVPN

ASSUME RestartConstant == RestartVPN \in BOOLEAN

TaskGoes(t, from, to) ==
    /\ task[t] = from
    /\ task' = [task EXCEPT ![t] = to]

\* restartVPN: stop, then start.
Restart(t) == Call(t, "stopped", TRUE)

\* SetAllowedPort(ctx, ...) for the input ports; it fails once ctx is done.
AllowPorts(t) ==
    /\ TaskGoes(t, "ports", "dns")
    /\ svc' = IF taskCtxDone[t] THEN svc ELSE svc \cup {"ports"}
    /\ UNCHANGED <<stateVars, loopVars, runnerVars, collect, taskCtxDone, budget>>

\* dnsLooper.ApplyStatus(ctx, Running).
StartDNS(t) ==
    /\ TaskGoes(t, "dns", "health")
    /\ svc' = svc \cup {"dns"}
    /\ UNCHANGED <<stateVars, loopVars, runnerVars, collect, taskCtxDone, budget>>

(* healthChecker.Start(ctx) succeeds, or is told to start on a failed       *)
(* startup check because the VPN is not to be restarted.                    *)
HealthStarts(t) ==
    /\ taskCtxDone[t] => ~RestartVPN
    /\ TaskGoes(t, "health", "publicip")
    /\ svc' = (svc \ {"unhealthy"}) \cup {"health"}
    /\ collect' = [collect EXCEPT ![t] = "watch"]
    /\ UNCHANGED <<stateVars, loopVars, runnerVars, taskCtxDone, budget>>

(* The startup check fails, because the tunnel does not work or because     *)
(* its context is done, and onTunnelUp restarts the VPN.                    *)
HealthStartFails(t) ==
    /\ RestartVPN
    /\ TaskGoes(t, "health", "none")
    /\ Fault \/ (taskCtxDone[t] /\ UNCHANGED budget)
    /\ svc' = svc \cup {"unhealthy"}
    /\ Restart(t)
    /\ UNCHANGED <<loopVars, runnerVars, collect, taskCtxDone>>

\* publicip.RunOnce(ctx) finds the address, or fails.
FetchPublicIP(t) ==
    /\ TaskGoes(t, "publicip", "forward")
    /\ \/ ~taskCtxDone[t] /\ svc' = svc \cup {"publicip"}
       \/ UNCHANGED svc
    /\ UNCHANGED <<stateVars, loopVars, runnerVars, collect, taskCtxDone, budget>>

\* startPortForwarding: UpdateWith(VPNIsUp true), which has no context.
StartPortForwarding(t) ==
    /\ TaskGoes(t, "forward", "poll")
    /\ svc' = svc \cup {"portforward"}
    /\ UNCHANGED <<stateVars, loopVars, runnerVars, collect, taskCtxDone, budget>>

\* boringPoll.Start(), which has none either.
StartPoll(t) ==
    /\ TaskGoes(t, "poll", "none")
    /\ svc' = svc \cup {"boringpoll"}
    /\ UNCHANGED <<stateVars, loopVars, runnerVars, collect, taskCtxDone, budget>>

CollectEnds(t) ==
    /\ collect[t] = "watch"
    /\ collect' = [collect EXCEPT ![t] = "none"]

\* case <-ctx.Done(): the checker, which all tunnels share, is stopped.
CollectQuits(t) ==
    /\ CollectEnds(t) /\ taskCtxDone[t]
    /\ svc' = svc \ {"health"}
    /\ UNCHANGED <<stateVars, loopVars, runnerVars, task, taskCtxDone, budget>>

\* A periodic check fails and the VPN is to be restarted.
HealthFails(t) ==
    /\ RestartVPN
    /\ CollectEnds(t)
    /\ Fault
    /\ svc' = (svc \ {"health"}) \cup {"unhealthy"}
    /\ Restart(t)
    /\ UNCHANGED <<loopVars, runnerVars, task, taskCtxDone>>

\* A periodic check passes, or fails and is only reported.
HealthReports(t) ==
    /\ collect[t] = "watch"
    /\ \/ svc' = svc \ {"unhealthy"} /\ UNCHANGED budget
       \/ ~RestartVPN /\ Fault /\ svc' = svc \cup {"unhealthy"}
    /\ UNCHANGED <<stateVars, loopVars, runnerVars, taskVars>>

OnTunnelUp(t) ==
    \/ AllowPorts(t) \/ StartDNS(t) \/ HealthStarts(t) \/ HealthStartFails(t)
    \/ FetchPublicIP(t) \/ StartPortForwarding(t) \/ StartPoll(t)

CollectHealthErrors(t) == CollectQuits(t) \/ HealthFails(t) \/ HealthReports(t)
=============================================================================
