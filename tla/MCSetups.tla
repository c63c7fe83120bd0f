------------------------------ MODULE MCSetups ------------------------------
(* What a tunnel needs around it, one at a time: a behaviour is that of the     *)
(* component `which` names, over the variable it calls its own.                *)
EXTENDS Naturals, Sequences, FiniteSets

CONSTANTS
    MaxTunnels, MaxBans, MaxRuns, MaxSystemFaults, MaxChecks, Externals, PortsCount, Life, MaxClock,
    MaxFaults, Paths, MSSes, VPNs, ICMPAddrs, VPNRoutes, OriginalMTU, MaxLost

VARIABLES which, s

vars == <<which, s>>

Fetchers == <<"f1", "f2", "f3">>

P == INSTANCE PublicIP WITH p <- s
W == INSTANCE WireguardRun WITH w <- s, MaxFaults <- MaxSystemFaults
H == INSTANCE Healthcheck WITH h <- s
F == INSTANCE PortForwarders WITH f <- s
M == INSTANCE PathMTU WITH m <- s, Routes <- VPNRoutes

ASSUME SetupsConstants ==
    /\ P!PublicIPConstants /\ W!WireguardConstants /\ H!HealthConstants
    /\ F!ForwardersConstants /\ M!PathConstants

Init ==
    \/ which = "ip" /\ P!IPInit
    \/ which = "wireguard" /\ W!WireguardInit
    \/ which = "health" /\ H!HealthInit
    \/ which = "ports" /\ F!ForwardersInit
    \/ which = "mtu" /\ M!MTUInit

Next ==
    \/ which = "ip" /\ P!IPNext /\ UNCHANGED which
    \/ which = "wireguard" /\ W!WireguardNext /\ UNCHANGED which
    \/ which = "health" /\ H!HealthNext /\ UNCHANGED which
    \/ which = "ports" /\ F!ForwardersNext /\ UNCHANGED which
    \/ which = "mtu" /\ M!MTUStep /\ UNCHANGED which

\* The fairness of each component, as its module states it.
IPFairness ==
    /\ WF_vars(which = "ip" /\ P!IPLoopStep /\ UNCHANGED which)
    /\ WF_vars(which = "ip" /\ P!Quit /\ UNCHANGED which)
    /\ WF_vars(which = "ip" /\ P!StopClears /\ UNCHANGED which)
    /\ WF_vars(which = "ip" /\ P!VPNClears /\ UNCHANGED which)
    /\ WF_vars(which = "ip" /\ P!CancelTunnel /\ UNCHANGED which)
    /\ WF_vars(which = "ip" /\ s.stop # "none" /\ P!TunnelDown /\ UNCHANGED which)
    /\ \A t \in P!Tunnels :
          /\ WF_vars(which = "ip" /\ P!RunOnceStep(t) /\ UNCHANGED which)
          /\ WF_vars(which = "ip" /\ P!LoopGone(t) /\ UNCHANGED which)
WireguardFairness ==
    /\ WF_vars(which = "wireguard" /\ W!WireguardStep /\ UNCHANGED which)
    /\ WF_vars(which = "wireguard" /\ W!AcceptFails /\ UNCHANGED which)
HealthFairness ==
    \A t \in H!Tunnels :
        /\ WF_vars(which = "health" /\ ~s.panicked /\ H!UpStep(t) /\ UNCHANGED which)
        /\ WF_vars(which = "health" /\ ~s.panicked /\ H!CheckerStep(t) /\ UNCHANGED which)
        /\ WF_vars(which = "health" /\ ~s.panicked /\ H!CheckerQuits(t) /\ UNCHANGED which)
        /\ WF_vars(which = "health" /\ ~s.panicked /\ H!CollectorStep(t) /\ UNCHANGED which)
ForwardersFairness ==
    /\ WF_vars(which = "ports" /\ F!Call /\ UNCHANGED which)
    /\ WF_vars(which = "ports" /\ F!PIAStep /\ UNCHANGED which)
    /\ WF_vars(which = "ports" /\ F!ProtonStep /\ UNCHANGED which)
    /\ WF_vars(which = "ports" /\ F!Others /\ UNCHANGED which)
MTUFairness == WF_vars(which = "mtu" /\ M!MTUStep /\ UNCHANGED which)

Spec ==
    /\ Init /\ [][Next]_vars
    /\ IPFairness /\ WireguardFairness /\ HealthFairness /\ ForwardersFairness
    /\ MTUFairness

\* The state of each component is of its type.
SetupsTypeOK ==
    /\ which = "ip" => P!IPTypeOK
    /\ which = "wireguard" => W!WireguardTypeOK
    /\ which = "health" => H!HealthTypeOK
    /\ which = "ports" => F!ForwardersTypeOK
    /\ which = "mtu" => M!MTUTypeOK

(* What is known of a tunnel is of that tunnel: a fetch of the address answers the       *)
(* tunnel that asked, one checker runs, a fallback stays, and a restart is for a failure  *)
(* of the tunnel that is restarted, unless two tunnels overlapped (internal/publicip,     *)
(* internal/healthcheck, vpn/tunnelup.go).                                            *)
OfThatTunnel ==
    /\ which = "ip" => P!OneServed /\ P!FreshAfterFetch /\ P!ClearedByStop
    /\ which = "health" => H!OneChecker /\ H!FallbackStays /\ H!RestartedForFailure

(* A run of WireGuard undoes what it did, in order, but what a cleanup failed to remove,  *)
(* and fails for something that failed (internal/wireguard, internal/cleanup).           *)
SetupUndone == which = "wireguard" => W!NothingLeft /\ W!RulesAfterRoutes /\ W!FailsForAReason

(* The port that was given is the one that is kept, until it expires, and in both        *)
(* protocols (KeepPortForward of privateinternetaccess and protonvpn).                  *)
SamePortKept == which = "ports" => F!SamePort /\ F!KeptBoth

(* The MTU that is found passes the path and no larger size that was to be tested does, it *)
(* takes few rounds, and the link and the routes are left with it, or as they were        *)
(* (internal/pmtud, vpn/tunnelup.go).                                                  *)
LargestThatPasses ==
    which = "mtu" => /\ M!FoundPasses /\ M!FoundIsLargest /\ M!FewRounds
                     /\ M!LinkAndRoutesAgree /\ M!GivenUpForAReason

(* Everything around a tunnel ends or goes on: RunOnce and Stop of the public IP loop       *)
(* return, a run that is cancelled ends, the checker of a tunnel ends with it and what it     *)
(* finds is seen, PIA forwards a port again unless its file is torn, and the search of the    *)
(* MTU ends, whatever answers it gets.                                                   *)
AroundGoesOn ==
    /\ \A t \in P!Tunnels : which = "ip" /\ s.call[t] # "none" ~> which = "ip" /\ s.call[t] = "returned"
    /\ which = "ip" /\ s.stop # "none" ~> which = "ip" /\ s.stop = "done"
    /\ which = "wireguard" /\ (s.place \in {"clean", "join"} \/ (s.place = "wait" /\ s.cancelled))
       ~> which = "wireguard" /\ s.place = "ended" /\ s.accept \in {"none", "gone"}
    /\ \A t \in H!Tunnels :
          /\ which = "health" /\ H!Running(t) /\ ~H!Live(t)
             ~> which = "health" /\ (~H!Running(t) \/ s.overlapped \/ s.panicked)
          /\ which = "health" /\ s.buffer[t] = "bad" /\ s.collector[t] = "watch"
             ~> which = "health" /\ (s.server = "bad" \/ ~H!Live(t) \/ s.panicked)
    /\ which = "ports" /\ s.provider = "pia"
       ~> which = "ports" /\ s.provider = "pia" /\ (s.at = "keep" \/ s.file.is = "torn")
    /\ which = "mtu" /\ s.stage # "done" ~> which = "mtu" /\ s.stage = "done"
=============================================================================
