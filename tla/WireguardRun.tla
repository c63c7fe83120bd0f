----------------------------- MODULE WireguardRun -----------------------------
(***************************************************************************)
(* The goroutine that sets a WireGuard or AmneziaWG interface up, waits and    *)
(* undoes what it did (internal/wireguard, internal/amneziawg,               *)
(* internal/cleanup).  What the kernel does with an interface, its addresses   *)
(* and its routes is external: they go with it.  The one who reads waitError   *)
(* and ready is the VPN loop, which VPNLoop models; it always reads here.      *)
(***************************************************************************)
EXTENDS Naturals, Sequences, FiniteSets

CONSTANTS
    MaxRuns,    \* bound on the runs
    MaxFaults   \* bound on the system calls that fail

\* What the constants are assumed to be.
WireguardConstants == MaxRuns \in Nat \ {0} /\ MaxFaults \in Nat

VARIABLE w
(* mode and ipv6: the implementation and the IPv6 support; place and step: where   *)
(* the goroutine is; have: what exists; pending: the cleanups that are not done;   *)
(* failed: those that failed; cancelled: the context is done; accept: where       *)
(* acceptAndHandle is, on a channel that is closed or not; broken: a system call    *)
(* failed in this run; runs and faults: counters.                            *)

Modes == {"kernelspace", "userspace", "amneziawg"}

\* setupUserSpace and setupUserspace.
UserSteps == <<"tun", "name", "link", "bind", "device", "file", "listener">>

\* A bug: an interface of an earlier run is not looked for.
SetupSteps_NoPrevious(mode) ==
    CASE mode = "kernelspace" -> <<"link">>
      [] mode = "userspace" -> UserSteps \o <<"accept">>
      [] mode = "amneziawg" -> UserSteps \o <<"ipc", "accept">>

SetupSteps(mode) ==
    CASE mode = "kernelspace" -> <<"previous", "link">>
      [] mode = "userspace" -> UserSteps \o <<"accept">>
      [] mode = "amneziawg" -> UserSteps \o <<"ipc", "accept">>

\* Run: what is done, in order, before ready.
Steps(mode, ipv6) ==
    <<"client">> \o SetupSteps(mode) \o <<"addresses", "configure", "up", "routes">>
    \o (IF ipv6 THEN <<"rule6">> ELSE <<>>) \o <<"rule4">>

Rules == {"rule4", "rule6"}
WithLink == {"link", "addresses", "up", "routes"}
Everything == {Steps("amneziawg", TRUE)[i] : i \in 1..Len(Steps("amneziawg", TRUE))} \cup {"previous"}

\* Things that are looked at, set or told, and that nothing undoes.
Passing == {"previous", "name", "configure", "ipc", "accept"}
CannotFail == {"bind", "device", "accept"}

\* A bug: the rules are removed last.
OrderIndex_RulesLast(c) ==
    CASE c = "client" -> 1 [] c = "listener" -> 2 [] c = "file" -> 3 [] c = "up" -> 4
      [] c = "link" -> 5 [] c = "device" -> 6 [] c \in {"tun", "bind"} -> 7 [] c \in Rules -> 8

\* The orderIndex of each cleanup.
OrderIndex(c) ==
    CASE c \in Rules \cup {"client"} -> 1 [] c = "listener" -> 2 [] c = "file" -> 3 [] c = "up" -> 4
      [] c = "link" -> 5 [] c = "device" -> 6 [] c \in {"tun", "bind"} -> 7

HasCleanup == Rules \cup {"client", "listener", "file", "up", "link", "device", "tun", "bind"}

(* The states, and that once it is ready all that a run made has its cleanup. *)
WireguardTypeOK ==
    /\ w.place \in {"ready", "wait"} => w.have \cap HasCleanup \subseteq w.pending \cup w.failed
    /\ w \in [mode : Modes, ipv6 : BOOLEAN,
              place : {"idle", "setup", "ready", "wait", "clean", "join", "report", "undo", "ended"},
              step : 1..20, have : SUBSET Everything, pending : SUBSET HasCleanup, failed : SUBSET HasCleanup,
              cancelled : BOOLEAN, accept : {"none", "accept", "send", "gone"}, closed : BOOLEAN,
              broken : BOOLEAN, runs : 0..MaxRuns, faults : 0..MaxFaults]

WireguardInit ==
    \E mode \in Modes, ipv6 \in BOOLEAN :
        w = [mode |-> mode, ipv6 |-> ipv6, place |-> "idle", step |-> 1, have |-> {}, pending |-> {},
             failed |-> {}, cancelled |-> FALSE, accept |-> "none", closed |-> FALSE, broken |-> FALSE,
             runs |-> 0, faults |-> 0]

\* The VPN loop begins a run, with a new context and a new channel.
Begin ==
    /\ w.place \in {"idle", "ended"} /\ w.runs < MaxRuns
    /\ w' = [w EXCEPT !.place = "setup", !.step = 1, !.pending = {}, !.cancelled = FALSE,
                      !.accept = "none", !.closed = FALSE, !.broken = FALSE, !.runs = @ + 1]

Cancel == w.place \in {"setup", "ready", "wait"} /\ ~w.cancelled /\ w' = [w EXCEPT !.cancelled = TRUE]

--------------------------------- (* The setup *) ----------------------------

Current == Steps(w.mode, w.ipv6)[w.step]

\* The kernel refuses a second interface of the name, or a second rule.
Refused(c) == c \in {"link", "tun"} \cup Rules /\ c \in w.have /\ ~(c = "link" /\ w.mode # "kernelspace")

\* The device that is made in user space is the interface.
Made(c) ==
    IF c = "previous" THEN w.have \ WithLink
    ELSE IF c \in Passing THEN w.have
    ELSE w.have \cup {c} \cup (IF c = "tun" THEN {"link"} ELSE {})

\* A bug: the interface that was set up has no cleanup.
SetupStep_LeftUp ==
    /\ w.place = "setup" /\ ~Refused(Current)
    /\ w' = [w EXCEPT !.have = Made(Current), !.pending = @ \cup (({Current} \cap HasCleanup) \ {"up"}),
                      !.step = @ + 1, !.accept = IF Current = "accept" THEN "accept" ELSE @,
                      !.place = IF w.step = Len(Steps(w.mode, w.ipv6)) THEN "ready" ELSE @]

SetupStep ==
    /\ w.place = "setup" /\ ~Refused(Current)
    /\ w' = [w EXCEPT !.have = Made(Current), !.pending = @ \cup ({Current} \cap HasCleanup),
                      !.step = @ + 1, !.accept = IF Current = "accept" THEN "accept" ELSE @,
                      !.place = IF w.step = Len(Steps(w.mode, w.ipv6)) THEN "ready" ELSE @]

\* waitError <- err, before the deferred cleanups.
SetupFails ==
    /\ w.place = "setup" /\ Current \notin CannotFail
    /\ \/ Refused(Current) /\ w' = [w EXCEPT !.place = "report"]
       \/ w.faults < MaxFaults /\ w' = [w EXCEPT !.place = "report", !.broken = TRUE, !.faults = @ + 1]

Reported == w.place = "report" /\ w' = [w EXCEPT !.place = "undo"]

Ready == w.place = "ready" /\ w' = [w EXCEPT !.place = "wait"]

------------------------------- (* waitAndCleanup *) -------------------------

\* acceptAndHandle: Accept fails once the listener is closed, or before.
AcceptFails ==
    /\ w.accept = "accept"
    /\ \/ "listener" \notin w.have /\ w' = [w EXCEPT !.accept = "send"]
       \/ w.faults < MaxFaults /\ w' = [w EXCEPT !.accept = "send", !.faults = @ + 1, !.broken = TRUE]

UserMode == w.mode # "kernelspace"

\* The context, an error of the listener or the end of the device.
Wakes ==
    /\ w.place = "wait"
    /\ \/ w.cancelled /\ w' = [w EXCEPT !.place = "clean"]
       \/ /\ UserMode /\ w.accept = "send"
          /\ w' = [w EXCEPT !.place = "clean", !.accept = "gone", !.closed = TRUE]
       \/ /\ UserMode /\ w.faults < MaxFaults
          /\ w' = [w EXCEPT !.place = "clean", !.faults = @ + 1, !.broken = TRUE]

\* A bug: a cleanup that fails ends them.
Cleaned_Ends(c, v) ==
    IF v.pending = {} \/ c \in v.failed
    THEN [v EXCEPT !.pending = {}, !.place = IF w.place = "clean" /\ UserMode THEN "join" ELSE "ended"]
    ELSE v

\* The one after the last: the goroutine waits for acceptAndHandle, or returns.
Cleaned(c, v) ==
    IF v.pending = {}
    THEN [v EXCEPT !.place = IF w.place = "clean" /\ UserMode THEN "join" ELSE "ended"]
    ELSE v

\* The interface goes with its addresses and routes, and with a device of user space.
Undone(c) ==
    w.have \ (CASE c = "link" -> WithLink
                [] c = "tun" -> {"tun"} \cup WithLink
                [] c = "device" -> {"device", "tun", "bind"} \cup WithLink
                [] OTHER -> {c})

(* Cleanups.Cleanup: those of the smallest index first; one that fails is logged *)
(* and is not tried again.                                                 *)
CleanupStep ==
    /\ w.place \in {"clean", "undo"}
    /\ \E c \in w.pending :
          /\ \A d \in w.pending : OrderIndex(c) <= OrderIndex(d)
          /\ \/ w' = Cleaned(c, [w EXCEPT !.pending = @ \ {c}, !.have = Undone(c)])
             \/ /\ w.faults < MaxFaults /\ c \notin {"device", "listener"}
                /\ w' = Cleaned(c, [w EXCEPT !.pending = @ \ {c}, !.failed = @ \cup {c}, !.faults = @ + 1])

NothingToUndo == w.place = "undo" /\ w.pending = {} /\ w' = [w EXCEPT !.place = "ended"]

\* <-uapiAcceptErrorCh
Join ==
    /\ w.place = "join"
    /\ \/ w.closed /\ w' = [w EXCEPT !.place = "ended"]
       \/ w.accept = "send" /\ w' = [w EXCEPT !.place = "ended", !.accept = "gone"]

WireguardStep ==
    SetupStep \/ SetupFails \/ Reported \/ Ready \/ Wakes \/ CleanupStep \/ NothingToUndo \/ Join

WireguardNext == Begin \/ Cancel \/ AcceptFails \/ WireguardStep

\* Goroutines that can run do.
WireguardFairness == WF_w(WireguardStep) /\ WF_w(AcceptFails)

------------------------------- (* Properties *) -----------------------------

(* Once a run has ended, whatever failed on the way up, nothing of it is left but *)
(* what a cleanup failed to remove; the interface of such a cleanup may go with   *)
(* another (wireguard/run.go, cleanup/cleanup.go).                         *)
NothingLeft ==
    w.place = "ended" => w.have \subseteq w.failed \cup (IF w.failed \cap {"link", "tun"} # {} THEN WithLink ELSE {})

(* A rule that sends the traffic to the routes of the interface never outlives   *)
(* them, on the way up and on the way down, unless removing it failed            *)
(* (wireguard/run.go, orderIndex).                                         *)
RulesAfterRoutes ==
    \A r \in Rules : r \in w.have /\ r \notin w.failed => {"link", "up", "routes"} \subseteq w.have

(* A run fails because of something that failed in it, or of a rule or a device   *)
(* that could not be removed before: an interface left behind in kernel space is  *)
(* deleted ("Cleanup any previous Wireguard interface with the same name").       *)
FailsForAReason ==
    w.place \in {"report", "undo"} /\ ~w.broken => w.failed \cap (Rules \cup {"tun"}) # {}

(* A run that is cancelled while it waits, or wakes up, undoes everything and ends, *)
(* the goroutine that listens for it included (wireguard/run.go, waitAndCleanup). *)
RunEnds ==
    w.place \in {"clean", "join"} \/ (w.place = "wait" /\ w.cancelled)
    ~> w.place = "ended" /\ w.accept \in {"none", "gone"}
=============================================================================
