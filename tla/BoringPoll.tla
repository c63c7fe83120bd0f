----------------------------- MODULE BoringPoll ------------------------------
(***************************************************************************)
(* The polls of internal/boringpoll: the goroutines that fetch a page from time *)
(* to time while the VPN is up, started by the goroutine of each tunnel at its *)
(* end (vpn/tunnelup.go) and stopped by the cleanup of the VPN loop           *)
(* (vpn/cleanup.go).                                                       *)
(***************************************************************************)
EXTENDS Naturals, FiniteSets

CONSTANTS
    TunnelRuns, \* the tunnels that come up, each with a goroutine
    Urls        \* the pages polled

VARIABLE z
(* up: the tunnel that is up, or none; seen: the tunnels so far; started: those *)
(* whose goroutine called Start; late: those that called it after their        *)
(* tunnel went down; polls: for each page, the tunnels whose poll of it goes    *)
(* on; owner: the Start whose cancel and wait group are kept, or none;         *)
(* told: those whose context was cancelled; stop: where Stop is; quit.        *)

NoTunnel == "none"

\* What the constants are assumed to be.
BoringPollConstants == NoTunnel \notin TunnelRuns

BoringPollTypeOK ==
    /\ z.up \in TunnelRuns \cup {NoTunnel} /\ z.owner \in TunnelRuns \cup {NoTunnel}
    /\ z.seen \subseteq TunnelRuns /\ z.started \subseteq z.seen /\ z.late \subseteq z.started
    /\ z.told \subseteq z.started /\ z.polls \in [Urls -> SUBSET z.started]
    /\ z.stop \in {"idle", "called", "wait"}
    /\ z.owner \in z.told => z.stop = "wait"

BoringPollInit ==
    z = [up |-> NoTunnel, seen |-> {}, started |-> {}, late |-> {}, owner |-> NoTunnel, told |-> {},
         polls |-> [u \in Urls |-> {}], stop |-> "idle"]

\* The tunnel comes up; its goroutine goes on in parallel.
Up(t) ==
    /\ z.up = NoTunnel /\ z.stop = "idle" /\ t \notin z.seen
    /\ z' = [z EXCEPT !.up = t, !.seen = @ \cup {t}]

(* Start, by the goroutine of t, which does not look at its context: the cancel *)
(* function and the wait group of a start before are overwritten.            *)
Start(t) ==
    /\ t \in z.seen \ z.started /\ z.stop # "wait"
    /\ z' = [z EXCEPT !.started = @ \cup {t}, !.late = IF z.up = t THEN @ ELSE @ \cup {t},
                      !.owner = IF Urls = {} THEN @ ELSE t, !.polls = [u \in Urls |-> @[u] \cup {t}]]

\* The tunnel ends: the cleanup of the loop, Stop at its end.
Down ==
    /\ z.up # NoTunnel
    /\ z' = [z EXCEPT !.up = NoTunnel, !.stop = "called"]

\* A bug: the polls are told to end and not waited for.
Stop_NoWait ==
    /\ z.stop = "called"
    /\ z' = [z EXCEPT !.told = @ \cup ({z.owner} \ {NoTunnel}), !.owner = NoTunnel, !.stop = "idle"]

\* Stop takes the mutex; there is nothing to stop, or the polls are cancelled.
Stop ==
    /\ z.stop = "called"
    /\ z' = IF z.owner = NoTunnel THEN [z EXCEPT !.stop = "idle"]
            ELSE [z EXCEPT !.told = @ \cup {z.owner}, !.stop = "wait"]

\* A bug: the cancel function and the wait group are not forgotten.
Stopped_Kept ==
    /\ z.stop = "wait" /\ \A u \in Urls : z.owner \notin z.polls[u]
    /\ z' = [z EXCEPT !.stop = "idle"]

\* b.done.Wait returns.
Stopped ==
    /\ z.stop = "wait" /\ \A u \in Urls : z.owner \notin z.polls[u]
    /\ z' = [z EXCEPT !.owner = NoTunnel, !.stop = "idle"]

\* A poll sees its context, before, after or during a fetch.
PollEnds(t, u) ==
    /\ t \in z.told /\ t \in z.polls[u]
    /\ z' = [z EXCEPT !.polls[u] = @ \ {t}]

BoringPollStep == Stop \/ Stopped \/ \E t \in TunnelRuns, u \in Urls : PollEnds(t, u)

BoringPollNext == BoringPollStep \/ Down \/ \E t \in TunnelRuns : Up(t) \/ Start(t)

BoringPollFairness == WF_z(BoringPollStep)

BoringPollSpec == BoringPollInit /\ [][BoringPollNext]_z /\ BoringPollFairness

------------------------------- (* Properties *) --------------------------------

(* Once a tunnel is down and the cleanup is over, no poll goes on but those of a *)
(* goroutine that started them after its own tunnel went down, and those such  *)
(* a start has hidden (boringpoll.go Start overwrites cancel and done).      *)
NoPollLeft ==
    z.up = NoTunnel /\ z.stop = "idle" /\ z.late = {} => \A u \in Urls : z.polls[u] = {}

(* The cleanup of the VPN loop is not held up for good by the polls.          *)
PollStopReturns == z.stop # "idle" ~> z.stop = "idle"
=============================================================================
