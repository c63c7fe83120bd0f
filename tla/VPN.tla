-------------------------------- MODULE VPN --------------------------------
(***************************************************************************)
(* The VPN component as gluetun runs it: the status manager, the loop, the  *)
(* runner, the goroutines of the tunnel, and its clients (the control       *)
(* server's handlers and the first start in cmd/gluetun/main.go), up to the *)
(* shutdown of the program.                                                *)
(***************************************************************************)
EXTENDS TunnelUp

CONSTANT MayShutdown    \* the program may be told to terminate

ASSUME ClientConstants == MayShutdown \in BOOLEAN

vars == <<stateVars, loopVars, runnerVars, taskVars, svc, budget>>

Users == Callers \ Tasks

TypeOK == StateTypeOK /\ LoopTypeOK

Init == StateInit /\ LoopInit

(* A handler starts the VPN, stops it, or does both (a restart, or settings  *)
(* that changed).  The server takes no request once its context is done.     *)
ClientCalls(u) ==
    /\ ~ctxDone[u]
    /\ nCalls < MaxCalls
    /\ nCalls' = nCalls + 1
    /\ Call(u, "running", FALSE) \/ Call(u, "stopped", FALSE) \/ Call(u, "stopped", TRUE)
    /\ UNCHANGED <<loopVars, runnerVars, taskVars, svc, nFaults>>

\* The ordered shutdown cancels the control server first.
CancelClients ==
    /\ MayShutdown
    /\ \E u \in Users : ~ctxDone[u]
    /\ ctxDone' = [c \in Callers |-> c \in Users \/ ctxDone[c]]
    /\ UNCHANGED <<status, loopMu, pc, want, thenRun, newStatus>>
    /\ UNCHANGED <<loopVars, runnerVars, taskVars, svc, budget>>

\* Then it cancels the VPN loop, whose context restartVPN uses too.
CancelLoop ==
    /\ MayShutdown
    /\ \A u \in Users : ctxDone[u]
    /\ ~loopCtxDone
    /\ loopCtxDone' = TRUE
    /\ ctxDone' = [c \in Callers |-> TRUE]
    /\ UNCHANGED <<status, loopMu, pc, want, thenRun, newStatus>>
    /\ UNCHANGED <<loop, sig, userTrigger, runnerVars, taskVars, svc, budget>>

ClientStep == (\E u \in Users : ClientCalls(u)) \/ CancelClients \/ CancelLoop

\* A caller's own step leaves the rest of the component alone.
Alone(c) == CallerStep(c) /\ UNCHANGED <<loopVars, runnerVars, taskVars, svc, budget>>

Next ==
    \/ ClientStep
    \/ LoopStep
    \/ RunnerStep
    \/ \E c \in Callers : Alone(c)
    \/ \E t \in Tasks : OnTunnelUp(t) \/ CollectHealthErrors(t)

Spec == Init /\ [][Next]_vars

(***************************************************************************)
(* Fairness: goroutines that can run do, locks and channels are granted (Go *)
(* picks among the ready cases of a select at random, and its mutexes do    *)
(* not starve), and setting up or tearing down a WireGuard device ends.     *)
(* Nothing is assumed of clients, failures, health reports or the time      *)
(* OpenVPN takes to connect.                                               *)
(***************************************************************************)
Fairness ==
    /\ WF_vars(LoopStep)
    /\ WF_vars(TakeQuit)
    /\ WF_vars(RunnerCancelled \/ (RunnerReady /\ VPNType = "wireguard"))
    /\ \A c \in Callers : WF_vars(Alone(c)) /\ WF_vars(TakeStop(c))
    /\ \A t \in Tasks : WF_vars(OnTunnelUp(t)) /\ WF_vars(CollectQuits(t))

FairSpec == Spec /\ Fairness

-----------------------------------------------------------------------------

(* A client that reads "stopped" can rely on the tunnel being down: no       *)
(* runner is alive, whatever calls, crashes and health restarts overlap.    *)
StoppedMeansDown == status = "stopped" => runner \in {"none", "gone"}

(* "running" is shown only while the loop watches the tunnel or is already    *)
(* dealing with its death, never while it sleeps in a backoff or sets up:    *)
(* a stop request, which is sent without looking at its context, always finds *)
(* the loop in or on its way to the select that receives it.                *)
RunningMeansWatched ==
    status = "running" =>
        loop \in {"select", "crashLock", "crashCleanup", "crashCancel",
                  "quitCleanup", "quitCancel", "quitWait", "done"}

(* "crashed" is shown only while the loop is retrying, not beside a tunnel    *)
(* that it watches: given that timers outlast a caller's few instructions,   *)
(* a late SetStatus of a call never covers the loop's.                      *)
CrashedMeansRetrying == status = "crashed" => loop \notin {"select", "stopCleanup", "stopWait"}

(* The loop waits for the last word of a tunnel before it launches the next: *)
(* two tunnels never run on the same interface.                             *)
OneTunnel == [][ Launch => runner \in {"none", "gone"} ]_vars

(* Contexts follow tunnels: when the loop is past a tunnel, every goroutine   *)
(* it started for it has been told to end.                                  *)
NoOrphanContext ==
    loop \in {"waitStart", "top", "setup", "backoff", "stopAck", "crashBackoff"} =>
        \A t \in Tasks : task[t] # "none" \/ collect[t] # "none" => taskCtxDone[t]

(***************************************************************************)
(* The inductive invariant behind the safety properties above: who holds     *)
(* loopMu, and what a caller at each place may assume of the loop and of    *)
(* the runner.                                                             *)
(***************************************************************************)
NoRunner == runner \in {"none", "gone"}

Quitting == {"quitCleanup", "quitCancel", "quitWait", "done"}

\* The loop holds the mutex in these, and no caller can be inside ApplyStatus.
CrashPlaces == {"crashCleanup", "crashCancel", "crashBackoff"}

\* loopMu is held by the one caller inside ApplyStatus, or by the loop.
MutexHeld ==
    /\ \A c \in Callers : pc[c] \in Inside <=> loopMu = c
    /\ loop \in CrashPlaces <=> loopMu = TheLoop

\* The places of the loop where no tunnel needs it.
Quiet == {"waitStart", "select"} \cup Quitting

\* The places where it watches over a tunnel, outside the crash section.
Watching == {"select", "crashLock"} \cup Quitting

\* What the status says of the loop and the runner.
StatusHolds ==
    /\ status # "completed"
    /\ status = "stopped" => loop \in Quiet /\ NoRunner
    /\ status = "running" => loop \in Watching \cup {"crashCleanup", "crashCancel"}

\* What each place inside ApplyStatus says of them.
CallersHold ==
    \A c \in Callers :
        /\ pc[c] \in Inside => status # "stopped"
        /\ pc[c] = "sendStart" => status = "starting" /\ loop \in Quiet /\ NoRunner
        /\ pc[c] = "sendStop" => status = "stopping" /\ loop \in Watching
        /\ pc[c] = "setting" =>
            /\ newStatus[c] # "completed"
            /\ newStatus[c] = "stopped" => loop \in Quiet /\ runner = "gone"
            /\ newStatus[c] = "running" => loop \in Watching

\* What the loop's own place says of the runner.
LoopHolds ==
    /\ loop = "waitStart" => runner = "none"
    /\ loop \in {"stopAck", "crashLock"} \cup CrashPlaces => runner = "gone"
    /\ loop = "setup" => NoRunner
    /\ loop \in {"top", "backoff"} \/ (loop = "signal" /\ sig = "crashed") => NoRunner \/ loopCtxDone

IInv == TypeOK /\ MutexHeld /\ StatusHolds /\ CallersHold /\ LoopHolds

TunnelAlive == runner \in {"setup", "sendReady", "up", "sendErr"}

L == INSTANCE Lifecycle WITH
        st <- status,
        tunnel <- IF TunnelAlive THEN "up" ELSE "down",
        ending <- (\E c \in Callers : ctxDone[c])

(* The component implements its abstract lifecycle: the status a client      *)
(* reads moves as Lifecycle allows, "stopped" is reported only after the    *)
(* tunnel has ended and a tunnel is launched only for a start or after a    *)
(* crash.                                                                  *)
ImplementsLifecycle == L!Spec

-----------------------------------------------------------------------------

(* The ways in which the component can stop for good.  Each is a circular    *)
(* wait or a lost signal between run.go and apply.go.                       *)

\* The loop wants loopMu to report a crash; its owner sends a stop to the loop.
CrossedStop == loop = "crashLock" /\ \E c \in Callers : pc[c] = "sendStop"

\* The loop waits for the runner's error; the runner waits to say it is ready.
UnheardReady == loop \in {"stopWait", "quitWait"} /\ runner = "sendReady"

\* The loop answered before the caller listened, and will not answer again.
LostAnswer == ~userTrigger /\ \E c \in Callers : pc[c] \in {"sentStart", "awaitRunning"}

\* The caller left its select; the loop still sends it the end of the stop.
UnheardStopped == loop = "stopAck" /\ \A c \in Callers : pc[c] \notin {"sentStop", "awaitStopped"}

\* The loop waits at shutdown for an error that it has already received.
SecondWait == loop = "quitWait" /\ runner = "gone"

\* The loop has ended under a caller that sends to it.
NoLoop == loop = "done" /\ \E c \in Callers : pc[c] \in {"sendStart", "sendStop"}

Stuck == CrossedStop \/ UnheardReady \/ LostAnswer \/ UnheardStopped \/ SecondWait \/ NoLoop

(* ApplyStatus returns to every caller, or one of the six situations above    *)
(* has been reached: there is no seventh way to lose a client.              *)
CallsReturnOrStuck == \A c \in Callers : InCall(c) ~> (~InCall(c) \/ Stuck)

(* Once its context is done Loop.Run returns, or one of the six situations   *)
(* has been reached.                                                       *)
QuitsOrStuck == loopCtxDone ~> (loop = "done" \/ Stuck)

(* A tunnel that died is relaunched without anybody asking: a crash is       *)
(* always followed by the next iteration, or by the end of the program.     *)
CrashIsRetried == loop = "crashLock" ~> (loop \in {"setup", "done"} \/ Stuck)

(* ApplyStatus "is thread safe and a synchronous call since it waits to the  *)
(* loop to fully change its status": a stop request that changed the status  *)
(* to stopping is received by the loop.                                    *)
StopIsReceived == \A c \in Callers : pc[c] = "sendStop" ~> pc[c] # "sendStop"
=============================================================================
