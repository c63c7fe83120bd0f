------------------------------ MODULE VPNLoop ------------------------------
(***************************************************************************)
(* The loop goroutine of the VPN (internal/vpn, Loop.Run and its helpers)   *)
(* and the runner goroutine it launches (internal/wireguard and amneziawg   *)
(* Run, internal/openvpn Runner.Run with streamLines), on top of the status *)
(* manager.  waitError and tunnelReady are unbuffered: the runner waits at   *)
(* "sendErr" or "sendReady" until the loop receives.                        *)
(*                                                                         *)
(* The goroutines started when a tunnel comes up (onTunnelUp and            *)
(* collectHealthErrors) are in TunnelUp; their variables are declared here  *)
(* since the loop spawns and cancels them.                                  *)
(***************************************************************************)
EXTENDS LoopState

CONSTANTS
    VPNType,    \* "wireguard" (AmneziaWG runs the same way) or "openvpn"
    Tasks,      \* slots for the onTunnelUp goroutines
    Prompt,     \* timers outlast a caller's few instructions between two waits
    MaxFaults,  \* bound on the failures of the environment
    MaxCalls    \* bound on the calls of the clients

ASSUME LoopConstants ==
    /\ VPNType \in {"wireguard", "openvpn"}
    /\ Tasks \subseteq Callers
    /\ Prompt \in BOOLEAN
    /\ MaxFaults \in Nat
    /\ MaxCalls \in Nat

VARIABLES
    loop,           \* where Loop.Run is
    sig,            \* the status signalOrSetStatus was called with
    userTrigger,    \* Loop.userTrigger
    loopCtxDone,    \* the context of Loop.Run is done
    runner,         \* where the latest runner goroutine is
    vpnCancelled,   \* vpnCancel was called for the latest runner
    task,           \* where each onTunnelUp goroutine is
    collect,        \* where the collectHealthErrors goroutine of each is
    taskCtxDone,    \* the vpnCtx given to each of them is done
    svc,            \* what has been switched on for a tunnel, and by it
    nFaults,        \* failures so far
    nCalls          \* calls of the clients so far

runnerVars == <<runner, vpnCancelled>>
taskVars == <<task, collect, taskCtxDone>>
loopVars == <<loop, sig, userTrigger, loopCtxDone>>
budget == <<nFaults, nCalls>>

LoopPlaces == {"waitStart", "top", "setup", "early", "signal", "backoff", "select",
               "stopCleanup", "stopCancel", "stopWait", "stopAck",
               "quitCleanup", "quitCancel", "quitWait",
               "crashLock", "crashCleanup", "crashCancel", "crashBackoff", "done"}

RunnerPlaces == {"none", "setup", "sendReady", "up", "sendErr", "gone"}

TaskPlaces == {"none", "ports", "dns", "health", "publicip", "forward", "poll"}

Services == {"vpnConnection", "ports", "dns", "health", "unhealthy",
             "publicip", "portforward", "boringpoll"}

\* What Loop.cleanup switches off.
Cleaned == {"ports", "publicip", "portforward", "boringpoll"}

LoopTypeOK ==
    /\ loop \in LoopPlaces
    /\ sig \in {"running", "crashed"}
    /\ userTrigger \in BOOLEAN
    /\ loopCtxDone \in BOOLEAN
    /\ runner \in RunnerPlaces
    /\ vpnCancelled \in BOOLEAN
    /\ task \in [Tasks -> TaskPlaces]
    /\ collect \in [Tasks -> {"none", "watch"}]
    /\ taskCtxDone \in [Tasks -> BOOLEAN]
    /\ svc \subseteq Services
    /\ nFaults \in 0..MaxFaults
    /\ nCalls \in 0..MaxCalls

LoopInit ==
    /\ loop = "waitStart"
    /\ sig = "running"
    /\ userTrigger = TRUE
    /\ loopCtxDone = FALSE
    /\ runner = "none"
    /\ vpnCancelled = FALSE
    /\ task = [t \in Tasks |-> "none"]
    /\ collect = [t \in Tasks |-> "none"]
    /\ taskCtxDone = [t \in Tasks |-> FALSE]
    /\ svc = {}
    /\ nFaults = 0
    /\ nCalls = 0

Fault == nFaults < MaxFaults /\ nFaults' = nFaults + 1 /\ UNCHANGED nCalls

\* No caller is between a channel operation and its next statement.
CallersSettled == \A c \in Callers : pc[c] \notin {"sentStart", "sentStop", "setting"}

\* A timer of the loop may fire.
TimerFires == Prompt => CallersSettled

Free(t) == task[t] = "none" /\ collect[t] = "none" /\ pc[t] = "idle"

\* A bug: the goroutines of the tunnel are given a context of their own.
VPNCancel_RunnerOnly ==
    /\ vpnCancelled' = TRUE
    /\ UNCHANGED taskCtxDone

\* Every goroutine of the tunnel shares the runner's context.
VPNCancel ==
    /\ vpnCancelled' = TRUE
    /\ taskCtxDone' = [t \in Tasks |-> TRUE]

--------------------------- (* The runner goroutine *) ------------------------

\* Its part of tunnelReady <-: once for WireGuard, again and again for OpenVPN.
RunnerReady ==
    /\ runner = "setup" \/ (runner = "up" /\ VPNType = "openvpn")
    /\ runner' = "sendReady"
    /\ UNCHANGED <<stateVars, loopVars, vpnCancelled, taskVars, svc, budget>>

\* Setup fails, the device goes away or the OpenVPN process exits.
RunnerFails ==
    /\ runner \in {"setup", "up"}
    /\ Fault
    /\ runner' = "sendErr"
    /\ UNCHANGED <<stateVars, loopVars, vpnCancelled, taskVars, svc>>

(* The runner notices that its context is done.  WireGuard looks at it only *)
(* in waitAndCleanup, after the ready signal was taken; OpenVPN's process    *)
(* is killed at any time, and streamLines is waited for.                    *)
RunnerCancelled ==
    /\ vpnCancelled
    /\ runner = "up" \/ (runner = "setup" /\ VPNType = "openvpn")
    /\ runner' = "sendErr"
    /\ UNCHANGED <<stateVars, loopVars, vpnCancelled, taskVars, svc, budget>>

---------------------- (* Loop.Run: launching a tunnel *) ---------------------

FirstStart(c) ==
    /\ loop = "waitStart"
    /\ StartTo(c)
    /\ loop' = "top"
    /\ UNCHANGED <<sig, userTrigger, loopCtxDone, runnerVars, taskVars, svc, budget>>

QuitIdle ==
    /\ loop = "waitStart" /\ loopCtxDone
    /\ loop' = "done"
    /\ UNCHANGED <<stateVars, sig, userTrigger, loopCtxDone, runnerVars, taskVars, svc, budget>>

\* A bug: the outer for has no condition.
Iterate_Always ==
    /\ loop = "top"
    /\ loop' = "setup"
    /\ UNCHANGED <<stateVars, sig, userTrigger, loopCtxDone, runnerVars, taskVars, svc, budget>>

\* The condition of the outer for: an iteration begins unless the context is done.
Iterate ==
    /\ loop = "top"
    /\ loop' = IF loopCtxDone THEN "done" ELSE "setup"
    /\ UNCHANGED <<stateVars, sig, userTrigger, loopCtxDone, runnerVars, taskVars, svc, budget>>

(* A server was found and the firewall let the connection through: the      *)
(* runner is launched with a fresh context.                                 *)
Launch ==
    /\ loop = "setup"
    /\ svc' = svc \cup {"vpnConnection"}
    /\ runner' = "setup"
    /\ vpnCancelled' = FALSE
    /\ loop' = "early"
    /\ UNCHANGED <<stateVars, sig, userTrigger, loopCtxDone, taskVars, budget>>

\* No server, no firewall rule, or the context is done in the middle of it.
SetupFails ==
    /\ loop = "setup"
    /\ Fault \/ (loopCtxDone /\ UNCHANGED budget)
    /\ sig' = "crashed"
    /\ loop' = "signal"
    /\ UNCHANGED <<stateVars, userTrigger, loopCtxDone, runnerVars, taskVars, svc>>

\* waitForError: no error for 100ms.
EarlyTimer ==
    /\ loop = "early" /\ TimerFires
    /\ sig' = "running"
    /\ loop' = "signal"
    /\ UNCHANGED <<stateVars, userTrigger, loopCtxDone, runnerVars, taskVars, svc, budget>>

EarlyError ==
    /\ loop = "early" /\ runner = "sendErr"
    /\ runner' = "gone"
    /\ VPNCancel
    /\ sig' = "crashed"
    /\ loop' = "signal"
    /\ UNCHANGED <<stateVars, userTrigger, loopCtxDone, task, collect, svc, budget>>

\* waitForError returns ctx.Err(): the runner is cancelled and left behind.
EarlyQuit ==
    /\ loop = "early" /\ loopCtxDone
    /\ VPNCancel
    /\ sig' = "crashed"
    /\ loop' = "signal"
    /\ UNCHANGED <<stateVars, userTrigger, loopCtxDone, runner, task, collect, svc, budget>>

AfterSignal == loop' = IF sig = "running" THEN "select" ELSE "backoff"

\* A bug: userTrigger is not reset.
SignalCaller_KeepsTrigger(c) ==
    /\ loop = "signal" /\ userTrigger
    /\ RunningFrom(c, sig)
    /\ AfterSignal
    /\ UNCHANGED <<sig, userTrigger, loopCtxDone, runnerVars, taskVars, svc, budget>>

\* signalOrSetStatus when a user's call is to be answered, and one listens.
SignalCaller(c) ==
    /\ loop = "signal" /\ userTrigger
    /\ RunningFrom(c, sig)
    /\ userTrigger' = FALSE
    /\ AfterSignal
    /\ UNCHANGED <<sig, loopCtxDone, runnerVars, taskVars, svc, budget>>

\* The same, with nobody parked on the channel: the default branch.
SignalDropped ==
    /\ loop = "signal" /\ userTrigger
    /\ \A c \in Callers : ~Listening(c)
    /\ userTrigger' = FALSE
    /\ AfterSignal
    /\ UNCHANGED <<stateVars, sig, loopCtxDone, runnerVars, taskVars, svc, budget>>

\* signalOrSetStatus after the loop relaunched the tunnel by itself.
SignalSet ==
    /\ loop = "signal" /\ ~userTrigger
    /\ status' = sig
    /\ AfterSignal
    /\ UNCHANGED <<loopMu, pc, want, thenRun, newStatus, ctxDone>>
    /\ UNCHANGED <<sig, userTrigger, loopCtxDone, runnerVars, taskVars, svc, budget>>

\* logAndWait: the timer or the context ends the wait, then the loop goes round.
Retry ==
    /\ loop = "backoff" /\ (TimerFires \/ loopCtxDone)
    /\ loop' = "top"
    /\ UNCHANGED <<stateVars, sig, userTrigger, loopCtxDone, runnerVars, taskVars, svc, budget>>

-------------------- (* Loop.Run: watching the tunnel *) ----------------------

(* case <-tunnelReady: go l.onTunnelUp(vpnCtx, ctx, ...), in a slot that is  *)
(* free: with every slot taken the signal waits, which bounds the goroutines. *)
TakeReady(t) ==
    /\ loop = "select" /\ runner = "sendReady"
    /\ Free(t)
    /\ runner' = "up"
    /\ task' = [task EXCEPT ![t] = "ports"]
    /\ taskCtxDone' = [taskCtxDone EXCEPT ![t] = vpnCancelled]
    /\ UNCHANGED <<stateVars, loopVars, vpnCancelled, collect, svc, budget>>

\* case <-l.start.
TakeStart(c) ==
    /\ loop = "select"
    /\ StartTo(c)
    /\ userTrigger' = TRUE
    /\ VPNCancel
    /\ loop' = "top"
    /\ UNCHANGED <<sig, loopCtxDone, runner, task, collect, svc, budget>>

\* case <-l.stop.
TakeStop(c) ==
    /\ loop = "select"
    /\ StopTo(c)
    /\ userTrigger' = TRUE
    /\ loop' = "stopCleanup"
    /\ UNCHANGED <<sig, loopCtxDone, runnerVars, taskVars, svc, budget>>

\* case <-ctx.Done().
TakeQuit ==
    /\ loop = "select" /\ loopCtxDone
    /\ loop' = "quitCleanup"
    /\ UNCHANGED <<stateVars, sig, userTrigger, loopCtxDone, runnerVars, taskVars, svc, budget>>

\* case err := <-waitError: the tunnel died by itself.
TakeError ==
    /\ loop = "select" /\ runner = "sendErr"
    /\ runner' = "gone"
    /\ loop' = "crashLock"
    /\ UNCHANGED <<stateVars, sig, userTrigger, loopCtxDone, vpnCancelled, taskVars, svc, budget>>

\* A bug: the crash is handled without the mutex.
CrashLock_NoLock ==
    /\ loop = "crashLock"
    /\ loop' = "crashCleanup"
    /\ UNCHANGED <<stateVars, sig, userTrigger, loopCtxDone, runnerVars, taskVars, svc, budget>>

\* l.statusManager.Lock().
CrashLock ==
    /\ loop = "crashLock" /\ loopMu = Nobody
    /\ loopMu' = TheLoop
    /\ loop' = "crashCleanup"
    /\ UNCHANGED <<status, pc, want, thenRun, newStatus, ctxDone>>
    /\ UNCHANGED <<sig, userTrigger, loopCtxDone, runnerVars, taskVars, svc, budget>>

\* Loop.cleanup, called from three places.
Cleanup(from, to) ==
    /\ loop = from
    /\ svc' = svc \ Cleaned
    /\ loop' = to
    /\ UNCHANGED <<stateVars, sig, userTrigger, loopCtxDone, runnerVars, taskVars, budget>>

StopCleanup == Cleanup("stopCleanup", "stopCancel")
QuitCleanup == Cleanup("quitCleanup", "quitCancel")
CrashCleanup == Cleanup("crashCleanup", "crashCancel")

\* The vpnCancel that follows it where the runner is still to be waited for.
Cancel(from, to) ==
    /\ loop = from
    /\ VPNCancel
    /\ loop' = to
    /\ UNCHANGED <<stateVars, sig, userTrigger, loopCtxDone, runner, task, collect, svc, budget>>

StopCancel == Cancel("stopCancel", "stopWait")
QuitCancel == Cancel("quitCancel", "quitWait")

\* A bug: the loop goes on without the runner's last word.
AwaitRunner_NoWait(from, to) ==
    /\ loop = from
    /\ loop' = to
    /\ UNCHANGED <<stateVars, sig, userTrigger, loopCtxDone, runnerVars, taskVars, svc, budget>>

\* <-waitError, with nothing else to wake the loop.
AwaitRunner(from, to) ==
    /\ loop = from /\ runner = "sendErr"
    /\ runner' = "gone"
    /\ loop' = to
    /\ UNCHANGED <<stateVars, sig, userTrigger, loopCtxDone, vpnCancelled, taskVars, svc, budget>>

StopWait == AwaitRunner("stopWait", "stopAck")
QuitWait == AwaitRunner("quitWait", "done")

\* A bug: the end of the stop is not signalled.
StopAck_Silent(c) ==
    /\ loop = "stopAck"
    /\ pc[c] \in {"sentStop", "awaitStopped"}
    /\ loop' = "select"
    /\ UNCHANGED <<stateVars, sig, userTrigger, loopCtxDone, runnerVars, taskVars, svc, budget>>

\* l.stopped <- struct{}{}.
StopAck(c) ==
    /\ loop = "stopAck"
    /\ StoppedFrom(c)
    /\ loop' = "select"
    /\ UNCHANGED <<sig, userTrigger, loopCtxDone, runnerVars, taskVars, svc, budget>>

\* vpnCancel and SetStatus(Crashed), with loopMu held.
CrashCancel ==
    /\ loop = "crashCancel"
    /\ VPNCancel
    /\ status' = "crashed"
    /\ loop' = "crashBackoff"
    /\ UNCHANGED <<loopMu, pc, want, thenRun, newStatus, ctxDone>>
    /\ UNCHANGED <<sig, userTrigger, loopCtxDone, runner, task, collect, svc, budget>>

\* A bug: after a crash the loop waits to be started again.
CrashRetry_WaitsStart ==
    /\ loop = "crashBackoff" /\ (TimerFires \/ loopCtxDone)
    /\ loopMu' = Nobody
    /\ VPNCancel
    /\ loop' = "waitStart"
    /\ UNCHANGED <<status, pc, want, thenRun, newStatus, ctxDone>>
    /\ UNCHANGED <<sig, userTrigger, loopCtxDone, runner, task, collect, svc, budget>>

\* logAndWait, then Unlock and the vpnCancel after the inner for.
CrashRetry ==
    /\ loop = "crashBackoff" /\ (TimerFires \/ loopCtxDone)
    /\ loopMu' = Nobody
    /\ VPNCancel
    /\ loop' = "top"
    /\ UNCHANGED <<status, pc, want, thenRun, newStatus, ctxDone>>
    /\ UNCHANGED <<sig, userTrigger, loopCtxDone, runner, task, collect, svc, budget>>

LoopStep ==
    \/ QuitIdle \/ Iterate \/ Launch \/ SetupFails
    \/ EarlyTimer \/ EarlyError \/ EarlyQuit
    \/ SignalDropped \/ SignalSet \/ Retry
    \/ TakeQuit \/ TakeError
    \/ StopCleanup \/ StopCancel \/ StopWait
    \/ QuitCleanup \/ QuitCancel \/ QuitWait
    \/ CrashLock \/ CrashCleanup \/ CrashCancel \/ CrashRetry
    \/ \E t \in Tasks : TakeReady(t)
    \/ \E c \in Callers :
          FirstStart(c) \/ SignalCaller(c) \/ TakeStart(c) \/ TakeStop(c) \/ StopAck(c)

RunnerStep == RunnerReady \/ RunnerFails \/ RunnerCancelled
=============================================================================
