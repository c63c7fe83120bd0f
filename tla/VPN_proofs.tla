----------------------------- MODULE VPN_proofs -----------------------------
(***************************************************************************)
(* Safety of the VPN component for any callers, any number of tunnel        *)
(* goroutines, any bounds, both kinds of runner and with or without the     *)
(* timing assumption: type correctness, then the inductive invariant IInv,  *)
(* then the properties it implies, then the contexts of tunnels that are    *)
(* over, and, from what a stop and a crash leave behind, that the component  *)
(* implements its abstract lifecycle when timers outlast a caller's few      *)
(* instructions.                                                           *)
(***************************************************************************)
EXTENDS VPN, TLAPS

(***************************************************************************)
(* Type correctness, one lemma per group of actions.                       *)
(***************************************************************************)

\* The steps a caller takes by itself keep the types.
LEMMA CallerTypes ==
    ASSUME TypeOK, NEW c \in Callers, Alone(c)
    PROVE  TypeOK'
<1> USE DEF TypeOK, StateTypeOK, LoopTypeOK, Statuses, Places, Goto,
            loopVars, runnerVars, taskVars, budget
<1>1. LoopTypeOK'
    BY DEF Alone
<1>2. StateTypeOK'
    <2>1. CASE BeginStart(c)
        BY <2>1 DEF BeginStart
    <2>2. CASE BeginStop(c)
        BY <2>2 DEF BeginStop
    <2>3. CASE Already(c)
        BY <2>3 DEF Already, Return
    <2>4. CASE EnterSelect(c)
        BY <2>4 DEF EnterSelect
    <2>5. CASE DropOut(c)
        BY <2>5 DEF DropOut
    <2>6. CASE Finish(c)
        BY <2>6 DEF Finish, Return
    <2> QED
        BY <2>1, <2>2, <2>3, <2>4, <2>5, <2>6 DEF Alone, CallerStep
<1> QED
    BY <1>1, <1>2

\* So do the calls and cancellations of the clients.
LEMMA ClientTypes ==
    ASSUME TypeOK, ClientStep
    PROVE  TypeOK'
<1> USE DEF TypeOK, StateTypeOK, LoopTypeOK, Statuses, Places, Goto,
            loopVars, runnerVars, taskVars
<1>1. CASE \E u \in Users : ClientCalls(u)
    <2>1. PICK u \in Users : ClientCalls(u)
        BY <1>1
    <2>2. u \in Callers
        BY DEF Users
    <2>3. StateTypeOK'
        BY <2>1, <2>2 DEF ClientCalls, Call
    <2>4. LoopTypeOK'
        BY <2>1, LoopConstants DEF ClientCalls
    <2> QED
        BY <2>3, <2>4
<1>2. CASE CancelClients
    BY <1>2 DEF CancelClients, budget
<1>3. CASE CancelLoop
    BY <1>3 DEF CancelLoop, budget
<1> QED
    BY <1>1, <1>2, <1>3 DEF ClientStep

\* The loop's own steps.
LEMMA LoopAloneTypes ==
    ASSUME TypeOK,
           \/ QuitIdle \/ Iterate \/ Launch \/ SetupFails
           \/ EarlyTimer \/ EarlyError \/ EarlyQuit
           \/ SignalDropped \/ SignalSet \/ Retry
           \/ TakeQuit \/ TakeError
           \/ StopCleanup \/ StopCancel \/ StopWait
           \/ QuitCleanup \/ QuitCancel \/ QuitWait
           \/ CrashLock \/ CrashCleanup \/ CrashCancel \/ CrashRetry
    PROVE  TypeOK'
<1> USE DEF TypeOK, StateTypeOK, LoopTypeOK, Statuses, LoopPlaces, RunnerPlaces, Services,
            stateVars, loopVars, runnerVars, taskVars, budget
<1>1. CASE QuitIdle
    BY <1>1 DEF QuitIdle
<1>2. CASE Iterate
    BY <1>2 DEF Iterate
<1>3. CASE Launch
    BY <1>3 DEF Launch
<1>4. CASE SetupFails
    BY <1>4, LoopConstants DEF SetupFails, Fault
<1>5. CASE EarlyTimer
    BY <1>5 DEF EarlyTimer
<1>6. CASE EarlyError
    BY <1>6 DEF EarlyError, VPNCancel
<1>7. CASE EarlyQuit
    BY <1>7 DEF EarlyQuit, VPNCancel
<1>8. CASE SignalDropped
    BY ZenonT(60), <1>8 DEF SignalDropped, AfterSignal
<1>9. CASE SignalSet
    BY <1>9 DEF SignalSet, AfterSignal
<1>10. CASE Retry
    BY <1>10 DEF Retry
<1>11. CASE TakeQuit
    BY <1>11 DEF TakeQuit
<1>12. CASE TakeError
    BY <1>12 DEF TakeError
<1>13. CASE StopCleanup
    BY ZenonT(60), <1>13 DEF StopCleanup, Cleanup
<1>14. CASE StopCancel
    BY <1>14 DEF StopCancel, Cancel, VPNCancel
<1>15. CASE StopWait
    BY <1>15 DEF StopWait, AwaitRunner
<1>16. CASE QuitCleanup
    BY ZenonT(60), <1>16 DEF QuitCleanup, Cleanup
<1>17. CASE QuitCancel
    BY <1>17 DEF QuitCancel, Cancel, VPNCancel
<1>18. CASE QuitWait
    BY <1>18 DEF QuitWait, AwaitRunner
<1>19. CASE CrashLock
    BY <1>19 DEF CrashLock
<1>20. CASE CrashCleanup
    BY ZenonT(60), <1>20 DEF CrashCleanup, Cleanup
<1>21. CASE CrashCancel
    BY <1>21 DEF CrashCancel, VPNCancel
<1>22. CASE CrashRetry
    BY <1>22 DEF CrashRetry, VPNCancel
<1> QED
    BY <1>1, <1>2, <1>3, <1>4, <1>5, <1>6, <1>7, <1>8, <1>9, <1>10, <1>11, <1>12, <1>13, <1>14, <1>15, <1>16, <1>17, <1>18, <1>19, <1>20, <1>21, <1>22

\* The steps of the loop that are joint with a caller or start a goroutine.
LEMMA LoopJointTypes ==
    ASSUME TypeOK,
           \/ \E t \in Tasks : TakeReady(t)
           \/ \E c \in Callers :
                 FirstStart(c) \/ SignalCaller(c) \/ TakeStart(c) \/ TakeStop(c) \/ StopAck(c)
    PROVE  TypeOK'
<1> USE DEF TypeOK, StateTypeOK, LoopTypeOK, Statuses, Places, LoopPlaces, RunnerPlaces, TaskPlaces,
            Goto, StartTo, StopTo, loopVars, runnerVars, taskVars, stateVars, budget
<1>1. ASSUME NEW t \in Tasks, TakeReady(t)
      PROVE  TypeOK'
    BY <1>1 DEF TakeReady
<1>2. ASSUME NEW c \in Callers, FirstStart(c)
      PROVE  TypeOK'
    BY <1>2 DEF FirstStart
<1>3. ASSUME NEW c \in Callers, SignalCaller(c)
      PROVE  TypeOK'
    BY ZenonT(60), <1>3 DEF SignalCaller, RunningFrom, AfterSignal
<1>4. ASSUME NEW c \in Callers, TakeStart(c)
      PROVE  TypeOK'
    BY <1>4 DEF TakeStart, VPNCancel
<1>5. ASSUME NEW c \in Callers, TakeStop(c)
      PROVE  TypeOK'
    BY <1>5 DEF TakeStop
<1>6. ASSUME NEW c \in Callers, StopAck(c)
      PROVE  TypeOK'
    BY <1>6 DEF StopAck, StoppedFrom
<1> QED
    BY <1>1, <1>2, <1>3, <1>4, <1>5, <1>6

\* The runner's steps.
LEMMA RunnerTypes ==
    ASSUME TypeOK, RunnerStep
    PROVE  TypeOK'
<1> USE DEF TypeOK, StateTypeOK, LoopTypeOK, RunnerPlaces, stateVars, loopVars, taskVars, budget
<1>1. CASE RunnerReady
    BY <1>1 DEF RunnerReady
<1>2. CASE RunnerFails
    BY <1>2, LoopConstants DEF RunnerFails, Fault
<1>3. CASE RunnerCancelled
    BY <1>3 DEF RunnerCancelled
<1> QED
    BY <1>1, <1>2, <1>3 DEF RunnerStep

\* The steps of the goroutines of a tunnel, which may call ApplyStatus.
LEMMA TaskTypes ==
    ASSUME TypeOK, NEW t \in Tasks, OnTunnelUp(t) \/ CollectHealthErrors(t)
    PROVE  TypeOK'
<1> USE DEF TypeOK, StateTypeOK, LoopTypeOK, Places, TaskPlaces, Services, TaskGoes, CollectEnds,
            stateVars, loopVars, runnerVars, taskVars, budget
<1>0. t \in Callers
    BY LoopConstants
<1>1. CASE AllowPorts(t)
    BY <1>1 DEF AllowPorts
<1>2. CASE StartDNS(t)
    BY <1>2 DEF StartDNS
<1>3. CASE HealthStarts(t)
    BY <1>3 DEF HealthStarts
<1>4. CASE HealthStartFails(t)
    BY <1>4, <1>0, LoopConstants DEF HealthStartFails, Fault, Restart, Call, Goto
<1>5. CASE FetchPublicIP(t)
    BY <1>5 DEF FetchPublicIP
<1>6. CASE StartPortForwarding(t)
    BY <1>6 DEF StartPortForwarding
<1>7. CASE StartPoll(t)
    BY <1>7 DEF StartPoll
<1>8. CASE CollectQuits(t)
    BY <1>8 DEF CollectQuits
<1>9. CASE HealthFails(t)
    BY <1>9, <1>0, LoopConstants DEF HealthFails, Fault, Restart, Call, Goto
<1>10. CASE HealthReports(t)
    <2>1. nFaults' \in 0..MaxFaults /\ nCalls' \in 0..MaxCalls
        BY <1>10, LoopConstants DEF HealthReports, Fault
    <2>2. svc' \subseteq Services
        BY <1>10 DEF HealthReports
    <2> QED
        BY <1>10, <2>1, <2>2 DEF HealthReports
<1> HIDE DEF TypeOK
<1> QED
    BY <1>1, <1>2, <1>3, <1>4, <1>5, <1>6, <1>7, <1>8, <1>9, <1>10 DEF OnTunnelUp, CollectHealthErrors

\* Every step of the component keeps the types, and so does a stutter.
LEMMA StepTypes ==
    ASSUME TypeOK, [Next]_vars
    PROVE  TypeOK'
<1>1. CASE Next
    BY <1>1, ClientTypes, LoopAloneTypes, LoopJointTypes, RunnerTypes, CallerTypes, TaskTypes
    DEF Next, LoopStep
<1>2. CASE UNCHANGED vars
    BY <1>2 DEF vars, stateVars, loopVars, runnerVars, taskVars, budget, TypeOK, StateTypeOK, LoopTypeOK
<1> QED
    BY <1>1, <1>2

\* The types hold when the loops are made.
LEMMA InitTypes ==
    ASSUME Init
    PROVE  TypeOK
<1>1. StateTypeOK
    BY DEF Init, StateInit, StateTypeOK, Statuses, Places
<1>2. LoopTypeOK
    <2>1. task \in [Tasks -> TaskPlaces] /\ svc \subseteq Services
        BY DEF Init, LoopInit, TaskPlaces
    <2>2. nFaults \in 0..MaxFaults /\ nCalls \in 0..MaxCalls
        BY LoopConstants DEF Init, LoopInit
    <2> QED
        BY <2>1, <2>2 DEF Init, LoopInit, LoopTypeOK, LoopPlaces, RunnerPlaces
<1> QED
    BY <1>1, <1>2 DEF TypeOK

(* The variables of the status manager, the loop, the runner and the        *)
(* goroutines only ever hold the values the source gives them.              *)
THEOREM TypeCorrect == Spec => []TypeOK
<1>1. Init => TypeOK
    BY InitTypes
<1>2. TypeOK /\ [Next]_vars => TypeOK'
    BY StepTypes
<1> QED
    BY <1>1, <1>2, PTL DEF Spec
(***************************************************************************)
(* The inductive invariant, one lemma per group of actions.  Holds is IInv   *)
(* without the types, which StepTypes has already shown.                   *)
(***************************************************************************)
Holds == MutexHeld /\ StatusHolds /\ CallersHold /\ LoopHolds

\* What Holds reads.
core == <<status, loopMu, pc, newStatus, loop, sig, runner, loopCtxDone>>

\* Steps that leave all of it alone.
LEMMA CoreUntouched ==
    ASSUME Holds, UNCHANGED core
    PROVE  Holds'
BY DEF core, Holds, MutexHeld, StatusHolds, CallersHold, LoopHolds, NoRunner

\* A caller outside ApplyStatus queues for the mutex.
LEMMA CallHolds ==
    ASSUME TypeOK, Holds, NEW c \in Callers, NEW w, NEW again, Call(c, w, again),
           UNCHANGED <<loop, sig, runner, loopCtxDone>>
    PROVE  Holds'
BY DEF TypeOK, StateTypeOK, Call, Goto, Holds, MutexHeld, StatusHolds, CallersHold, LoopHolds, Inside, Places, NoRunner, Quitting,
            CrashPlaces, Quiet, Watching

\* The steps a caller takes by itself.
LEMMA CallerHolds ==
    ASSUME TypeOK, Holds, NEW c \in Callers, Alone(c)
    PROVE  Holds'
<1> USE OwnersDistinct
    DEF TypeOK, StateTypeOK, Goto, Holds, loopVars, runnerVars,
            MutexHeld, StatusHolds, CallersHold, LoopHolds, Inside, Places, NoRunner, Quitting,
            CrashPlaces, Quiet, Watching
<1>0. UNCHANGED <<loop, sig, runner, loopCtxDone>>
    BY DEF Alone
<1>1. CASE BeginStart(c)
    BY <1>0, <1>1 DEF BeginStart, Startable
<1>2. CASE BeginStop(c)
    BY <1>0, <1>2 DEF BeginStop
<1>3. CASE Already(c)
    BY <1>0, <1>3 DEF Already, Return
<1>4. CASE EnterSelect(c)
    BY <1>0, <1>4 DEF EnterSelect
<1>5. CASE DropOut(c)
    BY <1>0, <1>5 DEF DropOut
<1>6. CASE Finish(c)
    BY <1>0, <1>6 DEF Finish, Return
<1> HIDE DEF Holds
<1> QED
    BY <1>1, <1>2, <1>3, <1>4, <1>5, <1>6 DEF Alone, CallerStep

\* The loop's own steps.
LEMMA LoopAloneHolds ==
    ASSUME TypeOK, Holds,
           \/ QuitIdle \/ Iterate \/ Launch \/ SetupFails
           \/ EarlyTimer \/ EarlyError \/ EarlyQuit
           \/ SignalDropped \/ SignalSet \/ Retry
           \/ TakeQuit \/ TakeError
           \/ StopCleanup \/ StopCancel \/ StopWait
           \/ QuitCleanup \/ QuitCancel \/ QuitWait
           \/ CrashLock \/ CrashCleanup \/ CrashCancel \/ CrashRetry
    PROVE  Holds'
<1> USE OwnersDistinct
    DEF TypeOK, StateTypeOK, LoopTypeOK, Holds, stateVars, loopVars, runnerVars,
            MutexHeld, StatusHolds, CallersHold, LoopHolds, Inside, Places, NoRunner, Quitting,
            CrashPlaces, Quiet, Watching
<1>1. CASE QuitIdle
    BY <1>1 DEF QuitIdle
<1>2. CASE Iterate
    BY <1>2 DEF Iterate
<1>3. CASE Launch
    BY <1>3 DEF Launch
<1>4. CASE SetupFails
    BY <1>4 DEF SetupFails
<1>5. CASE EarlyTimer
    BY <1>5 DEF EarlyTimer
<1>6. CASE EarlyError
    BY <1>6 DEF EarlyError
<1>7. CASE EarlyQuit
    BY <1>7 DEF EarlyQuit
<1>8. CASE SignalDropped
    BY <1>8 DEF SignalDropped, AfterSignal
<1>9. CASE SignalSet
    BY <1>9 DEF SignalSet, AfterSignal
<1>10. CASE Retry
    BY <1>10 DEF Retry
<1>11. CASE TakeQuit
    BY <1>11 DEF TakeQuit
<1>12. CASE TakeError
    BY <1>12 DEF TakeError
<1>13. CASE StopCleanup
    BY <1>13 DEF StopCleanup, Cleanup
<1>14. CASE StopCancel
    BY <1>14 DEF StopCancel, Cancel
<1>15. CASE StopWait
    BY <1>15 DEF StopWait, AwaitRunner
<1>16. CASE QuitCleanup
    BY <1>16 DEF QuitCleanup, Cleanup
<1>17. CASE QuitCancel
    BY <1>17 DEF QuitCancel, Cancel
<1>18. CASE QuitWait
    BY <1>18 DEF QuitWait, AwaitRunner
<1>19. CASE CrashLock
    BY <1>19 DEF CrashLock
<1>20. CASE CrashCleanup
    BY <1>20 DEF CrashCleanup, Cleanup
<1>21. CASE CrashCancel
    BY <1>21 DEF CrashCancel
<1>22. CASE CrashRetry
    BY <1>22 DEF CrashRetry
<1> HIDE DEF Holds
<1> QED
    BY <1>1, <1>2, <1>3, <1>4, <1>5, <1>6, <1>7, <1>8, <1>9, <1>10, <1>11, <1>12, <1>13, <1>14, <1>15, <1>16, <1>17, <1>18, <1>19, <1>20, <1>21, <1>22

\* The steps of the loop that are joint with a caller or start a goroutine.
LEMMA LoopJointHolds ==
    ASSUME TypeOK, Holds,
           \/ \E t \in Tasks : TakeReady(t)
           \/ \E c \in Callers :
                 FirstStart(c) \/ SignalCaller(c) \/ TakeStart(c) \/ TakeStop(c) \/ StopAck(c)
    PROVE  Holds'
<1> USE OwnersDistinct
    DEF TypeOK, StateTypeOK, LoopTypeOK, Holds, Goto, StartTo, StopTo, stateVars, loopVars, runnerVars,
            MutexHeld, StatusHolds, CallersHold, LoopHolds, Inside, Places, NoRunner, Quitting,
            CrashPlaces, Quiet, Watching
<1>1. ASSUME NEW t \in Tasks, TakeReady(t)
      PROVE  Holds'
    BY <1>1 DEF TakeReady
<1>2. ASSUME NEW c \in Callers, FirstStart(c)
      PROVE  Holds'
    BY <1>2 DEF FirstStart
<1>3. ASSUME NEW c \in Callers, SignalCaller(c)
      PROVE  Holds'
    BY <1>3 DEF SignalCaller, RunningFrom, AfterSignal, Listening
<1>4. ASSUME NEW c \in Callers, TakeStart(c)
      PROVE  Holds'
    BY <1>4 DEF TakeStart
<1>5. ASSUME NEW c \in Callers, TakeStop(c)
      PROVE  Holds'
    BY <1>5 DEF TakeStop
<1>6. ASSUME NEW c \in Callers, StopAck(c)
      PROVE  Holds'
    BY <1>6 DEF StopAck, StoppedFrom
<1> HIDE DEF Holds
<1> QED
    BY <1>1, <1>2, <1>3, <1>4, <1>5, <1>6

\* The runner's steps.
LEMMA RunnerHolds ==
    ASSUME TypeOK, Holds, RunnerStep
    PROVE  Holds'
BY DEF RunnerStep, RunnerReady, RunnerFails, RunnerCancelled, Holds, stateVars, loopVars,
            MutexHeld, StatusHolds, CallersHold, LoopHolds, Inside, Places, NoRunner, Quitting,
            CrashPlaces, Quiet, Watching

\* The steps of the goroutines of a tunnel.
LEMMA TaskHolds ==
    ASSUME TypeOK, Holds, NEW t \in Tasks, OnTunnelUp(t) \/ CollectHealthErrors(t)
    PROVE  Holds'
<1>1. CASE HealthStartFails(t) \/ HealthFails(t)
    <2>1. t \in Callers
        BY LoopConstants
    <2>2. Call(t, "stopped", TRUE) /\ UNCHANGED <<loop, sig, runner, loopCtxDone>>
        BY <1>1 DEF HealthStartFails, HealthFails, Restart, loopVars, runnerVars
    <2> QED
        BY <2>1, <2>2, CallHolds
<1>2. CASE ~(HealthStartFails(t) \/ HealthFails(t))
    <2>1. UNCHANGED core
        BY <1>2 DEF OnTunnelUp, CollectHealthErrors, AllowPorts, StartDNS, HealthStarts, FetchPublicIP,
                    StartPortForwarding, StartPoll, CollectQuits, HealthReports,
                    core, stateVars, loopVars, runnerVars
    <2> QED
        BY <2>1, CoreUntouched
<1> QED
    BY <1>1, <1>2

\* The calls and cancellations of the clients.
LEMMA ClientHolds ==
    ASSUME TypeOK, Holds, ClientStep
    PROVE  Holds'
<1>1. ASSUME NEW u \in Users, ClientCalls(u)
      PROVE  Holds'
    <2>1. u \in Callers
        BY DEF Users
    <2>2. UNCHANGED <<loop, sig, runner, loopCtxDone>>
        BY <1>1 DEF ClientCalls, loopVars, runnerVars
    <2>3. \/ Call(u, "running", FALSE)
          \/ Call(u, "stopped", FALSE)
          \/ Call(u, "stopped", TRUE)
        BY <1>1 DEF ClientCalls
    <2> QED
        BY <2>1, <2>2, <2>3, CallHolds
<1>2. CASE CancelClients
    BY <1>2, CoreUntouched DEF CancelClients, core, loopVars, runnerVars
<1>3. CASE CancelLoop
    BY <1>3 DEF CancelLoop, runnerVars, Holds, MutexHeld, StatusHolds, CallersHold, LoopHolds, NoRunner
<1> QED
    BY <1>1, <1>2, <1>3 DEF ClientStep

\* Every step keeps the inductive invariant, and so does a stutter.
LEMMA StepHolds ==
    ASSUME TypeOK, Holds, [Next]_vars
    PROVE  Holds'
<1>1. CASE Next
    BY <1>1, ClientHolds, LoopAloneHolds, LoopJointHolds, RunnerHolds, CallerHolds, TaskHolds
    DEF Next, LoopStep
<1>2. CASE UNCHANGED vars
    BY <1>2, CoreUntouched DEF vars, stateVars, loopVars, runnerVars, core
<1> QED
    BY <1>1, <1>2

\* The inductive invariant holds when the loops are made.
LEMMA InitHolds ==
    ASSUME Init
    PROVE  Holds
BY OwnersDistinct
DEF Init, StateInit, LoopInit, Holds,
            MutexHeld, StatusHolds, CallersHold, LoopHolds, Inside, Places, NoRunner, Quitting,
            CrashPlaces, Quiet, Watching

(* The mutex has one owner, and every place of a caller and of the loop      *)
(* means what IInv says of the status and of the runner.                    *)
THEOREM Inductive == Spec => []IInv
<1>1. Init => IInv
    BY InitTypes, InitHolds DEF IInv, Holds
<1>2. IInv /\ [Next]_vars => IInv'
    BY StepTypes, StepHolds DEF IInv, Holds
<1> QED
    BY <1>1, <1>2, PTL DEF Spec

(* A client that reads "stopped" can rely on there being no runner.         *)
THEOREM StoppedIsDown == Spec => []StoppedMeansDown
<1>1. IInv => StoppedMeansDown
    BY DEF IInv, StatusHolds, StoppedMeansDown, NoRunner
<1> QED
    BY <1>1, Inductive, PTL

(* "running" is never shown while the loop sleeps or sets up a tunnel.       *)
THEOREM RunningIsWatched == Spec => []RunningMeansWatched
<1>1. IInv => RunningMeansWatched
    BY DEF IInv, StatusHolds, RunningMeansWatched, Watching, Quitting
<1> QED
    BY <1>1, Inductive, PTL

(* A tunnel is launched only when the one before has said its last word.     *)
THEOREM OneTunnelAtATime == Spec => OneTunnel
<1>1. IInv /\ [Next]_vars => [Launch => runner \in {"none", "gone"}]_vars
    BY DEF IInv, LoopHolds, NoRunner, Launch
<1> QED
    BY <1>1, Inductive, PTL DEF Spec, OneTunnel

(***************************************************************************)
(* Contexts.                                                               *)
(***************************************************************************)

\* The places of the loop where every tunnel it watched is over.
BetweenTunnels == {"waitStart", "top", "setup", "early", "signal", "backoff", "stopWait", "stopAck",
                   "crashBackoff", "quitWait"}

Ended == loop \in BetweenTunnels =>
             \A t \in Tasks : task[t] # "none" \/ collect[t] # "none" => taskCtxDone[t]

\* The goroutines of a tunnel do not start one another once it is over.
LEMMA TaskEnded ==
    ASSUME TypeOK, Ended, NEW t \in Tasks, OnTunnelUp(t) \/ CollectHealthErrors(t)
    PROVE  Ended'
BY DEF OnTunnelUp, CollectHealthErrors, AllowPorts, StartDNS, HealthStarts, HealthStartFails, FetchPublicIP,
       StartPortForwarding, StartPoll, CollectQuits, HealthFails, HealthReports, CollectEnds, TaskGoes,
       Ended, BetweenTunnels, loopVars, runnerVars, taskVars, TypeOK, LoopTypeOK

\* The loop gives up a tunnel only with its context.
LEMMA LoopEnded ==
    ASSUME TypeOK, Ended, LoopStep
    PROVE  Ended'
<1> USE DEF Ended, BetweenTunnels, runnerVars, taskVars, TypeOK, LoopTypeOK
<1>1. CASE QuitIdle \/ Iterate \/ Launch \/ SetupFails \/ EarlyTimer \/ EarlyError \/ EarlyQuit
    BY <1>1 DEF QuitIdle, Iterate, Launch, SetupFails, EarlyTimer, EarlyError, EarlyQuit, VPNCancel
<1>2. CASE SignalDropped \/ SignalSet \/ Retry \/ TakeQuit \/ TakeError
    BY <1>2 DEF SignalDropped, SignalSet, Retry, TakeQuit, TakeError, AfterSignal
<1>3. CASE StopCleanup \/ StopCancel \/ StopWait \/ QuitCleanup \/ QuitCancel \/ QuitWait
    BY <1>3 DEF StopCleanup, StopCancel, StopWait, QuitCleanup, QuitCancel, QuitWait, Cleanup, Cancel, AwaitRunner,
                VPNCancel
<1>4. CASE CrashLock \/ CrashCleanup \/ CrashCancel \/ CrashRetry
    BY <1>4 DEF CrashLock, CrashCleanup, CrashCancel, CrashRetry, Cleanup, VPNCancel
<1>5. CASE \E t \in Tasks : TakeReady(t)
    BY <1>5 DEF TakeReady, loopVars
<1>6. CASE \E c \in Callers : FirstStart(c) \/ SignalCaller(c) \/ TakeStart(c) \/ TakeStop(c) \/ StopAck(c)
    BY <1>6 DEF FirstStart, SignalCaller, TakeStart, TakeStop, StopAck, AfterSignal, VPNCancel
<1> QED
    BY <1>1, <1>2, <1>3, <1>4, <1>5, <1>6 DEF LoopStep

(* When the loop is past a tunnel, whatever way it left it, every goroutine  *)
(* started for the tunnel has been told to end (vpn/run.go vpnCancel).       *)
THEOREM NoneOrphaned == Spec => []NoOrphanContext
<1>1. Init => Ended
    BY DEF Init, LoopInit, Ended
<1>2. TypeOK /\ Ended /\ [Next]_vars => Ended'
    <2> SUFFICES ASSUME TypeOK, Ended, [Next]_vars
                 PROVE  Ended'
        OBVIOUS
    <2>1. CASE \E c \in Callers : Alone(c)
        BY <2>1 DEF Alone, Ended, loopVars, taskVars
    <2>2. CASE ClientStep
        BY <2>2 DEF ClientStep, ClientCalls, CancelClients, CancelLoop, Ended, loopVars, taskVars
    <2>3. CASE RunnerStep
        BY <2>3 DEF RunnerStep, RunnerReady, RunnerFails, RunnerCancelled, Ended, loopVars, taskVars
    <2>4. CASE UNCHANGED vars
        BY <2>4 DEF vars, Ended, loopVars, taskVars
    <2> QED
        BY <2>1, <2>2, <2>3, <2>4, TaskEnded, LoopEnded DEF Next
<1>3. Ended => NoOrphanContext
    BY DEF Ended, BetweenTunnels, NoOrphanContext
<1> QED
    BY <1>1, <1>2, <1>3, TypeCorrect, PTL DEF Spec

(***************************************************************************)
(* Stops.                                                                  *)
(***************************************************************************)

StopPlaces == {"stopCleanup", "stopCancel", "stopWait", "stopAck"}

\* c asked for a stop, and has not put its outcome in the status yet.
IsStopping(c) ==
    \/ pc[c] \in {"sendStop", "sentStop", "awaitStopped"}
    \/ pc[c] = "setting" /\ newStatus[c] \in {"stopped", "stopping"}

\* "stopping" is the status while the loop stops, and as long as its caller is inside.
StopsHold ==
    /\ loop \in StopPlaces => status = "stopping"
    /\ status = "stopping" =>
          loop \in StopPlaces \cup Quitting \/ (loop \in {"select", "crashLock"} /\ loopMu \in Callers)
    /\ \A c \in Callers :
          /\ pc[c] \in Inside => (IsStopping(c) <=> status = "stopping")
          /\ pc[c] \in {"sentStop", "awaitStopped"} \/ (pc[c] = "setting" /\ newStatus[c] = "stopping")
             => loop \in StopPlaces

\* What StopsHold reads.
LEMMA StopsUntouched ==
    ASSUME StopsHold, UNCHANGED <<status, loopMu, pc, newStatus, loop>>
    PROVE  StopsHold'
BY DEF StopsHold, IsStopping

\* A caller outside ApplyStatus queues for the mutex.
LEMMA CallStops ==
    ASSUME TypeOK, StopsHold, NEW c \in Callers, NEW w, NEW again, Call(c, w, again), UNCHANGED loop
    PROVE  StopsHold'
BY DEF TypeOK, StateTypeOK, Call, Goto, StopsHold, IsStopping, Inside, Places

\* The steps a caller takes by itself.
LEMMA CallerStops ==
    ASSUME TypeOK, Holds, StopsHold, NEW c \in Callers, Alone(c)
    PROVE  StopsHold'
<1> USE OwnersDistinct
    DEF TypeOK, StateTypeOK, Goto, loopVars, Holds, MutexHeld, StatusHolds, CallersHold, StopsHold, IsStopping,
        Inside, Places, Quitting, CrashPlaces, Quiet, Watching, StopPlaces
<1>0. UNCHANGED loop
    BY DEF Alone
<1>1. CASE BeginStart(c)
    BY <1>0, <1>1 DEF BeginStart, Startable
<1>2. CASE BeginStop(c)
    BY <1>0, <1>2 DEF BeginStop
<1>3. CASE Already(c)
    BY <1>0, <1>3 DEF Already, Return
<1>4. CASE EnterSelect(c)
    BY <1>0, <1>4 DEF EnterSelect
<1>5. CASE DropOut(c)
    BY <1>0, <1>5 DEF DropOut
<1>6. CASE Finish(c)
    BY <1>0, <1>6 DEF Finish, Return
<1> QED
    BY <1>1, <1>2, <1>3, <1>4, <1>5, <1>6 DEF Alone, CallerStep

\* The loop's steps.
LEMMA LoopStops ==
    ASSUME TypeOK, Holds, StopsHold, LoopStep
    PROVE  StopsHold'
<1> USE OwnersDistinct
    DEF TypeOK, StateTypeOK, LoopTypeOK, Goto, stateVars, loopVars, Holds, MutexHeld, StatusHolds, CallersHold,
        StopsHold, IsStopping, Inside, Places, Quitting, CrashPlaces, Quiet, Watching, StopPlaces
<1>1. CASE QuitIdle \/ Iterate \/ Launch \/ SetupFails \/ EarlyTimer \/ EarlyError \/ EarlyQuit
    BY <1>1 DEF QuitIdle, Iterate, Launch, SetupFails, EarlyTimer, EarlyError, EarlyQuit
<1>2. CASE SignalDropped \/ SignalSet \/ Retry \/ TakeQuit \/ TakeError
    BY <1>2 DEF SignalDropped, SignalSet, Retry, TakeQuit, TakeError, AfterSignal
<1>3. CASE StopCleanup \/ StopCancel \/ StopWait \/ QuitCleanup \/ QuitCancel \/ QuitWait
    BY <1>3 DEF StopCleanup, StopCancel, StopWait, QuitCleanup, QuitCancel, QuitWait, Cleanup, Cancel, AwaitRunner
<1>4. CASE CrashLock \/ CrashCleanup \/ CrashCancel \/ CrashRetry
    BY <1>4 DEF CrashLock, CrashCleanup, CrashCancel, CrashRetry, Cleanup
<1>5. CASE \E t \in Tasks : TakeReady(t)
    BY <1>5, StopsUntouched DEF TakeReady
<1>6. ASSUME NEW c \in Callers, FirstStart(c) \/ SignalCaller(c)
      PROVE  StopsHold'
    BY <1>6 DEF FirstStart, SignalCaller, StartTo, RunningFrom, AfterSignal, Listening
<1>7. ASSUME NEW c \in Callers, TakeStart(c) \/ TakeStop(c) \/ StopAck(c)
      PROVE  StopsHold'
    BY <1>7 DEF TakeStart, TakeStop, StopAck, StartTo, StopTo, StoppedFrom
<1> QED
    BY <1>1, <1>2, <1>3, <1>4, <1>5, <1>6, <1>7 DEF LoopStep

\* Every other step touches no more than the place of a caller that queues.
LEMMA OthersStops ==
    ASSUME TypeOK, StopsHold,
           \/ ClientStep \/ RunnerStep
           \/ \E t \in Tasks : OnTunnelUp(t) \/ CollectHealthErrors(t)
    PROVE  StopsHold'
<1>1. ASSUME NEW u \in Users, ClientCalls(u)
      PROVE  StopsHold'
    BY <1>1, CallStops DEF ClientCalls, Users, loopVars
<1>2. ASSUME NEW t \in Tasks, HealthStartFails(t) \/ HealthFails(t)
      PROVE  StopsHold'
    BY <1>2, LoopConstants, CallStops DEF HealthStartFails, HealthFails, Restart, loopVars
<1>3. CASE CancelClients \/ CancelLoop \/ RunnerStep
    BY <1>3, StopsUntouched
    DEF CancelClients, CancelLoop, RunnerStep, RunnerReady, RunnerFails, RunnerCancelled, stateVars, loopVars
<1>4. ASSUME NEW t \in Tasks, OnTunnelUp(t) \/ CollectHealthErrors(t), ~(HealthStartFails(t) \/ HealthFails(t))
      PROVE  StopsHold'
    BY <1>4, StopsUntouched
    DEF OnTunnelUp, CollectHealthErrors, AllowPorts, StartDNS, HealthStarts, FetchPublicIP,
        StartPortForwarding, StartPoll, CollectQuits, HealthReports, stateVars, loopVars
<1> QED
    BY <1>1, <1>2, <1>3, <1>4 DEF ClientStep

(***************************************************************************)
(* The shutdown.                                                           *)
(***************************************************************************)

\* The loop ends only at shutdown, and a call is given up only with its context.
EndHolds ==
    /\ loopCtxDone => \A c \in Callers : ctxDone[c]
    /\ loop \in Quitting => loopCtxDone
    /\ loop \notin {"waitStart", "done"} => Callers # {}
    /\ \A c \in Callers : pc[c] = "setting" /\ newStatus[c] = "starting" => ctxDone[c]

\* What EndHolds reads.
LEMMA EndUntouched ==
    ASSUME EndHolds, UNCHANGED <<loop, loopCtxDone, pc, newStatus, ctxDone>>
    PROVE  EndHolds'
BY DEF EndHolds

\* The steps of the callers and of the clients.
LEMMA CallerEnds ==
    ASSUME TypeOK, EndHolds, (\E c \in Callers : Alone(c)) \/ ClientStep
    PROVE  EndHolds'
<1> USE DEF TypeOK, StateTypeOK, LoopTypeOK, Goto, loopVars, EndHolds
<1>1. ASSUME NEW c \in Callers, Alone(c)
      PROVE  EndHolds'
    BY <1>1 DEF Alone, CallerStep, BeginStart, BeginStop, Already, EnterSelect, DropOut, Finish, Return
<1>2. ASSUME NEW u \in Users, ClientCalls(u)
      PROVE  EndHolds'
    BY <1>2 DEF ClientCalls, Call, Users
<1>3. CASE CancelClients
    BY <1>3 DEF CancelClients
<1>4. CASE CancelLoop
    BY <1>4 DEF CancelLoop
<1> QED
    BY <1>1, <1>2, <1>3, <1>4 DEF ClientStep

\* The loop's steps.
LEMMA LoopEnds ==
    ASSUME TypeOK, EndHolds, LoopStep
    PROVE  EndHolds'
<1> USE DEF TypeOK, StateTypeOK, LoopTypeOK, Goto, stateVars, loopVars, EndHolds, Quitting
<1>1. CASE QuitIdle \/ Iterate \/ Launch \/ SetupFails \/ EarlyTimer \/ EarlyError \/ EarlyQuit
    BY <1>1 DEF QuitIdle, Iterate, Launch, SetupFails, EarlyTimer, EarlyError, EarlyQuit
<1>2. CASE SignalDropped \/ SignalSet \/ Retry \/ TakeQuit \/ TakeError
    BY <1>2 DEF SignalDropped, SignalSet, Retry, TakeQuit, TakeError, AfterSignal
<1>3. CASE StopCleanup \/ StopCancel \/ StopWait \/ QuitCleanup \/ QuitCancel \/ QuitWait
    BY <1>3 DEF StopCleanup, StopCancel, StopWait, QuitCleanup, QuitCancel, QuitWait, Cleanup, Cancel, AwaitRunner
<1>4. CASE CrashLock \/ CrashCleanup \/ CrashCancel \/ CrashRetry
    BY <1>4 DEF CrashLock, CrashCleanup, CrashCancel, CrashRetry, Cleanup
<1>5. CASE \E t \in Tasks : TakeReady(t)
    BY <1>5 DEF TakeReady
<1>6. ASSUME NEW c \in Callers, FirstStart(c) \/ SignalCaller(c)
      PROVE  EndHolds'
    BY <1>6 DEF FirstStart, SignalCaller, StartTo, RunningFrom, AfterSignal, Listening
<1>7. ASSUME NEW c \in Callers, TakeStart(c) \/ TakeStop(c) \/ StopAck(c)
      PROVE  EndHolds'
    BY <1>7 DEF TakeStart, TakeStop, StopAck, StartTo, StopTo, StoppedFrom
<1> QED
    BY <1>1, <1>2, <1>3, <1>4, <1>5, <1>6, <1>7 DEF LoopStep

\* The steps of the runner and of the goroutines of a tunnel.
LEMMA OthersEnd ==
    ASSUME TypeOK, EndHolds, RunnerStep \/ \E t \in Tasks : OnTunnelUp(t) \/ CollectHealthErrors(t)
    PROVE  EndHolds'
<1>1. CASE RunnerStep
    BY <1>1, EndUntouched DEF RunnerStep, RunnerReady, RunnerFails, RunnerCancelled, stateVars, loopVars
<1>2. ASSUME NEW t \in Tasks, HealthStartFails(t) \/ HealthFails(t)
      PROVE  EndHolds'
    BY <1>2, LoopConstants
    DEF HealthStartFails, HealthFails, Restart, Call, Goto, loopVars, TypeOK, StateTypeOK, EndHolds
<1>3. ASSUME NEW t \in Tasks, OnTunnelUp(t) \/ CollectHealthErrors(t), ~(HealthStartFails(t) \/ HealthFails(t))
      PROVE  EndHolds'
    BY <1>3, EndUntouched
    DEF OnTunnelUp, CollectHealthErrors, AllowPorts, StartDNS, HealthStarts, FetchPublicIP,
        StartPortForwarding, StartPoll, CollectQuits, HealthReports, stateVars, loopVars
<1> QED
    BY <1>1, <1>2, <1>3

(***************************************************************************)
(* Crashes.                                                                *)
(***************************************************************************)

\* The places of the loop that may be seen beside a status of "crashed".
RetryPlaces == {"crashBackoff", "backoff", "top", "setup", "early", "signal", "done"}

(* From a crash until it is shown nobody waits for an answer, and the loop does *)
(* not go round before the caller it told has put "crashed" in the status.     *)
CrashHolds ==
    /\ status = "crashed" => loop \in RetryPlaces /\ ~userTrigger
    /\ \A c \in Callers :
          pc[c] = "setting" /\ newStatus[c] = "crashed" =>
              /\ ~userTrigger
              /\ loop \in {"backoff", "done"} \/ (loop = "top" /\ loopCtxDone)
    /\ loop \in CrashPlaces \cup {"crashLock"} => ~userTrigger
    /\ loop = "select" /\ runner # "gone" => ~userTrigger

\* What CrashHolds reads.
LEMMA CrashUntouched ==
    ASSUME CrashHolds, UNCHANGED <<status, loop, userTrigger, loopCtxDone, runner, pc, newStatus>>
    PROVE  CrashHolds'
BY DEF CrashHolds

\* The steps of the callers and of the clients.
LEMMA CallerCrash ==
    ASSUME TypeOK, Holds, CrashHolds, (\E c \in Callers : Alone(c)) \/ ClientStep
    PROVE  CrashHolds'
<1> USE DEF TypeOK, StateTypeOK, LoopTypeOK, Goto, loopVars, runnerVars, CrashHolds, RetryPlaces, CrashPlaces
<1>1. ASSUME NEW c \in Callers, Alone(c)
      PROVE  CrashHolds'
    BY <1>1 DEF Alone, CallerStep, BeginStart, BeginStop, Already, EnterSelect, DropOut, Finish, Return
<1>2. ASSUME NEW u \in Users, ClientCalls(u)
      PROVE  CrashHolds'
    BY <1>2 DEF ClientCalls, Call, Users
<1>3. CASE CancelClients
    BY <1>3 DEF CancelClients
<1>4. CASE CancelLoop
    BY <1>4 DEF CancelLoop
<1> QED
    BY <1>1, <1>2, <1>3, <1>4 DEF ClientStep

\* The loop's steps: here a timer must not overtake a caller.
LEMMA LoopCrash ==
    ASSUME Prompt = TRUE, TypeOK, Holds, CrashHolds, LoopStep
    PROVE  CrashHolds'
<1> USE OwnersDistinct
    DEF TypeOK, StateTypeOK, LoopTypeOK, Goto, stateVars, loopVars, runnerVars, Holds, MutexHeld, StatusHolds,
        CallersHold, LoopHolds, CrashHolds, Inside, Places, NoRunner, Quitting, CrashPlaces, Quiet, Watching, RetryPlaces
<1>1. CASE QuitIdle \/ Iterate \/ Launch \/ SetupFails \/ EarlyTimer \/ EarlyError \/ EarlyQuit
    BY <1>1 DEF QuitIdle, Iterate, Launch, SetupFails, EarlyTimer, EarlyError, EarlyQuit
<1>2. CASE SignalDropped \/ SignalSet \/ TakeQuit \/ TakeError
    BY <1>2 DEF SignalDropped, SignalSet, TakeQuit, TakeError, AfterSignal
<1>3. CASE Retry
    BY <1>3 DEF Retry, TimerFires, CallersSettled
<1>4. CASE StopCleanup \/ StopCancel \/ StopWait \/ QuitCleanup \/ QuitCancel \/ QuitWait
    BY <1>4 DEF StopCleanup, StopCancel, StopWait, QuitCleanup, QuitCancel, QuitWait, Cleanup, Cancel, AwaitRunner
<1>5. CASE CrashLock \/ CrashCleanup \/ CrashCancel \/ CrashRetry
    BY <1>5 DEF CrashLock, CrashCleanup, CrashCancel, CrashRetry, Cleanup
<1>6. CASE \E t \in Tasks : TakeReady(t)
    BY <1>6 DEF TakeReady
<1>7. ASSUME NEW c \in Callers, FirstStart(c) \/ SignalCaller(c)
      PROVE  CrashHolds'
    BY <1>7 DEF FirstStart, SignalCaller, StartTo, RunningFrom, AfterSignal, Listening
<1>8. ASSUME NEW c \in Callers, TakeStart(c) \/ TakeStop(c) \/ StopAck(c)
      PROVE  CrashHolds'
    BY <1>8 DEF TakeStart, TakeStop, StopAck, StartTo, StopTo, StoppedFrom
<1> QED
    BY <1>1, <1>2, <1>3, <1>4, <1>5, <1>6, <1>7, <1>8 DEF LoopStep

\* The steps of the runner and of the goroutines of a tunnel.
LEMMA OthersCrash ==
    ASSUME TypeOK, Holds, CrashHolds, RunnerStep \/ \E t \in Tasks : OnTunnelUp(t) \/ CollectHealthErrors(t)
    PROVE  CrashHolds'
<1>1. CASE RunnerStep
    BY <1>1 DEF RunnerStep, RunnerReady, RunnerFails, RunnerCancelled, stateVars, loopVars, CrashHolds
<1>2. ASSUME NEW t \in Tasks, HealthStartFails(t) \/ HealthFails(t)
      PROVE  CrashHolds'
    BY <1>2, LoopConstants
    DEF HealthStartFails, HealthFails, Restart, Call, Goto, loopVars, runnerVars, TypeOK, StateTypeOK, CrashHolds
<1>3. ASSUME NEW t \in Tasks, OnTunnelUp(t) \/ CollectHealthErrors(t), ~(HealthStartFails(t) \/ HealthFails(t))
      PROVE  CrashHolds'
    BY <1>3, CrashUntouched
    DEF OnTunnelUp, CollectHealthErrors, AllowPorts, StartDNS, HealthStarts, FetchPublicIP,
        StartPortForwarding, StartPoll, CollectQuits, HealthReports, stateVars, loopVars, runnerVars
<1> QED
    BY <1>1, <1>2, <1>3

(***************************************************************************)
(* What holds of every reachable state, and what follows from it.           *)
(***************************************************************************)

AllHold == TypeOK /\ Holds /\ StopsHold /\ EndHolds /\ CrashHolds

\* With the invariant of a state, every step keeps it.
LEMMA StepAllHold ==
    ASSUME Prompt = TRUE, AllHold, [Next]_vars
    PROVE  AllHold'
<1>1. TypeOK' /\ Holds'
    BY StepTypes, StepHolds DEF AllHold
<1>2. StopsHold' /\ EndHolds' /\ CrashHolds'
    <2>1. CASE UNCHANGED vars
        BY <2>1, StopsUntouched, EndUntouched, CrashUntouched DEF AllHold, vars, stateVars, loopVars, runnerVars
    <2>2. CASE Next
        BY <2>2, CallerStops, LoopStops, OthersStops, CallerEnds, LoopEnds, OthersEnd,
           CallerCrash, LoopCrash, OthersCrash
        DEF AllHold, Next
    <2> QED
        BY <2>1, <2>2
<1> QED
    BY <1>1, <1>2 DEF AllHold

\* All of them hold at the start.
LEMMA InitAllHold ==
    ASSUME Init
    PROVE  AllHold
BY InitTypes, InitHolds
DEF AllHold, Init, StateInit, LoopInit, StopsHold, IsStopping, EndHolds, CrashHolds, Quitting, CrashPlaces, StopPlaces

\* With Prompt they hold for good.
LEMMA AlwaysAllHold ==
    ASSUME Prompt = TRUE
    PROVE  Spec => []AllHold
<1>1. Init => AllHold
    BY InitAllHold
<1>2. AllHold /\ [Next]_vars => AllHold'
    BY StepAllHold
<1> QED
    BY <1>1, <1>2, PTL DEF Spec

(* "crashed" is shown while the loop retries, never beside a tunnel that it    *)
(* watches or stops (vpn/run.go, loopstate/apply.go).                        *)
THEOREM CrashedIsRetried ==
    ASSUME Prompt = TRUE
    PROVE  Spec => []CrashedMeansRetrying
<1>1. AllHold => CrashedMeansRetrying
    BY DEF AllHold, CrashHolds, RetryPlaces, CrashedMeansRetrying
<1> QED
    BY <1>1, AlwaysAllHold, PTL

(***************************************************************************)
(* The abstract lifecycle: every step is one of its steps, or shows nothing. *)
(***************************************************************************)

Tunnel == IF TunnelAlive THEN "up" ELSE "down"
Ending == \E c \in Callers : ctxDone[c]

\* What Lifecycle is shown.
shown == <<status, Tunnel, Ending>>

Maps == L!Next \/ UNCHANGED shown

\* Steps that leave the status, the runner and the contexts alone are stutters.
LEMMA Unseen ==
    ASSUME UNCHANGED <<status, runner, ctxDone>>
    PROVE  Maps
BY DEF Maps, shown, Tunnel, TunnelAlive, Ending

\* A status is shown in one step with nothing else.
LEMMA OnlyStatus ==
    ASSUME UNCHANGED <<runner, ctxDone>>
    PROVE  UNCHANGED <<Tunnel, Ending>>
BY DEF Tunnel, TunnelAlive, Ending

\* The steps a caller takes by itself: what it puts in the status may follow what is there.
LEMMA CallerMaps ==
    ASSUME AllHold, NEW c \in Callers, Alone(c)
    PROVE  Maps
<1>0. UNCHANGED <<runner, ctxDone>>
    BY DEF Alone, CallerStep, BeginStart, BeginStop, Already, EnterSelect, DropOut, Finish, runnerVars
<1>1. CASE BeginStart(c)
    BY <1>0, <1>1, OnlyStatus
    DEF BeginStart, Startable, AllHold, Holds, StatusHolds, Maps, L!Next, L!Start, L!Show, Tunnel, Ending
<1>2. CASE BeginStop(c)
    BY <1>0, <1>2, OnlyStatus DEF BeginStop, Maps, L!Next, L!Stop, L!Show, Tunnel, Ending
<1>3. CASE Already(c) \/ EnterSelect(c) \/ DropOut(c)
    BY <1>0, <1>3, Unseen DEF Already, EnterSelect, DropOut
<1>4. CASE Finish(c)
    <2>1. pc[c] = "setting" /\ status' = newStatus[c] /\ pc[c] \in Inside
        BY <1>4 DEF Finish, Inside, Places
    <2>2. newStatus[c] \in {"starting", "running", "stopping", "stopped", "crashed"}
        BY <2>1 DEF AllHold, Holds, CallersHold, TypeOK, StateTypeOK, Statuses
    <2>3. status \in {"starting", "running", "stopping", "crashed"}
        BY <2>1 DEF AllHold, Holds, StatusHolds, CallersHold, TypeOK, StateTypeOK, Statuses
    <2>4. status = "stopping" <=> newStatus[c] \in {"stopped", "stopping"}
        BY <2>1 DEF AllHold, StopsHold, IsStopping
    <2>5. newStatus[c] = "starting" \/ loopCtxDone => Ending
        BY <2>1 DEF AllHold, EndHolds, Ending
    <2>6. newStatus[c] = "crashed" => Tunnel = "down" \/ loopCtxDone
        BY <2>1 DEF AllHold, CrashHolds, Holds, LoopHolds, EndHolds, Quitting, NoRunner, Tunnel, TunnelAlive
    <2>7. newStatus[c] = "stopped" => Tunnel = "down"
        BY <2>1 DEF AllHold, Holds, CallersHold, Tunnel, TunnelAlive
    <2>8. CASE status' = status
        BY <1>0, <2>8, Unseen
    <2>9. CASE status' # status
        BY <1>0, <2>1, <2>2, <2>3, <2>4, <2>5, <2>6, <2>7, <2>9, OnlyStatus
        DEF Maps, L!Next, L!Started, L!Crash, L!Stopped, L!GiveUp, L!Show, Tunnel, Ending
    <2> QED
        BY <2>8, <2>9
<1> QED
    BY <1>1, <1>2, <1>3, <1>4 DEF Alone, CallerStep

\* The loop's steps: launches, crashes and relaunches.
LEMMA LoopMaps ==
    ASSUME AllHold, LoopStep
    PROVE  Maps
<1>1. CASE Launch
    <2>1. NoRunner /\ status \in {"starting", "crashed"}
        BY <1>1 DEF Launch, AllHold, Holds, StatusHolds, LoopHolds, StopsHold, StopPlaces, TypeOK, StateTypeOK, Statuses,
                    Quiet, Quitting, Watching
    <2>2. Tunnel = "down" /\ Tunnel' = "up"
        BY <1>1, <2>1 DEF Launch, NoRunner, Tunnel, TunnelAlive
    <2>3. UNCHANGED <<status, Ending>>
        BY <1>1 DEF Launch, stateVars, Ending
    <2> QED
        BY <2>1, <2>2, <2>3 DEF Maps, L!Next, L!Launch, Tunnel, Ending
<1>2. CASE EarlyError \/ TakeError \/ StopWait \/ QuitWait
    <2>1. Tunnel = "up" /\ Tunnel' = "down"
        BY <1>2 DEF EarlyError, TakeError, StopWait, QuitWait, AwaitRunner, Tunnel, TunnelAlive
    <2>2. UNCHANGED <<status, Ending>>
        BY <1>2 DEF EarlyError, TakeError, StopWait, QuitWait, AwaitRunner, stateVars, Ending
    <2> QED
        BY <2>1, <2>2 DEF Maps, L!Next, L!End, Tunnel, Ending
<1>3. CASE SignalSet
    <2>1. UNCHANGED <<runner, ctxDone>> /\ status' = sig /\ loop = "signal"
        BY <1>3 DEF SignalSet, runnerVars
    <2>2. status \in {"starting", "crashed"} /\ sig \in {"running", "crashed"}
        BY <2>1 DEF AllHold, Holds, StatusHolds, StopsHold, StopPlaces, TypeOK, StateTypeOK, LoopTypeOK, Statuses,
                    Quiet, Quitting, Watching
    <2>3. sig = "crashed" => Tunnel = "down" \/ Ending
        BY <2>1 DEF AllHold, Holds, LoopHolds, NoRunner, EndHolds, Tunnel, TunnelAlive, Ending
    <2>4. CASE status' = status
        BY <2>1, <2>4, Unseen
    <2>5. CASE status' # status
        BY <2>1, <2>2, <2>3, <2>5, OnlyStatus DEF Maps, L!Next, L!Started, L!Crash, L!Show, Tunnel, Ending
    <2> QED
        BY <2>4, <2>5
<1>4. CASE CrashCancel
    <2>1. UNCHANGED <<runner, ctxDone>> /\ status' = "crashed" /\ loop = "crashCancel"
        BY <1>4 DEF CrashCancel
    <2>2. status \in {"starting", "running"}
        BY <2>1 DEF AllHold, Holds, StatusHolds, StopsHold, CrashHolds, StopPlaces, RetryPlaces, TypeOK, StateTypeOK,
                    Statuses, Quiet, Quitting
    <2>3. Tunnel = "down"
        BY <2>1 DEF AllHold, Holds, LoopHolds, CrashPlaces, Tunnel, TunnelAlive
    <2> QED
        BY <2>1, <2>2, <2>3, OnlyStatus DEF Maps, L!Next, L!Crash, L!Show, Tunnel, Ending
<1>5. CASE \/ QuitIdle \/ Iterate \/ SetupFails \/ EarlyTimer \/ EarlyQuit
           \/ SignalDropped \/ Retry \/ TakeQuit \/ StopCleanup \/ StopCancel \/ QuitCleanup \/ QuitCancel
           \/ CrashLock \/ CrashCleanup \/ CrashRetry
    BY <1>5, Unseen
    DEF QuitIdle, Iterate, SetupFails, EarlyTimer, EarlyQuit, SignalDropped, Retry, TakeQuit, StopCleanup,
        StopCancel, QuitCleanup, QuitCancel, CrashLock, CrashCleanup, CrashRetry, Cleanup, Cancel, stateVars, runnerVars
<1>6. ASSUME NEW t \in Tasks, TakeReady(t)
      PROVE  Maps
    BY <1>6 DEF TakeReady, stateVars, Maps, shown, Tunnel, TunnelAlive, Ending
<1>7. ASSUME NEW c \in Callers,
             FirstStart(c) \/ SignalCaller(c) \/ TakeStart(c) \/ TakeStop(c) \/ StopAck(c)
      PROVE  Maps
    BY <1>7, Unseen
    DEF FirstStart, SignalCaller, TakeStart, TakeStop, StopAck, StartTo, StopTo, RunningFrom, StoppedFrom, runnerVars
<1> QED
    BY <1>1, <1>2, <1>3, <1>4, <1>5, <1>6, <1>7 DEF LoopStep

\* The rest: a runner that is alive stays so, and the first context that is done is the shutdown.
LEMMA OthersMap ==
    ASSUME AllHold,
           \/ RunnerStep \/ ClientStep
           \/ \E t \in Tasks : OnTunnelUp(t) \/ CollectHealthErrors(t)
    PROVE  Maps
<1>1. CASE RunnerStep
    BY <1>1 DEF RunnerStep, RunnerReady, RunnerFails, RunnerCancelled, stateVars, Maps, shown, Tunnel, TunnelAlive, Ending
<1>2. ASSUME NEW u \in Users, ClientCalls(u)
      PROVE  Maps
    BY <1>2, Unseen DEF ClientCalls, Call, runnerVars
<1>3. CASE CancelClients \/ CancelLoop
    <2>1. UNCHANGED <<status, Tunnel>>
        BY <1>3 DEF CancelClients, CancelLoop, runnerVars, Tunnel, TunnelAlive
    <2>2. Ending => Ending'
        BY <1>3 DEF CancelClients, CancelLoop, Ending
    <2>3. CASE Ending' = Ending
        BY <2>1, <2>3 DEF Maps, shown
    <2>4. CASE Ending' # Ending
        <3>1. Ending = FALSE /\ Ending' = TRUE
            BY <2>2, <2>4 DEF Ending
        <3> QED
            BY <2>1, <3>1 DEF Maps, L!Next, L!Shutdown, Tunnel, Ending
    <2> QED
        BY <2>3, <2>4
<1>4. ASSUME NEW t \in Tasks, OnTunnelUp(t) \/ CollectHealthErrors(t)
      PROVE  Maps
    BY <1>4, Unseen
    DEF OnTunnelUp, CollectHealthErrors, AllowPorts, StartDNS, HealthStarts, HealthStartFails, FetchPublicIP,
        StartPortForwarding, StartPoll, CollectQuits, HealthFails, HealthReports, Restart, Call, stateVars, runnerVars
<1> QED
    BY <1>1, <1>2, <1>3, <1>4 DEF ClientStep

(* The component does to its status what Lifecycle allows, and reports the end  *)
(* of a stop only when the tunnel is down, whatever calls, crashes, health       *)
(* restarts and shutdowns overlap (internal/vpn with internal/loopstate).        *)
THEOREM KeepsLifecycle ==
    ASSUME Prompt = TRUE
    PROVE  Spec => ImplementsLifecycle
<1>1. Init => L!Init
    BY DEF Init, StateInit, LoopInit, L!Init, TunnelAlive
<1>2. AllHold /\ [Next]_vars => [L!Next]_<<status, IF TunnelAlive THEN "up" ELSE "down", \E c \in Callers : ctxDone[c]>>
    <2> SUFFICES ASSUME AllHold, [Next]_vars
                 PROVE  Maps
        BY DEF Maps, shown, Tunnel, Ending
    <2>1. CASE UNCHANGED vars
        BY <2>1, Unseen DEF vars, stateVars, runnerVars
    <2>2. CASE Next
        BY <2>2, CallerMaps, LoopMaps, OthersMap DEF Next
    <2> QED
        BY <2>1, <2>2
<1> QED
    BY <1>1, <1>2, AlwaysAllHold, PTL DEF Spec, ImplementsLifecycle, L!Spec
=============================================================================
