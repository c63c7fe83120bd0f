----------------------------- MODULE LoopState -----------------------------
(***************************************************************************)
(* The status manager shared by gluetun's loops (internal/loopstate): the   *)
(* status clients read, the mutex that serialises ApplyStatus calls, and    *)
(* the goroutines that are somewhere inside ApplyStatus.                    *)
(*                                                                         *)
(* The loop's four channels are unbuffered, so a send and its receive are   *)
(* one joint step.  The caller's half of each is an operator here (StartTo, *)
(* StopTo, RunningFrom, StoppedFrom) that the loop's module conjoins with   *)
(* the loop's half.                                                        *)
(***************************************************************************)
EXTENDS Naturals, FiniteSets

CONSTANTS
    Callers,     \* goroutines that may call ApplyStatus
    Nobody,      \* the value of loopMu when it is unlocked
    TheLoop      \* the owner of loopMu when the loop itself locked it

ASSUME OwnersDistinct ==
    /\ Nobody \notin Callers
    /\ TheLoop \notin Callers
    /\ Nobody # TheLoop

VARIABLES
    status,     \* State.status, guarded by statusMu
    loopMu,     \* who holds State.loopMu
    pc,         \* where each caller is in ApplyStatus
    want,       \* the status each caller asks for
    thenRun,    \* the caller asks for Running once its present call returns
    newStatus,  \* the local newStatus of each call
    ctxDone     \* the context given to each caller's call is done

stateVars == <<status, loopMu, pc, want, thenRun, newStatus, ctxDone>>

Statuses == {"starting", "running", "stopping", "stopped", "crashed", "completed"}

(* "sentStart" and "sentStop" lie between the send and the select: the      *)
(* caller has woken the loop and is not yet receiving from it.              *)
Places == {"idle", "lock", "sendStart", "sentStart", "awaitRunning",
           "sendStop", "sentStop", "awaitStopped", "setting"}

\* The places from which the caller holds loopMu.
Inside == Places \ {"idle", "lock"}

StateTypeOK ==
    /\ status \in Statuses
    /\ loopMu \in Callers \cup {Nobody, TheLoop}
    /\ pc \in [Callers -> Places]
    /\ want \in [Callers -> {"running", "stopped"}]
    /\ thenRun \in [Callers -> BOOLEAN]
    /\ newStatus \in [Callers -> Statuses]
    /\ ctxDone \in [Callers -> BOOLEAN]

StateInit ==
    /\ status = "stopped"
    /\ loopMu = Nobody
    /\ pc = [c \in Callers |-> "idle"]
    /\ want = [c \in Callers |-> "running"]
    /\ thenRun = [c \in Callers |-> FALSE]
    /\ newStatus = [c \in Callers |-> "stopped"]
    /\ ctxDone = [c \in Callers |-> FALSE]

Goto(c, place) == pc' = [pc EXCEPT ![c] = place]

\* c calls ApplyStatus(ctx, w), and ApplyStatus(ctx, Running) after it if again.
Call(c, w, again) ==
    /\ pc[c] = "idle"
    /\ Goto(c, "lock")
    /\ want' = [want EXCEPT ![c] = w]
    /\ thenRun' = [thenRun EXCEPT ![c] = again]
    /\ UNCHANGED <<status, loopMu, newStatus, ctxDone>>

\* A bug: a second call asks again for what the first one asked for, by status.
Return_KeepsStatus(c) ==
    /\ Goto(c, IF thenRun[c] THEN "lock" ELSE "idle")
    /\ want' = [want EXCEPT ![c] = status]
    /\ thenRun' = [thenRun EXCEPT ![c] = FALSE]
    /\ newStatus' = [newStatus EXCEPT ![c] = "stopped"]

(* The call of c returns; the goroutines that restart make a second call.   *)
(* What the call held in its locals is dead and takes its initial value.    *)
Return(c) ==
    /\ Goto(c, IF thenRun[c] THEN "lock" ELSE "idle")
    /\ want' = [want EXCEPT ![c] = "running"]
    /\ thenRun' = [thenRun EXCEPT ![c] = FALSE]
    /\ newStatus' = [newStatus EXCEPT ![c] = "stopped"]

Startable == status \in {"stopped", "completed"}

\* Running is asked for and there is something to start.
BeginStart(c) ==
    /\ pc[c] = "lock" /\ loopMu = Nobody
    /\ want[c] = "running" /\ Startable
    /\ loopMu' = c
    /\ status' = "starting"
    /\ Goto(c, "sendStart")
    /\ UNCHANGED <<want, thenRun, newStatus, ctxDone>>

\* A bug: a stop is sent whatever the status.
BeginStop_AnyStatus(c) ==
    /\ pc[c] = "lock" /\ loopMu = Nobody
    /\ want[c] = "stopped"
    /\ loopMu' = c
    /\ status' = "stopping"
    /\ Goto(c, "sendStop")
    /\ UNCHANGED <<want, thenRun, newStatus, ctxDone>>

\* Stopped is asked for and the loop is running.
BeginStop(c) ==
    /\ pc[c] = "lock" /\ loopMu = Nobody
    /\ want[c] = "stopped" /\ status = "running"
    /\ loopMu' = c
    /\ status' = "stopping"
    /\ Goto(c, "sendStop")
    /\ UNCHANGED <<want, thenRun, newStatus, ctxDone>>

\* The early return "already <status>", which gives the mutex back at once.
Already(c) ==
    /\ pc[c] = "lock" /\ loopMu = Nobody
    /\ IF want[c] = "running" THEN ~Startable ELSE status # "running"
    /\ Return(c)
    /\ UNCHANGED <<status, loopMu, ctxDone>>

(* The caller's half of s.start <- and s.stop <-: neither send looks at the *)
(* context of the call.                                                    *)
StartTo(c) ==
    /\ pc[c] = "sendStart"
    /\ Goto(c, "sentStart")
    /\ UNCHANGED <<status, loopMu, want, thenRun, newStatus, ctxDone>>

StopTo(c) ==
    /\ pc[c] = "sendStop"
    /\ Goto(c, "sentStop")
    /\ UNCHANGED <<status, loopMu, want, thenRun, newStatus, ctxDone>>

\* The caller reaches its select statement.
EnterSelect(c) ==
    /\ \/ pc[c] = "sentStart" /\ Goto(c, "awaitRunning")
       \/ pc[c] = "sentStop" /\ Goto(c, "awaitStopped")
    /\ UNCHANGED <<status, loopMu, want, thenRun, newStatus, ctxDone>>

(* A receiver parked on s.running: once its context is done it has left the *)
(* select, and a send that does not wait finds nobody.                      *)
Listening(c) == pc[c] = "awaitRunning" /\ ~ctxDone[c]

\* The caller's half of <-s.running.
RunningFrom(c, st) ==
    /\ Listening(c)
    /\ Goto(c, "setting")
    /\ newStatus' = [newStatus EXCEPT ![c] = st]
    /\ UNCHANGED <<status, loopMu, want, thenRun, ctxDone>>

\* The caller's half of <-s.stopped.
StoppedFrom(c) ==
    /\ pc[c] = "awaitStopped"
    /\ Goto(c, "setting")
    /\ newStatus' = [newStatus EXCEPT ![c] = "stopped"]
    /\ UNCHANGED <<status, loopMu, want, thenRun, ctxDone>>

\* The other branch of both selects: ctx.Done().
DropOut(c) ==
    /\ ctxDone[c]
    /\ \/ pc[c] = "awaitRunning" /\ newStatus' = [newStatus EXCEPT ![c] = "starting"]
       \/ pc[c] = "awaitStopped" /\ newStatus' = [newStatus EXCEPT ![c] = "stopping"]
    /\ Goto(c, "setting")
    /\ UNCHANGED <<status, loopMu, want, thenRun, ctxDone>>

\* SetStatus(newStatus), then the deferred unlock and the return.
Finish(c) ==
    /\ pc[c] = "setting"
    /\ status' = newStatus[c]
    /\ loopMu' = Nobody
    /\ Return(c)
    /\ UNCHANGED ctxDone

\* The steps a caller takes without the loop.
CallerStep(c) ==
    \/ BeginStart(c) \/ BeginStop(c) \/ Already(c)
    \/ EnterSelect(c) \/ DropOut(c) \/ Finish(c)

InCall(c) == pc[c] # "idle"
=============================================================================
