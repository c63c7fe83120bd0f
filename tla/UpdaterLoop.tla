----------------------------- MODULE UpdaterLoop -----------------------------
(***************************************************************************)
(* The loop that updates server data (internal/updater/loop), with a status  *)
(* manager of its own: SetStatus keeps statusMu while it waits for loopLock,  *)
(* and gives it back while it talks to the loop.  The shadowsocks loop has the *)
(* same one (internal/shadowsocks/state.go).                                *)
(***************************************************************************)
EXTENDS Naturals

CONSTANTS
    Clients,    \* handlers of the control server that may call SetStatus
    Free,       \* the value of a mutex nobody holds
    MaxFaults,  \* bound on failed updates
    MaxCalls    \* bound on calls and on ticks

\* What the constants are assumed to be.
UpdaterConstants == Free \notin Clients /\ MaxFaults \in Nat /\ MaxCalls \in Nat

VARIABLE u
(* status, statusMu and loopLock: the state and who holds its mutexes; pc, want *)
(* and again: where each client is in SetStatus, what for, and whether it      *)
(* starts after it stopped; answer: its newStatus; loop and crashed: where      *)
(* Loop.Run is and its local; job: the goroutine that updates; cancelled: its    *)
(* context is done; ticker: where RunRestartTicker is, "off" when the period is *)
(* 0; over: the contexts of the clients and of the ticker are done; quit: the    *)
(* context of the loop is done.                                             *)

Statuses == {"starting", "running", "stopping", "stopped", "crashed", "completed"}
Places == {"idle", "wantStatus", "wantLoop", "sendStart", "awaitRunning", "sendStop",
           "awaitStopped", "wantResult"}

UpdaterTypeOK ==
    u \in [status : Statuses, statusMu : Clients \cup {Free}, loopLock : Clients \cup {Free},
           pc : [Clients -> Places], want : [Clients -> {"running", "stopped"}],
           again : [Clients -> BOOLEAN], answer : [Clients -> Statuses],
           loop : {"waitStart", "top", "announce", "select", "startJoin", "stopJoin", "stopAck",
                   "crashed", "backoff", "quitJoin", "done"},
           crashed : BOOLEAN, job : {"none", "work", "report", "complete"}, cancelled : BOOLEAN,
           ticker : {"off", "wait", "tick", "done"}, over : BOOLEAN, quit : BOOLEAN,
           faults : 0..MaxFaults, calls : 0..MaxCalls]

UpdaterInit ==
    \E period \in {"off", "wait"} :
        u = [status |-> "stopped", statusMu |-> Free, loopLock |-> Free,
             pc |-> [c \in Clients |-> "idle"], want |-> [c \in Clients |-> "running"],
             again |-> [c \in Clients |-> FALSE], answer |-> [c \in Clients |-> "stopped"],
             loop |-> "waitStart", crashed |-> FALSE, job |-> "none", cancelled |-> FALSE,
             ticker |-> period, over |-> FALSE, quit |-> FALSE, faults |-> 0, calls |-> 0]

------------------------------- (* SetStatus *) ------------------------------

\* A handler starts, stops or restarts the updater.
Request(c) ==
    /\ u.pc[c] = "idle" /\ u.calls < MaxCalls /\ ~u.over
    /\ \E w \in {"running", "stopped"}, again \in BOOLEAN :
          /\ again => w = "stopped"
          /\ u' = [u EXCEPT !.pc[c] = "wantStatus", !.want[c] = w, !.again[c] = again, !.calls = @ + 1]

\* A bug: the second call asks for the status there is.
Returned_KeepsStatus(c, v) ==
    [v EXCEPT !.pc[c] = IF v.again[c] THEN "wantStatus" ELSE "idle", !.want[c] = v.status,
              !.again[c] = FALSE, !.answer[c] = "stopped"]

\* The call returns, with its locals dead.
Returned(c, v) ==
    [v EXCEPT !.pc[c] = IF v.again[c] THEN "wantStatus" ELSE "idle", !.want[c] = "running",
              !.again[c] = FALSE, !.answer[c] = "stopped"]

Starts(c) == u.want[c] = "running" /\ u.status \in {"stopped", "completed"}
Stops(c) == u.want[c] = "stopped" /\ u.status \in {"running", "completed"}

\* statusMu is taken, and "already <status>" gives it back at once.
LockStatus(c) ==
    /\ u.pc[c] = "wantStatus" /\ u.statusMu = Free
    /\ u' = IF Starts(c) \/ Stops(c) THEN [u EXCEPT !.pc[c] = "wantLoop", !.statusMu = c]
            ELSE Returned(c, u)

\* loopLock is taken under statusMu, which is given back with the new status.
LockLoop(c) ==
    /\ u.pc[c] = "wantLoop" /\ u.loopLock = Free
    /\ u' = [u EXCEPT !.loopLock = c, !.statusMu = Free,
                      !.status = IF u.want[c] = "running" THEN "starting" ELSE "stopping",
                      !.pc[c] = IF u.want[c] = "running" THEN "sendStart" ELSE "sendStop"]

\* The context is done: the caller leaves its select.
DropOut(c) ==
    /\ u.over
    /\ \/ u.pc[c] = "awaitRunning" /\ u' = [u EXCEPT !.pc[c] = "wantResult", !.answer[c] = "starting"]
       \/ u.pc[c] = "awaitStopped" /\ u' = [u EXCEPT !.pc[c] = "wantResult", !.answer[c] = "stopping"]

\* statusMu is taken again for the answer, then both mutexes are given back.
Finish(c) ==
    /\ u.pc[c] = "wantResult" /\ u.statusMu = Free
    /\ u' = Returned(c, [u EXCEPT !.status = u.answer[c], !.loopLock = Free])

-------------------------------- (* Loop.Run *) ------------------------------

\* setStatusWithLock.
SetStatus(v, new) == u.statusMu = Free /\ u' = [v EXCEPT !.status = new]

\* <-l.start: from a client or from the ticker, at the start or in the select.
TakeStart ==
    /\ u.loop \in {"waitStart", "select"}
    /\ LET v == IF u.loop = "waitStart" THEN [u EXCEPT !.loop = "top"]
                ELSE [u EXCEPT !.loop = "startJoin", !.cancelled = TRUE]
       IN \/ \E c \in Clients : u.pc[c] = "sendStart" /\ u' = [v EXCEPT !.pc[c] = "awaitRunning"]
          \/ u.ticker = "tick" /\ u' = [v EXCEPT !.ticker = "wait"]

\* A bug: an update is begun beside the one that was cancelled.
StartJoin_NoWait == u.loop = "startJoin" /\ u' = [u EXCEPT !.loop = "top"]

\* runWg.Wait() before the next iteration.
StartJoin == u.loop = "startJoin" /\ u.job = "none" /\ u' = [u EXCEPT !.loop = "top"]

\* An iteration begins: the goroutine that updates is launched.
Launch ==
    /\ u.loop = "top" /\ ~u.quit
    /\ u' = [u EXCEPT !.loop = "announce", !.job = "work", !.cancelled = FALSE]

(* Until the first crash the client that started the loop is answered; after    *)
(* it, for good, the status is set instead.                                 *)
Announce ==
    /\ u.loop = "announce"
    /\ IF u.crashed THEN SetStatus([u EXCEPT !.loop = "select"], "running")
       ELSE \E c \in Clients :
               /\ u.pc[c] = "awaitRunning"
               /\ u' = [u EXCEPT !.loop = "select", !.pc[c] = "wantResult", !.answer[c] = "running"]

TakeStop(c) ==
    /\ u.loop = "select" /\ u.pc[c] = "sendStop"
    /\ u' = [u EXCEPT !.loop = "stopJoin", !.pc[c] = "awaitStopped", !.cancelled = TRUE]

\* A bug: a stop is answered before the update has ended.
StopJoin_NoWait == u.loop = "stopJoin" /\ u' = [u EXCEPT !.loop = "stopAck"]

StopJoin == u.loop = "stopJoin" /\ u.job = "none" /\ u' = [u EXCEPT !.loop = "stopAck"]

StopAck(c) ==
    /\ u.loop = "stopAck" /\ u.pc[c] = "awaitStopped"
    /\ u' = [u EXCEPT !.loop = "select", !.pc[c] = "wantResult", !.answer[c] = "stopped"]

\* case err := <-errorCh, after which the goroutine ends at once.
TakeError ==
    /\ u.loop = "select" /\ u.job = "report"
    /\ u' = [u EXCEPT !.loop = "crashed", !.job = "none"]

SetCrashed == u.loop = "crashed" /\ SetStatus([u EXCEPT !.loop = "backoff"], "crashed")

\* logAndWait, crashed = true and the next iteration.
Backoff == u.loop = "backoff" /\ u' = [u EXCEPT !.loop = "top", !.crashed = TRUE, !.cancelled = TRUE]

Quit ==
    /\ u.quit
    /\ \/ u.loop \in {"waitStart", "top"} /\ u' = [u EXCEPT !.loop = "done"]
       \/ u.loop = "select" /\ u' = [u EXCEPT !.loop = "quitJoin", !.cancelled = TRUE]
       \/ u.loop = "quitJoin" /\ u.job = "none" /\ u' = [u EXCEPT !.loop = "done"]

------------------------- (* The update and the ticker *) ---------------------

\* UpdateServers returns nil: every provider was updated, skipped or logged.
Succeeds == u.job = "work" /\ u' = [u EXCEPT !.job = "complete"]

Complete == u.job = "complete" /\ SetStatus([u EXCEPT !.job = "none"], "completed")

\* It returns an error, which is reported unless its context is done.
Fails ==
    /\ u.job = "work"
    /\ IF u.cancelled THEN u' = [u EXCEPT !.job = "none"]
       ELSE u.faults < MaxFaults /\ u' = [u EXCEPT !.job = "report", !.faults = @ + 1]

\* timer.C fires, and l.start <- does not look at the context.
Tick ==
    /\ u.ticker = "wait" /\ u.calls < MaxCalls /\ ~u.over
    /\ u' = [u EXCEPT !.ticker = "tick", !.calls = @ + 1]

\* The shutdown ends the clients and the ticker, then the loop.
EndClients ==
    /\ ~u.over
    /\ u' = [u EXCEPT !.over = TRUE, !.ticker = IF @ = "wait" THEN "done" ELSE @]

EndLoop == u.over /\ ~u.quit /\ u' = [u EXCEPT !.quit = TRUE]

ClientStep(c) == LockStatus(c) \/ LockLoop(c) \/ DropOut(c) \/ Finish(c)

UpdaterLoopStep ==
    \/ TakeStart \/ StartJoin \/ Launch \/ Announce \/ StopJoin \/ TakeError
    \/ SetCrashed \/ Backoff \/ Quit
    \/ \E c \in Clients : TakeStop(c) \/ StopAck(c)

JobStep == Succeeds \/ Complete \/ Fails

UpdaterNext ==
    \/ UpdaterLoopStep \/ JobStep \/ Tick \/ EndClients \/ EndLoop
    \/ \E c \in Clients : Request(c) \/ ClientStep(c)

\* Goroutines that can run do, and an update that is cancelled ends.
UpdaterFairness ==
    /\ WF_u(UpdaterLoopStep) /\ WF_u(JobStep) /\ WF_u(Quit)
    /\ \A c \in Clients : WF_u(ClientStep(c)) /\ WF_u(TakeStop(c)) /\ SF_u(LockStatus(c))

UpdaterSpec == UpdaterInit /\ [][UpdaterNext]_u /\ UpdaterFairness

-------------------------------- (* Properties *) -----------------------------

\* A caller keeps statusMu until it has loopLock, whose holder needs statusMu to return.
CrossedLocks == \E c \in Clients : u.pc[c] = "wantLoop" /\ u.loopLock # Free

\* The loop waits for an update that waits to tell it an error.
CrossedError == u.loop \in {"startJoin", "stopJoin", "quitJoin"} /\ u.job = "report"

\* The ticker started an update and nobody waits to be told.
UnheardRunning == u.loop = "announce" /\ ~u.crashed /\ \A c \in Clients : u.pc[c] # "awaitRunning"

\* After a crash no start is answered.
LostAnswer == u.crashed /\ \E c \in Clients : u.pc[c] = "awaitRunning"

UnheardStopped == u.loop = "stopAck" /\ \A c \in Clients : u.pc[c] # "awaitStopped"

NoLoop == u.loop = "done" /\ \E c \in Clients : u.pc[c] \in {"sendStart", "sendStop"}

UpdaterStuck ==
    CrossedLocks \/ CrossedError \/ UnheardRunning \/ LostAnswer \/ UnheardStopped \/ NoLoop

(* SetStatus returns to every handler, or the updater is in one of the six       *)
(* situations above: two mutexes taken in opposite orders, a wait for one who    *)
(* waits, or an answer sent or expected by nobody (updater/loop).             *)
UpdaterCallsReturn == \A c \in Clients : u.pc[c] # "idle" ~> (u.pc[c] = "idle" \/ UpdaterStuck)

(* Once its context is done the loop returns, or one of them has been reached.  *)
UpdaterQuits == u.quit ~> (u.loop = "done" \/ UpdaterStuck)

(* An update begins only when the one before has ended, whatever failed, was    *)
(* cancelled or was restarted: they write the same server data.               *)
OneUpdate == u.loop = "top" /\ ~u.quit => u.job = "none"

(* A client that reads "stopped" or "completed" finds no update in progress, as  *)
(* long as no ticker starts one behind its back.                             *)
IdleMeansIdle ==
    u.status \in {"stopped", "completed"} /\ u.ticker = "off" => u.job = "none"

=============================================================================
