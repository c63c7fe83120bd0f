----------------------------- MODULE Shadowsocks -----------------------------
(***************************************************************************)
(* The Shadowsocks loop (internal/shadowsocks) and its only caller, the        *)
(* goroutine that Run starts to set the status to running.                    *)
(***************************************************************************)
EXTENDS Naturals

CONSTANT MaxFaults  \* bound on failures of the server

\* What the constants are assumed to be.
ShadowsocksConstants == MaxFaults \in Nat

VARIABLE y
(* status; caller: where the goroutine is in SetStatus; answer: the status it   *)
(* will write; loop: where Run is; crashed: its local variable; server;        *)
(* timer: the stable timer, "read" once its channel was received from; quit;   *)
(* faults: failures so far.                                                 *)

ShadowsocksTypeOK ==
    /\ y \in [status : {"stopped", "starting", "running", "crashed"},
           caller : {"call", "sendStart", "select", "setting", "done"},
           answer : {"starting", "running"},
           loop : {"waitStart", "new", "watch", "signal", "backoff", "drain", "done"},
           crashed : BOOLEAN, server : {"none", "up", "failed"},
           timer : {"off", "running", "read"}, quit : BOOLEAN, faults : 0..MaxFaults]
    /\ y.server # "none" <=> y.loop \in {"watch", "signal"}
    /\ y.caller = "sendStart" => y.loop \in {"waitStart", "done"}

ShadowsocksInit ==
    \E enabled \in BOOLEAN :
        y = [status |-> "stopped", caller |-> IF enabled THEN "call" ELSE "done", answer |-> "starting",
             loop |-> "waitStart", crashed |-> FALSE, server |-> "none", timer |-> "off",
             quit |-> FALSE, faults |-> 0]

CanFail == y.faults < MaxFaults
Failing(z) == [z EXCEPT !.faults = @ + 1]

-------------------------------- (* SetStatus *) --------------------------------

CallBegins ==
    /\ y.caller = "call"
    /\ y' = [y EXCEPT !.caller = "sendStart", !.status = "starting"]

\* l.start <-, which does not look at the context of the call.
Started ==
    /\ y.caller = "sendStart" /\ y.loop = "waitStart"
    /\ y' = [y EXCEPT !.caller = "select", !.loop = "new"]

LeavesSelect ==
    /\ y.caller = "select" /\ y.quit
    /\ y' = [y EXCEPT !.caller = "setting", !.answer = "starting"]

SetsStatus ==
    /\ y.caller = "setting"
    /\ y' = [y EXCEPT !.caller = "done", !.status = y.answer]

---------------------------------- (* Loop.Run *) --------------------------------

\* The three places that look at the context.
Quits ==
    /\ y.quit /\ y.loop \in {"waitStart", "new", "watch"}
    /\ y' = [y EXCEPT !.loop = "done", !.server = "none"]

NewServer ==
    /\ y.loop = "new" /\ ~y.quit
    /\ y' = [y EXCEPT !.loop = "watch", !.server = "up", !.timer = "running"]

\* NewServer fails: the status is left as it is.
NewServerFails ==
    /\ y.loop = "new" /\ ~y.quit /\ CanFail
    /\ y' = Failing([y EXCEPT !.loop = "backoff", !.crashed = TRUE])

\* The stable timer, after a second.
Stable ==
    /\ y.loop = "watch" /\ y.timer = "running"
    /\ y' = IF y.crashed THEN [y EXCEPT !.timer = "read", !.status = "running"]
            ELSE [y EXCEPT !.timer = "read", !.loop = "signal"]

\* l.running <-, which does not look at the context of the loop.
SignalsRunning ==
    /\ y.loop = "signal" /\ y.caller = "select"
    /\ y' = [y EXCEPT !.loop = "watch", !.caller = "setting", !.answer = "running"]

\* server.Listen fails.
ServerFails ==
    /\ y.server = "up" /\ CanFail
    /\ y' = Failing([y EXCEPT !.server = "failed"])

\* A bug: the loop keeps the server that failed.
TakesError_Kept ==
    /\ y.loop = "watch" /\ y.server = "failed"
    /\ y' = IF y.quit THEN [y EXCEPT !.loop = "done", !.server = "none"]
            ELSE [y EXCEPT !.loop = "backoff", !.status = "crashed", !.crashed = TRUE]

TakesError ==
    /\ y.loop = "watch" /\ y.server = "failed"
    /\ y' = IF y.quit THEN [y EXCEPT !.loop = "done", !.server = "none"]
            ELSE [y EXCEPT !.loop = "backoff", !.server = "none", !.status = "crashed", !.crashed = TRUE]

(* logAndWait, and then, after a server that ran, the stable timer: one that    *)
(* was read is not stopped by Stop, and has nothing left to read.            *)
BackedOff ==
    /\ y.loop = "backoff"
    /\ y' = IF y.timer = "read" THEN [y EXCEPT !.loop = "drain"]
            ELSE [y EXCEPT !.loop = "new", !.timer = "off"]

LoopStep ==
    Started \/ Quits \/ NewServer \/ NewServerFails \/ Stable \/ SignalsRunning \/ TakesError \/ BackedOff

CallerStep == CallBegins \/ LeavesSelect \/ SetsStatus

\* The program is told to end.
Cancel == ~y.quit /\ y' = [y EXCEPT !.quit = TRUE]

ShadowsocksNext == LoopStep \/ CallerStep \/ ServerFails \/ Cancel

ShadowsocksFairness == WF_y(LoopStep) /\ WF_y(CallerStep)

ShadowsocksSpec == ShadowsocksInit /\ [][ShadowsocksNext]_y /\ ShadowsocksFairness

------------------------------- (* Properties *) --------------------------------

(* The two ways the loop waits for good: for a timer that was read before its  *)
(* server failed, and for a caller that left as the program ended.           *)
ShadowsocksHangs ==
    \/ y.loop = "drain"
    \/ y.loop = "signal" /\ y.quit /\ y.caller # "select"

(* A server that fails before it was stable, or that cannot be made, is        *)
(* replaced without anybody asking, until one runs or the program ends        *)
(* (shadowsocks/loop.go Run).                                              *)
ShadowsocksRecovers ==
    (y.loop = "backoff" /\ y.timer # "read") ~> (y.server # "none" \/ y.quit)

(* A server that has been up for a second is shown as running, also if servers *)
(* before it failed and nobody waits for the answer any more, unless the       *)
(* program ends (shadowsocks/loop.go isStableTimer).                         *)
ShadowsocksShown ==
    (y.server = "up" /\ y.timer = "read") ~> (y.status = "running" \/ y.server # "up" \/ y.quit)

(* The loop returns at the end of the program, or hangs in one of the two ways. *)
ShadowsocksQuits == y.quit ~> (y.loop = "done" \/ ShadowsocksHangs)
=============================================================================
