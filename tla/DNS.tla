-------------------------------- MODULE DNS ---------------------------------
(***************************************************************************)
(* The DNS loop (internal/dns): Loop.Run and its helpers, the ticker that    *)
(* updates the block lists, and those who ask for a status: the goroutine of  *)
(* each tunnel that comes up, with the context of that tunnel, and the       *)
(* control server.                                                         *)
(***************************************************************************)
EXTENDS LoopState

CONSTANTS
    Tunnels,    \* callers that are tunnels; the others are handlers of the control server
    MaxFaults,  \* bound on failures
    MaxCalls    \* bound on calls

\* What the constants are assumed to be.
DNSConstants == Tunnels \subseteq Callers /\ MaxFaults \in Nat /\ MaxCalls \in Nat

VARIABLE dns
(* loop: where Loop.Run is; trigger: Loop.userTrigger; server: the DNS server; *)
(* quit: the loop's context is done; lists: the block lists are in the filter; *)
(* ticker: where RunRestartTicker is; faults, calls: how many so far.         *)

Servers == {"none", "up", "failed"}

DNSTypeOK ==
    /\ StateTypeOK
    /\ dns \in [loop : {"waitStart", "setup", "crashed", "retry", "files", "leak", "wait",
                        "stopAck", "crashWait", "done"},
                trigger : BOOLEAN, server : Servers, quit : BOOLEAN, lists : BOOLEAN,
                ticker : {"off", "wait", "done"}, faults : 0..MaxFaults, calls : 0..MaxCalls]

DNSInit ==
    /\ StateInit
    /\ dns = [loop |-> "waitStart", trigger |-> TRUE, server |-> "none", quit |-> FALSE,
              lists |-> FALSE, ticker |-> "wait", faults |-> 0, calls |-> 0]

Settled == \A c \in Callers : pc[c] \notin {"sentStart", "sentStop", "setting"}
CanFail == dns.faults < MaxFaults
Failing(d) == [d EXCEPT !.faults = @ + 1]
From(place) == dns.loop = place
Quiet == UNCHANGED stateVars
SetStatus(new) == status' = new /\ UNCHANGED <<loopMu, pc, want, thenRun, newStatus, ctxDone>>

------------------------------ (* Loop.Run *) --------------------------------

\* nameserver.GetPrivateDNSServers fails: the loop ends before it begins.
NoLocalResolvers ==
    /\ From("waitStart") /\ CanFail
    /\ dns' = Failing([dns EXCEPT !.loop = "done"])
    /\ Quiet

FirstStart(c) == From("waitStart") /\ StartTo(c) /\ dns' = [dns EXCEPT !.loop = "setup"]

\* The places where the loop looks at its context and returns.
Quit ==
    /\ dns.loop \in {"waitStart", "setup", "wait"} /\ dns.quit
    /\ dns' = [dns EXCEPT !.loop = "done", !.server = IF From("wait") THEN "none" ELSE @]
    /\ Quiet

\* setupServer succeeds; whichever server was there is forgotten.
SetUp ==
    /\ From("setup") /\ ~dns.quit
    /\ dns' = [dns EXCEPT !.loop = "files", !.server = "up", !.lists = FALSE]
    /\ Quiet

SetupFails ==
    /\ From("setup") /\ CanFail /\ Settled
    /\ dns' = Failing([dns EXCEPT !.loop = "crashed"])
    /\ Quiet

\* updateFiles: an error leaves the filter as it was, and is only logged.
UpdateFiles ==
    /\ From("files") /\ Settled
    /\ \/ dns' = [dns EXCEPT !.loop = "leak", !.lists = TRUE]
       \/ CanFail /\ dns' = Failing([dns EXCEPT !.loop = "leak"])
    /\ Quiet

(* signalOrSetStatus(st) on the way from one place to another: a call is       *)
(* answered if one is expected and still listens, and the status is set      *)
(* if none is expected.                                                     *)
SignalOrSetStatus(st, next) ==
    IF dns.trigger
    THEN /\ dns' = [next EXCEPT !.trigger = FALSE]
         /\ \/ \E c \in Callers : RunningFrom(c, st)
            \/ (\A c \in Callers : ~Listening(c)) /\ Quiet
    ELSE dns' = next /\ SetStatus(st)

SignalCrashed == From("crashed") /\ SignalOrSetStatus("crashed", [dns EXCEPT !.loop = "retry"])

\* logAndWait, then the next attempt, or the return when the context is done.
Retry ==
    /\ From("retry") /\ Settled
    /\ dns' = [dns EXCEPT !.loop = IF dns.quit THEN "done" ELSE "setup"]
    /\ Quiet

\* A bug: the caller that started the server is not answered.
SignalRunning_Silent == From("leak") /\ SetStatus("running") /\ dns' = [dns EXCEPT !.loop = "wait"]

\* signalOrSetStatus(Running); the leak check that follows changes nothing.
SignalRunning ==
    From("leak") /\ SignalOrSetStatus("running", [dns EXCEPT !.loop = "wait", !.trigger = FALSE])

------------------------------ (* runWait *) ---------------------------------

\* A bug: the server is left running.
TakeStop_KeepsServer(c) ==
    /\ From("wait") /\ StopTo(c)
    /\ dns' = [dns EXCEPT !.loop = "stopAck", !.trigger = TRUE]

TakeStop(c) ==
    /\ From("wait") /\ StopTo(c)
    /\ dns' = [dns EXCEPT !.loop = "stopAck", !.trigger = TRUE, !.server = "none"]

StopAck(c) == From("stopAck") /\ StoppedFrom(c) /\ dns' = [dns EXCEPT !.loop = "wait"]

TakeStart(c) ==
    /\ From("wait") /\ StartTo(c)
    /\ dns' = [dns EXCEPT !.loop = "setup", !.trigger = TRUE]

\* The server fails while it runs; the loop hears of it in runWait only.
ServerFails ==
    /\ dns.server = "up" /\ CanFail
    /\ dns' = Failing([dns EXCEPT !.server = "failed"])
    /\ Quiet

\* case err := <-runError: SetStatus without the mutex that ApplyStatus holds.
TakeError ==
    /\ From("wait") /\ dns.server = "failed" /\ Settled
    /\ SetStatus("crashed")
    /\ dns' = [dns EXCEPT !.loop = "crashWait", !.server = "none"]

\* A bug: the loop does not come back from its backoff.
AfterCrash_Stays ==
    /\ From("crashWait") /\ Settled
    /\ dns' = [dns EXCEPT !.loop = "wait"]
    /\ Quiet

\* logAndWait, and the next iteration of the outer for.
AfterCrash ==
    /\ From("crashWait") /\ Settled
    /\ dns' = [dns EXCEPT !.loop = IF dns.quit THEN "done" ELSE "setup"]
    /\ Quiet

DNSLoopStep ==
    \/ NoLocalResolvers \/ SetUp \/ SetupFails \/ UpdateFiles \/ SignalCrashed \/ Retry
    \/ SignalRunning \/ TakeError \/ AfterCrash
    \/ \E c \in Callers : FirstStart(c) \/ TakeStop(c) \/ StopAck(c) \/ TakeStart(c)

------------------- (* RunRestartTicker and the clients *) --------------------

\* UpdatePeriod has passed: the lists are updated if the status is running.
Tick ==
    /\ dns.ticker = "wait" /\ status = "running" /\ dns.server # "none"
    /\ dns' = [dns EXCEPT !.lists = TRUE]
    /\ Quiet

TickerQuits == dns.ticker = "off" /\ dns' = [dns EXCEPT !.ticker = "done"] /\ Quiet

\* onTunnelUp calls ApplyStatus with the context of its tunnel, a new one each time.
TunnelUp(t) ==
    /\ pc[t] = "idle" /\ dns.calls < MaxCalls /\ ~dns.quit
    /\ Goto(t, "lock")
    /\ want' = [want EXCEPT ![t] = "running"]
    /\ ctxDone' = [ctxDone EXCEPT ![t] = FALSE]
    /\ UNCHANGED <<status, loopMu, thenRun, newStatus>>
    /\ dns' = [dns EXCEPT !.calls = @ + 1]

\* The tunnel goes down, whatever its goroutine is doing.
TunnelDown(t) ==
    /\ InCall(t) /\ ~ctxDone[t]
    /\ ctxDone' = [ctxDone EXCEPT ![t] = TRUE]
    /\ UNCHANGED <<status, loopMu, pc, want, thenRun, newStatus, dns>>

\* A handler of the control server starts, stops or restarts the DNS.
Request(c) ==
    /\ dns.calls < MaxCalls /\ ~ctxDone[c]
    /\ Call(c, "running", FALSE) \/ Call(c, "stopped", FALSE) \/ Call(c, "stopped", TRUE)
    /\ dns' = [dns EXCEPT !.calls = @ + 1]

(* The ordered shutdown: the control server and the ticker, then the VPN with   *)
(* its tunnels, then the loop.                                              *)
EndControl ==
    /\ dns.ticker = "wait"
    /\ ctxDone' = [c \in Callers |-> c \notin Tunnels \/ ctxDone[c]]
    /\ dns' = [dns EXCEPT !.ticker = "off"]
    /\ UNCHANGED <<status, loopMu, pc, want, thenRun, newStatus>>

EndLoop ==
    /\ dns.ticker = "done" /\ ~dns.quit
    /\ ctxDone' = [c \in Callers |-> TRUE]
    /\ dns' = [dns EXCEPT !.quit = TRUE]
    /\ UNCHANGED <<status, loopMu, pc, want, thenRun, newStatus>>

DNSNext ==
    \/ DNSLoopStep \/ Quit \/ ServerFails
    \/ Tick \/ TickerQuits \/ EndControl \/ EndLoop
    \/ \E t \in Tunnels : TunnelUp(t) \/ TunnelDown(t)
    \/ \E c \in Callers \ Tunnels : Request(c)
    \/ \E c \in Callers : CallerStep(c) /\ UNCHANGED dns

\* Goroutines that can run do, and a select does not starve one of its cases.
DNSFairness ==
    /\ WF_<<stateVars, dns>>(DNSLoopStep) /\ WF_<<stateVars, dns>>(Quit)
    /\ \A c \in Callers : WF_<<stateVars, dns>>(CallerStep(c) /\ UNCHANGED dns) /\ WF_<<stateVars, dns>>(TakeStop(c))

DNSSpec == DNSInit /\ [][DNSNext]_<<stateVars, dns>> /\ DNSFairness

-------------------------------- (* Properties *) -----------------------------

(* A client that reads "stopped" finds the server down, and one that reads     *)
(* "running" finds it up, or failed and about to be replaced, or about to be    *)
(* told of a stop: the loop writes a crash and a retry that overlap a stop     *)
(* without the mutex of ApplyStatus (internal/dns/run.go).                   *)
DNSStatusTrue ==
    /\ status = "stopped" => dns.server = "none"
    /\ status = "running" /\ dns.loop # "done" =>
          dns.server # "none" \/ \E c \in Callers : pc[c] \in {"sentStop", "awaitStopped", "setting"}

\* The ways a call can wait for good: its answer was sent to a caller that was
\* not there, or the loop is gone, or waits for a caller that has left.
DNSStuck ==
    \/ ~dns.trigger /\ \E c \in Callers : pc[c] \in {"sentStart", "awaitRunning"}
    \/ dns.loop = "done" /\ \E c \in Callers : pc[c] \in {"sendStart", "sendStop"}
    \/ dns.loop = "stopAck" /\ \A c \in Callers : pc[c] \notin {"sentStop", "awaitStopped"}

(* ApplyStatus returns to every tunnel and handler, however often the server   *)
(* fails, is stopped or is restarted meanwhile, or the call is in one of the   *)
(* three situations of DNSStuck.                                            *)
DNSCallsReturn == \A c \in Callers : InCall(c) ~> (~InCall(c) \/ DNSStuck)

(* A server that fails is replaced without anybody asking, unless the loop is   *)
(* told to end.                                                             *)
DNSRecovers == From("crashWait") ~> (dns.server = "up" \/ dns.loop = "done" \/ DNSStuck)
=============================================================================
