------------------------------ MODULE Commands -------------------------------
(***************************************************************************)
(* A child process and the goroutines around it (internal/command, and         *)
(* internal/openvpn): Start makes one that reads each output of the process     *)
(* and one that waits for it; streamLines takes the lines they send, and for     *)
(* OpenVPN tells the VPN loop when one says that the tunnel is up; Run of         *)
(* OpenVPN, or RunAndLog of a command, waits for the end.  Every channel is        *)
(* unbuffered.                                                                *)
(***************************************************************************)
EXTENDS Naturals, Sequences

CONSTANTS
    Streams,    \* standard output and standard error
    MaxLines    \* bound on the lines the process writes

\* What the constants are assumed to be.
CommandsConstants == MaxLines \in Nat

VARIABLE c
(* what: "openvpn" or "command"; process: its life; pipe: what is written and not    *)
(* read on each stream, and shut: the ends that are closed; reader: streamToChannel;   *)
(* waiter: the goroutine of Start; stop: its channel; stream: streamLines, told to     *)
(* end when streamCancel; run: Run or RunAndLog; caller: what the VPN loop, or the     *)
(* goroutine that runs a command, is doing; ctx: its context is done.              *)

CommandsTypeOK ==
    /\ c.process \in {"none", "running", "exited"}
    /\ c.pipe \in [Streams -> Seq({"line", "completed"})]
    /\ c.reader \in [Streams -> {"none", "scan", "line", "completed", "done"}]
    /\ c.waiter \in {"none", "wait", "join", "send", "gone"}
    /\ c.stream \in {"none", "select", "ready", "done"}
    /\ c.run \in {"start", "fails", "select", "wait", "join", "error", "done"}
    /\ c.caller \in {"select", "wait", "gone"}
    /\ c.waiter = "gone" => c.reader \in [Streams -> {"done"}]

CommandsInit ==
    \E what \in {"openvpn", "command"} :
    c = [what |-> what, process |-> "none", pipe |-> [s \in Streams |-> <<>>], shut |-> FALSE,
         reader |-> [s \in Streams |-> "none"], waiter |-> "none", stop |-> FALSE, stream |-> "none",
         streamCancel |-> FALSE, run |-> "start", caller |-> "select", ctx |-> FALSE, lines |-> 0]

---------------------------------- (* start *) -------------------------------

\* Both pipes and the process are there, and streamLines is launched.
Starts ==
    /\ c.run = "start" /\ ~c.ctx
    /\ c' = [c EXCEPT !.process = "running", !.reader = [s \in Streams |-> "scan"], !.waiter = "wait",
                      !.stream = "select", !.run = "select"]

\* A pipe, or the process, is not: what was started is closed and waited for.
StartFails ==
    /\ c.run = "start"
    /\ \E started \in SUBSET Streams :
          c' = [c EXCEPT !.shut = TRUE, !.stop = TRUE, !.run = "fails",
                         !.reader = [s \in Streams |-> IF s \in started THEN "scan" ELSE "none"]]

StartFailed ==
    /\ c.run = "fails" /\ \A s \in Streams : c.reader[s] \in {"none", "done"}
    /\ c' = [c EXCEPT !.run = "error"]

Writes(s) ==
    /\ c.process = "running" /\ c.lines < MaxLines /\ c.pipe[s] = <<>>
    /\ \E line \in {"line"} \cup (IF c.what = "openvpn" /\ s = "out" THEN {"completed"} ELSE {}) :
          c' = [c EXCEPT !.pipe[s] = Append(@, line), !.lines = @ + 1]

\* By itself, or killed when the context of the command is done.
Exits == c.process = "running" /\ c' = [c EXCEPT !.process = "exited"]

\* streamToChannel: a line, or the end of the stream.
Scan(s) ==
    /\ c.reader[s] = "scan"
    /\ \/ ~c.shut /\ c.pipe[s] # <<>>
          /\ c' = [c EXCEPT !.reader[s] = Head(c.pipe[s]), !.pipe[s] = Tail(@)]
       \/ (c.shut \/ (c.pipe[s] = <<>> /\ c.process = "exited")) /\ c' = [c EXCEPT !.reader[s] = "done"]

\* cmd.Wait closes both ends, with what is not read yet.
Wait ==
    /\ c.waiter = "wait" /\ c.process = "exited"
    /\ c' = [c EXCEPT !.waiter = "join", !.shut = TRUE, !.stop = TRUE]

\* A bug: the readers are not waited for.
WaitJoin_NoReaders == c.waiter = "join" /\ c' = [c EXCEPT !.waiter = "send"]

WaitJoin ==
    /\ c.waiter = "join" /\ \A s \in Streams : c.reader[s] = "done"
    /\ c' = [c EXCEPT !.waiter = "send"]

--------------------------------- (* streamLines *) --------------------------

\* lines <-, and processLogLine, which never filters the line of the tunnel.
Take(s) ==
    /\ c.stream = "select" /\ c.reader[s] \in {"line", "completed"}
    /\ c' = [c EXCEPT !.reader[s] = "scan", !.stream = IF c.reader[s] = "completed" THEN "ready" ELSE "select"]

\* tunnelReady <-
Ready == c.stream = "ready" /\ c.caller = "select" /\ c' = [c EXCEPT !.stream = "select"]

StreamEnds == c.stream = "select" /\ c.streamCancel /\ c' = [c EXCEPT !.stream = "done"]

------------------------------ (* Run and RunAndLog *) -----------------------

\* A bug: the lines are no longer read while the process is waited for.
SeeDone_CancelsFirst ==
    /\ c.run = "select" /\ c.what = "openvpn" /\ c.ctx
    /\ c' = [c EXCEPT !.run = "wait", !.streamCancel = TRUE]

\* Run sees its context first.
SeeDone == c.run = "select" /\ c.what = "openvpn" /\ c.ctx /\ c' = [c EXCEPT !.run = "wait"]

\* <-waitError, then streamCancel.
Waited ==
    /\ c.run \in {"select", "wait"} /\ c.waiter = "send"
    /\ c' = [c EXCEPT !.run = "join", !.waiter = "gone", !.streamCancel = TRUE]

\* A bug: streamLines is told to end and not waited for.
Joined_NoStream == c.run = "join" /\ c' = [c EXCEPT !.run = "error"]

Joined == c.run = "join" /\ c.stream = "done" /\ c' = [c EXCEPT !.run = "error"]

\* errCh <-, or the return of RunAndLog.
Reports ==
    /\ c.run = "error" /\ c.caller \in {"select", "wait"}
    /\ c' = [c EXCEPT !.run = "done", !.caller = "gone"]

(* The VPN loop is told to stop, and from then on it reads the error only; or the    *)
(* context of the command is done.                                            *)
Cancel ==
    /\ c.caller = "select" /\ ~c.ctx
    /\ c' = [c EXCEPT !.ctx = TRUE, !.caller = "wait"]

Goroutines ==
    \/ Starts \/ StartFailed \/ Wait \/ WaitJoin \/ Ready \/ StreamEnds \/ SeeDone \/ Waited \/ Joined \/ Reports
    \/ \E s \in Streams : Scan(s) \/ Take(s)

CommandsNext == Goroutines \/ StartFails \/ Exits \/ Cancel \/ \E s \in Streams : Writes(s)

CommandsFairness == WF_c(Goroutines) /\ WF_c(StreamEnds) /\ WF_c(c.ctx /\ Exits)

------------------------------- (* Properties *) -----------------------------

(* When Run has given its error, or RunAndLog has returned, none of the goroutines     *)
(* it rests on is left: each of them ended, or was never started                   *)
(* (command/start.go, openvpn/run.go).                                          *)
NoneLeft ==
    c.run = "done" =>
        /\ c.reader \in [Streams -> {"none", "done"}]
        /\ c.waiter \in {"none", "gone"} /\ c.stream \in {"none", "done"} /\ c.process # "running"

(* The line that says the tunnel is up came when the VPN loop no longer listens: the     *)
(* goroutines wait for each other.                                                *)
Blocked == c.stream = "ready" /\ c.caller = "wait"

(* A process that ends, or is cancelled, is reported, but when Blocked: no goroutine     *)
(* waits for a line that nobody takes (openvpn/run.go, openvpn/stream.go).             *)
EndReported == c.process = "exited" ~> c.run = "done" \/ Blocked
=============================================================================
