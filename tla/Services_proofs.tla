--------------------------- MODULE Services_proofs ---------------------------
(***************************************************************************)
(* The services of gluetun for any callers, requests, calls, tunnels, pages   *)
(* and failures: the DNS loop, the updater loop, the proxies and the polls by *)
(* themselves, and then all of them together.                              *)
(***************************************************************************)
EXTENDS MCServices, TLAPS

(***************************************************************************)
(* The DNS loop for any tunnels, handlers, calls and failures: a client that  *)
(* reads "stopped" finds no server, and one that reads "running" finds one.   *)
(***************************************************************************)

\* The places where the loop has no server, and those where it has one.
Down == {"waitStart", "setup", "crashed", "retry", "crashWait", "stopAck", "done"}
Raised == {"files", "leak"}
ServerHolds == (s.loop \in Down => s.server = "none") /\ (s.loop \in Raised => s.server # "none")

\* The mutex is the one of the caller that is inside ApplyStatus.
MutexHeld == \A c \in Callers : pc[c] \in D!Inside => loopMu = c

(* On its way up the loop is not shown as running or stopped: what it writes    *)
(* without the mutex is true, and no caller begins meanwhile.  A stop whose      *)
(* caller has left is shown as "stopping" for good.                          *)
OnItsWay == {"setup", "crashed", "retry", "files", "leak", "crashWait"}
Stopping(c) == pc[c] \in {"sentStop", "awaitStopped", "setting"}
StatusHolds ==
    /\ status # "completed"
    /\ status = "stopped" => s.server = "none" /\ s.loop \in {"waitStart", "wait", "done"}
    /\ s.loop = "waitStart" => status \in {"stopped", "starting"}
    /\ s.loop \in OnItsWay => status \in {"starting", "crashed"}
    /\ s.loop = "stopAck" /\ loopMu = Nobody => status = "stopping"
    /\ status = "running" /\ s.loop \in {"wait", "stopAck"} => s.server # "none" \/ \E c \in Callers : Stopping(c)

\* What a caller about to set the status knows of the loop, by what it will say.
OutcomeHolds(c) ==
    /\ newStatus[c] # "completed"
    /\ newStatus[c] = "stopped" => s.loop \in {"wait", "done"} /\ s.server = "none"
    /\ newStatus[c] = "running" => s.loop = "done" \/ (s.loop = "wait" /\ s.server # "none")
    /\ newStatus[c] = "stopping" => s.loop = "stopAck"
    /\ newStatus[c] \in {"starting", "crashed"} => s.loop \notin {"waitStart", "stopAck"}

\* Where the loop can be while a caller is at each place of ApplyStatus.
CallerHolds(c) ==
    /\ pc[c] = "sendStart" =>
          status = "starting" /\ s.loop \in {"waitStart", "wait", "done"} /\ s.server = "none"
    /\ pc[c] = "sentStart" => s.loop \in {"setup", "files", "done"}
    /\ pc[c] = "awaitRunning" => s.loop \notin {"waitStart", "stopAck"}
    /\ pc[c] = "sendStop" => s.loop \notin {"waitStart", "stopAck"} /\ status # "stopped"
    /\ pc[c] \in {"sentStop", "awaitStopped"} => s.loop = "stopAck"
    /\ pc[c] = "setting" => OutcomeHolds(c)
CallersHold == \A c \in Callers : CallerHolds(c)

DInv == D!DNSTypeOK /\ ServerHolds /\ MutexHeld /\ StatusHolds /\ CallersHold

\* Nothing is going on at the start.
LEMMA InitDInv == D!DNSConstants /\ D!DNSInit => DInv
BY DEF D!DNSConstants, D!DNSInit, D!StateInit, DInv, D!DNSTypeOK, D!StateTypeOK, D!Statuses, D!Places,
       D!Servers, ServerHolds,
       Down, Raised, MutexHeld, D!Inside, StatusHolds, OnItsWay, CallersHold, CallerHolds

(***************************************************************************)
(* Types.                                                                  *)
(***************************************************************************)

\* The steps that a caller takes by itself.
LEMMA CallerTypes ==
    ASSUME D!DNSTypeOK, NEW c \in Callers, D!CallerStep(c), UNCHANGED s
    PROVE  D!DNSTypeOK'
<1> USE DEF D!DNSTypeOK, D!StateTypeOK, D!Statuses, D!Places, D!Goto
<1>1. CASE D!BeginStart(c) \/ D!BeginStop(c)
    BY <1>1 DEF D!BeginStart, D!BeginStop
<1>2. CASE D!Already(c)
    BY <1>2 DEF D!Already, D!Return
<1>3. CASE D!EnterSelect(c) \/ D!DropOut(c)
    BY <1>3 DEF D!EnterSelect, D!DropOut
<1>4. CASE D!Finish(c)
    BY <1>4 DEF D!Finish, D!Return
<1> QED
    BY <1>1, <1>2, <1>3, <1>4 DEF D!CallerStep

\* The steps in which the loop and a caller meet on a channel.
LEMMA MeetingTypes ==
    ASSUME D!DNSTypeOK, NEW c \in Callers,
           D!FirstStart(c) \/ D!TakeStop(c) \/ D!StopAck(c) \/ D!TakeStart(c)
    PROVE  D!DNSTypeOK'
<1> USE DEF D!DNSTypeOK, D!StateTypeOK, D!Statuses, D!Places, D!Servers, D!Goto, D!From
<1>1. CASE D!FirstStart(c)
    BY <1>1 DEF D!FirstStart, D!StartTo
<1>2. CASE D!TakeStop(c)
    BY <1>2 DEF D!TakeStop, D!StopTo
<1>3. CASE D!StopAck(c)
    BY <1>3 DEF D!StopAck, D!StoppedFrom
<1>4. CASE D!TakeStart(c)
    BY <1>4 DEF D!TakeStart, D!StartTo
<1> QED
    BY <1>1, <1>2, <1>3, <1>4

\* The loop answers a caller, or nobody, or writes the status.
LEMMA SignalTypes ==
    ASSUME D!DNSTypeOK, D!SignalCrashed \/ D!SignalRunning
    PROVE  D!DNSTypeOK'
<1> USE DEF D!DNSTypeOK, D!StateTypeOK, D!Statuses, D!Places, D!Servers, D!Goto, D!stateVars, D!Quiet
<1>1. ASSUME NEW st \in {"running", "crashed"}, NEW place \in {"wait", "retry"},
             s' = [s EXCEPT !.loop = place, !.trigger = FALSE] \/ s' = [s EXCEPT !.loop = place],
             (\E c \in Callers : D!RunningFrom(c, st)) \/ D!Quiet \/ D!SetStatus(st)
      PROVE  D!DNSTypeOK'
    <2>1. D!StateTypeOK'
        <3>1. CASE \E c \in Callers : D!RunningFrom(c, st)
            BY <3>1 DEF D!RunningFrom
        <3>2. CASE D!Quiet \/ D!SetStatus(st)
            BY <3>2 DEF D!SetStatus
        <3> QED
            BY <1>1, <3>1, <3>2
    <2>2. CASE s' = [s EXCEPT !.loop = place, !.trigger = FALSE]
        BY <2>1, <2>2
    <2>3. CASE s' = [s EXCEPT !.loop = place]
        BY <2>1, <2>3
    <2> QED
        BY <1>1, <2>2, <2>3
<1>2. CASE D!SignalCrashed
    BY <1>1, <1>2 DEF D!SignalCrashed, D!SignalOrSetStatus
<1>3. CASE D!SignalRunning
    BY ZenonT(60), <1>1, <1>3 DEF D!SignalRunning, D!SignalOrSetStatus
<1> QED
    BY <1>2, <1>3

\* The other steps of the loop, and the failures.
LEMMA LoopTypes ==
    ASSUME D!DNSConstants, D!DNSTypeOK,
           \/ D!NoLocalResolvers \/ D!Quit \/ D!SetUp \/ D!SetupFails \/ D!UpdateFiles \/ D!Retry
           \/ D!ServerFails \/ D!TakeError \/ D!AfterCrash
    PROVE  D!DNSTypeOK'
<1> USE DEF D!DNSTypeOK, D!StateTypeOK, D!Statuses, D!Places, D!Servers, D!stateVars, D!Quiet, D!From
<1>1. D!CanFail => s.faults + 1 \in 0..DNSFaults
    BY DEF D!DNSConstants, D!CanFail
<1>2. CASE D!NoLocalResolvers
    BY <1>1, <1>2 DEF D!NoLocalResolvers, D!Failing
<1>3. CASE D!SetupFails
    BY <1>1, <1>3 DEF D!SetupFails, D!Failing
<1>4. CASE D!UpdateFiles
    BY ZenonT(60), <1>1, <1>4 DEF D!UpdateFiles, D!Failing
<1>5. CASE D!ServerFails
    BY <1>1, <1>5 DEF D!ServerFails, D!Failing
<1>6. CASE D!Quit
    BY <1>6 DEF D!Quit
<1>7. CASE D!SetUp
    BY <1>7 DEF D!SetUp
<1>8. CASE D!Retry \/ D!AfterCrash
    BY <1>8 DEF D!Retry, D!AfterCrash
<1>9. CASE D!TakeError
    BY <1>9 DEF D!TakeError, D!SetStatus
<1> QED
    BY <1>2, <1>3, <1>4, <1>5, <1>6, <1>7, <1>8, <1>9

\* The ticker, the clients and the shutdown.
LEMMA ClientTypes ==
    ASSUME D!DNSConstants, D!DNSTypeOK,
           \/ D!Tick \/ D!TickerQuits \/ D!EndControl \/ D!EndLoop
           \/ \E t \in Tunnels : D!TunnelUp(t) \/ D!TunnelDown(t)
           \/ \E c \in Callers \ Tunnels : D!Request(c)
    PROVE  D!DNSTypeOK'
<1> USE DEF D!DNSConstants, D!DNSTypeOK, D!StateTypeOK, D!Statuses, D!Places, D!Servers, D!stateVars,
            D!Quiet, D!Goto
<1>1. s.calls < DNSCalls => s.calls + 1 \in 0..DNSCalls
    OBVIOUS
<1>2. CASE D!Tick \/ D!TickerQuits
    <2>1. CASE D!Tick
        BY <2>1 DEF D!Tick
    <2>2. CASE D!TickerQuits
        BY <2>2 DEF D!TickerQuits
    <2> QED
        BY <1>2, <2>1, <2>2
<1>3. CASE D!EndControl
    BY <1>3 DEF D!EndControl
<1>4. CASE D!EndLoop
    BY <1>4 DEF D!EndLoop
<1>5. ASSUME NEW t \in Tunnels, D!TunnelUp(t)
      PROVE  D!DNSTypeOK'
    <2>1. t \in Callers
        OBVIOUS
    <2>2. D!StateTypeOK'
        BY <1>5, <2>1 DEF D!TunnelUp
    <2> QED
        BY <1>1, <1>5, <2>2 DEF D!TunnelUp
<1>6. ASSUME NEW t \in Tunnels, D!TunnelDown(t)
      PROVE  D!DNSTypeOK'
    BY <1>6 DEF D!TunnelDown
<1>7. ASSUME NEW c \in Callers \ Tunnels, D!Request(c)
      PROVE  D!DNSTypeOK'
    <2>1. PICK w \in {"running", "stopped"}, again \in BOOLEAN : D!Call(c, w, again)
        BY <1>7 DEF D!Request
    <2>2. D!StateTypeOK'
        BY <2>1 DEF D!Call
    <2> QED
        BY <1>1, <1>7, <2>2 DEF D!Request
<1> QED
    BY <1>2, <1>3, <1>4, <1>5, <1>6, <1>7

(***************************************************************************)
(* The invariant, for the same groups of steps.                             *)
(***************************************************************************)

\* A caller that begins holds the mutex alone, and one that ends tells what is so.
LEMMA CallerDInv ==
    ASSUME DInv, NEW c \in Callers, D!CallerStep(c), UNCHANGED s
    PROVE  DInv'
<1> USE DEF DInv, D!Goto, OutcomeHolds, D!Inside, D!Places, MutexHeld, Stopping
<1>1. D!DNSTypeOK'
    BY CallerTypes
<1>2. ServerHolds'
    BY DEF ServerHolds
<1>3. /\ status \in D!Statuses
      /\ pc \in [Callers -> D!Places]
      /\ newStatus \in [Callers -> D!Statuses]
      /\ Nobody \notin Callers
    BY OwnersDistinct DEF D!DNSTypeOK, D!StateTypeOK
<1>4. CASE D!BeginStart(c)
    <2>1. MutexHeld'
        BY <1>3, <1>4 DEF D!BeginStart
    <2>2. StatusHolds'
        BY <1>3, <1>4 DEF D!BeginStart, D!Startable, StatusHolds, OnItsWay
    <2>3. CallersHold'
        BY <1>3, <1>4 DEF D!BeginStart, D!Startable, StatusHolds, CallersHold, CallerHolds
    <2> QED
        BY <1>1, <1>2, <2>1, <2>2, <2>3
<1>5. CASE D!BeginStop(c)
    <2>1. MutexHeld'
        BY <1>3, <1>5 DEF D!BeginStop
    <2>2. StatusHolds'
        BY <1>3, <1>5 DEF D!BeginStop, StatusHolds, OnItsWay
    <2>3. CallersHold'
        BY <1>3, <1>5 DEF D!BeginStop, StatusHolds, CallersHold, CallerHolds
    <2> QED
        BY <1>1, <1>2, <2>1, <2>2, <2>3
<1>6. CASE D!Already(c)
    <2>1. MutexHeld'
        BY <1>3, <1>6 DEF D!Already, D!Return
    <2>2. StatusHolds'
        BY <1>3, <1>6 DEF D!Already, D!Return, StatusHolds
    <2>3. CallersHold'
        BY <1>3, <1>6 DEF D!Already, D!Return, CallersHold, CallerHolds
    <2> QED
        BY <1>1, <1>2, <2>1, <2>2, <2>3
<1>7. CASE D!EnterSelect(c)
    <2>1. MutexHeld'
        BY <1>3, <1>7 DEF D!EnterSelect
    <2>2. StatusHolds'
        BY <1>3, <1>7 DEF D!EnterSelect, StatusHolds
    <2>3. CallersHold'
        BY <1>3, <1>7 DEF D!EnterSelect, CallersHold, CallerHolds
    <2> QED
        BY <1>1, <1>2, <2>1, <2>2, <2>3
<1>8. CASE D!DropOut(c)
    <2>1. MutexHeld'
        BY <1>3, <1>8 DEF D!DropOut
    <2>2. StatusHolds'
        BY <1>3, <1>8 DEF D!DropOut, StatusHolds
    <2>3. CallersHold'
        BY <1>3, <1>8 DEF D!DropOut, CallersHold, CallerHolds
    <2> QED
        BY <1>1, <1>2, <2>1, <2>2, <2>3
<1>9. CASE D!Finish(c)
    <2>1. MutexHeld'
        BY <1>3, <1>9 DEF D!Finish, D!Return
    <2>2. StatusHolds'
        BY <1>3, <1>9 DEF D!Finish, D!Return, StatusHolds, CallersHold, CallerHolds, OnItsWay, D!Statuses
    <2>3. CallersHold'
        BY <1>3, <1>9 DEF D!Finish, D!Return, CallersHold, CallerHolds
    <2> QED
        BY <1>1, <1>2, <2>1, <2>2, <2>3
<1> QED
    BY <1>4, <1>5, <1>6, <1>7, <1>8, <1>9 DEF D!CallerStep

\* The loop takes a start or a stop only from the caller that holds the mutex.
LEMMA MeetingDInv ==
    ASSUME DInv, NEW c \in Callers,
           D!FirstStart(c) \/ D!TakeStop(c) \/ D!StopAck(c) \/ D!TakeStart(c)
    PROVE  DInv'
<1> USE DEF DInv, D!Goto, D!From, OutcomeHolds, D!Inside, D!Places, MutexHeld, Stopping, ServerHolds,
            Down, Raised,
            OnItsWay
<1>1. D!DNSTypeOK'
    BY MeetingTypes
<1>2. /\ status \in D!Statuses
      /\ pc \in [Callers -> D!Places]
      /\ newStatus \in [Callers -> D!Statuses]
      /\ Nobody \notin Callers
    BY OwnersDistinct DEF D!DNSTypeOK, D!StateTypeOK
<1>3. ASSUME D!FirstStart(c) \/ D!TakeStart(c)
      PROVE  DInv'
    <2>1. /\ pc[c] = "sendStart" /\ pc' = [pc EXCEPT ![c] = "sentStart"]
          /\ UNCHANGED <<status, loopMu, newStatus>>
          /\ s'.loop = "setup" /\ s'.server = s.server
        BY <1>2, <1>3 DEF D!FirstStart, D!TakeStart, D!StartTo, D!DNSTypeOK
    <2>2. ServerHolds' /\ MutexHeld'
        BY <1>2, <2>1 DEF CallersHold, CallerHolds
    <2>3. StatusHolds'
        BY <1>2, <2>1 DEF StatusHolds, CallersHold, CallerHolds
    <2>4. CallersHold'
        BY <1>2, <2>1 DEF CallersHold, CallerHolds
    <2> QED
        BY <1>1, <2>2, <2>3, <2>4
<1>4. CASE D!TakeStop(c)
    <2>1. /\ pc[c] = "sendStop" /\ pc' = [pc EXCEPT ![c] = "sentStop"] /\ s.loop = "wait"
          /\ UNCHANGED <<status, loopMu, newStatus>>
          /\ s'.loop = "stopAck" /\ s'.server = "none"
        BY <1>2, <1>4 DEF D!TakeStop, D!StopTo, D!DNSTypeOK
    <2>2. ServerHolds' /\ MutexHeld'
        BY <1>2, <2>1
    <2>3. StatusHolds'
        BY <1>2, <2>1 DEF StatusHolds, CallersHold, CallerHolds
    <2>4. CallersHold'
        BY <1>2, <2>1 DEF CallersHold, CallerHolds
    <2> QED
        BY <1>1, <2>2, <2>3, <2>4
<1>5. CASE D!StopAck(c)
    <2>1. /\ pc[c] = "awaitStopped" /\ pc' = [pc EXCEPT ![c] = "setting"] /\ s.loop = "stopAck"
          /\ newStatus' = [newStatus EXCEPT ![c] = "stopped"]
          /\ UNCHANGED <<status, loopMu>>
          /\ s'.loop = "wait" /\ s'.server = s.server
        BY <1>2, <1>5 DEF D!StopAck, D!StoppedFrom, D!DNSTypeOK
    <2>2. ServerHolds' /\ MutexHeld'
        BY <1>2, <2>1
    <2>3. StatusHolds'
        BY <1>2, <2>1 DEF StatusHolds, CallersHold, CallerHolds
    <2>4. CallersHold'
        BY <1>2, <2>1 DEF CallersHold, CallerHolds
    <2> QED
        BY <1>1, <2>2, <2>3, <2>4
<1> QED
    BY <1>3, <1>4, <1>5

\* What the loop says of itself is so, whether a caller hears it or it writes it.
LEMMA SignalDInv ==
    ASSUME DInv, D!SignalCrashed \/ D!SignalRunning
    PROVE  DInv'
<1> USE DEF DInv, D!Goto, D!From, OutcomeHolds, D!Inside, D!Places, MutexHeld, Stopping, ServerHolds,
            Down, Raised,
            OnItsWay
<1>1. D!DNSTypeOK'
    BY SignalTypes
<1>2. /\ status \in D!Statuses
      /\ pc \in [Callers -> D!Places]
      /\ newStatus \in [Callers -> D!Statuses]
      /\ Nobody \notin Callers
    BY OwnersDistinct DEF D!DNSTypeOK, D!StateTypeOK
<1>3. ASSUME NEW st, NEW next,
             \/ st = "running" /\ next = "wait" /\ s.loop = "leak"
             \/ st = "crashed" /\ next = "retry" /\ s.loop = "crashed",
             s'.loop = next, s'.server = s.server,
             (\E c \in Callers : D!RunningFrom(c, st)) \/ D!Quiet \/ D!SetStatus(st)
      PROVE  DInv'
    <2>1. ServerHolds'
        BY <1>3
    <2>2. CASE \E c \in Callers : D!RunningFrom(c, st)
        <3>1. PICK c \in Callers : D!RunningFrom(c, st)
            BY <2>2
        <3>2. /\ pc[c] = "awaitRunning" /\ pc' = [pc EXCEPT ![c] = "setting"]
              /\ newStatus' = [newStatus EXCEPT ![c] = st]
              /\ UNCHANGED <<status, loopMu>>
            BY <3>1 DEF D!RunningFrom, D!Listening
        <3>3. MutexHeld'
            BY <1>2, <3>2
        <3>4. StatusHolds'
            BY <1>2, <1>3, <3>2 DEF StatusHolds
        <3>5. CallersHold'
            BY <1>2, <1>3, <3>2 DEF CallersHold, CallerHolds
        <3> QED
            BY <1>1, <2>1, <3>3, <3>4, <3>5
    <2>3. CASE D!Quiet
        <3>1. UNCHANGED <<status, loopMu, pc, newStatus>>
            BY <2>3 DEF D!Quiet, D!stateVars
        <3>2. MutexHeld'
            BY <3>1
        <3>3. StatusHolds'
            BY <1>3, <3>1 DEF StatusHolds
        <3>4. CallersHold'
            BY <1>3, <3>1 DEF CallersHold, CallerHolds
        <3> QED
            BY <1>1, <2>1, <3>2, <3>3, <3>4
    <2>4. CASE D!SetStatus(st)
        <3>1. status' = st /\ UNCHANGED <<loopMu, pc, newStatus>>
            BY <2>4 DEF D!SetStatus
        <3>2. MutexHeld'
            BY <3>1
        <3>3. StatusHolds'
            BY <1>3, <3>1 DEF StatusHolds
        <3>4. CallersHold'
            BY <1>3, <3>1 DEF CallersHold, CallerHolds
        <3> QED
            BY <1>1, <2>1, <3>2, <3>3, <3>4
    <2> QED
        BY <1>3, <2>2, <2>3, <2>4
<1>4. CASE D!SignalCrashed
    <2>1. /\ s.loop = "crashed" /\ s'.loop = "retry" /\ s'.server = s.server
          /\ (\E c \in Callers : D!RunningFrom(c, "crashed")) \/ D!Quiet \/ D!SetStatus("crashed")
        BY <1>4 DEF D!SignalCrashed, D!SignalOrSetStatus, D!DNSTypeOK
    <2> QED
        BY <1>3, <2>1
<1>5. CASE D!SignalRunning
    <2>1. /\ s.loop = "leak" /\ s'.loop = "wait" /\ s'.server = s.server
          /\ (\E c \in Callers : D!RunningFrom(c, "running")) \/ D!Quiet \/ D!SetStatus("running")
        BY <1>5 DEF D!SignalRunning, D!SignalOrSetStatus, D!DNSTypeOK
    <2> QED
        BY <1>3, <2>1
<1> QED
    BY <1>4, <1>5

\* The other steps of the loop say nothing, but for a failure that it takes.
LEMMA LoopDInv ==
    ASSUME D!DNSConstants, DInv,
           \/ D!NoLocalResolvers \/ D!Quit \/ D!SetUp \/ D!SetupFails \/ D!UpdateFiles \/ D!Retry
           \/ D!ServerFails \/ D!TakeError \/ D!AfterCrash
    PROVE  DInv'
<1> USE DEF DInv, D!From, OutcomeHolds, MutexHeld, Stopping, ServerHolds, Down, Raised, OnItsWay,
            D!Settled
<1>1. D!DNSTypeOK'
    BY LoopTypes
<1>2. s.loop \in Down \cup Raised \cup {"wait"}
    BY DEF D!DNSTypeOK
<1>3. CASE D!TakeError
    <2>1. /\ s.loop = "wait" /\ s.server = "failed" /\ D!Settled
          /\ status' = "crashed" /\ UNCHANGED <<loopMu, pc, newStatus>>
          /\ s'.loop = "crashWait" /\ s'.server = "none"
        BY <1>3 DEF D!TakeError, D!SetStatus, D!DNSTypeOK
    <2>2. StatusHolds'
        BY <2>1 DEF StatusHolds
    <2>3. CallersHold'
        BY <2>1 DEF CallersHold, CallerHolds
    <2> QED
        BY <1>1, <2>1, <2>2, <2>3
<1>4. ASSUME UNCHANGED <<status, loopMu, pc, newStatus>>,
             \/ s.loop \in {"waitStart", "setup"} /\ s'.loop = "done" /\ s'.server = s.server
             \/ s.loop = "wait" /\ s'.loop = "done" /\ s'.server = "none"
             \/ s.loop = "setup" /\ s'.loop = "files" /\ s'.server = "up"
             \/ s.loop = "setup" /\ s'.loop = "crashed" /\ s'.server = s.server /\ D!Settled
             \/ s.loop = "files" /\ s'.loop = "leak" /\ s'.server = s.server /\ D!Settled
             \/ /\ s.loop \in {"retry", "crashWait"} /\ s'.loop \in {"setup", "done"}
                /\ s'.server = s.server /\ D!Settled
             \/ s'.loop = s.loop /\ s.server = "up" /\ s'.server = "failed"
      PROVE  DInv'
    <2>1. ServerHolds' /\ MutexHeld'
        BY <1>4
    <2>2. StatusHolds'
        BY <1>4 DEF StatusHolds
    <2>3. CallersHold'
        BY <1>4 DEF CallersHold, CallerHolds
    <2> QED
        BY <1>1, <2>1, <2>2, <2>3
<1>5. CASE D!NoLocalResolvers \/ D!Quit
    BY <1>4, <1>5 DEF D!NoLocalResolvers, D!Quit, D!Failing, D!Quiet, D!stateVars, D!DNSTypeOK
<1>6. CASE D!SetUp \/ D!SetupFails
    BY <1>4, <1>6 DEF D!SetUp, D!SetupFails, D!Failing, D!Quiet, D!stateVars, D!DNSTypeOK
<1>7. CASE D!UpdateFiles
    BY <1>4, <1>7 DEF D!UpdateFiles, D!Failing, D!Quiet, D!stateVars, D!DNSTypeOK
<1>8. CASE D!Retry \/ D!AfterCrash
    BY <1>4, <1>8 DEF D!Retry, D!AfterCrash, D!Quiet, D!stateVars, D!DNSTypeOK
<1>9. CASE D!ServerFails
    BY <1>4, <1>9 DEF D!ServerFails, D!Failing, D!Quiet, D!stateVars, D!DNSTypeOK
<1> QED
    BY <1>3, <1>5, <1>6, <1>7, <1>8, <1>9

\* The ticker and the shutdown leave statuses and servers alone; a call begins at the mutex.
LEMMA ClientDInv ==
    ASSUME D!DNSConstants, DInv,
           \/ D!Tick \/ D!TickerQuits \/ D!EndControl \/ D!EndLoop
           \/ \E t \in Tunnels : D!TunnelUp(t) \/ D!TunnelDown(t)
           \/ \E c \in Callers \ Tunnels : D!Request(c)
    PROVE  DInv'
<1> USE DEF DInv, D!Inside, D!Places, MutexHeld
<1>1. D!DNSTypeOK'
    BY ClientTypes
<1>2. pc \in [Callers -> D!Places]
    BY DEF D!DNSTypeOK, D!StateTypeOK
<1>3. ASSUME UNCHANGED <<status, loopMu, newStatus>>, s'.loop = s.loop, s'.server = s.server,
             pc' = pc \/ \E c \in Callers : pc[c] = "idle" /\ pc' = [pc EXCEPT ![c] = "lock"]
      PROVE  DInv'
    <2>1. ServerHolds'
        BY <1>3 DEF ServerHolds
    <2>2. MutexHeld'
        BY <1>2, <1>3
    <2>3. StatusHolds'
        BY <1>2, <1>3 DEF StatusHolds, Stopping
    <2>4. CallersHold'
        BY <1>2, <1>3 DEF CallersHold, CallerHolds, OutcomeHolds
    <2> QED
        BY <1>1, <2>1, <2>2, <2>3, <2>4
<1>4. CASE D!Tick \/ D!TickerQuits \/ D!EndControl \/ D!EndLoop
    BY <1>3, <1>4 DEF D!Tick, D!TickerQuits, D!EndControl, D!EndLoop, D!Quiet, D!stateVars, D!DNSTypeOK
<1>5. ASSUME NEW t \in Tunnels, D!TunnelUp(t) \/ D!TunnelDown(t)
      PROVE  DInv'
    BY <1>3, <1>5 DEF D!TunnelUp, D!TunnelDown, D!Goto, D!DNSTypeOK, D!DNSConstants
<1>6. ASSUME NEW c \in Callers \ Tunnels, D!Request(c)
      PROVE  DInv'
    BY <1>3, <1>6 DEF D!Request, D!Call, D!Goto, D!DNSTypeOK
<1> QED
    BY <1>4, <1>5, <1>6

\* Every step keeps the invariant.
LEMMA NextDInv == ASSUME D!DNSConstants, DInv, [D!DNSNext]_<<D!stateVars, s>> PROVE DInv'
<1>1. CASE UNCHANGED <<D!stateVars, s>>
    BY <1>1 DEF D!stateVars, DInv, D!DNSTypeOK, D!StateTypeOK, ServerHolds, MutexHeld, StatusHolds,
                Stopping, CallersHold,
                CallerHolds, OutcomeHolds
<1>2. CASE D!DNSLoopStep
    BY <1>2, MeetingDInv, SignalDInv, LoopDInv DEF D!DNSLoopStep
<1>3. CASE D!Quit \/ D!ServerFails
    BY <1>3, LoopDInv
<1>4. CASE D!Tick \/ D!TickerQuits \/ D!EndControl \/ D!EndLoop
    BY <1>4, ClientDInv
<1>5. CASE \E t \in Tunnels : D!TunnelUp(t) \/ D!TunnelDown(t)
    BY <1>5, ClientDInv
<1>6. CASE \E c \in Callers \ Tunnels : D!Request(c)
    BY <1>6, ClientDInv
<1>7. CASE \E c \in Callers : D!CallerStep(c) /\ UNCHANGED s
    BY <1>7, CallerDInv
<1> QED
    BY <1>1, <1>2, <1>3, <1>4, <1>5, <1>6, <1>7 DEF D!DNSNext

\* So it holds in every state.
LEMMA AlwaysDInv == ASSUME D!DNSConstants PROVE D!DNSSpec => []DInv
<1>1. D!DNSInit => DInv
    BY InitDInv
<1>2. DInv /\ [D!DNSNext]_<<D!stateVars, s>> => DInv'
    BY NextDInv
<1> QED
    BY <1>1, <1>2, PTL DEF D!DNSSpec

\* What the invariant says of the statuses that clients read.
LEMMA DNSStatusFollows == DInv => D!DNSStatusTrue
  BY DEF DInv, D!DNSStatusTrue, D!DNSTypeOK, ServerHolds, StatusHolds, Down, Raised, OnItsWay,
         CallersHold, CallerHolds,
           Stopping, MutexHeld

(* A client that reads "stopped" finds no DNS server, and one that reads       *)
(* "running" finds one, or is about to be told of a stop: for any tunnels and    *)
(* handlers, although the loop writes its status without the mutex of            *)
(* ApplyStatus (internal/dns/run.go, loopstate/apply.go).                    *)
THEOREM StatusTrue == ASSUME D!DNSConstants PROVE D!DNSSpec => []D!DNSStatusTrue
BY DNSStatusFollows, AlwaysDInv, PTL

\* The types of the DNS loop, its callers and its ticker (internal/dns, internal/loopstate).
THEOREM DNSTypeCorrect == ASSUME D!DNSConstants PROVE D!DNSSpec => []D!DNSTypeOK
<1>1. DInv => D!DNSTypeOK
    BY DEF DInv
<1> QED
    BY <1>1, AlwaysDInv, PTL

(***************************************************************************)
(* The updater loop for any number of clients, calls and failures: updates    *)
(* follow one another, and without a ticker "stopped" and "completed" mean     *)
(* that there is none.                                                      *)
(***************************************************************************)

\* The places in SetStatus where a client holds loopLock, and the statuses of a loop at rest.
Locked == {"sendStart", "awaitRunning", "sendStop", "awaitStopped", "wantResult"}
Idle == {"stopped", "completed"}

\* Between two updates the goroutine of the first is over.
JobOver ==
    s.loop \in {"waitStart", "top", "stopAck", "crashed", "backoff", "done"} => s.job = "none"

\* A client at one of these places is the one that holds the mutex.
LocksHeld ==
    \A c \in Handlers :
        /\ s.pc[c] \in Locked => s.loopLock = c
        /\ s.pc[c] = "wantLoop" => s.statusMu = c

(* What is true without a ticker: at rest there is no update, and the loop is not  *)
(* about to begin one; a client that starts or stops the loop finds it so at each *)
(* of its places.                                                           *)
AtRest ==
    s.ticker = "off" =>
        /\ s.status \in Idle =>
              s.job = "none" /\ s.loop \notin {"startJoin", "top", "crashed", "backoff"}
        /\ s.loop = "startJoin" => s.job = "none"
        /\ \A c \in Handlers :
              /\ s.pc[c] = "wantLoop" /\ s.want[c] = "running" => s.status \in Idle
              /\ s.pc[c] = "sendStart" =>
                    /\ s.job = "none" /\ s.status \notin Idle
                    /\ s.loop \notin {"startJoin", "top", "crashed", "backoff"}
              /\ s.pc[c] = "wantResult" =>
                    /\ s.answer[c] # "completed"
                    /\ s.answer[c] = "stopped" =>
                          s.job = "none" /\ s.loop \in {"select", "quitJoin", "done"}

UInv == U!UpdaterTypeOK /\ JobOver /\ LocksHeld /\ AtRest
\* Nothing is going on at the start.
LEMMA InitUInv == U!UpdaterConstants /\ U!UpdaterInit => UInv
  BY DEF U!UpdaterConstants, U!UpdaterInit, UInv, U!UpdaterTypeOK, U!Statuses, U!Places, JobOver,
         LocksHeld,
         Locked, AtRest, Idle

\* A request, its wait for statusMu and its return, and a caller that leaves its select.
LEMMA CallUInv ==
  ASSUME U!UpdaterConstants, UInv, NEW c \in Handlers,
         U!Request(c) \/ U!LockStatus(c) \/ U!DropOut(c)
  PROVE  UInv'
  <1> USE DEF U!UpdaterConstants, UInv, U!UpdaterTypeOK, U!Statuses, U!Places
  <1>1. CASE U!Request(c)
    <2>1. PICK w \in {"running", "stopped"}, again \in BOOLEAN :
             /\ s.pc[c] = "idle" /\ s.calls < UpdaterCalls
             /\ s' = [s EXCEPT !.pc[c] = "wantStatus", !.want[c] = w, !.again[c] = again,
                                 !.calls = s.calls + 1]
      BY <1>1 DEF U!Request
    <2>2. U!UpdaterTypeOK'
      <3>1. s.calls + 1 \in 0..UpdaterCalls
        BY <2>1
      <3>2. QED
        BY <2>1, <3>1
    <2>3. JobOver'
      BY <2>1 DEF JobOver
    <2>4. LocksHeld'
      BY <2>1 DEF LocksHeld, Locked
    <2>5. AtRest'
      BY <2>1 DEF AtRest, Idle, JobOver, LocksHeld, Locked
    <2>6. QED
      BY <2>2, <2>3, <2>4, <2>5
  <1>2. CASE U!LockStatus(c)
    <2>1. \/ /\ s.pc[c] = "wantStatus" /\ s.statusMu = Free /\ (s.want[c] = "running" => s.status \in Idle)
             /\ s' = [s EXCEPT !.pc[c] = "wantLoop", !.statusMu = c]
          \/ \E place \in {"idle", "wantStatus"} :
                /\ s.pc[c] = "wantStatus"
                /\ s' = [s EXCEPT !.pc[c] = place, !.want[c] = "running", !.again[c] = FALSE,
                                    !.answer[c] = "stopped"]
      BY <1>2 DEF U!LockStatus, U!Returned, U!Starts, U!Stops, Idle
    <2>2. CASE /\ s.pc[c] = "wantStatus" /\ s.statusMu = Free /\ (s.want[c] = "running" => s.status \in Idle)
               /\ s' = [s EXCEPT !.pc[c] = "wantLoop", !.statusMu = c]
      <3>1. U!UpdaterTypeOK'
        BY <2>2
      <3>2. JobOver'
        BY <2>2 DEF JobOver
      <3>3. LocksHeld'
        BY <2>2 DEF LocksHeld, Locked
      <3>4. AtRest'
        BY <2>2 DEF AtRest, Idle, JobOver, LocksHeld, Locked
      <3>5. QED
        BY <3>1, <3>2, <3>3, <3>4
    <2>3. ASSUME NEW place \in {"idle", "wantStatus"},
                 s.pc[c] = "wantStatus",
                 s' = [s EXCEPT !.pc[c] = place, !.want[c] = "running", !.again[c] = FALSE,
                                  !.answer[c] = "stopped"]
          PROVE  UInv'
      <3>1. U!UpdaterTypeOK'
        <4>1. /\ [s.pc EXCEPT ![c] = place] \in [Handlers -> U!Places]
              /\ [s.want EXCEPT ![c] = "running"] \in [Handlers -> {"running", "stopped"}]
              /\ [s.again EXCEPT ![c] = FALSE] \in [Handlers -> BOOLEAN]
              /\ [s.answer EXCEPT ![c] = "stopped"] \in [Handlers -> U!Statuses]
              /\ s.answer[c] \in U!Statuses
          OBVIOUS
        <4>2. QED
          BY <2>3, <4>1
      <3>2. JobOver'
        BY <2>3 DEF JobOver
      <3>3. LocksHeld'
        BY <2>3 DEF LocksHeld, Locked
      <3>4. AtRest'
        BY <2>3 DEF AtRest, Idle, JobOver, LocksHeld, Locked
      <3>5. QED
        BY <3>1, <3>2, <3>3, <3>4
    <2>4. QED
      BY <2>1, <2>2, <2>3
  <1>3. CASE U!DropOut(c)
    <2>1. \/ /\ s.pc[c] = "awaitRunning"
             /\ s' = [s EXCEPT !.pc[c] = "wantResult", !.answer[c] = "starting"]
          \/ /\ s.pc[c] = "awaitStopped"
             /\ s' = [s EXCEPT !.pc[c] = "wantResult", !.answer[c] = "stopping"]
      BY <1>3 DEF U!DropOut
    <2>2. CASE /\ s.pc[c] = "awaitRunning"
               /\ s' = [s EXCEPT !.pc[c] = "wantResult", !.answer[c] = "starting"]
      <3>1. U!UpdaterTypeOK'
        BY <2>2
      <3>2. JobOver'
        BY <2>2 DEF JobOver
      <3>3. LocksHeld'
        BY <2>2 DEF LocksHeld, Locked
      <3>4. AtRest'
        BY <2>2 DEF AtRest, Idle, JobOver, LocksHeld, Locked
      <3>5. QED
        BY <3>1, <3>2, <3>3, <3>4
    <2>3. CASE /\ s.pc[c] = "awaitStopped"
               /\ s' = [s EXCEPT !.pc[c] = "wantResult", !.answer[c] = "stopping"]
      <3>1. U!UpdaterTypeOK'
        BY <2>3
      <3>2. JobOver'
        BY <2>3 DEF JobOver
      <3>3. LocksHeld'
        BY <2>3 DEF LocksHeld, Locked
      <3>4. AtRest'
        BY <2>3 DEF AtRest, Idle, JobOver, LocksHeld, Locked
      <3>5. QED
        BY <3>1, <3>2, <3>3, <3>4
    <2>4. QED
      BY <2>1, <2>2, <2>3
  <1>4. QED
    BY <1>1, <1>2, <1>3

\* The two writes of the status by a client, each with a mutex it holds.
LEMMA LockUInv ==
  ASSUME U!UpdaterConstants, UInv, NEW c \in Handlers, U!LockLoop(c) \/ U!Finish(c)
  PROVE  UInv'
  <1> USE DEF U!UpdaterConstants, UInv, U!UpdaterTypeOK, U!Statuses, U!Places
  <1>1. CASE U!LockLoop(c)
    <2>1. \/ /\ s.pc[c] = "wantLoop" /\ s.loopLock = Free /\ s.want[c] = "running"
             /\ s' = [s EXCEPT !.loopLock = c, !.statusMu = Free, !.status = "starting",
                                 !.pc[c] = "sendStart"]
          \/ /\ s.pc[c] = "wantLoop" /\ s.loopLock = Free /\ s.want[c] # "running"
             /\ s' = [s EXCEPT !.loopLock = c, !.statusMu = Free, !.status = "stopping",
                                 !.pc[c] = "sendStop"]
      BY <1>1 DEF U!LockLoop
    <2>2. CASE /\ s.pc[c] = "wantLoop" /\ s.loopLock = Free /\ s.want[c] = "running"
               /\ s' = [s EXCEPT !.loopLock = c, !.statusMu = Free, !.status = "starting",
                                   !.pc[c] = "sendStart"]
      <3>1. U!UpdaterTypeOK'
        BY <2>2
      <3>2. JobOver'
        BY <2>2 DEF JobOver
      <3>3. LocksHeld'
        BY <2>2 DEF LocksHeld, Locked
      <3>4. AtRest'
        BY <2>2 DEF AtRest, Idle, JobOver, LocksHeld, Locked
      <3>5. QED
        BY <3>1, <3>2, <3>3, <3>4
    <2>3. CASE /\ s.pc[c] = "wantLoop" /\ s.loopLock = Free /\ s.want[c] # "running"
               /\ s' = [s EXCEPT !.loopLock = c, !.statusMu = Free, !.status = "stopping",
                                   !.pc[c] = "sendStop"]
      <3>1. U!UpdaterTypeOK'
        BY <2>3
      <3>2. JobOver'
        BY <2>3 DEF JobOver
      <3>3. LocksHeld'
        BY <2>3 DEF LocksHeld, Locked
      <3>4. AtRest'
        BY <2>3 DEF AtRest, Idle, JobOver, LocksHeld, Locked
      <3>5. QED
        BY <3>1, <3>2, <3>3, <3>4
    <2>4. QED
      BY <2>1, <2>2, <2>3
  <1>2. CASE U!Finish(c)
    <2>1. PICK place \in {"idle", "wantStatus"} :
             /\ s.pc[c] = "wantResult" /\ s.statusMu = Free
             /\ s' = [s EXCEPT !.status = s.answer[c], !.loopLock = Free, !.pc[c] = place,
                                 !.want[c] = "running", !.again[c] = FALSE, !.answer[c] = "stopped"]
      BY <1>2 DEF U!Finish, U!Returned
    <2>2. U!UpdaterTypeOK'
      <3>1. /\ [s.pc EXCEPT ![c] = place] \in [Handlers -> U!Places]
            /\ [s.want EXCEPT ![c] = "running"] \in [Handlers -> {"running", "stopped"}]
            /\ [s.again EXCEPT ![c] = FALSE] \in [Handlers -> BOOLEAN]
            /\ [s.answer EXCEPT ![c] = "stopped"] \in [Handlers -> U!Statuses]
            /\ s.answer[c] \in U!Statuses
        OBVIOUS
      <3>2. QED
        BY ZenonT(60), <2>1, <3>1
    <2>3. JobOver'
      BY <2>1 DEF JobOver
    <2>4. LocksHeld'
      BY <2>1 DEF LocksHeld, Locked
    <2>5. AtRest'
      BY <2>1 DEF AtRest, Idle, JobOver, LocksHeld, Locked
    <2>6. QED
      BY <2>2, <2>3, <2>4, <2>5
  <1>3. QED
    BY <1>1, <1>2

\* The loop meets a client, or the ticker.
LEMMA MeetUInv ==
  ASSUME U!UpdaterConstants, UInv, U!TakeStart \/ U!Announce \/ \E c \in Handlers : U!TakeStop(c) \/ U!StopAck(c)
  PROVE  UInv'
  <1> USE DEF U!UpdaterConstants, UInv, U!UpdaterTypeOK, U!Statuses, U!Places
  <1>1. CASE U!TakeStart
    <2>1. \/ \E c \in Handlers :
                /\ s.loop = "waitStart" /\ s.pc[c] = "sendStart"
                /\ s' = [s EXCEPT !.loop = "top", !.pc[c] = "awaitRunning"]
          \/ \E c \in Handlers :
                /\ s.loop = "select" /\ s.pc[c] = "sendStart"
                /\ s' = [s EXCEPT !.loop = "startJoin", !.cancelled = TRUE, !.pc[c] = "awaitRunning"]
          \/ /\ s.loop = "waitStart" /\ s.ticker = "tick"
             /\ s' = [s EXCEPT !.loop = "top", !.ticker = "wait"]
          \/ /\ s.loop = "select" /\ s.ticker = "tick"
             /\ s' = [s EXCEPT !.loop = "startJoin", !.cancelled = TRUE, !.ticker = "wait"]
      BY <1>1 DEF U!TakeStart
    <2>2. ASSUME NEW c \in Handlers,
                 s.loop = "waitStart" /\ s.pc[c] = "sendStart",
                 s' = [s EXCEPT !.loop = "top", !.pc[c] = "awaitRunning"]
          PROVE  UInv'
      <3>1. U!UpdaterTypeOK'
        BY <2>2
      <3>2. JobOver'
        BY <2>2 DEF JobOver
      <3>3. LocksHeld'
        BY <2>2 DEF LocksHeld, Locked
      <3>4. AtRest'
        BY <2>2 DEF AtRest, Idle, JobOver, LocksHeld, Locked
      <3>5. QED
        BY <3>1, <3>2, <3>3, <3>4
    <2>3. ASSUME NEW c \in Handlers,
                 s.loop = "select" /\ s.pc[c] = "sendStart",
                 s' = [s EXCEPT !.loop = "startJoin", !.cancelled = TRUE, !.pc[c] = "awaitRunning"]
          PROVE  UInv'
      <3>1. U!UpdaterTypeOK'
        BY <2>3
      <3>2. JobOver'
        BY <2>3 DEF JobOver
      <3>3. LocksHeld'
        BY <2>3 DEF LocksHeld, Locked
      <3>4. AtRest'
        BY <2>3 DEF AtRest, Idle, JobOver, LocksHeld, Locked
      <3>5. QED
        BY <3>1, <3>2, <3>3, <3>4
    <2>4. CASE /\ s.loop = "waitStart" /\ s.ticker = "tick"
               /\ s' = [s EXCEPT !.loop = "top", !.ticker = "wait"]
      <3>1. QED
        BY ZenonT(60), <2>4 DEF JobOver, LocksHeld, Locked, AtRest, Idle
    <2>5. CASE /\ s.loop = "select" /\ s.ticker = "tick"
               /\ s' = [s EXCEPT !.loop = "startJoin", !.cancelled = TRUE, !.ticker = "wait"]
      <3>1. QED
        BY ZenonT(60), <2>5 DEF JobOver, LocksHeld, Locked, AtRest, Idle
    <2>6. QED
      BY <2>1, <2>2, <2>3, <2>4, <2>5
  <1>2. CASE U!Announce
    <2>1. \/ /\ s.loop = "announce" /\ s.statusMu = Free
             /\ s' = [s EXCEPT !.loop = "select", !.status = "running"]
          \/ \E c \in Handlers :
                /\ s.loop = "announce" /\ s.pc[c] = "awaitRunning"
                /\ s' = [s EXCEPT !.loop = "select", !.pc[c] = "wantResult", !.answer[c] = "running"]
      BY <1>2 DEF U!Announce, U!SetStatus
    <2>2. CASE /\ s.loop = "announce" /\ s.statusMu = Free
               /\ s' = [s EXCEPT !.loop = "select", !.status = "running"]
      <3>1. U!UpdaterTypeOK'
        BY <2>2
      <3>2. JobOver'
        BY <2>2 DEF JobOver
      <3>3. LocksHeld'
        BY <2>2 DEF LocksHeld, Locked
      <3>4. AtRest'
        BY <2>2 DEF AtRest, Idle, JobOver, LocksHeld, Locked
      <3>5. QED
        BY <3>1, <3>2, <3>3, <3>4
    <2>3. ASSUME NEW c \in Handlers,
                 s.loop = "announce" /\ s.pc[c] = "awaitRunning",
                 s' = [s EXCEPT !.loop = "select", !.pc[c] = "wantResult", !.answer[c] = "running"]
          PROVE  UInv'
      <3>1. U!UpdaterTypeOK'
        BY <2>3
      <3>2. JobOver'
        BY <2>3 DEF JobOver
      <3>3. LocksHeld'
        BY <2>3 DEF LocksHeld, Locked
      <3>4. AtRest'
        BY <2>3 DEF AtRest, Idle, JobOver, LocksHeld, Locked
      <3>5. QED
        BY <3>1, <3>2, <3>3, <3>4
    <2>4. QED
      BY <2>1, <2>2, <2>3
  <1>3. CASE \E c \in Handlers : U!TakeStop(c)
    <2>1. PICK c \in Handlers :
             /\ s.loop = "select" /\ s.pc[c] = "sendStop"
             /\ s' = [s EXCEPT !.loop = "stopJoin", !.pc[c] = "awaitStopped", !.cancelled = TRUE]
      BY <1>3 DEF U!TakeStop
    <2>2. U!UpdaterTypeOK'
      BY <2>1
    <2>3. JobOver'
      BY <2>1 DEF JobOver
    <2>4. LocksHeld'
      BY <2>1 DEF LocksHeld, Locked
    <2>5. AtRest'
      BY <2>1 DEF AtRest, Idle, JobOver, LocksHeld, Locked
    <2>6. QED
      BY <2>2, <2>3, <2>4, <2>5
  <1>4. CASE \E c \in Handlers : U!StopAck(c)
    <2>1. PICK c \in Handlers :
             /\ s.loop = "stopAck" /\ s.pc[c] = "awaitStopped"
             /\ s' = [s EXCEPT !.loop = "select", !.pc[c] = "wantResult", !.answer[c] = "stopped"]
      BY <1>4 DEF U!StopAck
    <2>2. U!UpdaterTypeOK'
      BY <2>1
    <2>3. JobOver'
      BY <2>1 DEF JobOver
    <2>4. LocksHeld'
      BY <2>1 DEF LocksHeld, Locked
    <2>5. AtRest'
      BY <2>1 DEF AtRest, Idle, JobOver, LocksHeld, Locked
    <2>6. QED
      BY <2>2, <2>3, <2>4, <2>5
  <1>5. QED
    BY <1>1, <1>2, <1>3, <1>4

\* The loop goes on by itself.
LEMMA LoopUInv ==
  ASSUME U!UpdaterConstants, UInv, U!StartJoin \/ U!Launch \/ U!StopJoin \/ U!TakeError \/ U!SetCrashed \/ U!Backoff \/ U!Quit
  PROVE  UInv'
  <1> USE DEF U!UpdaterConstants, UInv, U!UpdaterTypeOK, U!Statuses, U!Places
  <1>1. CASE U!StartJoin
    <2>1. QED
      BY <1>1 DEF U!StartJoin, JobOver, LocksHeld, Locked, AtRest, Idle
  <1>2. CASE U!Launch
    <2>1. U!UpdaterTypeOK'
      BY <1>2 DEF U!Launch
    <2>2. JobOver'
      BY <1>2 DEF U!Launch, JobOver
    <2>3. LocksHeld'
      BY <1>2 DEF U!Launch, LocksHeld, Locked
    <2>4. AtRest'
      BY <1>2 DEF U!Launch, AtRest, Idle, JobOver, LocksHeld, Locked
    <2>5. QED
      BY <2>1, <2>2, <2>3, <2>4
  <1>3. CASE U!StopJoin
    <2>1. QED
      BY <1>3 DEF U!StopJoin, JobOver, LocksHeld, Locked, AtRest, Idle
  <1>4. CASE U!TakeError
    <2>1. U!UpdaterTypeOK'
      BY <1>4 DEF U!TakeError
    <2>2. JobOver'
      BY <1>4 DEF U!TakeError, JobOver
    <2>3. LocksHeld'
      BY <1>4 DEF U!TakeError, LocksHeld, Locked
    <2>4. AtRest'
      BY <1>4 DEF U!TakeError, AtRest, Idle, JobOver, LocksHeld, Locked
    <2>5. QED
      BY <2>1, <2>2, <2>3, <2>4
  <1>5. CASE U!SetCrashed
    <2>1. U!UpdaterTypeOK'
      BY ZenonT(60), <1>5 DEF U!SetCrashed, U!SetStatus
    <2>2. JobOver'
      BY <1>5 DEF U!SetCrashed, U!SetStatus, JobOver
    <2>3. LocksHeld'
      BY <1>5 DEF U!SetCrashed, U!SetStatus, LocksHeld, Locked
    <2>4. AtRest'
      BY <1>5 DEF U!SetCrashed, U!SetStatus, AtRest, Idle, JobOver, LocksHeld, Locked
    <2>5. QED
      BY <2>1, <2>2, <2>3, <2>4
  <1>6. CASE U!Backoff
    <2>1. U!UpdaterTypeOK'
      BY <1>6 DEF U!Backoff
    <2>2. JobOver'
      BY <1>6 DEF U!Backoff, JobOver
    <2>3. LocksHeld'
      BY <1>6 DEF U!Backoff, LocksHeld, Locked
    <2>4. AtRest'
      BY <1>6 DEF U!Backoff, AtRest, Idle, JobOver, LocksHeld, Locked
    <2>5. QED
      BY <2>1, <2>2, <2>3, <2>4
  <1>7. CASE U!Quit
    <2>1. \/ /\ s.loop \in {"waitStart", "top"}
             /\ s' = [s EXCEPT !.loop = "done"]
          \/ /\ s.loop = "select"
             /\ s' = [s EXCEPT !.loop = "quitJoin", !.cancelled = TRUE]
          \/ /\ s.loop = "quitJoin" /\ s.job = "none"
             /\ s' = [s EXCEPT !.loop = "done"]
      BY <1>7 DEF U!Quit
    <2>2. CASE /\ s.loop \in {"waitStart", "top"}
               /\ s' = [s EXCEPT !.loop = "done"]
      <3>1. QED
        BY <2>2 DEF JobOver, LocksHeld, Locked, AtRest, Idle
    <2>3. CASE /\ s.loop = "select"
               /\ s' = [s EXCEPT !.loop = "quitJoin", !.cancelled = TRUE]
      <3>1. U!UpdaterTypeOK'
        BY <2>3
      <3>2. JobOver'
        BY <2>3 DEF JobOver
      <3>3. LocksHeld'
        BY <2>3 DEF LocksHeld, Locked
      <3>4. AtRest'
        BY <2>3 DEF AtRest, Idle, JobOver, LocksHeld, Locked
      <3>5. QED
        BY <3>1, <3>2, <3>3, <3>4
    <2>4. CASE /\ s.loop = "quitJoin" /\ s.job = "none"
               /\ s' = [s EXCEPT !.loop = "done"]
      <3>1. QED
        BY <2>4 DEF JobOver, LocksHeld, Locked, AtRest, Idle
    <2>5. QED
      BY <2>1, <2>2, <2>3, <2>4
  <1>8. QED
    BY <1>1, <1>2, <1>3, <1>4, <1>5, <1>6, <1>7

\* The update ends, the ticker ticks, and the contexts end.
LEMMA JobUInv ==
  ASSUME U!UpdaterConstants, UInv, U!JobStep \/ U!Tick \/ U!EndClients \/ U!EndLoop
  PROVE  UInv'
  <1> USE DEF U!UpdaterConstants, UInv, U!UpdaterTypeOK, U!Statuses, U!Places
  <1>1. CASE U!Succeeds
    <2>1. QED
      BY <1>1 DEF U!Succeeds, JobOver, LocksHeld, Locked, AtRest, Idle
  <1>2. CASE U!Complete
    <2>1. U!UpdaterTypeOK'
      BY ZenonT(60), <1>2 DEF U!Complete, U!SetStatus
    <2>2. JobOver'
      BY <1>2 DEF U!Complete, U!SetStatus, JobOver
    <2>3. LocksHeld'
      BY <1>2 DEF U!Complete, U!SetStatus, LocksHeld, Locked
    <2>4. AtRest'
      BY <1>2 DEF U!Complete, U!SetStatus, AtRest, Idle, JobOver, LocksHeld, Locked
    <2>5. QED
      BY <2>1, <2>2, <2>3, <2>4
  <1>3. CASE U!Fails
    <2>1. \/ /\ s.job = "work"
             /\ s' = [s EXCEPT !.job = "none"]
          \/ /\ s.job = "work" /\ s.faults < UpdaterFaults
             /\ s' = [s EXCEPT !.job = "report", !.faults = s.faults + 1]
      BY <1>3 DEF U!Fails
    <2>2. CASE /\ s.job = "work"
               /\ s' = [s EXCEPT !.job = "none"]
      <3>1. QED
        BY <2>2 DEF JobOver, LocksHeld, Locked, AtRest, Idle
    <2>3. CASE /\ s.job = "work" /\ s.faults < UpdaterFaults
               /\ s' = [s EXCEPT !.job = "report", !.faults = s.faults + 1]
      <3>1. U!UpdaterTypeOK'
        <4>1. s.faults + 1 \in 0..UpdaterFaults
          BY <2>3
        <4>2. QED
          BY <2>3, <4>1
      <3>2. JobOver'
        BY <2>3 DEF JobOver
      <3>3. LocksHeld'
        BY <2>3 DEF LocksHeld, Locked
      <3>4. AtRest'
        BY <2>3 DEF AtRest, Idle, JobOver, LocksHeld, Locked
      <3>5. QED
        BY <3>1, <3>2, <3>3, <3>4
    <2>4. QED
      BY <2>1, <2>2, <2>3
  <1>4. CASE U!Tick
    <2>1. /\ s.ticker = "wait" /\ s.calls < UpdaterCalls
          /\ s' = [s EXCEPT !.ticker = "tick", !.calls = s.calls + 1]
      BY <1>4 DEF U!Tick
    <2>2. U!UpdaterTypeOK'
      <3>1. s.calls + 1 \in 0..UpdaterCalls
        BY <2>1
      <3>2. QED
        BY <2>1, <3>1
    <2>3. JobOver'
      BY <2>1 DEF JobOver
    <2>4. LocksHeld'
      BY <2>1 DEF LocksHeld, Locked
    <2>5. AtRest'
      BY <2>1 DEF AtRest, Idle, JobOver, LocksHeld, Locked
    <2>6. QED
      BY <2>2, <2>3, <2>4, <2>5
  <1>5. CASE U!EndClients
    <2>1. \/ /\ s.ticker = "wait"
             /\ s' = [s EXCEPT !.over = TRUE, !.ticker = "done"]
          \/ /\ s' = [s EXCEPT !.over = TRUE]
      BY <1>5 DEF U!EndClients
    <2>2. CASE /\ s.ticker = "wait"
               /\ s' = [s EXCEPT !.over = TRUE, !.ticker = "done"]
      <3>1. QED
        BY ZenonT(60), <2>2 DEF JobOver, LocksHeld, Locked, AtRest, Idle
    <2>3. CASE /\ s' = [s EXCEPT !.over = TRUE]
      <3>1. U!UpdaterTypeOK'
        BY <2>3
      <3>2. JobOver'
        BY <2>3 DEF JobOver
      <3>3. LocksHeld'
        BY <2>3 DEF LocksHeld, Locked
      <3>4. AtRest'
        BY <2>3 DEF AtRest, Idle, JobOver, LocksHeld, Locked
      <3>5. QED
        BY <3>1, <3>2, <3>3, <3>4
    <2>4. QED
      BY <2>1, <2>2, <2>3
  <1>6. CASE U!EndLoop
    <2>1. U!UpdaterTypeOK'
      BY <1>6 DEF U!EndLoop
    <2>2. JobOver'
      BY <1>6 DEF U!EndLoop, JobOver
    <2>3. LocksHeld'
      BY <1>6 DEF U!EndLoop, LocksHeld, Locked
    <2>4. AtRest'
      BY <1>6 DEF U!EndLoop, AtRest, Idle, JobOver, LocksHeld, Locked
    <2>5. QED
      BY <2>1, <2>2, <2>3, <2>4
  <1>7. QED
    BY <1>1, <1>2, <1>3, <1>4, <1>5, <1>6 DEF U!JobStep

\* Every step keeps the invariant.
LEMMA NextUInv == ASSUME U!UpdaterConstants, UInv, [U!UpdaterNext]_s PROVE UInv'
  <1>1. CASE UNCHANGED s
    BY <1>1 DEF UInv, U!UpdaterTypeOK, JobOver, LocksHeld, AtRest
  <1>2. CASE U!UpdaterNext
    BY <1>2, CallUInv, LockUInv, MeetUInv, LoopUInv, JobUInv
    DEF U!UpdaterNext, U!UpdaterLoopStep, U!ClientStep
  <1>3. QED
    BY <1>1, <1>2

(* An update begins only when the one before has ended, for any number of clients,  *)
(* failures and ticks (updater/loop/loop.go, runWg and errorCh).              *)
THEOREM OneUpdateAtATime == ASSUME U!UpdaterConstants PROVE U!UpdaterSpec => []U!OneUpdate
  <1>1. U!UpdaterInit => UInv
    BY InitUInv
  <1>2. UInv /\ [U!UpdaterNext]_s => UInv'
    BY NextUInv
  <1>3. UInv => U!OneUpdate
    BY DEF UInv, JobOver, U!OneUpdate
  <1>4. QED
    BY <1>1, <1>2, <1>3, PTL DEF U!UpdaterSpec

(* Without a ticker, "stopped" and "completed" are shown only while no update goes on, *)
(* though the status is written by clients, the loop and the update, each under a  *)
(* mutex of its own or of another (updater/loop/state.go, loop.go).           *)
THEOREM IdleIsIdle == ASSUME U!UpdaterConstants PROVE U!UpdaterSpec => []U!IdleMeansIdle
  <1>1. U!UpdaterInit => UInv
    BY InitUInv
  <1>2. UInv /\ [U!UpdaterNext]_s => UInv'
    BY NextUInv
  <1>3. UInv => U!IdleMeansIdle
    BY DEF UInv, AtRest, Idle, U!IdleMeansIdle
  <1>4. QED
    BY <1>1, <1>2, <1>3, PTL DEF U!UpdaterSpec

(* The type invariant, for any number of clients, calls and failures (updater/loop).   *)
THEOREM UpdaterTypeCorrect == ASSUME U!UpdaterConstants PROVE U!UpdaterSpec => []U!UpdaterTypeOK
  <1>1. U!UpdaterInit => UInv
    BY InitUInv
  <1>2. UInv /\ [U!UpdaterNext]_s => UInv'
    BY NextUInv
  <1>3. UInv => U!UpdaterTypeOK
    BY DEF UInv
  <1>4. QED
    BY <1>1, <1>2, <1>3, PTL DEF U!UpdaterSpec

(***************************************************************************)
(* The HTTP proxy.                                                         *)
(***************************************************************************)

\* The fields of the record and their types, for the provers.
ProxyFields ==
    s \in [loop : {"waitStart", "signal", "done"},
           server : {"none", "listening", "draining", "reporting"},
           quit : BOOLEAN, password : BOOLEAN, kind : [Requests -> H!Kinds \cup {H!NoKind}],
           at : [Requests -> H!Places], counted : SUBSET Requests, faults : 0..ProxyFaults]

HInv == H!HTTPProxyTypeOK /\ ProxyFields /\ H!ForwardedIfAuthorized

\* What isAuthorized lets through to a destination has the credentials, if any are set.
LEMMA AuthorizedHasCredentials ==
  ASSUME NEW k \in H!Kinds, s.password, H!IsAuthorized(k), k.method = "CONNECT" \/ k.url = "http"
  PROVE  k.credentials = "right"
  BY DEF H!IsAuthorized

\* There is no request at the start.
LEMMA InitHInv == H!HTTPProxyConstants /\ H!HTTPProxyInit => HInv
  BY DEF H!HTTPProxyConstants, H!HTTPProxyInit, HInv, H!HTTPProxyTypeOK, ProxyFields,
         H!ForwardedIfAuthorized, H!Places

\* A failure that may happen is within the bound.
LEMMA OneMoreFault == ASSUME H!HTTPProxyConstants, HInv, H!CanFail PROVE s.faults + 1 \in 0..ProxyFaults
  <1>1. s.faults \in 0..ProxyFaults /\ ProxyFaults \in Nat /\ s.faults < ProxyFaults
    BY DEF HInv, ProxyFields, H!HTTPProxyConstants, H!CanFail
  <1>2. QED
    BY <1>1

\* The loop and the server move no request.
LEMMA ServerHInv ==
  ASSUME H!HTTPProxyConstants, HInv, H!Quit \/ H!StopsListening \/ H!Drained \/ H!Cancel
  PROVE  HInv'
  <1>1. /\ s'.at = s.at /\ s'.kind = s.kind /\ s'.counted = s.counted /\ s'.password = s.password
        /\ s'.loop \in {"waitStart", "signal", "done"}
        /\ s'.server \in {"none", "listening", "draining", "reporting"}
        /\ s'.quit \in BOOLEAN /\ s'.faults \in 0..ProxyFaults
        /\ ProxyFields'
    <2> USE DEF HInv, ProxyFields, H!HTTPProxyConstants
    <2>1. CASE H!Quit
      BY <2>1 DEF H!Quit
    <2>2. CASE H!StopsListening
      <3>1. CASE s' = [s EXCEPT !.server = "draining"]
        BY <3>1
      <3>2. CASE H!CanFail /\ s' = H!Failing([s EXCEPT !.server = "draining"])
        <4>1. s' = [[s EXCEPT !.server = "draining"] EXCEPT !.faults = s.faults + 1]
          BY <3>2 DEF H!Failing
        <4>2. QED
          BY <3>2, <4>1, OneMoreFault
      <3>3. QED
        BY <2>2, <3>1, <3>2 DEF H!StopsListening
    <2>3. CASE H!Drained
      BY <2>3 DEF H!Drained
    <2>4. CASE H!Cancel
      BY <2>4 DEF H!Cancel
    <2>5. QED
      BY <2>1, <2>2, <2>3, <2>4
  <1>2. QED
    BY <1>1 DEF HInv, ProxyFields, H!HTTPProxyTypeOK, H!ForwardedIfAuthorized

(* What a step of a request does: the request r goes to a place, with its kind,  *)
(* and is counted exactly when it is joined.                                *)
Moved(r, place, kind) ==
    /\ s' \in [loop : {"waitStart", "signal", "done"},
               server : {"none", "listening", "draining", "reporting"},
               quit : BOOLEAN, password : BOOLEAN, kind : [Requests -> H!Kinds \cup {H!NoKind}],
               at : [Requests -> H!Places], counted : SUBSET Requests, faults : 0..ProxyFaults]
    /\ s'.password = s.password
    /\ s'.at = [s.at EXCEPT ![r] = place]
    /\ s'.kind = [s.kind EXCEPT ![r] = kind]
    /\ s'.counted = IF place = "joined" THEN s.counted \cup {r} ELSE s.counted \ {r}

\* A move to a place where the request must be authorized, if it is.
LEMMA MovedHInv ==
  ASSUME HInv, NEW r \in Requests, NEW place \in H!Places \ {"none"},
         NEW kind \in H!Kinds \cup {H!NoKind},
         Moved(r, place, kind),
         kind \in IF place = "closed" THEN {H!NoKind} ELSE H!Kinds,
         place \in {"dialled", "joined", "forwarded"} /\ s.password => kind.credentials = "right"
  PROVE  HInv'
  <1>1. ProxyFields'
    BY DEF Moved, ProxyFields
  <1>2. H!HTTPProxyTypeOK'
    BY DEF Moved, HInv, ProxyFields, H!HTTPProxyTypeOK, H!Places
  <1>3. H!ForwardedIfAuthorized'
    BY DEF Moved, HInv, ProxyFields, H!ForwardedIfAuthorized, H!Places
  <1>4. QED
    BY <1>1, <1>2, <1>3 DEF HInv

\* A request arrives, of any kind.
LEMMA RequestHInv == ASSUME HInv, NEW r \in Requests, H!Request(r) PROVE HInv'
  <1>1. PICK k \in H!Kinds : s' = [H!Moves(r, "handling") EXCEPT !.kind[r] = k]
    BY DEF H!Request
  <1>2. s.at[r] = "none" /\ r \notin s.counted
    BY DEF H!Request, HInv, H!HTTPProxyTypeOK
  <1>3. Moved(r, "handling", k)
    BY <1>1, <1>2 DEF H!Moves, Moved, HInv, ProxyFields, H!Places
  <1>4. QED
    BY <1>3, MovedHInv DEF H!Places

\* The requests that are answered, aborted or over are closed.
LEMMA ClosedHInv ==
  ASSUME H!HTTPProxyConstants, HInv, NEW r \in Requests,
         H!Refused(r) \/ H!NotReached(r) \/ H!EndsByContext(r) \/ H!Ends(r)
  PROVE  HInv'
  <1>1. \/ s' = H!Moves(r, "closed") /\ r \notin s.counted
        \/ s' = H!Failing(H!Moves(r, "closed")) /\ H!CanFail /\ r \notin s.counted
        \/ s' = [H!Moves(r, "closed") EXCEPT !.counted = @ \ {r}]
    BY DEF H!Refused, H!NotReached, H!EndsByContext, H!Ends, HInv, H!HTTPProxyTypeOK
  <1>2. Moved(r, "closed", H!NoKind)
    <2> USE DEF H!Moves, Moved, HInv, ProxyFields, H!Places
    <2>1. CASE s' = H!Moves(r, "closed") /\ r \notin s.counted
      BY <2>1
    <2>2. CASE s' = H!Failing(H!Moves(r, "closed")) /\ H!CanFail /\ r \notin s.counted
      <3>1. PICK n \in 0..ProxyFaults : s' = [H!Moves(r, "closed") EXCEPT !.faults = n]
        <4>1. s.faults + 1 \in 0..ProxyFaults
          BY <2>2, OneMoreFault DEF HInv
        <4>2. H!Moves(r, "closed").faults = s.faults
          OBVIOUS
        <4>3. QED
          BY <2>2, <4>1, <4>2 DEF H!Failing
      <3>2. s.counted \ {r} = s.counted
        BY <2>2
      <3>3. s' = [s EXCEPT !.at = [s.at EXCEPT ![r] = "closed"],
                           !.kind = [s.kind EXCEPT ![r] = H!NoKind], !.faults = n]
        BY <3>1
      <3>4. QED
        BY <3>2, <3>3
    <2>3. CASE s' = [H!Moves(r, "closed") EXCEPT !.counted = @ \ {r}]
      BY <2>3
    <2>4. QED
      BY <1>1, <2>1, <2>2, <2>3
  <1>3. QED
    BY <1>2, MovedHInv DEF H!Places

\* A request is sent on with what handleHTTP and handleHTTPS ask of it.
LEMMA ForwardHInv == ASSUME HInv, NEW r \in Requests, H!Forward(r) PROVE HInv'
  <1> DEFINE place == IF s.kind[r].method = "CONNECT" THEN "dialled" ELSE "forwarded"
  <1>1. s.at[r] = "handling" /\ r \notin s.counted /\ s.kind[r] \in H!Kinds
    BY DEF H!Forward, HInv, H!HTTPProxyTypeOK
  <1>2. Moved(r, place, s.kind[r])
    BY <1>1 DEF H!Forward, H!Moves, Moved, HInv, ProxyFields, H!Places
  <1>3. s.password => s.kind[r].credentials = "right"
    BY <1>1, AuthorizedHasCredentials DEF H!Forward
  <1>4. QED
    BY <1>1, <1>2, <1>3, MovedHInv DEF H!Places

\* A connection that was made keeps its request.
LEMMA JoinHInv == ASSUME HInv, NEW r \in Requests, H!Join(r) PROVE HInv'
  <1>1. s.at[r] = "dialled" /\ s.kind[r] \in H!Kinds
    BY DEF H!Join, HInv, H!HTTPProxyTypeOK
  <1>2. Moved(r, "joined", s.kind[r])
    BY <1>1 DEF H!Join, H!Moves, Moved, HInv, ProxyFields, H!Places
  <1>3. s.password => s.kind[r].credentials = "right"
    BY <1>1 DEF HInv, H!ForwardedIfAuthorized
  <1>4. QED
    BY <1>1, <1>2, <1>3, MovedHInv DEF H!Places

\* Every step keeps the invariant.
LEMMA NextHInv == ASSUME H!HTTPProxyConstants, HInv, [H!HTTPProxyNext]_s PROVE HInv'
  <1>1. CASE UNCHANGED s
    BY <1>1 DEF HInv, H!HTTPProxyTypeOK, ProxyFields, H!ForwardedIfAuthorized
  <1>2. CASE H!HTTPProxyNext
    BY <1>2, ServerHInv, RequestHInv, ClosedHInv, ForwardHInv, JoinHInv
    DEF H!HTTPProxyNext, H!HandlerStep
  <1>3. QED
    BY <1>1, <1>2

(* A request is sent on only for a client that gave the user and password that are *)
(* set, for any number of requests of any kind (httpproxy/auth.go, http.go).  *)
THEOREM SentOnIfAuthorized ==
    ASSUME H!HTTPProxyConstants PROVE H!HTTPProxySpec => []H!ForwardedIfAuthorized
  <1>1. H!HTTPProxyInit => HInv
    BY InitHInv
  <1>2. HInv /\ [H!HTTPProxyNext]_s => HInv'
    BY NextHInv
  <1>3. HInv => H!ForwardedIfAuthorized
    BY DEF HInv
  <1>4. QED
    BY <1>1, <1>2, <1>3, PTL DEF H!HTTPProxySpec

(* The type invariant, and that the server waits at its end for exactly the       *)
(* connections that are joined: the wait group is told of each once, and of its *)
(* end whoever ends it (httpproxy/https.go, server.go).                      *)
THEOREM CountedWhileJoined == ASSUME H!HTTPProxyConstants PROVE H!HTTPProxySpec => []H!HTTPProxyTypeOK
  <1>1. H!HTTPProxyInit => HInv
    BY InitHInv
  <1>2. HInv /\ [H!HTTPProxyNext]_s => HInv'
    BY NextHInv
  <1>3. HInv => H!HTTPProxyTypeOK
    BY DEF HInv
  <1>4. QED
    BY <1>1, <1>2, <1>3, PTL DEF H!HTTPProxySpec

(***************************************************************************)
(* The polls.                                                              *)
(***************************************************************************)

\* The fields of the record and their types, for the provers.
PollFields ==
    s \in [up : TunnelRuns \cup {B!NoTunnel}, seen : SUBSET TunnelRuns, started : SUBSET TunnelRuns,
           late : SUBSET TunnelRuns, owner : TunnelRuns \cup {B!NoTunnel}, told : SUBSET TunnelRuns,
           polls : [Urls -> SUBSET TunnelRuns], stop : {"idle", "called", "wait"}]

\* Stop is called only by the cleanup of a tunnel that is down, for one that called Start.
StopsWhenDown ==
    /\ s.up # B!NoTunnel => s.stop = "idle"
    /\ s.owner \in s.started \cup {B!NoTunnel}

(* While every Start came in time, only the polls whose cancel function is kept *)
(* go on, it is that of the tunnel that is up, and between a cleanup and the    *)
(* next tunnel there is none.                                               *)
Kept ==
    s.late = {} =>
        /\ \A u \in Urls : s.polls[u] \subseteq {s.owner} \ {B!NoTunnel}
        /\ s.up # B!NoTunnel => s.owner \in {s.up, B!NoTunnel}
        /\ s.up = B!NoTunnel /\ s.stop = "idle" => s.owner = B!NoTunnel

BInv == B!BoringPollTypeOK /\ PollFields /\ StopsWhenDown /\ Kept

\* Nothing polls at the start.
LEMMA InitBInv == B!BoringPollInit => BInv
  BY DEF B!BoringPollInit, BInv, B!BoringPollTypeOK, PollFields, StopsWhenDown, Kept

\* A tunnel comes up once the cleanup of the one before is over.
LEMMA UpBInv == ASSUME NEW t \in TunnelRuns, BInv, B!Up(t) PROVE BInv'
  BY DEF B!Up, BInv, B!BoringPollTypeOK, PollFields, StopsWhenDown, Kept

\* A Start in time is that of the tunnel that is up, and of one that was never told to end.
LEMMA StartBInv == ASSUME B!BoringPollConstants, NEW t \in TunnelRuns, BInv, B!Start(t) PROVE BInv'
  <1> USE DEF B!Start, BInv
  <1>1. PollFields'
    BY DEF PollFields
  <1>2. B!BoringPollTypeOK'
    BY DEF PollFields, B!BoringPollTypeOK
  <1>3. StopsWhenDown'
    BY DEF PollFields, StopsWhenDown
  <1>4. Kept'
    <2> SUFFICES ASSUME s'.late = {} PROVE Kept'
      BY DEF Kept
    <2>1. s.late = {} /\ s.up = t /\ s'.up = t
      BY DEF PollFields
    <2>2. s'.owner = (IF Urls = {} THEN s.owner ELSE t)
      BY DEF PollFields
    <2>3. ASSUME NEW u \in Urls PROVE s'.polls[u] = s.polls[u] \cup {t}
      BY DEF PollFields
    <2>4. t # B!NoTunnel
      BY DEF B!BoringPollConstants
    <2>5. QED
      BY <2>1, <2>2, <2>3, <2>4 DEF Kept
  <1>5. QED
    BY <1>1, <1>2, <1>3, <1>4

\* Down, Stop and its end: the polls that are kept are told, waited for and forgotten.
LEMMA StopBInv == ASSUME B!BoringPollConstants, BInv, B!Down \/ B!Stop \/ B!Stopped PROVE BInv'
  <1> USE DEF BInv
  <1>1. CASE B!Down
    BY <1>1 DEF B!Down, B!BoringPollTypeOK, PollFields, StopsWhenDown, Kept
  <1>2. CASE B!Stop
    <2>1. CASE s.owner = B!NoTunnel
      BY <1>2, <2>1 DEF B!Stop, B!BoringPollTypeOK, PollFields, StopsWhenDown, Kept
    <2>2. CASE s.owner # B!NoTunnel
      BY <1>2, <2>2 DEF B!Stop, B!BoringPollTypeOK, PollFields, StopsWhenDown, Kept
    <2>3. QED
      BY <2>1, <2>2
  <1>3. CASE B!Stopped
    <2>1. s' = [s EXCEPT !.owner = B!NoTunnel, !.stop = "idle"] /\ B!NoTunnel \notin s.told
      BY <1>3 DEF B!Stopped, B!BoringPollConstants, B!BoringPollTypeOK
    <2>2. \A u \in Urls : s.owner \notin s.polls[u]
      BY <1>3 DEF B!Stopped
    <2>3. PollFields'
      BY <2>1 DEF PollFields
    <2>4. B!BoringPollTypeOK'
      BY <2>1 DEF B!BoringPollTypeOK, PollFields
    <2>5. StopsWhenDown'
      BY <2>1 DEF StopsWhenDown, PollFields
    <2>6. Kept'
      BY <2>1, <2>2 DEF Kept, PollFields
    <2>7. QED
      BY <2>3, <2>4, <2>5, <2>6
  <1>4. QED
    BY <1>1, <1>2, <1>3

\* A poll that ends leaves fewer.
LEMMA PollEndsBInv ==
  ASSUME NEW t \in TunnelRuns, NEW u \in Urls, BInv, B!PollEnds(t, u) PROVE BInv'
  <1>1. s' = [s EXCEPT !.polls = [s.polls EXCEPT ![u] = s.polls[u] \ {t}]]
    BY DEF B!PollEnds, BInv, PollFields
  <1>2. \A v \in Urls : s'.polls[v] \subseteq s.polls[v]
    BY <1>1 DEF BInv, PollFields
  <1>3. QED
    BY <1>1, <1>2 DEF BInv, B!BoringPollTypeOK, PollFields, StopsWhenDown, Kept

\* Every step keeps the invariant.
LEMMA NextBInv == ASSUME B!BoringPollConstants, BInv, [B!BoringPollNext]_s PROVE BInv'
  <1>1. CASE UNCHANGED s
    BY <1>1 DEF BInv, B!BoringPollTypeOK, PollFields, StopsWhenDown, Kept
  <1>2. CASE B!BoringPollNext
    BY <1>2, UpBInv, StartBInv, StopBInv, PollEndsBInv DEF B!BoringPollNext, B!BoringPollStep
  <1>3. QED
    BY <1>1, <1>2

(* Once a tunnel is down and the cleanup is over, no poll goes on unless some    *)
(* goroutine called Start after its tunnel went down, for any number of tunnels *)
(* and pages (boringpoll.go Start and Stop; vpn/cleanup.go, tunnelup.go).     *)
THEOREM NoneLeft == ASSUME B!BoringPollConstants PROVE B!BoringPollSpec => []B!NoPollLeft
  <1>1. B!BoringPollInit => BInv
    BY InitBInv
  <1>2. BInv /\ [B!BoringPollNext]_s => BInv'
    BY NextBInv
  <1>3. BInv => B!NoPollLeft
    BY DEF BInv, Kept, B!NoPollLeft
  <1>4. QED
    BY <1>1, <1>2, <1>3, PTL DEF B!BoringPollSpec

(* The type invariant, with what it says of the order of things: the Start that   *)
(* is kept was told to end only if Stop waits for it (boringpoll.go).          *)
THEOREM PollTypeCorrect == ASSUME B!BoringPollConstants PROVE B!BoringPollSpec => []B!BoringPollTypeOK
  <1>1. B!BoringPollInit => BInv
    BY InitBInv
  <1>2. BInv /\ [B!BoringPollNext]_s => BInv'
    BY NextBInv
  <1>3. BInv => B!BoringPollTypeOK
    BY DEF BInv
  <1>4. QED
    BY <1>1, <1>2, <1>3, PTL DEF B!BoringPollSpec

(***************************************************************************)
(* The Shadowsocks loop.                                                   *)
(***************************************************************************)

(* The goroutine that asks for "running" finds the loop where it waits for    *)
(* its first start: nobody else wakes it up.                               *)
SInv ==
    /\ S!ShadowsocksTypeOK
    /\ s.caller = "call" => s.loop \in {"waitStart", "done"}

\* Nothing runs at the start.
LEMMA InitSInv == S!ShadowsocksConstants /\ S!ShadowsocksInit => SInv
  BY DEF S!ShadowsocksConstants, S!ShadowsocksInit, SInv, S!ShadowsocksTypeOK

\* Every step of the loop, its caller and its server keeps the invariant.
LEMMA NextSInv == ASSUME S!ShadowsocksConstants, SInv, [S!ShadowsocksNext]_s PROVE SInv'
  <1> USE DEF SInv, S!ShadowsocksTypeOK
  <1>1. CASE UNCHANGED s
    BY <1>1
  <1>2. S!CanFail => s.faults + 1 \in 0..ProxyFaults
    BY DEF S!ShadowsocksConstants, S!CanFail
  <1>3. CASE S!CallBegins \/ S!LeavesSelect \/ S!SetsStatus
    <2>1. CASE S!CallBegins
      BY <2>1 DEF S!CallBegins
    <2>2. CASE S!LeavesSelect
      BY <2>2 DEF S!LeavesSelect
    <2>3. CASE S!SetsStatus
      BY <2>3 DEF S!SetsStatus
    <2>4. QED
      BY <1>3, <2>1, <2>2, <2>3
  <1>4. CASE S!Started
    BY <1>4 DEF S!Started
  <1>5. CASE S!Quits
    BY <1>5 DEF S!Quits
  <1>6. CASE S!NewServer
    BY <1>6 DEF S!NewServer
  <1>7. CASE S!NewServerFails
    BY <1>2, <1>7 DEF S!NewServerFails, S!Failing
  <1>8. CASE S!Stable
    BY <1>8 DEF S!Stable
  <1>9. CASE S!SignalsRunning
    BY <1>9 DEF S!SignalsRunning
  <1>10. CASE S!TakesError
    BY <1>10 DEF S!TakesError
  <1>11. CASE S!BackedOff
    BY <1>11 DEF S!BackedOff
  <1>12. CASE S!ServerFails
    BY <1>2, <1>12 DEF S!ServerFails, S!Failing
  <1>13. CASE S!Cancel
    BY <1>13 DEF S!Cancel
  <1>14. QED
    BY <1>1, <1>3, <1>4, <1>5, <1>6, <1>7, <1>8, <1>9, <1>10, <1>11, <1>12, <1>13
    DEF S!ShadowsocksNext, S!LoopStep, S!CallerStep

(***************************************************************************)
(* All of them.                                                            *)
(***************************************************************************)

\* The invariant of the service that a behaviour is about.
ServicesInv ==
    /\ which = "dns" => DInv
    /\ which = "updater" => UInv
    /\ which = "http" => HInv
    /\ which = "shadowsocks" => SInv
    /\ which = "poll" => BInv

\* It holds at the start of each.
LEMMA InitServicesInv == Init => ServicesInv
  BY ServicesConstants, InitDInv, InitUInv, InitHInv, InitSInv, InitBInv DEF Init, ServicesConstants,
      ServicesInv

\* A step is one of the service that the behaviour is about.
LEMMA NextServicesInv == ASSUME ServicesInv, [Next]_vars PROVE ServicesInv'
  <1>1. which' = which
    BY DEF Next, vars
  <1>2. /\ D!DNSConstants /\ U!UpdaterConstants /\ H!HTTPProxyConstants
        /\ S!ShadowsocksConstants /\ B!BoringPollConstants
    BY ServicesConstants DEF ServicesConstants
  <1>3. CASE which = "dns"
    <2>1. [D!DNSNext]_<<D!stateVars, s>>
      BY <1>3 DEF Next, vars, stateVars, D!stateVars
    <2>2. QED
      BY <1>1, <1>2, <1>3, <2>1, NextDInv DEF ServicesInv
  <1>4. CASE which = "updater"
    <2>1. [U!UpdaterNext]_s
      BY <1>4 DEF Next, vars
    <2>2. QED
      BY <1>1, <1>2, <1>4, <2>1, NextUInv DEF ServicesInv
  <1>5. CASE which = "http"
    <2>1. [H!HTTPProxyNext]_s
      BY <1>5 DEF Next, vars
    <2>2. QED
      BY <1>1, <1>2, <1>5, <2>1, NextHInv DEF ServicesInv
  <1>6. CASE which = "shadowsocks"
    <2>1. [S!ShadowsocksNext]_s
      BY <1>6 DEF Next, vars
    <2>2. QED
      BY <1>1, <1>2, <1>6, <2>1, NextSInv DEF ServicesInv
  <1>7. CASE which = "poll"
    <2>1. [B!BoringPollNext]_s
      BY <1>7 DEF Next, vars
    <2>2. QED
      BY <1>1, <1>2, <1>7, <2>1, NextBInv DEF ServicesInv
  <1>8. QED
    BY <1>1, <1>3, <1>4, <1>5, <1>6, <1>7 DEF ServicesInv

\* So it holds in every state.
LEMMA AlwaysServicesInv == Spec => []ServicesInv
  <1>1. Init => ServicesInv
    BY InitServicesInv
  <1>2. ServicesInv /\ [Next]_vars => ServicesInv'
    BY NextServicesInv
  <1>3. QED
    BY <1>1, <1>2, PTL DEF Spec

(* The type invariant of every service, for any callers, requests, tunnels, pages, *)
(* calls and failures: among others, the server of the HTTP proxy waits at its end *)
(* for exactly the connections that are joined, and the Shadowsocks loop has a     *)
(* server exactly while it watches one (httpproxy/server.go, shadowsocks/loop.go). *)
THEOREM ServicesTypeCorrect == Spec => []ServicesTypeOK
  <1>1. ServicesInv => ServicesTypeOK
    BY DEF ServicesInv, ServicesTypeOK, DInv, UInv, HInv, SInv, BInv
  <1>2. QED
    BY <1>1, AlwaysServicesInv, PTL

(* What a client is shown is what goes on, for any callers, calls and failures:   *)
(* "stopped" means no DNS server, and no update beside another or behind an idle  *)
(* status; and after the cleanup of a tunnel no poll goes on (internal/dns/run.go, *)
(* updater/loop, boringpoll).                                                 *)
THEOREM ShownAsItIs == Spec => []AsShown
  <1>1. DInv => D!DNSStatusTrue
    BY DNSStatusFollows
  <1>2. UInv => U!IdleMeansIdle /\ U!OneUpdate
    BY DEF UInv, JobOver, AtRest, Idle, U!IdleMeansIdle, U!OneUpdate
  <1>3. BInv => B!NoPollLeft
    BY DEF BInv, Kept, B!NoPollLeft
  <1>4. ServicesInv => AsShown
    BY <1>1, <1>2, <1>3 DEF ServicesInv, AsShown
  <1>5. QED
    BY <1>4, AlwaysServicesInv, PTL

(* A request is sent on only for a client that gave the user and the password that *)
(* are set, for any number of requests of any kind (httpproxy/auth.go, http.go).  *)
THEOREM SentOnForAuthorized == Spec => []ForwardedIfAuthorized
  <1>1. ServicesInv => ForwardedIfAuthorized
    BY DEF ServicesInv, HInv, ForwardedIfAuthorized
  <1>2. QED
    BY <1>1, AlwaysServicesInv, PTL
=============================================================================
