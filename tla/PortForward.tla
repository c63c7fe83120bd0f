---------------------------- MODULE PortForward ----------------------------
(***************************************************************************)
(* The port forwarding loop (internal/portforward): the goroutine that      *)
(* replaces the service for every update, failure and retry; the goroutines  *)
(* of the VPN that call UpdateWith; the handlers of the control server that  *)
(* call SetPortsForwarded; and main, which stops the loop.                  *)
(***************************************************************************)
EXTENDS PortService

CONSTANTS
    Updaters,   \* goroutines of the VPN: onTunnelUp says up, cleanup says down
    Setters,    \* handlers that set the forwarded ports
    Enabled,    \* PortForwarding.Enabled
    Notices,    \* what an update may say
    MaxUpdates, \* bound on the calls of the updaters
    MaxSets,    \* bound on the calls of the setters
    MayStop     \* the program may be told to terminate

ASSUME ForwardConstants ==
    /\ Enabled \in BOOLEAN
    /\ "down" \in Notices /\ Notices \subseteq {"up", "unfit", "down"}
    /\ MaxUpdates \in Nat
    /\ MaxSets \in Nat
    /\ MayStop \in BOOLEAN

VARIABLES
    at,         \* where Loop.run is
    updating,   \* its updateReceived
    current,    \* Loop.service
    watched,    \* the service whose errors the loop listens to
    retryDue,   \* retryAfter is set
    vpnIsUp,    \* the VPNIsUp of its settings
    fit,        \* its settings pass the validation for startup
    runCtxDone, \* runCtx is done
    main,       \* where main is
    updater,    \* where each updater is in UpdateWith
    notice,     \* what it sends: the VPN is down, or up and with which settings
    target,     \* the service each setter calls, NoService when it calls none
    newPorts,   \* the ports it sets
    nUpdates,   \* calls of the updaters so far
    nSets       \* calls of the setters so far

loopVars == <<at, updating, current, watched, retryDue, vpnIsUp, fit, runCtxDone, main>>
callVars == <<updater, notice, target, newPorts, nUpdates, nSets>>
vars == <<serviceVars, faultVars, loopVars, callVars>>

Places == {"select", "stop", "join", "fail", "new", "start", "forward",
           "reply", "done", "panicked"}

MainPlaces == {"serving", "joining", "stopping", "waiting", "finished", "leaving"}

TypeOK ==
    /\ ServiceTypeOK
    /\ at \in Places
    /\ updating \in BOOLEAN
    /\ current \in Slots \cup {NoService}
    /\ watched \in Slots \cup {NoService}
    /\ retryDue \in BOOLEAN
    /\ vpnIsUp \in BOOLEAN
    /\ fit \in BOOLEAN
    /\ runCtxDone \in BOOLEAN
    /\ main \in MainPlaces
    /\ updater \in [Updaters -> {"idle", "offer", "await"}]
    /\ notice \in [Updaters -> Notices]
    /\ target \in [Setters -> Slots \cup {NoService}]
    /\ newPorts \in [Setters -> SUBSET Ports]
    /\ nUpdates \in 0..MaxUpdates
    /\ nSets \in 0..MaxSets

Init ==
    /\ ServiceInit
    /\ at = "select"
    /\ updating = FALSE
    /\ current = NoService
    /\ watched = NoService
    /\ retryDue = FALSE
    /\ vpnIsUp = FALSE
    /\ fit = FALSE
    /\ runCtxDone = FALSE
    /\ main = "serving"
    /\ updater = [u \in Updaters |-> "idle"]
    /\ notice = [u \in Updaters |-> "down"]
    /\ target = [h \in Setters |-> NoService]
    /\ newPorts = [h \in Setters |-> {}]
    /\ nUpdates = 0
    /\ nSets = 0

LoopGoes(from, to) == at = from /\ at' = to

------------------- (* Loop.run: what wakes the loop up *) --------------------

\* case <-runCtx.Done().
TakeDone ==
    /\ LoopGoes("select", "done") /\ runCtxDone
    /\ UNCHANGED <<updating, current, watched, retryDue, vpnIsUp, fit, runCtxDone, main>>
    /\ UNCHANGED <<serviceVars, faultVars, callVars>>

\* Whether the loop's settings with those of the update pass the validation.
Fits(u) == IF notice[u] = "down" THEN fit ELSE notice[u] = "up"

(* case partialUpdate := <-updateTrigger.  What validates the settings for     *)
(* startup is the VPNIsUp from before the update.                          *)
TakeUpdate(u) ==
    /\ LoopGoes("select", "stop")
    /\ updater[u] = "offer" /\ (vpnIsUp => Fits(u))
    /\ updater' = [updater EXCEPT ![u] = "await"]
    /\ vpnIsUp' = (notice[u] # "down")
    /\ fit' = Fits(u)
    /\ updating' = TRUE
    /\ UNCHANGED <<current, watched, retryDue, runCtxDone, main>>
    /\ UNCHANGED <<serviceVars, faultVars, notice, target, newPorts, nUpdates, nSets>>

\* The update is not valid: the loop answers it and changes nothing.
RejectUpdate(u) ==
    /\ LoopGoes("select", "reply")
    /\ updater[u] = "offer" /\ vpnIsUp /\ ~Fits(u)
    /\ updater' = [updater EXCEPT ![u] = "await"]
    /\ UNCHANGED <<updating, current, watched, retryDue, vpnIsUp, fit, runCtxDone, main>>
    /\ UNCHANGED <<serviceVars, faultVars, notice, target, newPorts, nUpdates, nSets>>

\* case err := <-serviceRunError.
TakeError ==
    /\ LoopGoes("select", "stop")
    /\ watched # NoService
    /\ Reported(watched)
    /\ updating' = FALSE
    /\ UNCHANGED <<current, watched, retryDue, vpnIsUp, fit, runCtxDone, main, callVars>>

\* case <-retryAfter.
TakeRetry ==
    /\ LoopGoes("select", "stop") /\ retryDue
    /\ retryDue' = FALSE
    /\ updating' = FALSE
    /\ UNCHANGED <<current, watched, vpnIsUp, fit, runCtxDone, main>>
    /\ UNCHANGED <<serviceVars, faultVars, callVars>>

----------------- (* Loop.run: replacing the service *) -----------------------

\* if l.service != nil { l.service.Stop() }.
StopService ==
    /\ at = "stop"
    /\ \/ /\ current = NoService /\ at' = "new"
          /\ UNCHANGED <<serviceVars, faultVars>>
       \/ /\ current # NoService
          /\ \/ StopNothing(current) /\ at' = "new"
             \/ StopCancels(current) /\ at' = "join"
             \/ StopPanics(current) /\ at' = "panicked"
    /\ UNCHANGED <<updating, current, watched, retryDue, vpnIsUp, fit, runCtxDone, main, callVars>>

JoinService ==
    /\ at = "join"
    /\ \/ StopCleans(current) /\ at' = "new"
       \/ StopBreaks(current) /\ at' = "fail"
    /\ UNCHANGED <<updating, current, watched, retryDue, vpnIsUp, fit, runCtxDone, main, callVars>>

(* runErrorCh <- "stopping previous service" is received by main if it still *)
(* listens; main then shuts the program down without stopping this loop.    *)
ReportFailure ==
    /\ LoopGoes("fail", "done")
    /\ main = "serving" /\ main' = "leaving"
    /\ UNCHANGED <<updating, current, watched, retryDue, vpnIsUp, fit, runCtxDone>>
    /\ UNCHANGED <<serviceVars, faultVars, callVars>>

\* Nothing refers to what slot s holds.
Vacant(s) ==
    /\ s # current
    /\ owner[s] = Unlocked
    /\ keeper[s] \in {"none", "gone"}
    /\ \A h \in Setters : target[h] # s

\* The slot of the next object: slots are interchangeable.
Fresh == CHOOSE s \in Slots : Vacant(s)

\* service.New: a fresh object, while the slots last.
NewService ==
    /\ LoopGoes("new", "start")
    /\ \E s \in Slots : Vacant(s)
    /\ current' = Fresh
    /\ ports' = [ports EXCEPT ![Fresh] = {}]
    /\ keeper' = [keeper EXCEPT ![Fresh] = "none"]
    /\ cancelled' = [cancelled EXCEPT ![Fresh] = FALSE]
    /\ UNCHANGED <<owner, allowed, file, faultVars, callVars>>
    /\ UNCHANGED <<updating, watched, retryDue, vpnIsUp, fit, runCtxDone, main>>

\* The service is enabled only if the VPN is up.
Active == Enabled /\ vpnIsUp

\* A bug: Start runs whatever the state of the VPN.
StartLocks_Always ==
    /\ LoopGoes("start", "forward")
    /\ owner[current] = Unlocked /\ Enabled
    /\ owner' = [owner EXCEPT ![current] = TheLoop]
    /\ UNCHANGED <<ports, keeper, cancelled, allowed, file, faultVars, callVars>>
    /\ UNCHANGED <<updating, current, watched, retryDue, vpnIsUp, fit, runCtxDone, main>>

\* Start locks the service and asks the provider for ports.
StartLocks ==
    /\ LoopGoes("start", "forward")
    /\ owner[current] = Unlocked /\ Active
    /\ owner' = [owner EXCEPT ![current] = TheLoop]
    /\ UNCHANGED <<ports, keeper, cancelled, allowed, file, faultVars, callVars>>
    /\ UNCHANGED <<updating, current, watched, retryDue, vpnIsUp, fit, runCtxDone, main>>

(* What follows Start: an updater is answered whatever the outcome; without  *)
(* one, a failure sets the retry timer.                                    *)
AfterStart(failed) ==
    /\ at' = IF updating THEN "reply" ELSE "select"
    /\ retryDue' = (retryDue \/ (failed /\ ~updating))

\* Start of a service that is not enabled.
StartDisabled ==
    /\ at = "start"
    /\ owner[current] = Unlocked /\ ~Active
    /\ watched' = NoService
    /\ AfterStart(FALSE)
    /\ UNCHANGED <<serviceVars, faultVars, callVars>>
    /\ UNCHANGED <<updating, current, vpnIsUp, fit, runCtxDone, main>>

\* The provider forwards P and the service keeps it; Start unlocks.
StartSucceeds(P) ==
    /\ at = "forward"
    /\ Opens(current, Here(current), P, runCtxDone)
    /\ keeper' = [keeper EXCEPT ![current] = "keeping"]
    /\ owner' = [owner EXCEPT ![current] = Unlocked]
    /\ watched' = current
    /\ AfterStart(FALSE)
    /\ UNCHANGED <<cancelled, updating, current, vpnIsUp, fit, runCtxDone, main, callVars>>

\* The provider forwards nothing, or its ports cannot be opened.
StartFails ==
    /\ at = "forward"
    /\ \/ /\ Fault \/ (runCtxDone /\ UNCHANGED faultVars)
          /\ UNCHANGED <<ports, allowed, file>>
       \/ \E P \in (SUBSET Ports) \ {{}} : OpenFails(current, Here(current), P, runCtxDone)
    /\ owner' = [owner EXCEPT ![current] = Unlocked]
    /\ watched' = NoService
    /\ AfterStart(TRUE)
    /\ UNCHANGED <<keeper, cancelled, updating, current, vpnIsUp, fit, runCtxDone, main, callVars>>

\* updateResult <- err, received by the updater in UpdateWith.
Reply(u) ==
    /\ LoopGoes("reply", "select")
    /\ updater[u] = "await"
    /\ updater' = [updater EXCEPT ![u] = "idle"]
    /\ updating' = FALSE
    /\ UNCHANGED <<current, watched, retryDue, vpnIsUp, fit, runCtxDone, main>>
    /\ UNCHANGED <<serviceVars, faultVars, notice, target, newPorts, nUpdates, nSets>>

LoopStep ==
    \/ TakeDone \/ TakeError \/ TakeRetry
    \/ StopService \/ JoinService \/ ReportFailure \/ NewService
    \/ StartLocks \/ StartDisabled \/ StartFails
    \/ \E P \in (SUBSET Ports) \ {{}} : StartSucceeds(P)
    \/ \E u \in Updaters : TakeUpdate(u) \/ RejectUpdate(u) \/ Reply(u)

-------------------------- (* The loop's callers *) ---------------------------

\* UpdateWith: the updater offers its update to the loop.
Update(u, n) ==
    /\ updater[u] = "idle"
    /\ nUpdates < MaxUpdates /\ nUpdates' = nUpdates + 1
    /\ updater' = [updater EXCEPT ![u] = "offer"]
    /\ notice' = [notice EXCEPT ![u] = n]
    /\ UNCHANGED <<serviceVars, faultVars, loopVars, target, newPorts, nSets>>

\* case <-l.runCtx.Done(), in either select of UpdateWith.
UpdateLeaves(u) ==
    /\ runCtxDone /\ updater[u] # "idle"
    /\ updater' = [updater EXCEPT ![u] = "idle"]
    /\ UNCHANGED <<serviceVars, faultVars, loopVars, notice, target, newPorts, nUpdates, nSets>>

\* SetPortsForwarded reads Loop.service, then waits for the service's mutex.
Set(h, P) ==
    /\ target[h] = NoService /\ current # NoService
    /\ nSets < MaxSets /\ nSets' = nSets + 1
    /\ target' = [target EXCEPT ![h] = current]
    /\ newPorts' = [newPorts EXCEPT ![h] = P]
    /\ UNCHANGED <<serviceVars, faultVars, loopVars, updater, notice, nUpdates>>

SetRuns(h) ==
    /\ target[h] # NoService
    /\ SetPorts(target[h], newPorts[h], runCtxDone)
    /\ target' = [target EXCEPT ![h] = NoService]
    /\ newPorts' = [newPorts EXCEPT ![h] = {}]
    /\ UNCHANGED <<loopVars, updater, notice, nUpdates, nSets>>

CallerStep ==
    \/ \E u \in Updaters : UpdateLeaves(u) \/ \E n \in Notices : Update(u, n)
    \/ \E h \in Setters : SetRuns(h) \/ \E P \in SUBSET Ports : Set(h, P)

-------------------------- (* main stops the loop *) --------------------------

MainGoes(from, to) ==
    /\ main = from /\ main' = to
    /\ UNCHANGED <<at, updating, current, watched, retryDue, vpnIsUp, fit, callVars>>

\* Loop.Stop: runCancel.
MainCancels ==
    /\ MayStop
    /\ MainGoes("serving", "joining")
    /\ runCtxDone' = TRUE
    /\ UNCHANGED <<serviceVars, faultVars>>

\* <-l.runDone, and no service to stop.
MainJoins ==
    /\ at = "done"
    /\ MainGoes("joining", IF current = NoService THEN "finished" ELSE "stopping")
    /\ UNCHANGED <<runCtxDone, serviceVars, faultVars>>

\* l.service.Stop().
MainStops ==
    /\ \/ MainGoes("stopping", "finished") /\ StopNothing(current)
       \/ MainGoes("stopping", "waiting") /\ StopCancels(current)
       \/ MainGoes("waiting", "finished") /\ (StopCleans(current) \/ StopBreaks(current))
    /\ UNCHANGED runCtxDone

MainPanics ==
    /\ main = "stopping" /\ StopPanics(current)
    /\ at' = "panicked"
    /\ UNCHANGED <<updating, current, watched, retryDue, vpnIsUp, fit, runCtxDone, main, callVars>>

MainStep == MainCancels \/ MainJoins \/ MainStops \/ MainPanics

Next ==
    /\ at # "panicked"
    /\ \/ LoopStep \/ CallerStep \/ MainStep
       \/ \E s \in Slots : KeeperStep(s) /\ UNCHANGED <<loopVars, callVars>>

Spec == Init /\ [][Next]_vars

(***************************************************************************)
(* Fairness: goroutines that can run do, KeepPortForward returns once it is  *)
(* cancelled, the provider answers or times out; Go's mutexes do not starve  *)
(* and a select picks among its ready cases at random, hence SF for what a   *)
(* lock or a ready case may pass over for a while.                          *)
(***************************************************************************)
Fairness ==
    /\ WF_vars(LoopStep)
    /\ SF_vars(TakeDone)
    /\ \A u \in Updaters : SF_vars(TakeUpdate(u) \/ RejectUpdate(u)) /\ WF_vars(UpdateLeaves(u))
    /\ \A h \in Setters : SF_vars(SetRuns(h))
    /\ \A s \in Slots :
          /\ WF_vars(KeeperStops(s) /\ UNCHANGED <<loopVars, callVars>>)
          /\ SF_vars(KeeperCleans(s) /\ UNCHANGED <<loopVars, callVars>>)
    /\ WF_vars(MainJoins) /\ WF_vars(MainStops \/ MainPanics)

FairSpec == Spec /\ Fairness

-----------------------------------------------------------------------------

Idle == at = "select" /\ current # NoService

(* When the loop is idle, no failure of the firewall or the file aside, what *)
(* the firewall allows and what the file says are the ports of the service   *)
(* the loop holds: none of those before it left anything behind.            *)
PortsMatch ==
    Idle /\ nBroken = 0 /\ ~runCtxDone =>
        /\ file = ports[current]
        /\ allowed = {Internal[p] : p \in ports[current]}

(* "Only enable port forward if the VPN tunnel is up": once an update that    *)
(* says the VPN is down was taken, no goroutine keeps ports forwarded.       *)
KeptOnlyWhileUp ==
    Idle /\ ~vpnIsUp => \A s \in Slots : keeper[s] # "keeping"

(* Ports are kept by one goroutine at a time, across updates, failures and    *)
(* retries.                                                                *)
OneKeeper ==
    \A s, t \in Slots : keeper[s] = "keeping" /\ keeper[t] = "keeping" => s = t

\* The goroutine of s has not reported its end yet.
Alive(s) == keeper[s] \in {"keeping", "failed", "reporting"}

(* Why: only the service the loop holds has a goroutine that is not over; it  *)
(* has ports, or its mutex, until its failure is received, so that Stop      *)
(* cannot take it for one that is not running; and a new service replaces    *)
(* one whose goroutine is over.                                            *)
KeepersFollow ==
    /\ \A s \in Slots : Alive(s) => s = current
    /\ \A s \in Slots : keeper[s] \in {"keeping", "failed"} => ports[s] # {}
    /\ \A s \in Slots : keeper[s] = "reporting" => owner[s] = TheKeeper
    /\ at = "new" => \A s \in Slots : ~Alive(s)
    /\ at \in {"start", "forward"} => current \in Slots /\ keeper[current] = "none"
    /\ at = "forward" => Active
    /\ at \in {"select", "reply"} /\ ~vpnIsUp => \A s \in Slots : keeper[s] # "keeping"

-----------------------------------------------------------------------------

(* The ways in which the loop, or somebody who waits for it, can stop for    *)
(* good.                                                                   *)

Stopping == at = "stop" \/ main = "stopping"
Joining == at = "join" \/ main = "waiting"

\* Stop wants the mutex that the goroutine holds until its error is received.
UnheardError == Stopping /\ current # NoService /\ keeper[current] = "reporting"

\* Stop waits for a goroutine that waits for the mutex Stop holds.
CrossedFailure == Joining /\ keeper[current] = "failed"

\* The updater left with runCtx; the loop still answers it.
UnheardAnswer == at = "reply" /\ \A u \in Updaters : updater[u] # "await"

\* The loop reports a failure to a main that has gone on to stop it.
UnheardFailure == at = "fail" /\ main # "serving"

\* The loop ended by itself; runCtx does not say so.
EndedSilently == at = "done" /\ ~runCtxDone

\* A handler waits for the mutex of a service whose goroutine is never heard.
StaleSetter == \E h \in Setters : target[h] # NoService /\ keeper[target[h]] = "reporting"

Stuck ==
    \/ UnheardError \/ CrossedFailure \/ UnheardAnswer
    \/ UnheardFailure \/ EndedSilently \/ StaleSetter
    \/ at = "panicked"

(* UpdateWith, which Loop.cleanup of the VPN calls with the VPN's mutex held, *)
(* returns, or one of the situations above has been reached.                *)
UpdatesReturnOrStuck == \A u \in Updaters : updater[u] # "idle" ~> (updater[u] = "idle" \/ Stuck)

(* A handler that sets the ports gets its answer, or one of the situations    *)
(* above has been reached.                                                 *)
SetsReturnOrStuck == \A h \in Setters : target[h] # NoService ~> (target[h] = NoService \/ Stuck)

(* Loop.Stop, which main calls before it shuts anything else down, returns    *)
(* with the service stopped, or one of the situations above was reached.     *)
StopReturnsOrStuck == main = "joining" ~> (main = "finished" \/ Stuck)

\* Every call returns, or one of the situations above has been reached.
CallsReturnOrStuck == UpdatesReturnOrStuck /\ SetsReturnOrStuck /\ StopReturnsOrStuck

(* "Signal to the Update call that the service has started and if it failed   *)
(* to start": an update the loop took is answered.                          *)
UpdateIsAnswered == \A u \in Updaters : updater[u] = "await" ~> updater[u] # "await"
=============================================================================
