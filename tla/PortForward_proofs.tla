------------------------- MODULE PortForward_proofs -------------------------
(***************************************************************************)
(* Safety of the port forwarding loop for any number of updaters, service    *)
(* objects, ports and failures: type correctness, with handlers that set     *)
(* the ports; and, without them, that ports are kept once and only while    *)
(* the VPN is up.                                                          *)
(***************************************************************************)
EXTENDS PortForward, TLAPS

\* A fresh object is a vacant slot.
LEMMA FreshIsVacant ==
    ASSUME \E s \in Slots : Vacant(s)
    PROVE  Fresh \in Slots /\ Vacant(Fresh)
BY DEF Fresh

(***************************************************************************)
(* Type correctness.                                                       *)
(***************************************************************************)

\* What the service does keeps the types of its state.
LEMMA FaultTypes ==
    ASSUME nFaults \in 0..MaxFaults, nBroken \in 0..MaxBroken,
           Fault \/ Broken \/ UNCHANGED faultVars
    PROVE  nFaults' \in 0..MaxFaults /\ nBroken' \in 0..MaxBroken
BY ServiceConstants DEF Fault, Broken, faultVars

\* The states of the ports, the firewall and the file that a service may leave.
World == [ports : SUBSET Ports, allowed : SUBSET InternalPorts, file : SUBSET Ports]

\* Cleaning and opening, complete or not, leave such a state.
LEMMA WorldTypes ==
    ASSUME NEW w \in World, NEW P \in SUBSET Ports
    PROVE  /\ Cleaned(w) \in World
           /\ HalfCleaned(w) \subseteq World
           /\ Opened(w, P) \in World
           /\ HalfOpened(w, P) \subseteq World
<1>1. ASSUME NEW v \in World PROVE Cleaned(v) \in World /\ HalfCleaned(v) \subseteq World
    BY <1>1 DEF World, Cleaned, HalfCleaned
<1>2. ASSUME NEW A \in SUBSET Ports PROVE Allow(w, A) \in World
    BY DEF World, Allow, InternalPorts
<1>3. Opened(w, P) \in World
    BY <1>2 DEF World, Opened
<1>4. HalfOpened(w, P) \subseteq World
    BY <1>1, <1>2 DEF HalfOpened
<1> QED
    BY <1>1, <1>3, <1>4

(* One way to say what changed of a service's world. *)
LEMMA BecomeTypes ==
    ASSUME ServiceTypeOK, NEW s \in Slots, NEW w, w \in World, Become(s, w)
    PROVE  /\ ports' \in [Slots -> SUBSET Ports]
           /\ allowed' \subseteq InternalPorts
           /\ file' \subseteq Ports
BY DEF ServiceTypeOK, World, Become

LEMMA HereTypes ==
    ASSUME ServiceTypeOK, NEW s \in Slots
    PROVE  Here(s) \in World
BY DEF ServiceTypeOK, World, Here

\* Stop keeps the types of the service's state.
LEMMA StopTypes ==
    ASSUME ServiceTypeOK, NEW s \in Slots,
           StopNothing(s) \/ StopCancels(s) \/ StopPanics(s) \/ StopCleans(s) \/ StopBreaks(s)
    PROVE  ServiceTypeOK'
<1>1. nFaults' \in 0..MaxFaults /\ nBroken' \in 0..MaxBroken
    BY FaultTypes DEF ServiceTypeOK, StopNothing, StopCancels, StopPanics, StopCleans, StopBreaks, faultVars
<1>2. CASE StopNothing(s) \/ StopCancels(s) \/ StopPanics(s)
    BY <1>1, <1>2 DEF ServiceTypeOK, StopNothing, StopCancels, StopPanics, serviceVars
<1>3. CASE StopCleans(s) \/ StopBreaks(s)
    <2>1. PICK w \in World : Become(s, w)
        BY <1>3, HereTypes, WorldTypes DEF StopCleans, StopBreaks
    <2> QED
        BY <1>1, <1>3, <2>1, BecomeTypes DEF ServiceTypeOK, StopCleans, StopBreaks, StopEnds
<1> QED
    BY <1>2, <1>3

\* So does the goroutine that keeps the ports.
LEMMA KeeperTypes ==
    ASSUME ServiceTypeOK, NEW s \in Slots, KeeperStep(s) \/ Reported(s)
    PROVE  ServiceTypeOK'
<1> USE DEF ServiceTypeOK, KeeperPlaces
<1>1. nFaults' \in 0..MaxFaults /\ nBroken' \in 0..MaxBroken
    BY FaultTypes DEF KeeperStep, KeeperFails, KeeperStops, KeeperCleans, Reported, faultVars
<1>2. CASE KeeperFails(s) \/ KeeperStops(s) \/ Reported(s)
    BY <1>1, <1>2 DEF KeeperFails, KeeperStops, Reported
<1>3. CASE KeeperCleans(s)
    <2>1. PICK w \in World : Become(s, w)
        BY <1>3, HereTypes, WorldTypes DEF KeeperCleans
    <2> QED
        BY <1>1, <1>3, <2>1, BecomeTypes DEF KeeperCleans
<1> QED
    BY <1>2, <1>3 DEF KeeperStep

\* So do onNewPorts and SetPortsForwarded.
LEMMA OpenTypes ==
    ASSUME ServiceTypeOK, NEW s \in Slots, NEW w \in World, NEW P \in SUBSET Ports,
           NEW over \in BOOLEAN, Opens(s, w, P, over) \/ OpenFails(s, w, P, over)
    PROVE  /\ ports' \in [Slots -> SUBSET Ports]
           /\ allowed' \subseteq InternalPorts
           /\ file' \subseteq Ports
           /\ nFaults' \in 0..MaxFaults /\ nBroken' \in 0..MaxBroken
<1>1. PICK v \in World : Become(s, v)
    BY WorldTypes DEF Opens, OpenFails
<1>2. Fault \/ Broken \/ UNCHANGED faultVars
    BY DEF Opens, OpenFails
<1> QED
    BY <1>1, <1>2, BecomeTypes, FaultTypes DEF ServiceTypeOK

LEMMA SetTypes ==
    ASSUME ServiceTypeOK, NEW s \in Slots, NEW P \in SUBSET Ports,
           NEW over \in BOOLEAN, SetPorts(s, P, over)
    PROVE  ServiceTypeOK'
<1> DEFINE Old == Here(s)
<1>1. Old \in World /\ Cleaned(Old) \in World /\ HalfCleaned(Old) \subseteq World
    BY HereTypes, WorldTypes
<1>2. CASE UNCHANGED <<ports, allowed, file, faultVars>>
    BY <1>2 DEF ServiceTypeOK, SetPorts, faultVars
<1>3. CASE Opens(s, Cleaned(Old), P, over) \/ OpenFails(s, Cleaned(Old), P, over)
    <2>1. /\ ports' \in [Slots -> SUBSET Ports]
          /\ allowed' \subseteq InternalPorts
          /\ file' \subseteq Ports
          /\ nFaults' \in 0..MaxFaults /\ nBroken' \in 0..MaxBroken
        BY <1>1, <1>3, OpenTypes
    <2> QED
        BY <2>1 DEF ServiceTypeOK, SetPorts
<1>4. CASE Broken /\ \E w \in HalfCleaned(Old) : Become(s, w)
    <2>1. PICK w \in World : Become(s, w)
        BY <1>1, <1>4
    <2> QED
        BY <1>4, <2>1, BecomeTypes, FaultTypes DEF ServiceTypeOK, SetPorts
<1> QED
    BY <1>2, <1>3, <1>4 DEF SetPorts

\* The types of what belongs to the loop and its callers.
LoopTypeOK ==
    /\ at \in Places
    /\ updating \in BOOLEAN
    /\ current \in Slots \cup {NoService}
    /\ watched \in Slots \cup {NoService}
    /\ retryDue \in BOOLEAN
    /\ vpnIsUp \in BOOLEAN
    /\ fit \in BOOLEAN
    /\ runCtxDone \in BOOLEAN
    /\ main \in MainPlaces

CallTypeOK ==
    /\ updater \in [Updaters -> {"idle", "offer", "await"}]
    /\ notice \in [Updaters -> Notices]
    /\ target \in [Setters -> Slots \cup {NoService}]
    /\ newPorts \in [Setters -> SUBSET Ports]
    /\ nUpdates \in 0..MaxUpdates
    /\ nSets \in 0..MaxSets

\* The loop is woken up, replaces its service, or answers an updater.
LEMMA LoopTypes ==
    ASSUME TypeOK, LoopStep
    PROVE  LoopTypeOK' /\ CallTypeOK'
<1> USE DEF TypeOK, LoopTypeOK, CallTypeOK, Places, MainPlaces, LoopGoes, callVars
<1>1. CASE TakeDone
    BY <1>1 DEF TakeDone
<1>2. CASE TakeError
    BY <1>2 DEF TakeError
<1>3. CASE TakeRetry
    BY <1>3 DEF TakeRetry
<1>4. CASE StopService
    BY <1>4 DEF StopService
<1>5. CASE JoinService
    BY <1>5 DEF JoinService
<1>6. CASE ReportFailure
    BY <1>6 DEF ReportFailure
<1>7. CASE NewService
    BY <1>7, FreshIsVacant DEF NewService
<1>8. CASE StartLocks
    BY <1>8 DEF StartLocks
<1>9. CASE StartDisabled
    BY <1>9 DEF StartDisabled, AfterStart
<1>10. CASE StartFails
    BY <1>10 DEF StartFails, AfterStart
<1>11. ASSUME NEW P \in SUBSET Ports, StartSucceeds(P) PROVE LoopTypeOK' /\ CallTypeOK'
    BY <1>11 DEF StartSucceeds, AfterStart
<1>12. ASSUME NEW u \in Updaters, TakeUpdate(u) PROVE LoopTypeOK' /\ CallTypeOK'
    BY <1>12 DEF TakeUpdate, Fits
<1>13. ASSUME NEW u \in Updaters, RejectUpdate(u) PROVE LoopTypeOK' /\ CallTypeOK'
    BY <1>13 DEF RejectUpdate
<1>14. ASSUME NEW u \in Updaters, Reply(u) PROVE LoopTypeOK' /\ CallTypeOK'
    BY <1>14 DEF Reply
<1> QED
    BY <1>1, <1>2, <1>3, <1>4, <1>5, <1>6, <1>7, <1>8, <1>9, <1>10, <1>11, <1>12, <1>13, <1>14 DEF LoopStep

(* A loop that stops, starts or is stopped does so with a service at hand.    *)
HasService ==
    /\ at \in {"join", "start", "forward"} => current \in Slots
    /\ main \in {"stopping", "waiting"} => current \in Slots

\* What those steps do to the service.
LEMMA LoopServiceTypes ==
    ASSUME TypeOK, HasService, LoopStep
    PROVE  ServiceTypeOK'
<1>1. ServiceTypeOK /\ watched \in Slots \cup {NoService} /\ current \in Slots \cup {NoService}
        /\ runCtxDone \in BOOLEAN
    BY DEF TypeOK
<1>2. CASE \/ TakeDone \/ TakeRetry \/ ReportFailure \/ StartDisabled
           \/ \E u \in Updaters : TakeUpdate(u) \/ RejectUpdate(u) \/ Reply(u)
    BY <1>1, <1>2 DEF TakeDone, TakeRetry, ReportFailure, StartDisabled, TakeUpdate, RejectUpdate,
        Reply, ServiceTypeOK, serviceVars, faultVars
<1>3. CASE TakeError
    BY <1>1, <1>3, KeeperTypes DEF TakeError
<1>4. CASE StopService
    <2>1. CASE UNCHANGED <<serviceVars, faultVars>>
        BY <1>1, <2>1 DEF ServiceTypeOK, serviceVars, faultVars
    <2>2. CASE current \in Slots /\ (StopNothing(current) \/ StopCancels(current) \/ StopPanics(current))
        BY <1>1, <2>2, StopTypes
    <2> QED
        BY <1>1, <1>4, <2>1, <2>2 DEF StopService
<1>5. CASE JoinService
    BY <1>1, <1>5, StopTypes DEF JoinService, HasService
<1>6. CASE NewService
    BY <1>1, <1>6, FreshIsVacant DEF NewService, ServiceTypeOK, KeeperPlaces, faultVars
<1>7. CASE StartLocks
    BY <1>1, <1>7 DEF StartLocks, ServiceTypeOK, faultVars
<1>8. CASE \E P \in SUBSET Ports : StartSucceeds(P)
    <2>1. PICK P \in SUBSET Ports : StartSucceeds(P)
        BY <1>8
    <2>2. current \in Slots /\ Here(current) \in World
        BY <1>1, <2>1, HereTypes DEF StartSucceeds, HasService
    <2>3. Opens(current, Here(current), P, runCtxDone)
        BY <2>1 DEF StartSucceeds
    <2>4. /\ ports' \in [Slots -> SUBSET Ports]
          /\ allowed' \subseteq InternalPorts
          /\ file' \subseteq Ports
          /\ nFaults' \in 0..MaxFaults /\ nBroken' \in 0..MaxBroken
        BY <1>1, <2>2, <2>3, OpenTypes
    <2> QED
        BY <1>1, <2>1, <2>4 DEF ServiceTypeOK, StartSucceeds, KeeperPlaces
<1>9. CASE StartFails
    <2>1. current \in Slots /\ Here(current) \in World
        BY <1>1, <1>9, HereTypes DEF StartFails, HasService
    <2>2. /\ ports' \in [Slots -> SUBSET Ports]
          /\ allowed' \subseteq InternalPorts
          /\ file' \subseteq Ports
          /\ nFaults' \in 0..MaxFaults /\ nBroken' \in 0..MaxBroken
        <3>1. CASE (Fault \/ UNCHANGED faultVars) /\ UNCHANGED <<ports, allowed, file>>
            BY <1>1, <3>1, FaultTypes DEF ServiceTypeOK
        <3>2. CASE \E P \in SUBSET Ports : OpenFails(current, Here(current), P, runCtxDone)
            <4>1. PICK P \in SUBSET Ports : OpenFails(current, Here(current), P, runCtxDone)
                BY <3>2
            <4> QED
                BY <1>1, <2>1, <4>1, OpenTypes
        <3> QED
            BY <1>9, <3>1, <3>2 DEF StartFails
    <2> QED
        BY <1>1, <1>9, <2>2 DEF ServiceTypeOK, StartFails
<1> QED
    BY <1>2, <1>3, <1>4, <1>5, <1>6, <1>7, <1>8, <1>9 DEF LoopStep

\* Callers and main, in the same way.
LEMMA CallerTypes ==
    ASSUME TypeOK, CallerStep
    PROVE  TypeOK'
<1>1. CASE \/ \E u \in Updaters : UpdateLeaves(u) \/ \E n \in Notices : Update(u, n)
           \/ \E h \in Setters, P \in SUBSET Ports : Set(h, P)
    <2>1. ServiceTypeOK' /\ LoopTypeOK'
        BY <1>1 DEF UpdateLeaves, Update, Set, TypeOK, ServiceTypeOK, LoopTypeOK,
            serviceVars, faultVars, loopVars
    <2>2. CallTypeOK'
        BY <1>1, ForwardConstants DEF UpdateLeaves, Update, Set, TypeOK, CallTypeOK
    <2> QED
        BY <2>1, <2>2 DEF TypeOK, LoopTypeOK, CallTypeOK
<1>2. ASSUME NEW h \in Setters, SetRuns(h) PROVE TypeOK'
    <2>1. target[h] \in Slots /\ newPorts[h] \in SUBSET Ports /\ runCtxDone \in BOOLEAN
        BY <1>2 DEF SetRuns, TypeOK
    <2>2. ServiceTypeOK'
        BY <1>2, <2>1, SetTypes DEF SetRuns, TypeOK
    <2>3. LoopTypeOK' /\ CallTypeOK'
        BY <1>2 DEF SetRuns, TypeOK, LoopTypeOK, CallTypeOK, loopVars
    <2> QED
        BY <2>2, <2>3 DEF TypeOK, LoopTypeOK, CallTypeOK
<1> QED
    BY <1>1, <1>2 DEF CallerStep

LEMMA MainTypes ==
    ASSUME TypeOK, HasService, MainStep
    PROVE  TypeOK'
<1>1. LoopTypeOK' /\ CallTypeOK'
    BY ZenonT(60) DEF MainStep, MainCancels, MainJoins, MainStops, MainPanics, MainGoes, callVars,
        TypeOK, LoopTypeOK, CallTypeOK, MainPlaces, Places
<1>2. ServiceTypeOK
    BY DEF TypeOK
<1>3. ServiceTypeOK'
    <2>1. CASE MainCancels \/ MainJoins
        BY <1>2, <2>1 DEF MainCancels, MainJoins, ServiceTypeOK, serviceVars, faultVars
    <2>2. CASE MainStops \/ MainPanics
        <3>1. current \in Slots
            BY <2>2 DEF MainStops, MainPanics, MainGoes, HasService
        <3>2. \/ StopNothing(current) \/ StopCancels(current) \/ StopPanics(current)
              \/ StopCleans(current) \/ StopBreaks(current)
            BY <2>2 DEF MainStops, MainPanics
        <3> QED
            BY <1>2, <3>1, <3>2, StopTypes
    <2> QED
        BY <2>1, <2>2 DEF MainStep
<1> QED
    BY <1>1, <1>3 DEF TypeOK, LoopTypeOK, CallTypeOK

\* Every step keeps the types and finds its service.
LEMMA StepTypes ==
    ASSUME TypeOK, HasService, [Next]_vars
    PROVE  TypeOK' /\ HasService'
<1>1. TypeOK'
    <2>1. CASE LoopStep
        BY <2>1, LoopTypes, LoopServiceTypes DEF TypeOK, LoopTypeOK, CallTypeOK
    <2>2. ASSUME NEW s \in Slots, KeeperStep(s), UNCHANGED <<loopVars, callVars>> PROVE TypeOK'
        <3>1. ServiceTypeOK'
            BY <2>2, KeeperTypes DEF TypeOK
        <3> QED
            BY <2>2, <3>1 DEF TypeOK, loopVars, callVars
    <2>3. CASE UNCHANGED vars
        BY <2>3 DEF vars, serviceVars, faultVars, loopVars, callVars, TypeOK, ServiceTypeOK
    <2> QED
        BY <2>1, <2>2, <2>3, CallerTypes, MainTypes DEF Next
<1>2. HasService'
    <2> USE DEF TypeOK, HasService, LoopGoes
    <2>1. CASE TakeDone \/ TakeError \/ TakeRetry \/ StopService \/ JoinService \/ ReportFailure
        BY <2>1 DEF TakeDone, TakeError, TakeRetry, StopService, JoinService, ReportFailure
    <2>2. CASE NewService
        BY <2>2, FreshIsVacant DEF NewService
    <2>3. CASE StartLocks \/ StartDisabled \/ StartFails
               \/ \E P \in (SUBSET Ports) \ {{}} : StartSucceeds(P)
        BY <2>3 DEF StartLocks, StartDisabled, StartFails, StartSucceeds, AfterStart
    <2>4. CASE \E u \in Updaters : TakeUpdate(u) \/ RejectUpdate(u) \/ Reply(u)
        BY <2>4 DEF TakeUpdate, RejectUpdate, Reply
    <2>5. CASE CallerStep
        BY <2>5 DEF CallerStep, Update, UpdateLeaves, Set, SetRuns, loopVars
    <2>6. CASE MainStep
        BY <2>6 DEF MainStep, MainCancels, MainJoins, MainStops, MainPanics, MainGoes
    <2>7. CASE UNCHANGED loopVars
        BY <2>7 DEF loopVars
    <2> QED
        BY <2>1, <2>2, <2>3, <2>4, <2>5, <2>6, <2>7 DEF Next, LoopStep, vars
<1> QED
    BY <1>1, <1>2

LEMMA InitTypes ==
    ASSUME Init
    PROVE  TypeOK /\ HasService
<1>1. ServiceTypeOK
    BY ServiceConstants DEF Init, ServiceInit, ServiceTypeOK, KeeperPlaces
<1>2. CallTypeOK
    BY ForwardConstants DEF Init, CallTypeOK
<1>3. LoopTypeOK /\ HasService
    BY DEF Init, LoopTypeOK, HasService, Places, MainPlaces
<1> QED
    BY <1>1, <1>2, <1>3 DEF TypeOK, LoopTypeOK, CallTypeOK

(* The state of the services, the loop, its callers and main only ever holds  *)
(* the values the source gives it.                                         *)
THEOREM TypeCorrect == Spec => []TypeOK
<1>1. Init => TypeOK /\ HasService
    BY InitTypes
<1>2. TypeOK /\ HasService /\ [Next]_vars => (TypeOK /\ HasService)'
    BY StepTypes
<1> QED
    BY <1>1, <1>2, PTL DEF Spec

(***************************************************************************)
(* Without handlers that set the ports, KeepersFollow is inductive.        *)
(***************************************************************************)

\* What wakes the loop up, and the answer to an update.
LEMMA SelectFollows ==
    ASSUME TypeOK, KeepersFollow,
           \/ TakeDone \/ TakeError \/ TakeRetry
           \/ \E u \in Updaters : TakeUpdate(u) \/ RejectUpdate(u) \/ Reply(u)
    PROVE  KeepersFollow'
<1> USE DEF KeepersFollow, Alive, LoopGoes, Active
<1>1. CASE TakeDone
    BY <1>1 DEF TakeDone, serviceVars
<1>2. CASE TakeError
    BY <1>2 DEF TakeError, Reported, TypeOK, ServiceTypeOK
<1>3. CASE TakeRetry
    BY <1>3 DEF TakeRetry, serviceVars
<1>4. ASSUME NEW u \in Updaters, TakeUpdate(u) PROVE KeepersFollow'
    BY <1>4 DEF TakeUpdate, serviceVars
<1>5. ASSUME NEW u \in Updaters, RejectUpdate(u) PROVE KeepersFollow'
    BY <1>5 DEF RejectUpdate, serviceVars
<1>6. ASSUME NEW u \in Updaters, Reply(u) PROVE KeepersFollow'
    BY <1>6 DEF Reply, serviceVars
<1> QED
    BY <1>1, <1>2, <1>3, <1>4, <1>5, <1>6

\* Stop of the service the loop holds leaves at most its goroutine, which it awaits.
LEMMA StopFollows ==
    ASSUME TypeOK, HasService, KeepersFollow,
           StopService \/ JoinService \/ ReportFailure \/ MainStep
    PROVE  KeepersFollow'
<1> USE DEF KeepersFollow, Alive, LoopGoes, Active
<1>1. CASE StopService
    <2>1. CASE current = NoService /\ at' = "new" /\ UNCHANGED serviceVars
        <3>1. (\A s \in Slots : ~Alive(s)) /\ UNCHANGED <<keeper, ports, owner>>
            BY <2>1, ServiceConstants DEF serviceVars
        <3> QED
            BY <2>1, <3>1
    <2>2. CASE StopNothing(current) /\ at' = "new" /\ current \in Slots
        BY <1>1, <2>2, ServiceConstants DEF StopService, StopNothing, serviceVars, TypeOK, ServiceTypeOK
    <2>3. CASE StopCancels(current) /\ at' = "join" /\ current \in Slots
        <3>1. /\ owner' = [owner EXCEPT ![current] = TheLoop] /\ owner[current] = Unlocked
              /\ UNCHANGED <<keeper, ports, current, vpnIsUp>>
            BY <1>1, <2>3 DEF StopService, StopCancels
        <3>2. keeper[current] # "reporting"
            BY <2>3, <3>1, ServiceConstants
        <3> QED
            BY <2>3, <3>1, <3>2 DEF TypeOK, ServiceTypeOK
    <2>4. CASE StopPanics(current) /\ at' = "panicked"
        BY <1>1, <2>4 DEF StopService, StopPanics, serviceVars
    <2> QED
        BY <1>1, <2>1, <2>2, <2>3, <2>4 DEF StopService, TypeOK
<1>2. CASE JoinService
    <2>1. current \in Slots /\ keeper[current] = "gone"
        BY <1>2 DEF JoinService, HasService, StopCleans, StopBreaks, StopEnds
    <2>2. /\ keeper' = keeper /\ at' \in {"new", "fail"} /\ current' = current
          /\ owner' = [owner EXCEPT ![current] = Unlocked]
          /\ \E P : ports' = [ports EXCEPT ![current] = P]
        BY <1>2 DEF JoinService, StopCleans, StopBreaks, StopEnds, Become
    <2> QED
        BY <2>1, <2>2 DEF TypeOK, ServiceTypeOK
<1>3. CASE ReportFailure
    BY <1>3 DEF ReportFailure, serviceVars
<1>4. CASE MainCancels \/ MainJoins
    BY <1>4 DEF MainCancels, MainJoins, MainGoes, serviceVars
<1>5. CASE MainPanics
    BY <1>5 DEF MainPanics, StopPanics, serviceVars
<1>6. CASE MainStops
    <2>1. at' = at /\ current' = current /\ vpnIsUp' = vpnIsUp /\ current \in Slots
        BY <1>6 DEF MainStops, MainGoes, HasService
    <2>2. CASE StopNothing(current)
        BY <2>1, <2>2 DEF StopNothing, serviceVars
    <2>3. CASE StopCancels(current)
        BY <2>1, <2>3, ServiceConstants DEF StopCancels, TypeOK, ServiceTypeOK
    <2>4. CASE StopCleans(current) \/ StopBreaks(current)
        <3>1. /\ keeper' = keeper /\ keeper[current] = "gone"
              /\ owner' = [owner EXCEPT ![current] = Unlocked]
              /\ \E P : ports' = [ports EXCEPT ![current] = P]
            BY <2>4 DEF StopCleans, StopBreaks, StopEnds, Become
        <3> QED
            BY <2>1, <3>1 DEF TypeOK, ServiceTypeOK
    <2> QED
        BY <1>6, <2>2, <2>3, <2>4 DEF MainStops
<1> QED
    BY <1>1, <1>2, <1>3, <1>4, <1>5, <1>6 DEF MainStep

\* A new service has no goroutine until it is started.
LEMMA StartFollows ==
    ASSUME TypeOK, HasService, KeepersFollow,
           \/ NewService \/ StartLocks \/ StartDisabled \/ StartFails
           \/ \E P \in (SUBSET Ports) \ {{}} : StartSucceeds(P)
    PROVE  KeepersFollow'
<1> USE DEF KeepersFollow, Alive, LoopGoes, Active
<1>1. CASE NewService
    BY <1>1, FreshIsVacant DEF NewService, TypeOK, ServiceTypeOK
<1>2. CASE StartLocks
    BY <1>2 DEF StartLocks, TypeOK, ServiceTypeOK
<1>3. CASE StartDisabled
    BY <1>3 DEF StartDisabled, AfterStart, serviceVars
<1>4. CASE StartFails
    <2>1. /\ keeper' = keeper /\ owner' = [owner EXCEPT ![current] = Unlocked]
          /\ \E P : ports' = [ports EXCEPT ![current] = P]
          /\ at' \in {"reply", "select"} /\ UNCHANGED <<current, vpnIsUp>>
          /\ at = "forward"
        BY <1>4 DEF StartFails, AfterStart, OpenFails, Become, TypeOK, ServiceTypeOK
    <2> QED
        BY <2>1 DEF TypeOK, ServiceTypeOK
<1>5. ASSUME NEW P \in (SUBSET Ports) \ {{}}, StartSucceeds(P) PROVE KeepersFollow'
    <2>1. /\ keeper' = [keeper EXCEPT ![current] = "keeping"]
          /\ owner' = [owner EXCEPT ![current] = Unlocked]
          /\ ports' = [ports EXCEPT ![current] = P]
          /\ at' \in {"reply", "select"} /\ UNCHANGED <<current, vpnIsUp>>
          /\ at = "forward"
        BY <1>5 DEF StartSucceeds, AfterStart, Opens, Become, Opened, Allow
    <2> QED
        <3>1. current \in Slots /\ P # {} /\ vpnIsUp
            BY <2>1
        <3>2. \A s \in Slots : keeper'[s] = IF s = current THEN "keeping" ELSE keeper[s]
            BY <2>1 DEF TypeOK, ServiceTypeOK
        <3>3. \A s \in Slots : ports'[s] = IF s = current THEN P ELSE ports[s]
            BY <2>1 DEF TypeOK, ServiceTypeOK
        <3>4. \A s \in Slots : s # current => owner'[s] = owner[s]
            BY <2>1 DEF TypeOK, ServiceTypeOK
        <3> QED
            BY <2>1, <3>1, <3>2, <3>3, <3>4
<1> QED
    BY <1>1, <1>2, <1>3, <1>4, <1>5

\* The goroutine itself.
LEMMA KeeperFollows ==
    ASSUME TypeOK, KeepersFollow, UNCHANGED <<loopVars, callVars>>,
           NEW s \in Slots, KeeperStep(s)
    PROVE  KeepersFollow'
<1> USE DEF KeepersFollow, Alive, LoopGoes, Active, loopVars, TypeOK, ServiceTypeOK
<1>1. CASE KeeperFails(s)
    BY <1>1 DEF KeeperFails
<1>2. CASE KeeperStops(s)
    BY <1>2 DEF KeeperStops
<1>3. CASE KeeperCleans(s)
    <2>1. /\ keeper[s] = "failed" /\ owner' = [owner EXCEPT ![s] = TheKeeper]
          /\ keeper' = [keeper EXCEPT ![s] = "reporting"]
          /\ \E P : ports' = [ports EXCEPT ![s] = P]
        BY <1>3 DEF KeeperCleans, Become
    <2> QED
        BY <2>1
<1> QED
    BY <1>1, <1>2, <1>3 DEF KeeperStep

\* Every step keeps it when there are no handlers to set the ports.
LEMMA StepFollows ==
    ASSUME TypeOK, HasService, KeepersFollow, Setters = {}, [Next]_vars
    PROVE  KeepersFollow'
<1>1. CASE LoopStep
    BY <1>1, SelectFollows, StopFollows, StartFollows DEF LoopStep
<1>2. CASE CallerStep
    <2>1. UNCHANGED <<serviceVars, loopVars>>
        BY <1>2 DEF CallerStep, Update, UpdateLeaves
    <2> QED
        BY <2>1 DEF KeepersFollow, Alive, Active, serviceVars, loopVars
<1>3. CASE MainStep
    BY <1>3, StopFollows
<1>4. CASE UNCHANGED vars
    BY <1>4 DEF vars, KeepersFollow, Alive, Active, serviceVars, loopVars
<1> QED
    BY <1>1, <1>2, <1>3, <1>4, KeeperFollows DEF Next

(* Without handlers that set the ports, the service the loop holds is the    *)
(* only one with a goroutine that is not over.                             *)
THEOREM Followed ==
    ASSUME Setters = {}
    PROVE  Spec => []KeepersFollow
<1>1. Init => TypeOK /\ HasService /\ KeepersFollow
    BY InitTypes DEF Init, ServiceInit, KeepersFollow, Alive
<1>2. TypeOK /\ HasService /\ KeepersFollow /\ [Next]_vars => (TypeOK /\ HasService /\ KeepersFollow)'
    BY StepTypes, StepFollows
<1> QED
    BY <1>1, <1>2, PTL DEF Spec

(* Ports are kept by one goroutine at a time, across updates, failures of     *)
(* the provider and retries.                                               *)
THEOREM KeptOnce ==
    ASSUME Setters = {}
    PROVE  Spec => []OneKeeper
<1>1. KeepersFollow => OneKeeper
    BY DEF KeepersFollow, OneKeeper, Alive
<1> QED
    BY <1>1, Followed, PTL

(* "Only enable port forward if the VPN tunnel is up" holds however updates   *)
(* and failures interleave, and whichever updates are rejected.             *)
THEOREM KeptWhileUp ==
    ASSUME Setters = {}
    PROVE  Spec => []KeptOnlyWhileUp
<1>1. KeepersFollow => KeptOnlyWhileUp
    BY DEF KeepersFollow, KeptOnlyWhileUp, Idle
<1> QED
    BY <1>1, Followed, PTL

(***************************************************************************)
(* Where every port is forwarded to the same port, nothing a service of the  *)
(* past did is left: the firewall and the file say what the service says.   *)
(***************************************************************************)

(* Why: until the firewall or the file fails, or the loop is told to stop,    *)
(* what is allowed and what the file says are the ports of the service the   *)
(* loop holds, and nothing before it has one; a service has no ports before  *)
(* it is started, and main does nothing but serve.                         *)
Settled ==
    nBroken = 0 /\ ~runCtxDone =>
        /\ main = "serving" /\ at # "fail"
        /\ at \in {"start", "forward"} => ports[current] = {}
        /\ IF current = NoService \/ at = "new"
           THEN file = {} /\ allowed = {}
           ELSE file = ports[current] /\ allowed = ports[current]

(* A failure of the firewall or of the file is counted for good.             *)
LEMMA OnceBroken ==
    ASSUME nBroken \in 0..MaxBroken, Broken
    PROVE  nBroken' # 0
BY ServiceConstants DEF Broken

(* To clean up a service that has the allowed ports leaves nothing.          *)
LEMMA CleanedLeaves ==
    ASSUME TypeOK, current \in Slots, Become(current, Cleaned(Here(current))),
           file = ports[current], allowed = ports[current]
    PROVE  file' = {} /\ allowed' = {} /\ ports'[current] = {}
BY DEF TypeOK, ServiceTypeOK, Become, Cleaned, Here

\* What wakes the loop up, and the answer to an update.
LEMMA SelectSettles ==
    ASSUME TypeOK, Settled,
           \/ TakeDone \/ TakeError \/ TakeRetry
           \/ \E u \in Updaters : TakeUpdate(u) \/ RejectUpdate(u) \/ Reply(u)
    PROVE  Settled'
<1>1. /\ at \in {"select", "reply"} /\ at' \in {"select", "stop", "reply", "done"}
      /\ UNCHANGED <<ports, allowed, file, nBroken, current, runCtxDone, main>>
    BY DEF TakeDone, TakeError, TakeRetry, TakeUpdate, RejectUpdate, Reply, Reported,
        LoopGoes, serviceVars, faultVars
<1> QED
    BY <1>1 DEF Settled

\* Stop of the service the loop holds, by the loop or by main.
LEMMA StopSettles ==
    ASSUME TypeOK, HasService, Settled,
           StopService \/ JoinService \/ ReportFailure \/ MainStep
    PROVE  Settled'
<1> SUFFICES ASSUME nBroken' = 0, ~runCtxDone' PROVE Settled'
    BY DEF Settled
<1>1. CASE StopService
    <2>1. CASE current = NoService
        BY <1>1, <2>1 DEF StopService, Settled, serviceVars, faultVars
    <2>2. CASE current # NoService
        <3>1. /\ UNCHANGED <<ports, allowed, file, nBroken, current, runCtxDone, main>>
              /\ at = "stop" /\ at' \in {"new", "join", "panicked"}
              /\ at' = "new" => ports[current] = {}
            BY <1>1, <2>2 DEF StopService, StopNothing, StopCancels, StopPanics, serviceVars, faultVars
        <3> QED
            BY <2>2, <3>1 DEF Settled
    <2> QED
        BY <2>1, <2>2
<1>2. CASE JoinService
    <2>1. current \in Slots /\ current # NoService /\ at = "join"
          /\ UNCHANGED <<current, runCtxDone, main>>
        BY <1>2, ServiceConstants DEF JoinService, HasService
    <2>2. ~StopBreaks(current)
        BY OnceBroken DEF StopBreaks, TypeOK, ServiceTypeOK
    <2>3. StopCleans(current) /\ at' = "new"
        BY <1>2, <2>2 DEF JoinService
    <2>4. nBroken = 0 /\ Become(current, Cleaned(Here(current)))
        BY <2>3 DEF StopCleans, faultVars
    <2>5. file' = {} /\ allowed' = {}
        BY <2>1, <2>4, CleanedLeaves DEF Settled
    <2> QED
        BY <2>1, <2>3, <2>4, <2>5 DEF Settled
<1>3. CASE ReportFailure
    BY <1>3 DEF ReportFailure, LoopGoes, Settled, serviceVars, faultVars
<1>4. CASE MainStep
    BY <1>4 DEF MainStep, MainCancels, MainJoins, MainStops, MainPanics, MainGoes, StopNothing, StopCancels,
        StopPanics, StopCleans, StopBreaks, Broken, Settled, serviceVars, faultVars, TypeOK, ServiceTypeOK
<1> QED
    BY <1>1, <1>2, <1>3, <1>4

\* A new service, and what starting it does.
LEMMA StartSettles ==
    ASSUME TypeOK, HasService, Settled, \A p \in Ports : Internal[p] = p,
           \/ NewService \/ StartLocks \/ StartDisabled \/ StartFails
           \/ \E P \in (SUBSET Ports) \ {{}} : StartSucceeds(P)
    PROVE  Settled'
<1> SUFFICES ASSUME nBroken' = 0, ~runCtxDone' PROVE Settled'
    BY DEF Settled
<1>1. CASE NewService
    <2>1. Fresh \in Slots /\ current' = Fresh /\ ports'[Fresh] = {}
        BY <1>1, FreshIsVacant DEF NewService, TypeOK, ServiceTypeOK
    <2> QED
        BY <1>1, <2>1, ServiceConstants DEF NewService, LoopGoes, Settled, faultVars
<1>2. CASE StartLocks \/ StartDisabled
    <2>1. /\ at = "start" /\ at' \in {"forward", "reply", "select"} /\ current \in Slots
          /\ UNCHANGED <<ports, allowed, file, nBroken, current, runCtxDone, main>>
        BY <1>2 DEF StartLocks, StartDisabled, AfterStart, LoopGoes, HasService, serviceVars, faultVars
    <2> QED
        BY <2>1, ServiceConstants DEF Settled
<1>3. CASE StartFails
    <2>1. at = "forward" /\ at' \in {"reply", "select"} /\ current \in Slots
          /\ UNCHANGED <<current, runCtxDone, main>>
        BY <1>3 DEF StartFails, AfterStart, HasService
    <2>2. ASSUME NEW P \in SUBSET Ports, OpenFails(current, Here(current), P, runCtxDone) PROVE FALSE
        BY <1>3, <2>1, <2>2, OnceBroken DEF OpenFails, TypeOK, ServiceTypeOK
    <2>3. UNCHANGED <<ports, allowed, file, nBroken>>
        BY <1>3, <2>1, <2>2 DEF StartFails, Fault, faultVars
    <2> QED
        BY <2>1, <2>3, ServiceConstants DEF Settled
<1>4. ASSUME NEW P \in (SUBSET Ports) \ {{}}, StartSucceeds(P) PROVE Settled'
    <2>1. /\ at = "forward" /\ at' \in {"reply", "select"} /\ current \in Slots
          /\ UNCHANGED <<current, runCtxDone, main, nBroken>>
        BY <1>4 DEF StartSucceeds, AfterStart, HasService, Opens, faultVars
    <2>2. allowed = {} /\ file = {}
        BY <2>1, ServiceConstants DEF Settled
    <2>3. {Internal[p] : p \in P} = P
        OBVIOUS
    <2>4. Become(current, Opened(Here(current), P))
        BY <1>4 DEF StartSucceeds, Opens
    <2>5. ports'[current] = P /\ allowed' = P /\ file' = P
        BY <2>1, <2>2, <2>3, <2>4 DEF Become, Opened, Allow, Here, TypeOK, ServiceTypeOK
    <2> QED
        BY <2>1, <2>5, ServiceConstants DEF Settled
<1> QED
    BY <1>1, <1>2, <1>3, <1>4

\* The goroutine that keeps the ports cleans up no service but the loop's.
LEMMA KeeperSettles ==
    ASSUME TypeOK, KeepersFollow, Settled, UNCHANGED <<loopVars, callVars>>,
           NEW s \in Slots, KeeperStep(s)
    PROVE  Settled'
<1> SUFFICES ASSUME nBroken' = 0, ~runCtxDone' PROVE Settled'
    BY DEF Settled
<1>1. UNCHANGED <<at, current, runCtxDone, main>>
    BY DEF loopVars
<1>2. CASE KeeperFails(s) \/ KeeperStops(s)
    <2>1. UNCHANGED <<ports, allowed, file, nBroken>>
        BY <1>2 DEF KeeperFails, KeeperStops, Fault, faultVars
    <2> QED
        BY <1>1, <2>1 DEF Settled
<1>3. CASE KeeperCleans(s)
    <2>1. s = current /\ current # NoService /\ at \notin {"new", "start", "forward"}
        BY <1>3, ServiceConstants DEF KeeperCleans, KeepersFollow, Alive
    <2>2. UNCHANGED nBroken /\ Become(s, Cleaned(Here(s)))
        BY <1>3, OnceBroken DEF KeeperCleans, faultVars, TypeOK, ServiceTypeOK
    <2>3. file' = {} /\ allowed' = {} /\ ports'[current] = {}
        BY <1>1, <2>1, <2>2, CleanedLeaves DEF Settled
    <2> QED
        BY <1>1, <2>1, <2>2, <2>3 DEF Settled
<1> QED
    BY <1>2, <1>3 DEF KeeperStep

\* Every step keeps it.
LEMMA StepSettles ==
    ASSUME TypeOK, HasService, KeepersFollow, Settled, [Next]_vars,
           Setters = {}, \A p \in Ports : Internal[p] = p
    PROVE  Settled'
<1>1. CASE LoopStep
    BY <1>1, SelectSettles, StopSettles, StartSettles DEF LoopStep
<1>2. CASE CallerStep
    <2>1. UNCHANGED <<serviceVars, faultVars, loopVars>>
        BY <1>2 DEF CallerStep, Update, UpdateLeaves
    <2> QED
        BY <2>1 DEF Settled, serviceVars, faultVars, loopVars
<1>3. CASE MainStep
    BY <1>3, StopSettles
<1>4. CASE UNCHANGED vars
    BY <1>4 DEF vars, Settled, serviceVars, faultVars, loopVars
<1> QED
    BY <1>1, <1>2, <1>3, <1>4, KeeperSettles DEF Next

(* Without handlers that set the ports, and with a provider that forwards     *)
(* every port to the same port: whenever the loop is idle, and unless the    *)
(* firewall or the file failed or the program is ending, the firewall allows *)
(* and the file lists just the ports of the service the loop holds, however  *)
(* many services, failures of the provider and retries came before it.      *)
THEOREM NothingLeftBehind ==
    ASSUME Setters = {}, \A p \in Ports : Internal[p] = p
    PROVE  Spec => []PortsMatch
<1>1. Init => TypeOK /\ HasService /\ KeepersFollow /\ Settled
    BY InitTypes DEF Init, ServiceInit, KeepersFollow, Alive, Settled
<1>2. TypeOK /\ HasService /\ KeepersFollow /\ Settled /\ [Next]_vars
        => (TypeOK /\ HasService /\ KeepersFollow /\ Settled)'
    BY StepTypes, StepFollows, StepSettles
<1>3. TypeOK /\ Settled => PortsMatch
    <2>1. SUFFICES ASSUME TypeOK, Settled, Idle, nBroken = 0, ~runCtxDone
          PROVE  file = ports[current] /\ allowed = {Internal[p] : p \in ports[current]}
        BY DEF PortsMatch
    <2>2. file = ports[current] /\ allowed = ports[current] /\ current \in Slots
        BY <2>1 DEF Settled, Idle, TypeOK
    <2>3. {Internal[p] : p \in ports[current]} = ports[current]
        BY <2>1, <2>2 DEF TypeOK, ServiceTypeOK
    <2> QED
        BY <2>2, <2>3
<1> QED
    BY <1>1, <1>2, <1>3, PTL DEF Spec
=============================================================================
