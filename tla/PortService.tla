---------------------------- MODULE PortService ----------------------------
(***************************************************************************)
(* The port forwarding service (internal/portforward/service).  The loop    *)
(* makes a new Service object for every update or retry; an object lives in  *)
(* a slot until nothing refers to it any more, since the goroutine that      *)
(* keeps its ports and a handler of the control server may outlive its use.  *)
(*                                                                         *)
(* startStopMutex is held across waits, so its owner is a variable.         *)
(* portMutex is only ever taken by a holder of startStopMutex, or to read.   *)
(* What a service changes outside is the firewall's allowed input ports and  *)
(* the status file.                                                        *)
(***************************************************************************)
EXTENDS Naturals, FiniteSets

CONSTANTS
    Slots,          \* where Service objects live
    NoService,      \* the nil Service
    Ports,          \* the ports a VPN server may forward (external ports)
    Internal,       \* the internal port of each of them
    Unlocked,       \* the value of a mutex nobody holds
    TheLoop,        \* the loop's goroutine, or main once the loop has ended
    TheKeeper,      \* the goroutine that keeps the ports of a service
    MaxFaults,      \* bound on the failures of the VPN provider
    MaxBroken       \* bound on the failures of the firewall and of the file

ASSUME ServiceConstants ==
    /\ NoService \notin Slots
    /\ DOMAIN Internal = Ports
    /\ Unlocked # TheLoop /\ Unlocked # TheKeeper /\ TheLoop # TheKeeper
    /\ MaxFaults \in Nat
    /\ MaxBroken \in Nat

VARIABLES
    owner,      \* who holds the startStopMutex of each service
    ports,      \* Service.ports, as a set
    keeper,     \* where the goroutine that keeps them is
    cancelled,  \* keepPortCancel was called
    allowed,    \* the input ports the firewall allows on the VPN interface
    file,       \* the ports in the status file
    nFaults,    \* failures of the provider so far
    nBroken     \* failures of the firewall and of the file so far

serviceVars == <<owner, ports, keeper, cancelled, allowed, file>>
faultVars == <<nFaults, nBroken>>

KeeperPlaces == {"none", "keeping", "failed", "reporting", "gone"}

InternalPorts == {Internal[p] : p \in Ports}

ServiceTypeOK ==
    /\ owner \in [Slots -> {Unlocked, TheLoop, TheKeeper}]
    /\ ports \in [Slots -> SUBSET Ports]
    /\ keeper \in [Slots -> KeeperPlaces]
    /\ cancelled \in [Slots -> BOOLEAN]
    /\ allowed \subseteq InternalPorts
    /\ file \subseteq Ports
    /\ nFaults \in 0..MaxFaults
    /\ nBroken \in 0..MaxBroken

ServiceInit ==
    /\ owner = [s \in Slots |-> Unlocked]
    /\ ports = [s \in Slots |-> {}]
    /\ keeper = [s \in Slots |-> "none"]
    /\ cancelled = [s \in Slots |-> FALSE]
    /\ allowed = {}
    /\ file = {}
    /\ nFaults = 0
    /\ nBroken = 0

Fault == nFaults < MaxFaults /\ nFaults' = nFaults + 1 /\ UNCHANGED nBroken

Broken == nBroken < MaxBroken /\ nBroken' = nBroken + 1 /\ UNCHANGED nFaults

----------------- (* What opening and cleaning up ports does *) ---------------

(* The state one service works on: its ports, the firewall and the file.    *)
Here(s) == [ports |-> ports[s], allowed |-> allowed, file |-> file]

Become(s, w) ==
    /\ ports' = [ports EXCEPT ![s] = w.ports]
    /\ allowed' = w.allowed
    /\ file' = w.file

\* A bug: the ports are forgotten without being blocked.
Cleaned_LeavesAllowed(w) == [w EXCEPT !.ports = {}, !.file = {}]

\* cleanup: the ports are blocked by their own number, then the file is cleared.
Cleaned(w) == [ports |-> {}, allowed |-> w.allowed \ w.ports, file |-> {}]

(* What is left when the firewall refuses one of them, or the file is not     *)
(* written, or is not given its owner.                                     *)
HalfCleaned(w) ==
    {[w EXCEPT !.allowed = @ \ A] : A \in (SUBSET w.ports) \ {w.ports}}
        \cup {[Cleaned(w) EXCEPT !.file = f] : f \in {w.file, {}}}

Allow(w, P) == [w EXCEPT !.allowed = @ \cup {Internal[p] : p \in P}]

\* A bug: the internal ports are recorded.
Opened_Internal(w, P) ==
    [Allow(w, P) EXCEPT !.ports = {Internal[p] : p \in P}, !.file = P]

\* onNewPorts: the internal ports are allowed and the file lists the external ones.
Opened(w, P) == [Allow(w, P) EXCEPT !.ports = P, !.file = P]

(* What is left when the firewall refuses one of them, or the file is not    *)
(* written and the service cleans up the ports it had before.               *)
HalfOpened(w, P) ==
    {Allow(w, A) : A \in SUBSET P}
        \cup {Cleaned(Allow(w, P))} \cup HalfCleaned(Allow(w, P))

-------------------------- (* Stopping a service *) ---------------------------

\* A bug: Stop takes every service for one that is not running.
StopNothing_Always(s) ==
    /\ owner[s] = Unlocked
    /\ UNCHANGED <<serviceVars, faultVars>>

\* Stop returns at once: the service has no ports.
StopNothing(s) ==
    /\ owner[s] = Unlocked /\ ports[s] = {}
    /\ UNCHANGED <<serviceVars, faultVars>>

\* A bug: the goroutine is not told to end.
StopCancels_Forgets(s) ==
    /\ owner[s] = Unlocked /\ ports[s] # {} /\ keeper[s] # "none"
    /\ owner' = [owner EXCEPT ![s] = TheLoop]
    /\ UNCHANGED <<ports, keeper, cancelled, allowed, file, faultVars>>

\* Stop locks the service and tells its goroutine to end.
StopCancels(s) ==
    /\ owner[s] = Unlocked /\ ports[s] # {} /\ keeper[s] # "none"
    /\ owner' = [owner EXCEPT ![s] = TheLoop]
    /\ cancelled' = [cancelled EXCEPT ![s] = TRUE]
    /\ UNCHANGED <<ports, keeper, allowed, file, faultVars>>

\* Stop calls the nil keepPortCancel of a service that was not started.
StopPanics(s) ==
    /\ owner[s] = Unlocked /\ ports[s] # {} /\ keeper[s] = "none"
    /\ UNCHANGED <<serviceVars, faultVars>>

\* The goroutine has ended: cleanup, and the unlock.
StopEnds(s) ==
    /\ keeper[s] = "gone"
    /\ owner' = [owner EXCEPT ![s] = Unlocked]
    /\ UNCHANGED <<keeper, cancelled>>

StopCleans(s) ==
    /\ StopEnds(s)
    /\ Become(s, Cleaned(Here(s)))
    /\ UNCHANGED faultVars

StopBreaks(s) ==
    /\ StopEnds(s)
    /\ Broken
    /\ \E w \in HalfCleaned(Here(s)) : Become(s, w)

------------- (* The goroutine that keeps the ports of a service *) -----------

\* KeepPortForward returns an error by itself.
KeeperFails(s) ==
    /\ keeper[s] = "keeping" /\ ~cancelled[s]
    /\ Fault
    /\ keeper' = [keeper EXCEPT ![s] = "failed"]
    /\ UNCHANGED <<owner, ports, cancelled, allowed, file>>

\* It returns because Stop cancelled it.
KeeperStops(s) ==
    /\ keeper[s] = "keeping" /\ cancelled[s]
    /\ keeper' = [keeper EXCEPT ![s] = "gone"]
    /\ UNCHANGED <<owner, ports, cancelled, allowed, file, faultVars>>

\* After a failure it locks the service and cleans up, whatever comes of that.
KeeperCleans(s) ==
    /\ keeper[s] = "failed" /\ owner[s] = Unlocked
    /\ owner' = [owner EXCEPT ![s] = TheKeeper]
    /\ keeper' = [keeper EXCEPT ![s] = "reporting"]
    /\ \/ Become(s, Cleaned(Here(s))) /\ UNCHANGED faultVars
       \/ Broken /\ \E w \in HalfCleaned(Here(s)) : Become(s, w)
    /\ UNCHANGED cancelled

\* runError <- err was received: the deferred unlocks, and the goroutine ends.
Reported(s) ==
    /\ keeper[s] = "reporting"
    /\ keeper' = [keeper EXCEPT ![s] = "gone"]
    /\ owner' = [owner EXCEPT ![s] = Unlocked]
    /\ UNCHANGED <<ports, cancelled, allowed, file, faultVars>>

KeeperStep(s) == KeeperFails(s) \/ KeeperStops(s) \/ KeeperCleans(s)

----------------------- (* onNewPorts and its callers *) ----------------------

(* onNewPorts with a context that is over or not: a port that is not allowed *)
(* yet takes a firewall command, which fails when the context is over.       *)
Opens(s, w, P, over) ==
    /\ over => \A p \in P : Internal[p] \in w.allowed
    /\ Become(s, Opened(w, P))
    /\ UNCHANGED faultVars

OpenFails(s, w, P, over) ==
    /\ Broken \/ (over /\ P # {} /\ UNCHANGED faultVars)
    /\ \E v \in HalfOpened(w, P) : Become(s, v)

(* SetPortsForwarded, holding the mutexes: the ports are replaced, or an     *)
(* error leaves the service in between.                                    *)
SetPorts(s, P, over) ==
    /\ owner[s] = Unlocked
    /\ \/ P = ports[s] /\ UNCHANGED <<ports, allowed, file, faultVars>>
       \/ /\ P # ports[s]
          /\ \/ Opens(s, Cleaned(Here(s)), P, over)
             \/ OpenFails(s, Cleaned(Here(s)), P, over)
             \/ Broken /\ \E w \in HalfCleaned(Here(s)) : Become(s, w)
    /\ UNCHANGED <<owner, keeper, cancelled>>
=============================================================================
