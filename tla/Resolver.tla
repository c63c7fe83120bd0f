------------------------------- MODULE Resolver ------------------------------
(***************************************************************************)
(* The resolver of the updaters (internal/updater/resolver): Resolve of        *)
(* Parallel starts a goroutine for each host, which looks its host up over and  *)
(* over (Repeat) and sends what it found, or an error, on a channel that is     *)
(* closed when Resolve returns.                                            *)
(***************************************************************************)
EXTENDS Naturals, FiniteSets

CONSTANTS
    Hosts,      \* the hosts to resolve
    Addresses,  \* what a lookup may find
    MaxFails,   \* RepeatSettings.MaxFails, consecutive
    MaxNoNew,   \* RepeatSettings.MaxNoNew
    HostFails   \* int(MaxFailRatio * len(Hosts))

\* What the constants are assumed to be.
ResolverConstants == MaxFails \in Nat \ {0} /\ MaxNoNew \in Nat \ {0} /\ HostFails \in Nat

VARIABLE r
(* where: what each goroutine is doing; found: its addresses; fails and noNew: its  *)
(* counters; got: what Resolve received; resolve: whether it collects, returned, or  *)
(* failed; cancelled: its context; late: the settings of early failure.         *)

ResolverTypeOK ==
    /\ r.where \in [Hosts -> {"lookup", "wait", "send", "done", "panicked"}]
    /\ r.fails \in [Hosts -> 0..MaxFails] /\ r.noNew \in [Hosts -> 0..MaxNoNew]
    /\ r.resolve \in {"collecting", "returned", "failed"}
    /\ r.warnings \in 0..HostFails

ResolverInit ==
    \E early \in BOOLEAN :
    r = [where |-> [h \in Hosts |-> "lookup"], found |-> [h \in Hosts |-> {}],
         fails |-> [h \in Hosts |-> 0], noNew |-> [h \in Hosts |-> 0], late |-> {}, ok |-> {}, received |-> {},
         resolve |-> "collecting", err |-> FALSE, warnings |-> 0, cancelled |-> FALSE, early |-> early]

----------------------------- (* Repeat.Resolve *) ---------------------------

(* A lookup that fails is made again at once, MaxFails times in a row at most; a    *)
(* context that is done is a lookup that fails.                               *)
LookupFails(h) ==
    /\ r.where[h] = "lookup"
    /\ r' = [r EXCEPT !.fails[h] = @ + 1, !.where[h] = IF r.fails[h] + 1 = MaxFails THEN "send" ELSE "lookup"]

\* A bug: the limit is compared as strictly greater.
LookupSucceeds_NoEnd(h) ==
    /\ r.where[h] = "lookup" /\ ~r.cancelled /\ h \notin r.late
    /\ \E ips \in (SUBSET Addresses) \ {{}} :
          LET noNew == IF ips \subseteq r.found[h] THEN r.noNew[h] + 1 ELSE r.noNew[h] IN
          r' = [r EXCEPT !.fails[h] = 0, !.found[h] = @ \cup ips, !.noNew[h] = noNew,
                         !.where[h] = IF noNew > MaxNoNew THEN "send" ELSE "wait"]

\* One that succeeds counts when it brings nothing new, and is followed by a pause.
LookupSucceeds(h) ==
    /\ r.where[h] = "lookup" /\ ~r.cancelled /\ h \notin r.late
    /\ \E ips \in (SUBSET Addresses) \ {{}} :
          LET noNew == IF ips \subseteq r.found[h] THEN r.noNew[h] + 1 ELSE r.noNew[h] IN
          r' = [r EXCEPT !.fails[h] = 0, !.found[h] = @ \cup ips, !.noNew[h] = noNew,
                         !.where[h] = IF noNew = MaxNoNew THEN "send" ELSE "wait"]

\* The pause ends, or a context does.
Pause(h) ==
    /\ r.where[h] = "wait"
    /\ \/ r' = [r EXCEPT !.where[h] = "lookup"]
       \/ (r.cancelled \/ h \in r.late) /\ r' = [r EXCEPT !.where[h] = "send"]

\* MaxDuration has elapsed.
Timeout(h) == h \notin r.late /\ r.where[h] # "done" /\ r' = [r EXCEPT !.late = @ \cup {h}]

---------------------------- (* Parallel.Resolve *) --------------------------

All(received) == received = Hosts

\* A bug: Resolve returns at the first error.
Collected_First(v) == IF v.err THEN "failed" ELSE IF All(v.received) THEN "returned" ELSE "collecting"

\* Every goroutine is waited for, also after an early failure.
Collected(v) == IF ~All(v.received) THEN "collecting" ELSE IF v.err THEN "failed" ELSE "returned"

Ends(v) == r' = [v EXCEPT !.resolve = Collected(v)]

\* A bug: what was found before the last lookups failed is an error.
Found_NoFailure(h) == r.found[h] # {} /\ r.fails[h] < MaxFails

Found(h) == r.found[h] # {}

(* A host with an address is a result, even if its last lookups failed; the errors   *)
(* after maxFails of them are dropped, and the lookups that go on cancelled.      *)
Send(h) ==
    /\ r.where[h] = "send"
    /\ LET v == [r EXCEPT !.where[h] = "done", !.received = @ \cup {h}]
           warnings == IF r.warnings < HostFails THEN r.warnings + 1 ELSE r.warnings IN
       \/ r.resolve # "collecting" /\ r' = [r EXCEPT !.where[h] = "panicked"]
       \/ r.resolve = "collecting" /\ Found(h) /\ Ends([v EXCEPT !.ok = @ \cup {h}])
       \/ /\ r.resolve = "collecting" /\ ~Found(h)
          /\ IF r.early THEN Ends([v EXCEPT !.err = TRUE, !.cancelled = TRUE])
             ELSE Ends([v EXCEPT !.warnings = warnings, !.cancelled = @ \/ warnings = HostFails])

ResolverNext ==
    \E h \in Hosts : LookupFails(h) \/ LookupSucceeds(h) \/ Pause(h) \/ Timeout(h) \/ Send(h)

Goroutine(h) == LookupFails(h) \/ LookupSucceeds(h) \/ Pause(h) \/ Send(h)

ResolverFairness == \A h \in Hosts : WF_r(Goroutine(h)) /\ WF_r(Timeout(h))

------------------------------- (* Properties *) -----------------------------

(* No goroutine sends on a closed channel: Resolve has received from each of them   *)
(* before it returns, also when it fails early (resolver/parallel.go).           *)
NoLateSend == \A h \in Hosts : r.where[h] # "panicked"

(* Resolve does not lose an address that was found: a host that has one is in its    *)
(* result, unless it fails early (resolver/parallel.go and repeat.go).            *)
FoundIsGiven == r.resolve = "returned" => \A h \in Hosts : r.found[h] # {} => h \in r.ok

(* Resolve returns: the lookups of a host end, whatever the servers answer           *)
(* (resolver/repeat.go, resolveOnce).                                         *)
ResolveReturns == r.resolve = "collecting" ~> r.resolve # "collecting"

=============================================================================
