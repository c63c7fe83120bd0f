--------------------------- MODULE Program_proofs ---------------------------
(***************************************************************************)
(* The program, its servers data, its routing, the resolver of the updaters    *)
(* and the commands it runs, for any steps that fail and any bounds: an         *)
(* inductive invariant of each, that each of its actions keeps it, what it       *)
(* says, and then all of them.                                             *)
(***************************************************************************)
EXTENDS MCProgram, FiniteSetTheorems, TLAPS

(***************************************************************************)
(* The inductive invariants.                                               *)
(***************************************************************************)

\* A server, and the servers of every provider with their version and time.
ServerSet == [key : {"x", "y", "z"}, keep : BOOLEAN, of : Nat]
ServersData == [S!Providers -> [version : Nat, time : Nat, servers : SUBSET ServerSet]]

StorageRecord ==
    [phase : {"off", "failed", "open", "encode", "run"}, build : S!Builds, caller : {"start"} \cup S!Providers,
     mem : ServersData, file : [is : {"missing", "torn", "json"}, of : ServersData], path : BOOLEAN,
     now : 1..MaxTime, back : BOOLEAN, updates : Nat, faults : Nat, edits : Nat, saved : [S!Providers -> [of : Nat, time : Nat]]]

\* The program uses, or is about to save, what is in memory.
InMemory == s.phase \in {"open", "encode", "run"}

\* The last update that was saved for n is newer than what is built in, and of its version.
Newer(n) ==
    /\ s.saved[n].time > S!BuiltIn(s.build)[n].time
    /\ S!BuiltIn(s.build)[n].version = S!BuiltIn(1)[n].version

\* Then this list has it, or a later one, of the right version and not from the future.
Good(list, n) ==
    Newer(n) => /\ list[n].version = S!BuiltIn(1)[n].version
                /\ s.saved[n].time <= list[n].time /\ list[n].time <= s.now
                /\ \E x \in list[n].servers : ~x.keep /\ x.of >= s.saved[n].of

StorageInv ==
    /\ s \in StorageRecord
    /\ InMemory => \A n \in S!Providers : s.mem[n].version = S!BuiltIn(s.build)[n].version
    /\ s.file.is = "missing" => \A n \in S!Providers : s.saved[n].time = 0
    /\ ~s.path => s.file.is = "missing" /\ s.phase \in {"off", "run"}
    /\ \A n \in S!Providers : s.saved[n].of <= s.updates
    /\ ~s.back =>
          /\ \A n \in S!Providers : s.saved[n].time <= s.now
          /\ InMemory => \A n \in S!Providers : Good(s.mem, n)
          /\ s.file.is = "json" => \A n \in S!Providers : Good(s.file.of, n)
    /\ s.phase \in {"open", "encode"} /\ s.caller # "start" =>
          /\ s.mem[s.caller].time = s.now
          /\ \E x \in s.mem[s.caller].servers : ~x.keep /\ x.of = s.updates

ResolverRecord ==
    [where : [Hosts -> {"lookup", "wait", "send", "done"}], found : [Hosts -> SUBSET Addresses],
     fails : [Hosts -> Nat], noNew : [Hosts -> Nat], late : SUBSET Hosts, ok : SUBSET Hosts,
     received : SUBSET Hosts, resolve : {"collecting", "returned", "failed"}, err : BOOLEAN,
     warnings : Nat, cancelled : BOOLEAN, early : BOOLEAN]

ResolverInv ==
    /\ s \in ResolverRecord
    /\ s.received = {h \in Hosts : s.where[h] = "done"}
    /\ s.resolve # "collecting" => s.received = Hosts
    /\ \A h \in Hosts : s.fails[h] <= MaxFails /\ s.noNew[h] <= MaxNoNew
    /\ \A h \in Hosts : s.where[h] \in {"lookup", "wait"} => s.fails[h] < MaxFails /\ s.noNew[h] < MaxNoNew
    /\ \A h \in s.received : s.found[h] # {} => h \in s.ok
    /\ s.warnings <= HostFails

CommandsRecord ==
    [what : {"openvpn", "command"}, process : {"none", "running", "exited"},
     pipe : [Streams -> Seq({"line", "completed"})], shut : BOOLEAN,
     reader : [Streams -> {"none", "scan", "line", "completed", "done"}],
     waiter : {"none", "wait", "join", "send", "gone"}, stop : BOOLEAN,
     stream : {"none", "select", "ready", "done"}, streamCancel : BOOLEAN,
     run : {"start", "fails", "select", "wait", "join", "error", "done"},
     caller : {"select", "wait", "gone"}, ctx : BOOLEAN, lines : Nat]

NothingStarted == s.process = "none" /\ s.waiter = "none" /\ s.stream = "none"

CommandsInv ==
    /\ s \in CommandsRecord
    /\ s.run = "start" => NothingStarted /\ \A x \in Streams : s.reader[x] = "none"
    /\ s.run = "fails" => NothingStarted /\ s.shut /\ \A x \in Streams : s.reader[x] \in {"none", "scan", "done"}
    /\ s.run \in {"select", "wait"} => s.waiter # "gone"
    /\ s.run = "join" => s.waiter = "gone"
    /\ s.run \in {"error", "done"} =>
          \/ s.waiter = "gone" /\ s.stream = "done"
          \/ NothingStarted /\ \A x \in Streams : s.reader[x] \in {"none", "done"}
    /\ s.waiter = "join" => s.process = "exited"
    /\ s.waiter \in {"send", "gone"} => s.process = "exited" /\ \A x \in Streams : s.reader[x] = "done"

StartupRecord ==
    [at : Nat, set : SUBSET M!All(M!Fallible), services : SUBSET M!All(M!Launched), told : SUBSET M!All(M!Launched),
     late : SUBSET M!All(M!Launched), failed : BOOLEAN, torn : BOOLEAN, signal : BOOLEAN,
     main : {"wait", "grace", "exited"}, exit : {"none", "clean", "timeout"},
     server : [M!Servers -> {"none", "listening", "serving", "closing", "done"}],
     ready : SUBSET M!Servers, deaf : SUBSET M!Servers, pprof : BOOLEAN, proxy : BOOLEAN, vpnUp : BOOLEAN]

MainInv ==
    /\ s \in StartupRecord
    /\ s.at \in 1 .. Len(M!Steps) + 1
    /\ s.late \subseteq s.told
    /\ "vpn" \in s.services => M!All(M!Fallible) \subseteq s.set
    /\ s.at <= 36 => \A i \in 1..15 : i < s.at => M!Fallible[i] \in s.set
    /\ s.failed => s.at >= 37
    /\ ~s.failed => \A i \in 32..36 : i < s.at => M!Group(M!Steps[i]) \cap s.services \subseteq s.late
    /\ s.at = 38 => s.torn = ("routing" \in s.set)
    /\ s.exit = "clean" => s.at = 38

RouteSet == {K!Inbound(d) : d \in Nat} \cup {K!Outbound(x, d) : x \in K!Outer, d \in Nat}
RuleSet == {K!InboundRule(d) : d \in Nat} \cup {K!OutboundRule(x) : x \in K!Outer} \cup {K!LocalRule}

RoutingRecord ==
    [at : K!Stages, subnet : Nat, route : Nat, defaults : DefaultFamilies, routes : SUBSET RouteSet,
     rules : SUBSET RuleSet, outbound : SUBSET K!Outer, faults : Nat]

\* The places and what is there, whichever calls failed.
RoutingPlaces ==
    /\ s \in RoutingRecord
    /\ s.subnet \in 1 .. Len(Subnets) + 1 /\ s.route \in 1 .. Len(s.defaults) + 1
    /\ s.routes \subseteq K!AllRoutes
    /\ s.rules \subseteq
          {K!InboundRule(d) : d \in K!Each} \cup {K!OutboundRule(x) : x \in K!Outer} \cup {K!LocalRule}

\* The subnet x has a route.
Routed(x) == \E d \in K!Matching(x) : K!Outbound(x, d) \in s.routes

\* What is recorded is there until it is forgotten, and a rule of a subnet is recorded.
RoutingRecorded ==
    /\ s.at \notin {"forget", "end"} => \A x \in s.outbound : K!OutboundRule(x) \in s.rules /\ Routed(x)
    /\ s.at = "outbound" /\ K!InSubnets /\ (\E d \in K!Matching(K!This) : d < s.route) => Routed(K!This)
    /\ \A x \in K!Outer : K!OutboundRule(x) \in s.rules => x \in s.outbound

\* The inbound routes and rules, as far as the loops have gone when no call failed.
InboundDone ==
    /\ s.at = "routes" => \A d \in K!Each : d < s.route => K!Inbound(d) \in s.routes
    /\ s.at \in {"list", "outbound", "local", "running"} => \A d \in K!Each : K!Inbound(d) \in s.routes
    /\ s.at = "unroute" => \A d \in K!Each : K!Inbound(d) \in s.routes <=> d >= s.route
    /\ s.at \in {"unrule", "forget", "end"} => \A d \in K!Each : K!Inbound(d) \notin s.routes
    /\ s.at = "unrule" => \A d \in K!Each : d < s.route => K!InboundRule(d) \notin s.rules
    /\ s.at \in {"forget", "end"} => \A d \in K!Each : K!InboundRule(d) \notin s.rules

\* The outbound ones.
OutboundDone ==
    /\ \A x \in K!Outer, d \in K!Each : K!Outbound(x, d) \in s.routes =>
          x \in s.outbound \/ (s.at = "outbound" /\ K!InSubnets /\ x = K!This)
    /\ s.at = "forget" /\ K!InSubnets =>
          \A d \in K!Each : d < s.route => K!Outbound(K!This, d) \notin s.routes
    /\ s.at = "forget" => \A i \in 1..Len(Subnets) : i < s.subnet => Subnets[i] \notin s.outbound
    /\ s.at = "end" => s.outbound = {}

RoutingInv ==
    /\ RoutingPlaces /\ RoutingRecorded
    /\ s.faults = 0 /\ K!OnePerFamily => s.at # "teardown" /\ InboundDone /\ OutboundDone

ProgramInv ==
    /\ which = "main" => MainInv
    /\ which = "storage" => StorageInv
    /\ which = "routing" => RoutingInv
    /\ which = "resolver" => ResolverInv
    /\ which = "command" => CommandsInv

\* A resolution starts with every host to look up.
LEMMA ResolverInitInv ==
  ASSUME R!ResolverConstants, R!ResolverInit
  PROVE  ResolverInv
  BY DEF R!ResolverConstants, R!ResolverInit, ResolverInv, ResolverRecord

\* What an action leaves of the invariant.
LEMMA LookupFailsInv ==
  ASSUME R!ResolverConstants, ResolverInv, NEW h \in Hosts, R!LookupFails(h)
  PROVE  ResolverInv'
<1> DEFINE n == s.fails[h] + 1
           x == IF n = MaxFails THEN "send" ELSE "lookup"
<1>1. s.where[h] = "lookup" /\ s' = [s EXCEPT !.fails[h] = n, !.where[h] = x]
  BY DEF R!LookupFails
<1>2. s \in ResolverRecord /\ n \in Nat /\ n <= MaxFails /\ x \in {"send", "lookup"} /\ (x = "lookup" => n < MaxFails)
  BY <1>1 DEF ResolverInv, ResolverRecord, R!ResolverConstants
<1> HIDE DEF n, x
<1>3. /\ s'.fails = [s.fails EXCEPT ![h] = n] /\ s'.where = [s.where EXCEPT ![h] = x]
      /\ s'.received = s.received /\ s'.resolve = s.resolve /\ s'.noNew = s.noNew /\ s'.found = s.found
      /\ s'.ok = s.ok /\ s'.warnings = s.warnings
  BY <1>1, <1>2 DEF ResolverRecord
<1>4. s' \in ResolverRecord
  BY <1>1, <1>2 DEF ResolverRecord
<1>5. s'.received = {g \in Hosts : s'.where[g] = "done"}
  BY <1>1, <1>2, <1>3 DEF ResolverInv, ResolverRecord
<1>6. \A g \in Hosts : s'.fails[g] <= MaxFails /\ s'.noNew[g] <= MaxNoNew
  BY <1>2, <1>3 DEF ResolverInv, ResolverRecord
<1>7. \A g \in Hosts : s'.where[g] \in {"lookup", "wait"} => s'.fails[g] < MaxFails /\ s'.noNew[g] < MaxNoNew
  BY <1>1, <1>2, <1>3 DEF ResolverInv, ResolverRecord
<1> QED
  BY <1>3, <1>4, <1>5, <1>6, <1>7 DEF ResolverInv

\* A lookup that finds addresses, or none that is new, or the last it needs.
LEMMA LookupSucceedsInv ==
  ASSUME R!ResolverConstants, ResolverInv, NEW h \in Hosts, R!LookupSucceeds(h)
  PROVE  ResolverInv'
<1>1. PICK ips \in (SUBSET Addresses) \ {{}} :
        /\ s.where[h] = "lookup"
        /\ s' = [s EXCEPT !.fails[h] = 0, !.found[h] = @ \cup ips,
                          !.noNew[h] = IF ips \subseteq s.found[h] THEN s.noNew[h] + 1 ELSE s.noNew[h],
                          !.where[h] = IF (IF ips \subseteq s.found[h] THEN s.noNew[h] + 1 ELSE s.noNew[h]) = MaxNoNew
                                       THEN "send" ELSE "wait"]
  BY DEF R!LookupSucceeds
<1> DEFINE n == IF ips \subseteq s.found[h] THEN s.noNew[h] + 1 ELSE s.noNew[h]
           x == IF n = MaxNoNew THEN "send" ELSE "wait"
<1>2. /\ s \in ResolverRecord /\ n \in Nat /\ n <= MaxNoNew
      /\ x \in {"send", "wait"} /\ (x = "wait" => n < MaxNoNew)
  BY <1>1 DEF ResolverInv, ResolverRecord, R!ResolverConstants
<1>3. s' = [s EXCEPT !.fails[h] = 0, !.found[h] = @ \cup ips, !.noNew[h] = n, !.where[h] = x]
  BY <1>1
<1> HIDE DEF n, x
<1>4. /\ s'.fails = [s.fails EXCEPT ![h] = 0] /\ s'.where = [s.where EXCEPT ![h] = x]
      /\ s'.noNew = [s.noNew EXCEPT ![h] = n] /\ s'.found = [s.found EXCEPT ![h] = @ \cup ips]
      /\ s'.received = s.received /\ s'.resolve = s.resolve
      /\ s'.ok = s.ok /\ s'.warnings = s.warnings
  BY <1>2, <1>3 DEF ResolverRecord
<1>5. s' \in ResolverRecord
  BY <1>2, <1>3 DEF ResolverRecord
<1>6. s'.received = {g \in Hosts : s'.where[g] = "done"}
  BY <1>1, <1>2, <1>4 DEF ResolverInv, ResolverRecord
<1>7. \A g \in Hosts : s'.fails[g] <= MaxFails /\ s'.noNew[g] <= MaxNoNew
  BY <1>2, <1>4 DEF ResolverInv, ResolverRecord, R!ResolverConstants
<1>8. \A g \in Hosts : s'.where[g] \in {"lookup", "wait"} => s'.fails[g] < MaxFails /\ s'.noNew[g] < MaxNoNew
  BY <1>1, <1>2, <1>4 DEF ResolverInv, ResolverRecord, R!ResolverConstants
<1>9. \A g \in s'.received : s'.found[g] # {} => g \in s'.ok
  BY <1>1, <1>2, <1>4 DEF ResolverInv, ResolverRecord
<1> QED
  BY <1>4, <1>5, <1>6, <1>7, <1>8, <1>9 DEF ResolverInv

\* A host waits between its lookups.
LEMMA PauseInv ==
  ASSUME ResolverInv, NEW h \in Hosts, R!Pause(h)
  PROVE  ResolverInv'
<1>1. PICK x \in {"lookup", "send"} : s.where[h] = "wait" /\ s' = [s EXCEPT !.where[h] = x]
  BY DEF R!Pause
<1>2. s \in ResolverRecord /\ s' \in ResolverRecord /\ s'.where = [s.where EXCEPT ![h] = x]
  BY <1>1 DEF ResolverInv, ResolverRecord
<1>3. /\ s'.fails = s.fails /\ s'.noNew = s.noNew /\ s'.found = s.found /\ s'.ok = s.ok
      /\ s'.received = s.received /\ s'.resolve = s.resolve /\ s'.warnings = s.warnings
  BY <1>1, <1>2 DEF ResolverRecord
<1>4. s'.received = {g \in Hosts : s'.where[g] = "done"}
  BY <1>1, <1>2, <1>3 DEF ResolverInv, ResolverRecord
<1>5. \A g \in Hosts : s'.where[g] \in {"lookup", "wait"} => s'.fails[g] < MaxFails /\ s'.noNew[g] < MaxNoNew
  BY <1>1, <1>2, <1>3 DEF ResolverInv, ResolverRecord
<1> QED
  BY <1>2, <1>3, <1>4, <1>5 DEF ResolverInv

\* A lookup or a wait that is cut short by the context.
LEMMA TimeoutInv ==
  ASSUME ResolverInv, NEW h \in Hosts, R!Timeout(h)
  PROVE  ResolverInv'
<1>1. s' = [s EXCEPT !.late = @ \cup {h}] /\ s \in ResolverRecord
  BY DEF R!Timeout, ResolverInv
<1>2. /\ s' \in ResolverRecord /\ s'.where = s.where
      /\ s'.fails = s.fails /\ s'.noNew = s.noNew /\ s'.found = s.found /\ s'.ok = s.ok
      /\ s'.received = s.received /\ s'.resolve = s.resolve /\ s'.warnings = s.warnings
  BY <1>1 DEF ResolverRecord
<1> QED
  BY <1>2 DEF ResolverInv

\* Every goroutine sends to a Resolve that still collects, and ends.
LEMMA SendInv ==
  ASSUME R!ResolverConstants, ResolverInv, NEW h \in Hosts, R!Send(h)
  PROVE  ResolverInv'
<1>1. s \in ResolverRecord /\ s.where[h] = "send" /\ h \notin s.received /\ s.resolve = "collecting"
  BY DEF R!Send, ResolverInv, ResolverRecord
<1> DEFINE w == IF s.warnings < HostFails THEN s.warnings + 1 ELSE s.warnings
           v == [s EXCEPT !.where[h] = "done", !.received = @ \cup {h}]
<1>2. w \in Nat /\ w <= HostFails
  BY <1>1 DEF ResolverInv, ResolverRecord, R!ResolverConstants
<1>3. v \in ResolverRecord
  BY <1>1 DEF ResolverRecord
<1>4. \E u \in ResolverRecord :
        /\ u.where = [s.where EXCEPT ![h] = "done"] /\ u.received = s.received \cup {h}
        /\ u.fails = s.fails /\ u.noNew = s.noNew /\ u.found = s.found /\ u.warnings <= HostFails
        /\ (u.ok = s.ok \cup {h} \/ (u.ok = s.ok /\ s.found[h] = {}))
        /\ s' = [u EXCEPT !.resolve = R!Collected(u)]
  <2>1. CASE R!Found(h) /\ R!Ends([v EXCEPT !.ok = @ \cup {h}])
    <3> DEFINE u == [v EXCEPT !.ok = @ \cup {h}]
    <3>1. u \in ResolverRecord /\ u.where = [s.where EXCEPT ![h] = "done"] /\ u.received = s.received \cup {h}
      BY <1>1 DEF ResolverRecord
    <3>2. /\ u.fails = s.fails /\ u.noNew = s.noNew /\ u.found = s.found /\ u.warnings <= HostFails
          /\ u.ok = s.ok \cup {h}
      BY <1>1 DEF ResolverRecord, ResolverInv
    <3> QED
      BY <2>1, <3>1, <3>2 DEF R!Ends
  <2>2. CASE ~R!Found(h) /\ R!Ends([v EXCEPT !.err = TRUE, !.cancelled = TRUE])
    <3> DEFINE u == [v EXCEPT !.err = TRUE, !.cancelled = TRUE]
    <3>1. u \in ResolverRecord /\ u.where = [s.where EXCEPT ![h] = "done"] /\ u.received = s.received \cup {h}
      BY <1>1 DEF ResolverRecord
    <3>2. /\ u.fails = s.fails /\ u.noNew = s.noNew /\ u.found = s.found /\ u.warnings <= HostFails
          /\ u.ok = s.ok /\ s.found[h] = {}
      BY <1>1, <2>2 DEF ResolverRecord, ResolverInv, R!Found
    <3> QED
      BY <2>2, <3>1, <3>2 DEF R!Ends
  <2>3. CASE ~R!Found(h) /\ R!Ends([v EXCEPT !.warnings = w, !.cancelled = @ \/ w = HostFails])
    <3> HIDE DEF w
    <3> DEFINE u == [v EXCEPT !.warnings = w, !.cancelled = @ \/ w = HostFails]
    <3>1. u \in ResolverRecord /\ u.where = [s.where EXCEPT ![h] = "done"] /\ u.received = s.received \cup {h}
      BY <1>1, <1>2 DEF ResolverRecord
    <3>2. /\ u.fails = s.fails /\ u.noNew = s.noNew /\ u.found = s.found /\ u.warnings <= HostFails
          /\ u.ok = s.ok /\ s.found[h] = {}
      BY <1>1, <1>2, <2>3 DEF ResolverRecord, ResolverInv, R!Found
    <3> QED
      BY <2>3, <3>1, <3>2 DEF R!Ends
  <2> QED
    BY <1>1, <2>1, <2>2, <2>3 DEF R!Send
<1>5. PICK u \in ResolverRecord :
        /\ u.where = [s.where EXCEPT ![h] = "done"] /\ u.received = s.received \cup {h}
        /\ u.fails = s.fails /\ u.noNew = s.noNew /\ u.found = s.found /\ u.warnings <= HostFails
        /\ (u.ok = s.ok \cup {h} \/ (u.ok = s.ok /\ s.found[h] = {}))
        /\ s' = [u EXCEPT !.resolve = R!Collected(u)]
  BY <1>4
<1>6. R!Collected(u) \in {"collecting", "returned", "failed"} /\ (R!Collected(u) # "collecting" => u.received = Hosts)
  BY DEF R!Collected, R!All
<1>7. /\ s' \in ResolverRecord /\ s'.where = [s.where EXCEPT ![h] = "done"] /\ s'.received = s.received \cup {h}
      /\ s'.fails = s.fails /\ s'.noNew = s.noNew /\ s'.found = s.found /\ s'.warnings <= HostFails
      /\ (s'.ok = s.ok \cup {h} \/ (s'.ok = s.ok /\ s.found[h] = {}))
      /\ s'.resolve # "collecting" => s'.received = Hosts
  BY <1>5, <1>6 DEF ResolverRecord
<1>8. s'.received = {g \in Hosts : s'.where[g] = "done"}
  BY <1>1, <1>7 DEF ResolverInv, ResolverRecord
<1>9. \A g \in Hosts : s'.where[g] \in {"lookup", "wait"} => s'.fails[g] < MaxFails /\ s'.noNew[g] < MaxNoNew
  BY <1>1, <1>7 DEF ResolverInv, ResolverRecord
<1>10. \A g \in s'.received : s'.found[g] # {} => g \in s'.ok
  BY <1>1, <1>7 DEF ResolverInv, ResolverRecord
<1> QED
  BY <1>7, <1>8, <1>9, <1>10 DEF ResolverInv

\* Every step of the resolution.
LEMMA ResolverStepInv ==
  ASSUME R!ResolverConstants, ResolverInv, R!ResolverNext
  PROVE  ResolverInv'
  BY LookupFailsInv, LookupSucceedsInv, PauseInv, TimeoutInv, SendInv DEF R!ResolverNext

\* What the invariant says of the resolution.
LEMMA ResolverFacts ==
  ASSUME R!ResolverConstants, ResolverInv
  PROVE  R!ResolverTypeOK /\ R!NoLateSend /\ R!FoundIsGiven
  BY DEF R!ResolverConstants, ResolverInv, ResolverRecord, R!ResolverTypeOK, R!NoLateSend,
     R!FoundIsGiven

\* What is built in: the version of b is the only one that changes, and the times grow.
LEMMA BuiltInFacts ==
  ASSUME NEW b \in S!Builds, NEW n \in S!Providers
  PROVE  /\ S!BuiltIn(b) \in ServersData /\ S!BuiltIn(b)[n].time \in Nat \ {0}
         /\ S!BuiltIn(b)[n].version \in Nat
         /\ \A a \in S!Builds : a <= b =>
               /\ S!BuiltIn(a)[n].time <= S!BuiltIn(b)[n].time
               /\ S!BuiltIn(b)[n].version = S!BuiltIn(1)[n].version =>
                     S!BuiltIn(a)[n].version = S!BuiltIn(1)[n].version
<1>1. S!Builds = {1, 2} /\ S!Providers = {"a", "b"}
  BY DEF S!Builds, S!Providers
<1>2. \A a \in S!Builds : \A p \in S!Providers :
        S!BuiltIn(a)[p] = [version |-> IF p = "b" THEN a ELSE 1, time |-> 2 * a - 1,
                           servers |-> {S!Server("x", FALSE, 0), S!Server("y", FALSE, 0)}]
  BY DEF S!BuiltIn
<1>3. \A a \in S!Builds, p \in S!Providers :
        /\ S!BuiltIn(a)[p].version = IF p = "b" THEN a ELSE 1
        /\ S!BuiltIn(a)[p].time = 2 * a - 1
  <2> TAKE a \in S!Builds, p \in S!Providers
  <2> DEFINE v == IF p = "b" THEN a ELSE 1
             t == 2 * a - 1
             x == {S!Server("x", FALSE, 0), S!Server("y", FALSE, 0)}
  <2>1. S!BuiltIn(a)[p] = [version |-> v, time |-> t, servers |-> x]
    BY <1>2
  <2> HIDE DEF v, t, x
  <2>2. S!BuiltIn(a)[p].version = v /\ S!BuiltIn(a)[p].time = t
    BY <2>1
  <2> QED
    BY <2>2 DEF v, t
<1>4. {S!Server("x", FALSE, 0), S!Server("y", FALSE, 0)} \in SUBSET ServerSet
  BY DEF S!Server, ServerSet
<1>5. \A a \in S!Builds : 2 * a - 1 \in Nat \ {0} /\ a \in Nat
  BY <1>1
<1>6. S!BuiltIn(b) \in ServersData
  BY <1>2, <1>4, <1>5 DEF ServersData, S!BuiltIn
<1> QED
  BY <1>1, <1>3, <1>5, <1>6

\* The list without servers has no time.
LEMMA NoServersFacts ==
  /\ S!NoServers \in ServersData
  /\ \A n \in S!Providers : S!NoServers[n].time = 0 /\ S!NoServers[n].servers = {}
  BY DEF S!NoServers, ServersData

\* What is read of the file has its version, or it is nothing.
LEMMA ReadFacts ==
  ASSUME NEW b \in S!Builds, NEW onFile \in ServersData
  PROVE  /\ S!ReadServers(b, onFile) \in ServersData
         /\ \A n \in S!Providers :
               \/ onFile[n].version = S!BuiltIn(b)[n].version /\ S!ReadServers(b, onFile)[n] = onFile[n]
               \/ /\ onFile[n].version # S!BuiltIn(b)[n].version /\ S!ReadServers(b, onFile)[n].time = 0
                  /\ S!ReadServers(b, onFile)[n].servers = {}
  BY NoServersFacts DEF S!ReadServers, ServersData

\* The servers to keep are added to those that are built in.
LEMMA MergesFacts ==
  ASSUME NEW hardcoded, NEW persisted,
         hardcoded \in [version : Nat, time : Nat, servers : SUBSET ServerSet],
         persisted \in [version : Nat, time : Nat, servers : SUBSET ServerSet],
         NEW m \in S!Merges(hardcoded, persisted)
  PROVE  /\ m \in [version : Nat, time : Nat, servers : SUBSET ServerSet]
         /\ m.version = hardcoded.version
         /\ S!Kept(persisted.servers) \subseteq S!Kept(m.servers)
<1> DEFINE kept == {x \in persisted.servers : x.keep}
           keys == {x.key : x \in kept}
<1>1. PICK c \in SUBSET kept :
        /\ \A k \in keys : S!Cardinality({x \in c : x.key = k}) = 1
        /\ m = [hardcoded EXCEPT !.servers = {x \in @ : x.key \notin keys} \cup c]
  BY DEF S!Merges
<1>2. /\ m \in [version : Nat, time : Nat, servers : SUBSET ServerSet] /\ m.version = hardcoded.version
      /\ c \subseteq m.servers
  BY <1>1
<1>3. \A k \in keys : {x \in c : x.key = k} # {}
  <2> SUFFICES ASSUME NEW k \in keys, {x \in c : x.key = k} = {} PROVE FALSE
    OBVIOUS
  <2>1. S!Cardinality({}) = 1
    BY <1>1
  <2>2. S!Cardinality({}) = Cardinality({})
    BY DEF S!Cardinality, Cardinality, S!IsFiniteSet, IsFiniteSet
  <2> QED
    BY <2>1, <2>2, FS_EmptySet
<1>4. \A k \in keys : \E x \in m.servers : x.keep /\ x.key = k
  BY <1>2, <1>3
<1>5. S!Kept(persisted.servers) = keys
  BY DEF S!Kept
<1> QED
  BY <1>2, <1>4, <1>5 DEF S!Kept

\* One provider: what is merged has the version of what is built in, and newer data is taken as it is.
LEMMA MergeProviderFacts ==
  ASSUME NEW hardcoded, NEW persisted, NEW now \in Nat,
         hardcoded \in [version : Nat, time : Nat, servers : SUBSET ServerSet],
         persisted \in [version : Nat, time : Nat, servers : SUBSET ServerSet],
         NEW m \in S!MergeProviderServers(hardcoded, persisted, now)
  PROVE  /\ m \in [version : Nat, time : Nat, servers : SUBSET ServerSet]
         /\ persisted.time <= now /\ persisted.time > hardcoded.time => m = persisted
         /\ persisted.version = hardcoded.version \/ persisted.time = 0 => m.version = hardcoded.version
         /\ S!Kept(persisted.servers) \subseteq S!Kept(m.servers)
<1>1. CASE persisted.time <= now /\ persisted.time > hardcoded.time
  <2>1. m = persisted
    BY <1>1 DEF S!MergeProviderServers
  <2>2. persisted.time # 0
    BY <1>1
  <2> QED
    BY <2>1, <2>2
<1>2. CASE ~(persisted.time <= now /\ persisted.time > hardcoded.time)
  <2>1. m \in S!Merges(hardcoded, persisted)
    BY <1>2 DEF S!MergeProviderServers
  <2> QED
    BY <1>2, <2>1, MergesFacts
<1> QED
  BY <1>1, <1>2

\* What New uses: what is built in, when there is nothing to read, or what is merged.
LEMMA MergedFacts ==
  ASSUME NEW b \in S!Builds, NEW now \in Nat, NEW onFile \in ServersData, NEW m \in S!Merged(b, onFile, now)
  PROVE  /\ m \in ServersData
         /\ \A n \in S!Providers :
               /\ onFile[n].servers # {} /\ onFile[n].time <= now /\ onFile[n].time > S!BuiltIn(b)[n].time =>
                     m[n] = onFile[n]
               /\ onFile[n].version = S!BuiltIn(b)[n].version \/ onFile[n].time = 0 =>
                     m[n].version = S!BuiltIn(b)[n].version
               /\ S!Kept(onFile[n].servers) \subseteq S!Kept(m[n].servers)
<1>1. S!BuiltIn(b) \in ServersData
  BY BuiltInFacts DEF S!Providers
<1>2. CASE S!NoneIn(onFile)
  <2>1. m = S!BuiltIn(b)
    BY <1>2 DEF S!Merged
  <2>2. \A n \in S!Providers : onFile[n].servers = {}
    BY <1>2 DEF S!NoneIn
  <2>3. S!Kept({}) = {}
    BY DEF S!Kept
  <2> QED
    BY <1>1, <2>1, <2>2, <2>3
<1>3. CASE ~S!NoneIn(onFile)
  <2>1. /\ m \in [S!Providers -> UNION {S!MergeProviderServers(S!BuiltIn(b)[n], onFile[n], now) : n \in S!Providers}]
        /\ \A n \in S!Providers : m[n] \in S!MergeProviderServers(S!BuiltIn(b)[n], onFile[n], now)
    BY <1>3 DEF S!Merged
  <2>2. \A n \in S!Providers : /\ S!BuiltIn(b)[n] \in [version : Nat, time : Nat, servers : SUBSET ServerSet]
                               /\ onFile[n] \in [version : Nat, time : Nat, servers : SUBSET ServerSet]
    BY <1>1 DEF ServersData
  <2>3. \A n \in S!Providers :
          /\ m[n] \in [version : Nat, time : Nat, servers : SUBSET ServerSet]
          /\ onFile[n].time <= now /\ onFile[n].time > S!BuiltIn(b)[n].time => m[n] = onFile[n]
          /\ onFile[n].version = S!BuiltIn(b)[n].version \/ onFile[n].time = 0 =>
                m[n].version = S!BuiltIn(b)[n].version
          /\ S!Kept(onFile[n].servers) \subseteq S!Kept(m[n].servers)
    BY <2>1, <2>2, MergeProviderFacts
  <2>4. m \in ServersData
    BY <2>1, <2>3 DEF ServersData
  <2> QED
    BY <2>3, <2>4
<1> QED
  BY <1>2, <1>3

\* The first start, with no file.
LEMMA StorageInitInv ==
  ASSUME S!StorageConstants, S!StorageInit
  PROVE  StorageInv
<1>1. PICK path \in BOOLEAN :
        s = [phase |-> "off", build |-> 1, caller |-> "start", mem |-> S!NoServers,
             file |-> S!Content("missing", S!NoServers), path |-> path, now |-> 2, back |-> FALSE,
             updates |-> 0, faults |-> 0, edits |-> 0,
             saved |-> [n \in S!Providers |-> [of |-> 0, time |-> 0]]]
  BY DEF S!StorageInit
<1>2. 2 \in 1..MaxTime /\ 1 \in S!Builds
  BY DEF S!StorageConstants, S!Builds
<1>3. S!Content("missing", S!NoServers) \in [is : {"missing", "torn", "json"}, of : ServersData]
  BY NoServersFacts DEF S!Content
<1>4. [n \in S!Providers |-> [of |-> 0, time |-> 0]] \in [S!Providers -> [of : Nat, time : Nat]]
  OBVIOUS
<1>5. s \in StorageRecord
  BY <1>1, <1>2, <1>3, <1>4, NoServersFacts DEF StorageRecord
<1>6. /\ s.phase = "off" /\ s.file.is = "missing" /\ s.now = 2 /\ s.updates = 0
      /\ \A n \in S!Providers : s.saved[n].of = 0 /\ s.saved[n].time = 0
  BY <1>1 DEF S!Content
<1> QED
  BY <1>5, <1>6 DEF StorageInv, InMemory

\* The parts of the state, of their types.
LEMMA StorageParts ==
  ASSUME StorageInv
  PROVE  /\ s \in StorageRecord /\ s.build \in S!Builds /\ s.mem \in ServersData /\ s.file.of \in ServersData
         /\ s.now \in Nat /\ s.updates \in Nat /\ s.now \in 1..MaxTime
         /\ \A n \in S!Providers : s.saved[n].of \in Nat /\ s.saved[n].time \in Nat
         /\ \A n \in S!Providers : /\ s.mem[n].time \in Nat /\ s.mem[n].version \in Nat
                                   /\ s.file.of[n].time \in Nat /\ s.file.of[n].version \in Nat
  BY DEF StorageInv, StorageRecord, ServersData

\* Nothing saved is newer than what is built in when nothing is there to read.
LEMMA MissingNotNewer ==
  ASSUME StorageInv, s.file.is = "missing", NEW n \in S!Providers
  PROVE  ~Newer(n)
  BY BuiltInFacts, StorageParts DEF StorageInv, Newer

\* A start: the file is read, merged with what is built in, and saved if it has to be.
LEMMA StartInv ==
  ASSUME StorageInv, S!Start
  PROVE  StorageInv'
<1>0. PICK b \in s.build..2 :
        \/ ~s.path /\ s' = [s EXCEPT !.phase = "run", !.build = b, !.mem = S!BuiltIn(b)]
        \/ s.path /\ s.file.is = "torn" /\ s' = [s EXCEPT !.phase = "failed", !.build = b]
        \/ /\ s.path /\ s.file.is # "torn"
           /\ \E m \in S!Merged(b, S!ReadServers(b, s.file.of), s.now) :
                s' = [s EXCEPT !.phase = "open", !.caller = "start", !.build = b, !.mem = m]
  BY DEF S!Start
<1>1. s \in StorageRecord /\ s.build \in S!Builds /\ b \in S!Builds /\ s.build <= b
  BY StorageParts DEF S!Builds
<1>2. S!BuiltIn(b) \in ServersData
  BY <1>1, BuiltInFacts DEF S!Providers
<1>3. ASSUME NEW n \in S!Providers, s.saved[n].time > S!BuiltIn(b)[n].time,
             S!BuiltIn(b)[n].version = S!BuiltIn(1)[n].version
      PROVE  Newer(n) /\ S!BuiltIn(b)[n].time \in Nat \ {0}
  BY <1>1, <1>3, BuiltInFacts, StorageParts DEF Newer
<1>4. CASE ~s.path /\ s' = [s EXCEPT !.phase = "run", !.build = b, !.mem = S!BuiltIn(b)]
  <2>1. /\ s' \in StorageRecord /\ s'.phase = "run" /\ s'.build = b /\ s'.mem = S!BuiltIn(b)
        /\ s'.file = s.file /\ s'.saved = s.saved /\ s'.path = s.path /\ s'.updates = s.updates
        /\ s'.back = s.back /\ s'.now = s.now /\ s'.caller = s.caller
    BY <1>1, <1>2, <1>4 DEF StorageRecord
  <2>2. s.file.is = "missing"
    BY <1>4 DEF StorageInv
  <2>3. \A n \in S!Providers : ~Newer(n)'
    <3> SUFFICES ASSUME NEW n \in S!Providers, Newer(n)' PROVE FALSE
      OBVIOUS
    <3>1. s.saved[n].time > S!BuiltIn(b)[n].time /\ S!BuiltIn(b)[n].version = S!BuiltIn(1)[n].version
      BY <2>1 DEF Newer
    <3> QED
      BY <1>3, <2>2, <3>1, MissingNotNewer
  <2>4. \A n \in S!Providers : Good(s.mem, n)' /\ Good(s.file.of, n)'
    BY <2>3 DEF Good
  <2> QED
    BY <1>4, <2>1, <2>2, <2>4 DEF StorageInv
<1>5. CASE s.path /\ s.file.is = "torn" /\ s' = [s EXCEPT !.phase = "failed", !.build = b]
  <2>1. /\ s' \in StorageRecord /\ s'.phase = "failed" /\ s'.build = b
        /\ s'.file = s.file /\ s'.saved = s.saved /\ s'.path = s.path /\ s'.updates = s.updates
        /\ s'.back = s.back /\ s'.now = s.now
    BY <1>1, <1>5 DEF StorageRecord
  <2> QED
    BY <1>5, <2>1 DEF StorageInv, InMemory
<1>6. CASE /\ s.path /\ s.file.is # "torn"
           /\ \E m \in S!Merged(b, S!ReadServers(b, s.file.of), s.now) :
                s' = [s EXCEPT !.phase = "open", !.caller = "start", !.build = b, !.mem = m]
  <2>1. PICK m \in S!Merged(b, S!ReadServers(b, s.file.of), s.now) :
          s' = [s EXCEPT !.phase = "open", !.caller = "start", !.build = b, !.mem = m]
    BY <1>6
  <2> DEFINE onFile == S!ReadServers(b, s.file.of)
  <2>2. /\ onFile \in ServersData
        /\ \A n \in S!Providers :
             \/ s.file.of[n].version = S!BuiltIn(b)[n].version /\ onFile[n] = s.file.of[n]
             \/ /\ s.file.of[n].version # S!BuiltIn(b)[n].version /\ onFile[n].time = 0
                /\ onFile[n].servers = {}
    BY <1>1, ReadFacts, StorageParts
  <2> HIDE DEF onFile
  <2>3. /\ m \in ServersData
        /\ \A n \in S!Providers :
              /\ onFile[n].servers # {} /\ onFile[n].time <= s.now /\ onFile[n].time > S!BuiltIn(b)[n].time =>
                    m[n] = onFile[n]
              /\ onFile[n].version = S!BuiltIn(b)[n].version \/ onFile[n].time = 0 =>
                    m[n].version = S!BuiltIn(b)[n].version
    BY <1>1, <2>1, <2>2, MergedFacts, StorageParts DEF onFile
  <2>4. \A n \in S!Providers : m[n].version = S!BuiltIn(b)[n].version
    BY <2>2, <2>3
  <2>5. /\ s' \in StorageRecord /\ s'.phase = "open" /\ s'.build = b /\ s'.mem = m /\ s'.caller = "start"
        /\ s'.file = s.file /\ s'.saved = s.saved /\ s'.path = s.path /\ s'.updates = s.updates
        /\ s'.back = s.back /\ s'.now = s.now
    BY <1>1, <2>1, <2>3 DEF StorageRecord
  <2>6. ASSUME NEW n \in S!Providers, ~s.back, s.file.is = "json"
        PROVE  Good(s.file.of, n)'
    <3> SUFFICES ASSUME Newer(n)'
                 PROVE  (/\ s.file.of[n].version = S!BuiltIn(1)[n].version
                         /\ s.saved[n].time <= s.file.of[n].time /\ s.file.of[n].time <= s.now
                         /\ \E x \in s.file.of[n].servers : ~x.keep /\ x.of >= s.saved[n].of)'
      BY DEF Good
    <3>1. s.saved[n].time > S!BuiltIn(b)[n].time /\ S!BuiltIn(b)[n].version = S!BuiltIn(1)[n].version
      BY <2>5 DEF Newer
    <3>2. Newer(n) /\ Good(s.file.of, n)
      BY <1>3, <2>6, <3>1 DEF StorageInv
    <3> QED
      BY <2>5, <3>2 DEF Good
  <2>7. ASSUME NEW n \in S!Providers, ~s.back
        PROVE  Good(s.mem, n)'
    <3> SUFFICES ASSUME Newer(n)'
                 PROVE  (/\ s.mem[n].version = S!BuiltIn(1)[n].version
                         /\ s.saved[n].time <= s.mem[n].time /\ s.mem[n].time <= s.now
                         /\ \E x \in s.mem[n].servers : ~x.keep /\ x.of >= s.saved[n].of)'
      BY DEF Good
    <3>1. s.saved[n].time > S!BuiltIn(b)[n].time /\ S!BuiltIn(b)[n].version = S!BuiltIn(1)[n].version
      BY <2>5 DEF Newer
    <3>2. Newer(n) /\ S!BuiltIn(b)[n].time \in Nat \ {0}
      BY <1>3, <3>1
    <3>3. s.file.is = "json"
      BY <1>1, <1>6, <3>2, MissingNotNewer DEF StorageRecord
    <3>4. /\ s.file.of[n].version = S!BuiltIn(1)[n].version
          /\ s.saved[n].time <= s.file.of[n].time /\ s.file.of[n].time <= s.now
          /\ \E x \in s.file.of[n].servers : ~x.keep /\ x.of >= s.saved[n].of
      BY <2>7, <3>2, <3>3 DEF StorageInv, Good
    <3>5. onFile[n] = s.file.of[n]
      BY <2>2, <3>1, <3>4
    <3>6. s.file.of[n].time > S!BuiltIn(b)[n].time
      BY <3>1, <3>2, <3>4, StorageParts
    <3>7. m[n] = s.file.of[n]
      BY <2>3, <3>4, <3>5, <3>6
    <3> QED
      BY <2>5, <3>4, <3>7
  <2> QED
    BY <1>6, <2>4, <2>5, <2>6, <2>7 DEF StorageInv
<1> QED
  BY <1>0, <1>4, <1>5, <1>6

\* An update of a provider.
LEMMA SetServersInv ==
  ASSUME StorageInv, NEW n \in S!Providers, S!SetServers(n)
  PROVE  StorageInv'
<1> DEFINE x == S!Server("x", FALSE, s.updates + 1)
           ph == IF s.path THEN "open" ELSE "run"
<1>1. s \in StorageRecord /\ s.phase = "run" /\ x \in ServerSet /\ ~x.keep /\ x.of = s.updates + 1
  BY StorageParts DEF S!SetServers, S!Server, ServerSet
<1>2. s' = [s EXCEPT !.phase = ph, !.caller = n, !.updates = @ + 1, !.mem[n].time = s.now, !.mem[n].servers = {x}]
  BY DEF S!SetServers
<1>3. ph \in {"open", "run"} /\ (ph = "open" => s.path)
  OBVIOUS
<1> HIDE DEF x, ph
<1>4. /\ s'.mem = [s.mem EXCEPT ![n].time = s.now, ![n].servers = {x}] /\ s'.phase = ph /\ s'.caller = n
      /\ s'.updates = s.updates + 1 /\ s'.build = s.build /\ s'.file = s.file /\ s'.path = s.path
      /\ s'.now = s.now /\ s'.back = s.back /\ s'.saved = s.saved
  BY <1>1, <1>2 DEF StorageRecord
<1>5. s'.mem \in ServersData
  BY SMTT(60), <1>1, <1>4, StorageParts DEF ServersData
<1>6. s' \in StorageRecord
  <2>1. s.updates + 1 \in Nat /\ ph \in {"off", "failed", "open", "encode", "run"} /\ n \in {"start"} \cup S!Providers
    BY <1>3, StorageParts
  <2>2. s' = [s EXCEPT !.phase = ph, !.caller = n, !.updates = s.updates + 1, !.mem = s'.mem]
    BY ZenonT(60), <1>1, <1>2, <1>4 DEF StorageRecord
  <2> QED
    BY <1>1, <1>5, <2>1, <2>2 DEF StorageRecord
<1>7. /\ s'.mem[n].time = s.now /\ s'.mem[n].servers = {x} /\ s'.mem[n].version = s.mem[n].version
      /\ \A p \in S!Providers \ {n} : s'.mem[p] = s.mem[p]
  BY <1>1, <1>4, StorageParts DEF ServersData
<1>8. \A p \in S!Providers : s'.mem[p].version = S!BuiltIn(s.build)[p].version
  BY <1>1, <1>7 DEF StorageInv, InMemory
<1>9. \A p \in S!Providers : s.saved[p].of <= s.updates + 1
  BY StorageParts DEF StorageInv
<1>10. ASSUME ~s.back, NEW p \in S!Providers
       PROVE  Good(s.mem, p)' /\ (s.file.is = "json" => Good(s.file.of, p)')
  <2>1. Newer(p)' <=> Newer(p)
    BY <1>4 DEF Newer
  <2>2. s.file.is = "json" => Good(s.file.of, p)'
    BY <1>4, <1>10, <2>1 DEF StorageInv, Good
  <2>3. CASE p # n
    BY <1>1, <1>4, <1>7, <1>10, <2>1, <2>2, <2>3 DEF StorageInv, InMemory, Good
  <2>4. CASE p = n
    <3>1. s.saved[n].time <= s.now /\ s.now <= s.now /\ x.of >= s.saved[n].of
      BY <1>1, <1>9, <1>10, StorageParts DEF StorageInv
    <3>2. Newer(n) => s'.mem[n].version = S!BuiltIn(1)[n].version
      BY <1>8 DEF Newer
    <3> QED
      BY <1>1, <1>4, <1>7, <2>1, <2>2, <2>4, <3>1, <3>2 DEF Good
  <2> QED
    BY <2>3, <2>4
<1>11. \E y \in s'.mem[n].servers : ~y.keep /\ y.of = s'.updates
  BY <1>1, <1>4, <1>7
<1> QED
  BY <1>1, <1>3, <1>4, <1>6, <1>7, <1>8, <1>9, <1>10, <1>11 DEF StorageInv, InMemory

\* The file is opened, which truncates it.
LEMMA OpenInv ==
  ASSUME StorageInv, S!Open
  PROVE  StorageInv'
<1>1. /\ s \in StorageRecord /\ s.phase = "open"
      /\ s' = [s EXCEPT !.phase = "encode", !.file = S!Content("torn", S!NoServers)]
  BY StorageParts DEF S!Open
<1>2. S!Content("torn", S!NoServers) \in [is : {"missing", "torn", "json"}, of : ServersData]
      /\ S!Content("torn", S!NoServers).is = "torn"
  BY NoServersFacts DEF S!Content
<1>3. /\ s' \in StorageRecord /\ s'.phase = "encode" /\ s'.file.is = "torn" /\ s'.mem = s.mem /\ s'.build = s.build
      /\ s'.caller = s.caller /\ s'.updates = s.updates /\ s'.path = s.path /\ s'.now = s.now
      /\ s'.back = s.back /\ s'.saved = s.saved
  BY <1>1, <1>2 DEF StorageRecord
<1>4. \A n \in S!Providers : Good(s.mem, n)' <=> Good(s.mem, n)
  BY <1>3 DEF Good, Newer
<1>5. s.path
  BY <1>1 DEF StorageInv
<1> QED
  BY <1>1, <1>3, <1>4, <1>5 DEF StorageInv, InMemory

\* What was written is what is in memory, and the caller is told that its update is saved.
LEMMA EncodeInv ==
  ASSUME StorageInv, S!Encode
  PROVE  StorageInv'
<1> DEFINE saved == S!Returns([of |-> s.updates, time |-> s.now])
<1>1. /\ s \in StorageRecord /\ s.phase = "encode" /\ s.path
      /\ s' = [s EXCEPT !.phase = "run", !.file = S!Content("json", s.mem), !.saved = saved]
  BY StorageParts DEF S!Encode, StorageInv
<1>2. /\ saved \in [S!Providers -> [of : Nat, time : Nat]]
      /\ \A n \in S!Providers : \/ saved[n] = s.saved[n]
                                \/ n = s.caller /\ saved[n].of = s.updates /\ saved[n].time = s.now
  <2>1. s.saved \in [S!Providers -> [of : Nat, time : Nat]]
    BY <1>1 DEF StorageRecord
  <2> QED
    BY <2>1, StorageParts DEF S!Returns
<1> HIDE DEF saved
<1>3. /\ S!Content("json", s.mem) \in [is : {"missing", "torn", "json"}, of : ServersData]
      /\ S!Content("json", s.mem).is = "json" /\ S!Content("json", s.mem).of = s.mem
  BY StorageParts DEF S!Content
<1>4. /\ s' \in StorageRecord /\ s'.phase = "run" /\ s'.file.is = "json" /\ s'.file.of = s.mem /\ s'.mem = s.mem
      /\ s'.build = s.build /\ s'.updates = s.updates /\ s'.path = s.path /\ s'.now = s.now
      /\ s'.back = s.back /\ s'.saved = saved
  BY <1>1, <1>2, <1>3 DEF StorageRecord
<1>5. \A n \in S!Providers : saved[n].of <= s.updates
  BY <1>2, StorageParts DEF StorageInv
<1>6. ASSUME ~s.back PROVE \A n \in S!Providers : saved[n].time <= s.now
  BY <1>2, <1>6, StorageParts DEF StorageInv
<1>7. ASSUME ~s.back, NEW n \in S!Providers
      PROVE  Good(s.mem, n)' /\ Good(s.file.of, n)'
  <2>1. CASE saved[n] = s.saved[n]
    <3>1. Newer(n)' <=> Newer(n)
      BY <1>4, <2>1 DEF Newer
    <3>2. Good(s.mem, n)
      BY <1>1, <1>7 DEF StorageInv, InMemory
    <3> QED
      BY <1>4, <2>1, <3>1, <3>2 DEF Good
  <2>2. CASE n = s.caller /\ saved[n].of = s.updates /\ saved[n].time = s.now
    <3>1. n # "start"
      BY DEF S!Providers
    <3>2. /\ s.mem[n].time = s.now
          /\ \E x \in s.mem[n].servers : ~x.keep /\ x.of = s.updates
      BY <1>1, <2>2, <3>1 DEF StorageInv
    <3>3. s.mem[n].version = S!BuiltIn(s.build)[n].version
      BY <1>1 DEF StorageInv, InMemory
    <3>4. s.now <= s.now /\ s.updates >= s.updates
      BY StorageParts
    <3> QED
      BY <1>4, <2>2, <3>2, <3>3, <3>4 DEF Good, Newer
  <2> QED
    BY <1>2, <2>1, <2>2
<1>8. \A n \in S!Providers : s.mem[n].version = S!BuiltIn(s.build)[n].version
  BY <1>1 DEF StorageInv, InMemory
<1> QED
  BY <1>1, <1>4, <1>5, <1>6, <1>7, <1>8 DEF StorageInv, InMemory

\* The steps that change neither what is saved nor what Good compares it with.
LEMMA SamePhaseInv ==
  ASSUME StorageInv, S!WriteFails \/ S!Exit \/ S!Crash
  PROVE  StorageInv'
<1>1. PICK ph \in {"off", "run"}, m \in {s.mem, S!NoServers}, f \in {s.faults, s.faults + 1} :
        /\ InMemory /\ s' = [s EXCEPT !.phase = ph, !.mem = m, !.faults = f]
        /\ ph = "run" => m = s.mem
  <2>1. s \in StorageRecord
    BY StorageParts
  <2>2. CASE S!WriteFails
    <3>1. InMemory /\ s' = [s EXCEPT !.phase = "run", !.mem = s.mem, !.faults = s.faults + 1]
      BY <2>1, <2>2 DEF S!WriteFails, InMemory, StorageRecord
    <3> QED BY <3>1
  <2>3. CASE S!Exit
    <3>1. InMemory /\ s' = [s EXCEPT !.phase = "off", !.mem = S!NoServers, !.faults = s.faults]
      BY <2>1, <2>3 DEF S!Exit, InMemory, StorageRecord
    <3> QED BY <3>1
  <2>4. CASE S!Crash
    <3>1. InMemory /\ s' = [s EXCEPT !.phase = "off", !.mem = S!NoServers, !.faults = s.faults + 1]
      BY <2>1, <2>4 DEF S!Crash, InMemory, StorageRecord
    <3> QED BY <3>1
  <2> QED
    BY <2>2, <2>3, <2>4
<1>2. m \in ServersData /\ f \in Nat /\ s \in StorageRecord
  BY StorageParts, NoServersFacts DEF StorageRecord
<1>3. /\ s' \in StorageRecord /\ s'.phase = ph /\ s'.file = s.file /\ s'.mem = m
      /\ s'.build = s.build /\ s'.updates = s.updates /\ s'.path = s.path /\ s'.now = s.now
      /\ s'.back = s.back /\ s'.saved = s.saved
  BY <1>1, <1>2 DEF StorageRecord
<1>4. \A n \in S!Providers : /\ Good(s.file.of, n)' <=> Good(s.file.of, n)
                             /\ ph = "run" => (Good(s.mem, n)' <=> Good(s.mem, n))
  BY <1>1, <1>3 DEF Good, Newer
<1>5. InMemory' => ph = "run"
  BY <1>3 DEF InMemory
<1> QED
  BY <1>1, <1>3, <1>4, <1>5 DEF StorageInv

\* The clock moves, forward or back.
LEMMA ClockMovesInv ==
  ASSUME S!StorageConstants, StorageInv, S!ClockMoves
  PROVE  StorageInv'
<1>1. PICK t \in {s.now + 1, 1} : /\ s.phase = "off" /\ t <= MaxTime
                                  /\ s' = [s EXCEPT !.now = t, !.back = @ \/ t < s.now]
  BY DEF S!ClockMoves
<1>2. t \in 1..MaxTime /\ s \in StorageRecord
  BY <1>1, StorageParts DEF S!StorageConstants
<1>3. (s.back \/ t < s.now) \in BOOLEAN
  BY <1>2 DEF StorageRecord
<1>4. /\ s' \in StorageRecord /\ s'.phase = "off" /\ s'.file = s.file
      /\ s'.build = s.build /\ s'.updates = s.updates /\ s'.path = s.path /\ s'.now = t
      /\ s'.back = (s.back \/ t < s.now) /\ s'.saved = s.saved
  BY <1>1, <1>2, <1>3 DEF StorageRecord
<1>5. ~s'.back => ~s.back /\ s.now <= t
  <2>1. ~(s.back \/ t < s.now) => ~s.back /\ ~(t < s.now)
    OBVIOUS
  <2>2. t \in Nat /\ (~(t < s.now) => s.now <= t)
    BY <1>1, StorageParts
  <2> QED
    BY <1>4, <2>1, <2>2, Zenon
<1>6. ASSUME ~s'.back, NEW n \in S!Providers
      PROVE  /\ s.saved[n].time <= t
             /\ s.file.is = "json" => Good(s.file.of, n)'
  <2>1. s.saved[n].time <= t
    BY <1>2, <1>5, <1>6, StorageParts DEF StorageInv
  <2>2. ASSUME s.file.is = "json" PROVE Good(s.file.of, n)'
    <3>1. Good(s.file.of, n) /\ (Newer(n)' <=> Newer(n))
      BY <1>4, <1>5, <1>6, <2>2 DEF StorageInv, Newer
    <3>2. s.file.of[n].time <= s.now => s.file.of[n].time <= t
      BY <1>2, <1>5, <1>6, StorageParts
    <3> QED
      BY <1>4, <3>1, <3>2 DEF Good
  <2> QED
    BY <2>1, <2>2
<1>7. ~InMemory' /\ s'.phase \notin {"open", "encode"}
  BY <1>4 DEF InMemory
<1> QED
  BY <1>1, <1>4, <1>5, <1>6, <1>7 DEF StorageInv

\* The user edits the file, or removes it, while the program is off.
LEMMA UserEditsInv ==
  ASSUME StorageInv, S!UserEdits
  PROVE  StorageInv'
<1>1. s \in StorageRecord /\ s.phase \in {"off", "failed"} /\ s.edits + 1 \in Nat
  <2>1. s \in StorageRecord
    BY StorageParts
  <2>2. s.phase \in {"off", "failed"}
    BY DEF S!UserEdits
  <2> QED
    BY <2>1, <2>2 DEF StorageRecord
<1>2. ASSUME NEW n \in S!Providers,
             NEW x \in {S!Server("x", TRUE, 0), S!Server("x", TRUE, 1), S!Server("z", TRUE, 0)},
             s.file.is = "json", s' = [s EXCEPT !.edits = @ + 1, !.file.of[n].servers = @ \cup {x}]
      PROVE  StorageInv'
  <2> DEFINE of == [s.file.of EXCEPT ![n].servers = @ \cup {x}]
  <2>1. x \in ServerSet
    <3>1. \A key \in {"x", "z"}, n1 \in {0, 1} : S!Server(key, TRUE, n1) \in ServerSet
      BY DEF S!Server, ServerSet
    <3> QED
      BY <3>1
  <2>2. of \in ServersData
    BY <2>1, StorageParts DEF ServersData
  <2>3. \A p \in S!Providers : /\ of[p].time = s.file.of[p].time /\ of[p].version = s.file.of[p].version
                               /\ s.file.of[p].servers \subseteq of[p].servers
    BY StorageParts DEF ServersData
  <2>4. s'.file = [s.file EXCEPT !.of = of] /\ s.file \in [is : {"missing", "torn", "json"}, of : ServersData]
    BY <1>1, <1>2 DEF StorageRecord
  <2>5. s' = [s EXCEPT !.edits = s.edits + 1, !.file = s'.file]
    BY <1>1, <1>2, <2>4 DEF StorageRecord
  <2> HIDE DEF of
  <2>6. s'.file.of = of /\ s'.file.is = "json" /\ s'.file \in [is : {"missing", "torn", "json"}, of : ServersData]
    BY <1>2, <2>2, <2>4
  <2>7. /\ s' \in StorageRecord /\ s'.phase = s.phase
        /\ s'.build = s.build /\ s'.updates = s.updates /\ s'.path = s.path /\ s'.now = s.now
        /\ s'.back = s.back /\ s'.saved = s.saved
    BY <1>1, <2>5, <2>6 DEF StorageRecord
  <2>8. ASSUME ~s.back, NEW p \in S!Providers PROVE Good(s.file.of, p)'
    <3>1. Good(s.file.of, p) /\ (Newer(p)' <=> Newer(p))
      BY <1>2, <2>7, <2>8 DEF StorageInv, Newer
    <3> QED
      BY <2>3, <2>6, <2>7, <3>1 DEF Good
  <2>9. ~InMemory' /\ s'.phase \notin {"open", "encode"}
    BY <1>1, <2>7 DEF InMemory
  <2>10. s'.path
    BY <1>2, <2>7 DEF StorageInv
  <2> QED
    BY <2>6, <2>7, <2>8, <2>9, <2>10 DEF StorageInv
<1>3. ASSUME s' = [s EXCEPT !.edits = @ + 1, !.file = S!Content("missing", S!NoServers),
                            !.saved = [n \in S!Providers |-> [of |-> 0, time |-> 0]]]
      PROVE  StorageInv'
  <2> DEFINE z == [n \in S!Providers |-> [of |-> 0, time |-> 0]]
  <2>1. /\ z \in [S!Providers -> [of : Nat, time : Nat]]
        /\ \A n \in S!Providers : z[n].of = 0 /\ z[n].time = 0
    OBVIOUS
  <2> HIDE DEF z
  <2>2. /\ S!Content("missing", S!NoServers) \in [is : {"missing", "torn", "json"}, of : ServersData]
        /\ S!Content("missing", S!NoServers).is = "missing"
    BY NoServersFacts DEF S!Content
  <2>3. /\ s' \in StorageRecord /\ s'.phase = s.phase /\ s'.file.is = "missing" /\ s'.saved = z
        /\ s'.build = s.build /\ s'.updates = s.updates /\ s'.path = s.path /\ s'.now = s.now
        /\ s'.back = s.back
    BY <1>1, <1>3, <2>1, <2>2 DEF StorageRecord, z
  <2>4. ~InMemory' /\ s'.phase \notin {"open", "encode"}
    BY <1>1, <2>3 DEF InMemory
  <2>5. \A n \in S!Providers : 0 <= s.updates /\ 0 <= s.now
    BY StorageParts
  <2> QED
    BY <2>1, <2>3, <2>4, <2>5 DEF StorageInv
<1> QED
  BY <1>2, <1>3 DEF S!UserEdits

\* Every step of the storage.
LEMMA StorageStepInv ==
  ASSUME S!StorageConstants, StorageInv, S!StorageNext
  PROVE  StorageInv'
  BY StartInv, SetServersInv, OpenInv, EncodeInv, SamePhaseInv, ClockMovesInv, UserEditsInv
     DEF S!StorageNext

\* What the invariant says of the servers.
LEMMA StorageFacts ==
  ASSUME StorageInv
  PROVE  S!StorageTypeOK /\ S!UpdatesSurvive /\ S!KeptSurvive
<1>1. S!StorageTypeOK
  BY DEF StorageInv, StorageRecord, InMemory, S!StorageTypeOK
<1>2. S!UpdatesSurvive
  BY DEF StorageInv, InMemory, Good, Newer, S!UpdatesSurvive
<1>3. S!KeptSurvive
  <2> SUFFICES ASSUME NEW b \in s.build..2, NEW m \in S!Merged(b, S!ReadServers(b, s.file.of), s.now),
                      NEW n \in S!Providers, s.file.of[n].version = S!BuiltIn(b)[n].version
               PROVE  S!Kept(s.file.of[n].servers) \subseteq S!Kept(m[n].servers)
    BY DEF S!KeptSurvive
  <2>1. b \in S!Builds
    BY StorageParts DEF S!Builds
  <2>2. S!ReadServers(b, s.file.of) \in ServersData /\ S!ReadServers(b, s.file.of)[n] = s.file.of[n]
    BY <2>1, ReadFacts, StorageParts
  <2> DEFINE onFile == S!ReadServers(b, s.file.of)
  <2>3. onFile \in ServersData /\ m \in S!Merged(b, onFile, s.now) /\ s.now \in Nat
    BY <2>2, StorageParts
  <2>4. S!Kept(onFile[n].servers) \subseteq S!Kept(m[n].servers)
    <3> HIDE DEF onFile
    <3> QED
      BY <2>1, <2>3, MergedFacts
  <2> QED
    BY <2>2, <2>4
<1> QED
  BY <1>1, <1>2, <1>3

\* At first nothing is started.
LEMMA CommandsInitInv ==
  ASSUME C!CommandsInit
  PROVE  CommandsInv
<1>1. PICK what \in {"openvpn", "command"} :
        s = [what |-> what, process |-> "none", pipe |-> [x \in Streams |-> <<>>], shut |-> FALSE,
             reader |-> [x \in Streams |-> "none"], waiter |-> "none", stop |-> FALSE, stream |-> "none",
             streamCancel |-> FALSE, run |-> "start", caller |-> "select", ctx |-> FALSE, lines |-> 0]
  BY DEF C!CommandsInit
<1>2. <<>> \in Seq({"line", "completed"})
  OBVIOUS
<1>3. s \in CommandsRecord
  BY <1>1, <1>2 DEF CommandsRecord
<1> QED
  BY <1>1, <1>3 DEF CommandsInv, NothingStarted

\* The pipes, the readers and the process are started, or one of them fails.
LEMMA StartsInv ==
  ASSUME CommandsInv, C!Starts \/ C!StartFails \/ C!StartFailed
  PROVE  CommandsInv'
<1>0. s \in CommandsRecord
  BY DEF CommandsInv
<1>1. CASE C!Starts
  <2>1. /\ s.run = "start"
        /\ s' = [s EXCEPT !.process = "running", !.reader = [x \in Streams |-> "scan"], !.waiter = "wait",
                          !.stream = "select", !.run = "select"]
    BY <1>1 DEF C!Starts
  <2>2. s' \in CommandsRecord /\ s'.run = "select" /\ s'.waiter = "wait"
    BY <1>0, <2>1 DEF CommandsRecord
  <2> QED
    BY <2>2 DEF CommandsInv
<1>2. CASE C!StartFails
  <2>1. PICK started \in SUBSET Streams :
          /\ s.run = "start"
          /\ s' = [s EXCEPT !.shut = TRUE, !.stop = TRUE, !.run = "fails",
                            !.reader = [x \in Streams |-> IF x \in started THEN "scan" ELSE "none"]]
    BY <1>2 DEF C!StartFails
  <2>2. /\ s' \in CommandsRecord /\ s'.run = "fails" /\ s'.process = s.process /\ s'.waiter = s.waiter
        /\ s'.stream = s.stream /\ s'.shut /\ \A x \in Streams : s'.reader[x] \in {"none", "scan", "done"}
    BY <1>0, <2>1 DEF CommandsRecord
  <2>3. NothingStarted
    BY <2>1 DEF CommandsInv
  <2> QED
    BY <2>2, <2>3 DEF CommandsInv, NothingStarted
<1>3. CASE C!StartFailed
  <2>1. /\ s.run = "fails" /\ \A x \in Streams : s.reader[x] \in {"none", "done"}
        /\ s' = [s EXCEPT !.run = "error"]
    BY <1>3 DEF C!StartFailed
  <2>2. /\ s' \in CommandsRecord /\ s'.run = "error" /\ s'.process = s.process /\ s'.waiter = s.waiter
        /\ s'.stream = s.stream /\ s'.reader = s.reader
    BY <1>0, <2>1 DEF CommandsRecord
  <2>3. NothingStarted
    BY <2>1 DEF CommandsInv
  <2> QED
    BY <2>1, <2>2, <2>3 DEF CommandsInv, NothingStarted
<1> QED
  BY <1>1, <1>2, <1>3

\* The process writes a line or ends, and the goroutine that waits for it.
LEMMA ProcessInv ==
  ASSUME CommandsInv, C!Exits \/ C!Wait \/ C!WaitJoin
  PROVE  CommandsInv'
<1>0. s \in CommandsRecord
  BY DEF CommandsInv
<1>1. CASE C!Exits
  <2>1. s.process = "running" /\ s' = [s EXCEPT !.process = "exited"]
    BY <1>1 DEF C!Exits
  <2>2. /\ s' \in CommandsRecord /\ s'.process = "exited" /\ s'.waiter = s.waiter /\ s'.run = s.run
        /\ s'.stream = s.stream /\ s'.reader = s.reader
    BY <1>0, <2>1 DEF CommandsRecord
  <2>3. ~NothingStarted
    BY <2>1 DEF NothingStarted
  <2> QED
    BY <2>1, <2>2, <2>3 DEF CommandsInv
<1>2. CASE C!Wait
  <2>1. s.waiter = "wait" /\ s.process = "exited" /\ s' = [s EXCEPT !.waiter = "join", !.shut = TRUE, !.stop = TRUE]
    BY <1>2 DEF C!Wait
  <2>2. /\ s' \in CommandsRecord /\ s'.process = "exited" /\ s'.waiter = "join" /\ s'.run = s.run
        /\ s'.stream = s.stream /\ s'.reader = s.reader
    BY <1>0, <2>1 DEF CommandsRecord
  <2>3. ~NothingStarted
    BY <2>1 DEF NothingStarted
  <2> QED
    BY <2>1, <2>2, <2>3 DEF CommandsInv
<1>3. CASE C!WaitJoin
  <2>1. s.waiter = "join" /\ (\A x \in Streams : s.reader[x] = "done") /\ s' = [s EXCEPT !.waiter = "send"]
    BY <1>3 DEF C!WaitJoin
  <2>2. /\ s' \in CommandsRecord /\ s'.process = s.process /\ s'.waiter = "send" /\ s'.run = s.run
        /\ s'.stream = s.stream /\ s'.reader = s.reader
    BY <1>0, <2>1 DEF CommandsRecord
  <2>3. ~NothingStarted
    BY <2>1 DEF NothingStarted
  <2> QED
    BY <2>1, <2>2, <2>3 DEF CommandsInv
<1> QED
  BY <1>1, <1>2, <1>3

\* A pipe is written to, and no goroutine moves.
LEMMA WritesInv ==
  ASSUME CommandsInv, NEW x \in Streams, C!Writes(x)
  PROVE  CommandsInv'
<1>1. PICK line \in {"line", "completed"} :
        s.pipe[x] = <<>> /\ s' = [s EXCEPT !.pipe[x] = Append(@, line), !.lines = @ + 1]
  BY DEF C!Writes
<1>2. s \in CommandsRecord
  BY DEF CommandsInv
<1>3. Append(s.pipe[x], line) \in Seq({"line", "completed"})
  BY <1>2 DEF CommandsRecord
<1> DEFINE pipe == [s.pipe EXCEPT ![x] = Append(s.pipe[x], line)]
           lines == s.lines + 1
<1>4. s' = [s EXCEPT !.pipe = pipe, !.lines = lines]
  BY <1>1, <1>2 DEF CommandsRecord
<1>5. pipe \in [Streams -> Seq({"line", "completed"})] /\ lines \in Nat
  BY <1>2, <1>3 DEF CommandsRecord
<1> HIDE DEF pipe, lines
<1>6. /\ s' \in CommandsRecord /\ s'.process = s.process /\ s'.waiter = s.waiter /\ s'.run = s.run
      /\ s'.stream = s.stream /\ s'.reader = s.reader /\ s'.shut = s.shut
  BY <1>2, <1>4, <1>5 DEF CommandsRecord
<1> QED
  BY <1>6 DEF CommandsInv, NothingStarted

\* A reader that has not ended moves: nobody has waited for it yet.
LEMMA ReaderMoves ==
  ASSUME CommandsInv, NEW x \in Streams, NEW to \in {"scan", "line", "completed", "done"},
         NEW stream \in {"select", "ready", s.stream},
         \/ s.reader[x] = "scan" /\ stream = s.stream /\ (s.run = "fails" => to = "done")
         \/ s.reader[x] \in {"line", "completed"} /\ s.stream = "select",
         s'.reader = [s.reader EXCEPT ![x] = to], s' \in CommandsRecord,
         s'.process = s.process, s'.waiter = s.waiter, s'.run = s.run, s'.shut = s.shut,
         s'.stream = stream
  PROVE  CommandsInv'
<1>1. s \in CommandsRecord
  BY DEF CommandsInv
<1>2. s.waiter \notin {"send", "gone"} /\ s.run # "start"
  BY DEF CommandsInv
<1>3. s.run \notin {"error", "done"}
  BY <1>1, <1>2 DEF CommandsInv, NothingStarted
<1>4. s.run = "fails" => s.reader[x] = "scan" /\ stream = s.stream /\ to = "done"
  BY <1>1 DEF CommandsInv, NothingStarted
<1>5. s.run = "fails" => \A y \in Streams : s'.reader[y] \in {"none", "scan", "done"}
  BY <1>1, <1>4 DEF CommandsInv, CommandsRecord
<1> QED
  BY <1>1, <1>2, <1>3, <1>4, <1>5 DEF CommandsInv, NothingStarted

\* A reader scans its pipe.
LEMMA ScanInv ==
  ASSUME CommandsInv, NEW x \in Streams, C!Scan(x)
  PROVE  CommandsInv'
<1>1. s \in CommandsRecord /\ s.reader[x] = "scan"
  BY DEF CommandsInv, C!Scan
<1>2. PICK to \in {"line", "completed", "done"}, pipe \in [Streams -> Seq({"line", "completed"})] :
        s' = [s EXCEPT !.reader[x] = to, !.pipe = pipe] /\ (s.run = "fails" => to = "done")
  <2>1. CASE s' = [s EXCEPT !.reader[x] = "done"]
    <3>1. s' = [s EXCEPT !.reader[x] = "done", !.pipe = s.pipe]
      BY <1>1, <2>1 DEF CommandsRecord
    <3> QED
      BY <1>1, <3>1 DEF CommandsRecord
  <2>2. CASE ~s.shut /\ s.pipe[x] # <<>> /\ s' = [s EXCEPT !.reader[x] = Head(s.pipe[x]), !.pipe[x] = Tail(@)]
    <3>1. s.pipe \in [Streams -> Seq({"line", "completed"})] /\ s.pipe[x] \in Seq({"line", "completed"})
      BY <1>1 DEF CommandsRecord
    <3>2. Head(s.pipe[x]) \in {"line", "completed"} /\ Tail(s.pipe[x]) \in Seq({"line", "completed"})
      BY <2>2, <3>1
    <3>3. [s.pipe EXCEPT ![x] = Tail(@)] \in [Streams -> Seq({"line", "completed"})]
      BY <3>1, <3>2
    <3>4. s' = [s EXCEPT !.reader[x] = Head(s.pipe[x]), !.pipe = [s.pipe EXCEPT ![x] = Tail(@)]]
      BY <1>1, <2>2 DEF CommandsRecord
    <3>5. s.run # "fails"
      BY <2>2 DEF CommandsInv
    <3> QED
      BY <3>2, <3>3, <3>4, <3>5
  <2> QED
    BY <2>1, <2>2 DEF C!Scan
<1>3. /\ s' \in CommandsRecord /\ s'.process = s.process /\ s'.waiter = s.waiter /\ s'.run = s.run
      /\ s'.shut = s.shut /\ s'.stream = s.stream /\ s'.reader = [s.reader EXCEPT ![x] = to]
  BY <1>1, <1>2 DEF CommandsRecord
<1> QED
  BY <1>1, <1>2, <1>3, ReaderMoves

\* A line is taken by the goroutine of the streams.
LEMMA TakeInv ==
  ASSUME CommandsInv, NEW x \in Streams, C!Take(x)
  PROVE  CommandsInv'
<1>1. PICK stream \in {"select", "ready"} :
        /\ s.stream = "select" /\ s.reader[x] \in {"line", "completed"}
        /\ s' = [s EXCEPT !.reader[x] = "scan", !.stream = stream]
  BY DEF C!Take
<1>2. s \in CommandsRecord
  BY DEF CommandsInv
<1>3. /\ s' \in CommandsRecord /\ s'.process = s.process /\ s'.waiter = s.waiter /\ s'.run = s.run
      /\ s'.shut = s.shut /\ s'.stream = stream /\ s'.reader = [s.reader EXCEPT ![x] = "scan"]
  BY <1>1, <1>2 DEF CommandsRecord
<1> QED
  BY <1>1, <1>3, ReaderMoves

\* The goroutine that merges the streams.
LEMMA StreamInv ==
  ASSUME CommandsInv, C!Ready \/ C!StreamEnds
  PROVE  CommandsInv'
<1>1. PICK from \in {"ready", "select"}, to \in {"select", "done"} :
        s.stream = from /\ s' = [s EXCEPT !.stream = to]
  BY DEF C!Ready, C!StreamEnds
<1>2. s \in CommandsRecord
  BY DEF CommandsInv
<1>3. /\ s' \in CommandsRecord /\ s'.process = s.process /\ s'.waiter = s.waiter /\ s'.run = s.run
      /\ s'.shut = s.shut /\ s'.reader = s.reader
  BY <1>1, <1>2 DEF CommandsRecord
<1>4. ~NothingStarted /\ s.run \notin {"error", "done", "start", "fails"}
  BY <1>1 DEF CommandsInv, NothingStarted
<1> QED
  BY <1>3, <1>4 DEF CommandsInv

\* Run and RunAndLog, and who called them.
LEMMA RunMoves ==
  ASSUME CommandsInv, C!SeeDone \/ C!Waited \/ C!Joined \/ C!Reports \/ C!Cancel
  PROVE  CommandsInv'
<1>0. s \in CommandsRecord
  BY DEF CommandsInv
<1>1. CASE C!SeeDone
  <2>1. s.run = "select" /\ s' = [s EXCEPT !.run = "wait"]
    BY <1>1 DEF C!SeeDone
  <2>2. /\ s' \in CommandsRecord /\ s'.process = s.process /\ s'.waiter = s.waiter /\ s'.run = "wait"
        /\ s'.shut = s.shut /\ s'.stream = s.stream /\ s'.reader = s.reader
    BY <1>0, <2>1 DEF CommandsRecord
  <2> QED
    BY <2>1, <2>2 DEF CommandsInv
<1>2. CASE C!Waited
  <2>1. s.waiter = "send" /\ s' = [s EXCEPT !.run = "join", !.waiter = "gone", !.streamCancel = TRUE]
    BY <1>2 DEF C!Waited
  <2>2. /\ s' \in CommandsRecord /\ s'.process = s.process /\ s'.waiter = "gone" /\ s'.run = "join"
        /\ s'.shut = s.shut /\ s'.stream = s.stream /\ s'.reader = s.reader
    BY <1>0, <2>1 DEF CommandsRecord
  <2> QED
    BY <2>1, <2>2 DEF CommandsInv
<1>3. CASE C!Joined
  <2>1. s.run = "join" /\ s.stream = "done" /\ s' = [s EXCEPT !.run = "error"]
    BY <1>3 DEF C!Joined
  <2>2. /\ s' \in CommandsRecord /\ s'.process = s.process /\ s'.waiter = s.waiter /\ s'.run = "error"
        /\ s'.shut = s.shut /\ s'.stream = s.stream /\ s'.reader = s.reader
    BY <1>0, <2>1 DEF CommandsRecord
  <2> QED
    BY <2>1, <2>2 DEF CommandsInv
<1>4. CASE C!Reports
  <2>1. s.run = "error" /\ s' = [s EXCEPT !.run = "done", !.caller = "gone"]
    BY <1>4 DEF C!Reports
  <2>2. /\ s' \in CommandsRecord /\ s'.process = s.process /\ s'.waiter = s.waiter /\ s'.run = "done"
        /\ s'.shut = s.shut /\ s'.stream = s.stream /\ s'.reader = s.reader
    BY <1>0, <2>1 DEF CommandsRecord
  <2> QED
    BY <2>1, <2>2 DEF CommandsInv, NothingStarted
<1>5. CASE C!Cancel
  <2>1. s' = [s EXCEPT !.ctx = TRUE, !.caller = "wait"]
    BY <1>5 DEF C!Cancel
  <2>2. /\ s' \in CommandsRecord /\ s'.process = s.process /\ s'.waiter = s.waiter /\ s'.run = s.run
        /\ s'.shut = s.shut /\ s'.stream = s.stream /\ s'.reader = s.reader
    BY <1>0, <2>1 DEF CommandsRecord
  <2> QED
    BY <2>1, <2>2 DEF CommandsInv, NothingStarted
<1> QED
  BY <1>1, <1>2, <1>3, <1>4, <1>5

\* Every step of a command.
LEMMA CommandsStepInv ==
  ASSUME CommandsInv, C!CommandsNext
  PROVE  CommandsInv'
  BY StartsInv, ProcessInv, WritesInv, ScanInv, TakeInv, StreamInv, RunMoves
     DEF C!CommandsNext, C!Goroutines

\* What the invariant says of the goroutines.
LEMMA CommandsFacts ==
  ASSUME CommandsInv
  PROVE  C!CommandsTypeOK /\ C!NoneLeft
<1>1. s \in CommandsRecord
  BY DEF CommandsInv
<1>2. s.waiter = "gone" => s.reader \in [Streams -> {"done"}]
  BY <1>1 DEF CommandsInv, CommandsRecord
<1>3. C!CommandsTypeOK
  BY <1>1, <1>2 DEF CommandsRecord, C!CommandsTypeOK
<1>4. C!NoneLeft
  BY <1>1 DEF CommandsInv, CommandsRecord, NothingStarted, C!NoneLeft
<1> QED
  BY <1>3, <1>4

(***************************************************************************)
(* The start and the end of the program.                                   *)
(***************************************************************************)

\* The steps of _main, by their number.
StepsAreSo ==
    /\ Len(M!Steps) = 37
    /\ M!Steps[1] = "settings" /\ M!Steps[2] = "routes" /\ M!Steps[3] = "iptables"
    /\ M!Steps[4] = "firewall" /\ M!Steps[5] = "storage" /\ M!Steps[6] = "ipv6"
    /\ M!Steps[7] = "validate" /\ M!Steps[8] = "versions" /\ M!Steps[9] = "folders"
    /\ M!Steps[10] = "user" /\ M!Steps[11] = "routing" /\ M!Steps[12] = "outbound"
    /\ M!Steps[13] = "local" /\ M!Steps[14] = "tun" /\ M!Steps[15] = "ports"
    /\ M!Steps[16] = "pprof" /\ M!Steps[17] = "portForwarding" /\ M!Steps[18] = "dns"
    /\ M!Steps[19] = "dnsTicker" /\ M!Steps[20] = "publicIP" /\ M!Steps[21] = "health"
    /\ M!Steps[22] = "vpn" /\ M!Steps[23] = "updater" /\ M!Steps[24] = "updaterTicker"
    /\ M!Steps[25] = "httpProxy" /\ M!Steps[26] = "shadowsocks" /\ M!Steps[27] = "httpServer"
    /\ M!Steps[28] = "apply" /\ M!Steps[29] = "run" /\ M!Steps[30] = "stopPortForwarding"
    /\ M!Steps[31] = "stopPublicIP" /\ M!Steps[32] = "control" /\ M!Steps[33] = "tickers"
    /\ M!Steps[34] = "healthGroup" /\ M!Steps[35] = "vpnGroup" /\ M!Steps[36] = "other"
    /\ M!Steps[37] = "return"

\* The steps have these numbers.
LEMMA StepsInOrder == StepsAreSo
  BY DEF StepsAreSo, M!Steps, M!Fallible, M!Launched, M!Groups
StepSetsAreSo ==
    /\ M!All(M!Fallible) = {"settings", "routes", "iptables", "firewall", "storage", "ipv6", "validate",
                            "versions", "folders", "user", "routing", "outbound", "local", "tun", "ports"}
    /\ M!All(M!Launched) = {"pprof", "portForwarding", "dns", "dnsTicker", "publicIP", "health", "vpn",
                            "updater", "updaterTicker", "httpProxy", "shadowsocks", "httpServer"}
    /\ M!All(M!Groups) = {"control", "tickers", "healthGroup", "vpnGroup", "other"}

\* The steps that are services and groups are these.
LEMMA StepSets == StepSetsAreSo
<1>1. DOMAIN M!Fallible = 1..15 /\ DOMAIN M!Launched = 1..12 /\ DOMAIN M!Groups = 1..5
  BY DEF M!Fallible, M!Launched, M!Groups
<1>2. M!All(M!Fallible) = {"settings", "routes", "iptables", "firewall", "storage", "ipv6", "validate",
                            "versions", "folders", "user", "routing", "outbound", "local", "tun", "ports"}
  BY <1>1 DEF M!All, M!Fallible
<1>3. M!All(M!Launched) = {"pprof", "portForwarding", "dns", "dnsTicker", "publicIP", "health", "vpn",
                            "updater", "updaterTicker", "httpProxy", "shadowsocks", "httpServer"}
  BY <1>1 DEF M!All, M!Launched
<1>4. M!All(M!Groups) = {"control", "tickers", "healthGroup", "vpnGroup", "other"}
  BY <1>1 DEF M!All, M!Groups
<1> QED
  BY <1>2, <1>3, <1>4 DEF StepSetsAreSo

\* The steps a number stands for, each of one kind.
LEMMA StepFacts ==
  ASSUME MainInv
  PROVE  /\ s.at \in Nat /\ s.at \in 1..38
         /\ M!Step \in M!All(M!Fallible) <=> s.at <= 15
         /\ s.at <= 15 => M!Step = M!Fallible[s.at]
         /\ M!Step \in M!All(M!Launched) <=> s.at \in 16..27
         /\ M!Step = "vpn" <=> s.at = 22
         /\ M!Step = "apply" <=> s.at = 28
         /\ M!Step = "run" <=> s.at = 29
         /\ M!Step \in {"stopPortForwarding", "stopPublicIP"} <=> s.at \in {30, 31}
         /\ M!Step \in M!All(M!Groups) <=> s.at \in 32..36
         /\ M!Step = "return" <=> s.at = 37
         /\ M!Step = "end" <=> s.at = 38
         /\ s.at <= 37 => M!Step = M!Steps[s.at]
         /\ M!Servers \subseteq M!All(M!Launched)
<1>1. s.at \in 1..38
  BY StepsInOrder DEF MainInv, StepsAreSo
<1>2. /\ s.at <= 37 => M!Step = M!Steps[s.at]
      /\ s.at = 38 => M!Step = "end"
  BY <1>1, StepsInOrder DEF M!Step, StepsAreSo
<1> QED
  BY <1>1, <1>2, StepsInOrder, StepSets DEF StepsAreSo, StepSetsAreSo, M!Servers, M!Fallible

\* The place of the steps that are jumped to.
LEMMA IndexFacts == M!IndexOf("return") = 37 /\ M!IndexOf("control") = 32
<1>1. DOMAIN M!Steps = 1..37
  BY DEF M!Steps, M!Fallible, M!Launched, M!Groups
<1>2. \A i \in 1..37 : (M!Steps[i] = "return" <=> i = 37) /\ (M!Steps[i] = "control" <=> i = 32)
  BY StepsInOrder DEF StepsAreSo
<1>3. (CHOOSE i \in DOMAIN M!Steps : M!Steps[i] = "return") = 37
  BY <1>1, <1>2
<1>4. (CHOOSE i \in DOMAIN M!Steps : M!Steps[i] = "control") = 32
  BY <1>1, <1>2
<1> QED
  BY <1>3, <1>4 DEF M!IndexOf

\* The program starts with its first step.
LEMMA StartupInitInv ==
  ASSUME M!StartupInit
  PROVE  MainInv
<1>1. PICK pprof \in BOOLEAN, proxy \in BOOLEAN :
        s = [at |-> 1, set |-> {}, services |-> {}, told |-> {}, late |-> {}, failed |-> FALSE,
             torn |-> FALSE, signal |-> FALSE, main |-> "wait", exit |-> "none",
             server |-> [x \in M!Servers |-> "none"], ready |-> {}, deaf |-> {},
             pprof |-> pprof, proxy |-> proxy, vpnUp |-> FALSE]
  BY DEF M!StartupInit
<1>2. s \in StartupRecord
  BY <1>1 DEF StartupRecord
<1>3. /\ s.at = 1 /\ s.late = {} /\ s.services = {} /\ s.failed = FALSE /\ s.exit = "none"
  BY <1>1
<1>4. 1 \in 1..(Len(M!Steps) + 1)
  BY StepsInOrder DEF StepsAreSo
<1> QED
  BY <1>2, <1>3, <1>4 DEF MainInv

\* A step that launches, waits or stops, after those that may fail and before the groups.
LEMMA GoesOn ==
  ASSUME MainInv, s.at \in 16..31, s'.at \in 16..32, s' \in StartupRecord, s'.set = s.set, s'.failed = s.failed,
         s'.late = s.late, s'.told = s.told, s'.exit = s.exit,
         "vpn" \in s'.services => "vpn" \in s.services \/ s.at = 22
  PROVE  MainInv'
<1>1. s.at \in Nat /\ s'.at \in Nat /\ s'.at # 38 /\ s'.at <= 36 /\ s.at <= 36 /\ s'.at <= 32 /\ 15 < s.at
  OBVIOUS
<1>2. s.exit # "clean" /\ s.failed = FALSE
  BY <1>1 DEF MainInv, StartupRecord
<1>3. \A i \in 1..15 : M!Fallible[i] \in s.set
  <2> TAKE i \in 1..15
  <2>1. i < s.at
    BY <1>1
  <2> QED
    BY <1>1, <2>1 DEF MainInv
<1>4. M!All(M!Fallible) \subseteq s.set
  BY <1>3 DEF M!All, M!Fallible
<1>5. s'.at \in 1..(Len(M!Steps) + 1)
  BY <1>1, StepsInOrder DEF StepsAreSo
<1>6. s'.late \subseteq s'.told
  BY DEF MainInv
<1>7. ~(\E i \in 32..36 : i < s'.at)
  BY <1>1
<1> QED
  BY <1>1, <1>2, <1>3, <1>4, <1>5, <1>6, <1>7 DEF MainInv

\* A step that leaves _main where it is.
LEMMA StaysThere ==
  ASSUME MainInv, s' \in StartupRecord, s'.at = s.at, s'.set = s.set, s'.services = s.services, s'.late = s.late,
         s.told \subseteq s'.told, s'.failed = s.failed, s'.torn = s.torn,
         s'.exit = "clean" => s.exit = "clean" \/ s.at = 38
  PROVE  MainInv'
  BY DEF MainInv

\* A step that may fail succeeds.
LEMMA SucceedsInv ==
  ASSUME MainInv, M!Succeeds
  PROVE  MainInv'
<1>1. s \in StartupRecord /\ s.at \in Nat /\ s.at >= 1 /\ s.at <= 15 /\ M!Step = M!Fallible[s.at]
      /\ M!Step \in M!All(M!Fallible)
  BY SMTT(60), StepFacts DEF M!Succeeds, MainInv
<1>2. s' = [s EXCEPT !.set = @ \cup {M!Step}, !.at = s.at + 1]
  BY <1>1 DEF M!Succeeds, M!Advance, StartupRecord
<1> DEFINE at == s.at + 1
           step == M!Step
<1>20. /\ at \in Nat /\ step \in M!All(M!Fallible) /\ step = M!Fallible[s.at]
       /\ s' = [s EXCEPT !.set = @ \cup {step}, !.at = at]
  BY <1>1, <1>2
<1> HIDE DEF at, step
<1>30. /\ s' \in StartupRecord /\ s'.at = at /\ s'.set = s.set \cup {step} /\ s'.failed = s.failed
       /\ s'.late = s.late /\ s'.told = s.told /\ s'.exit = s.exit /\ s'.services = s.services
  BY <1>1, <1>20 DEF StartupRecord
<1>3. /\ s' \in StartupRecord /\ s'.at = s.at + 1 /\ s'.set = s.set \cup {M!Fallible[s.at]} /\ s'.failed = s.failed
      /\ s'.late = s.late /\ s'.told = s.told /\ s'.exit = s.exit /\ s'.services = s.services
  BY <1>20, <1>30 DEF at
<1>4. \A i \in 1..15 : i < s.at => M!Fallible[i] \in s.set
  BY SMTT(60), <1>1 DEF MainInv
<1>5. \A i \in 1..15 : i < s'.at => M!Fallible[i] \in s'.set
  <2> TAKE i \in 1..15
  <2>1. i < s'.at => i < s.at \/ i = s.at
    BY <1>1, <1>3
  <2> QED
    BY <1>3, <1>4, <2>1
<1>6. s'.at \in Nat /\ s'.at # 38 /\ s'.at >= 1 /\ s'.at <= 16 /\ s'.at \in 1..(Len(M!Steps) + 1)
  BY <1>1, <1>3, StepsInOrder DEF StepsAreSo
<1>7. ~(\E i \in 32..36 : i < s'.at) /\ s.at # 38 /\ ~(s.at >= 37)
  BY <1>1, <1>6
<1>8. s.failed = FALSE /\ s.exit # "clean"
  BY <1>1, <1>7 DEF MainInv, StartupRecord
<1> QED
  BY <1>3, <1>5, <1>6, <1>7, <1>8 DEF MainInv

\* A step that fails ends _main.
LEMMA FailsInv ==
  ASSUME MainInv, M!Fails
  PROVE  MainInv'
<1>1. s \in StartupRecord /\ s.at \in Nat /\ s.at <= 27
  <2>1. M!Step \in M!All(M!Fallible) \cup M!All(M!Launched)
    BY StepSets DEF M!Fails, M!MayFail, StepSetsAreSo
  <2>2. s.at \in Nat /\ (s.at <= 15 \/ s.at \in 16..27)
    BY <2>1, StepFacts
  <2> QED
    BY SMTT(60), <2>2 DEF MainInv
<1>2. s' = [s EXCEPT !.at = 37, !.failed = TRUE]
  BY IndexFacts DEF M!Fails
<1>3. /\ s' \in StartupRecord /\ s'.at = 37 /\ s'.failed = TRUE /\ s'.set = s.set /\ s'.services = s.services
      /\ s'.late = s.late /\ s'.told = s.told /\ s'.exit = s.exit
  BY <1>1, <1>2 DEF StartupRecord
<1>4. 37 \in 1..(Len(M!Steps) + 1) /\ ~(37 <= 36) /\ 37 # 38 /\ 37 >= 37 /\ s.at # 38
  BY <1>1, StepsInOrder DEF StepsAreSo
<1>5. s.exit # "clean"
  BY <1>4 DEF MainInv
<1> QED
  BY <1>3, <1>4, <1>5 DEF MainInv

\* A service is started.
LEMMA LaunchInv ==
  ASSUME MainInv, M!Launch
  PROVE  MainInv'
<1>0. M!Step \in M!All(M!Launched) /\ s \in StartupRecord
  BY DEF M!Launch, MainInv
<1>1. s \in StartupRecord /\ s.at \in 16..27 /\ M!Step \in M!All(M!Launched) /\ s.at + 1 \in 16..32
      /\ (M!Step = "vpn" => s.at = 22) /\ s.at \in 16..31 /\ s.at \in 16..32 /\ s.at + 1 \in Nat
  <2>1. s.at \in 16..27 /\ (M!Step = "vpn" => s.at = 22)
    BY <1>0, StepFacts
  <2> QED
    BY <1>0, <2>1
<1>2. CASE s' = [s EXCEPT !.at = s.at + 1]
  <2>1. /\ s' \in StartupRecord /\ s'.at = s.at + 1 /\ s'.set = s.set /\ s'.failed = s.failed /\ s'.late = s.late
        /\ s'.told = s.told /\ s'.exit = s.exit /\ s'.services = s.services
    BY <1>1, <1>2 DEF StartupRecord
  <2> QED
    BY <1>1, <2>1, GoesOn
<1>3. CASE M!Step \in M!Servers /\ s' = [s EXCEPT !.services = @ \cup {M!Step}, !.server[M!Step] = "listening"]
  <2>1. /\ s' \in StartupRecord /\ s'.at = s.at /\ s'.set = s.set /\ s'.failed = s.failed /\ s'.late = s.late
        /\ s'.told = s.told /\ s'.exit = s.exit /\ s'.services = s.services \cup {M!Step}
    BY <1>1, <1>3 DEF StartupRecord
  <2> QED
    BY <1>1, <2>1, GoesOn
<1>4. CASE s' = [s EXCEPT !.services = @ \cup {M!Step}, !.at = s.at + 1]
  <2>1. /\ s' \in StartupRecord /\ s'.at = s.at + 1 /\ s'.set = s.set /\ s'.failed = s.failed /\ s'.late = s.late
        /\ s'.told = s.told /\ s'.exit = s.exit /\ s'.services = s.services \cup {M!Step}
    BY <1>1, <1>4 DEF StartupRecord
  <2> QED
    BY <1>1, <2>1, GoesOn
<1>5. M!Advance([s EXCEPT !.services = @ \cup {M!Step}]) = [s EXCEPT !.services = @ \cup {M!Step}, !.at = s.at + 1]
      /\ M!Advance(s) = [s EXCEPT !.at = s.at + 1]
  BY <1>1 DEF M!Advance, StartupRecord
<1> QED
  BY <1>2, <1>3, <1>4, <1>5 DEF M!Launch

\* What _main waits for, and what it stops, once the services are launched.
LEMMA WaitsInv ==
  ASSUME MainInv, M!ServerReady \/ M!StartVPN \/ M!RunEnds \/ M!StopLoop
  PROVE  MainInv'
<1>1. s \in StartupRecord /\ s.at \in Nat
  BY StepFacts DEF MainInv
<1>2. s.at \in 16..31
  <2>1. M!Step \in s.ready => M!Step \in M!All(M!Launched)
    BY <1>1, StepFacts DEF StartupRecord
  <2>2. s.at \in 16..27 \/ s.at \in {28, 29, 30, 31}
    <3>1. CASE M!ServerReady
      BY <2>1, <3>1, StepFacts DEF M!ServerReady
    <3>2. CASE M!StartVPN
      BY <3>2, StepFacts DEF M!StartVPN
    <3>3. CASE M!RunEnds
      BY <3>3, StepFacts DEF M!RunEnds
    <3>4. CASE M!StopLoop
      BY <3>4, StepFacts DEF M!StopLoop
    <3> QED
      BY <3>1, <3>2, <3>3, <3>4
  <2> QED
    BY <2>2
<1>3. \E at \in {s.at + 1, 32}, services \in SUBSET s.services, up \in {s.vpnUp, TRUE} :
        s' = [s EXCEPT !.at = at, !.services = services, !.vpnUp = up]
  <2>1. CASE M!ServerReady
    <3>1. s' = [s EXCEPT !.at = s.at + 1, !.services = s.services, !.vpnUp = s.vpnUp]
      BY <1>1, <2>1 DEF M!ServerReady, M!Advance, StartupRecord
    <3> QED BY <3>1
  <2>2. CASE M!StartVPN
    <3>1. \/ s' = [s EXCEPT !.at = s.at + 1, !.services = s.services, !.vpnUp = TRUE]
          \/ s' = [s EXCEPT !.at = s.at + 1, !.services = s.services, !.vpnUp = s.vpnUp]
      BY <1>1, <2>2 DEF M!StartVPN, M!Advance, StartupRecord
    <3> QED BY <3>1
  <2>3. CASE M!RunEnds
    <3>1. CASE s' = M!Advance(s)
      <4>1. s' = [s EXCEPT !.at = s.at + 1, !.services = s.services, !.vpnUp = s.vpnUp]
        BY <1>1, <3>1 DEF M!Advance, StartupRecord
      <4> QED BY <4>1
    <3>2. ASSUME NEW l \in M!Loops, s' = [s EXCEPT !.at = 32, !.services = @ \ {l}] 
          PROVE  \E at \in {s.at + 1, 32}, services \in SUBSET s.services, up \in {s.vpnUp, TRUE} :
                    s' = [s EXCEPT !.at = at, !.services = services, !.vpnUp = up]
      <4>1. s' = [s EXCEPT !.at = 32, !.services = s.services \ {l}, !.vpnUp = s.vpnUp]
        BY <1>1, <3>2 DEF StartupRecord
      <4> QED BY <4>1
    <3> QED
      BY <2>3, <3>1, <3>2, IndexFacts DEF M!RunEnds
  <2>4. CASE M!StopLoop
    <3> DEFINE l == IF M!Step = "stopPublicIP" THEN "publicIP" ELSE "portForwarding"
    <3>1. s' = M!Advance([s EXCEPT !.services = @ \ {l}])
      BY <2>4 DEF M!StopLoop
    <3> HIDE DEF l
    <3>2. s' = [s EXCEPT !.at = s.at + 1, !.services = s.services \ {l}, !.vpnUp = s.vpnUp]
      BY <1>1, <3>1 DEF M!Advance, StartupRecord
    <3> QED BY <3>2
  <2> QED
    BY <2>1, <2>2, <2>3, <2>4
<1>4. PICK at \in {s.at + 1, 32}, services \in SUBSET s.services, up \in {s.vpnUp, TRUE} :
        s' = [s EXCEPT !.at = at, !.services = services, !.vpnUp = up]
  BY <1>3
<1>5. at \in 16..32 /\ at \in Nat
  BY <1>2
<1>6. /\ s' \in StartupRecord /\ s'.at = at /\ s'.set = s.set /\ s'.failed = s.failed /\ s'.late = s.late
      /\ s'.told = s.told /\ s'.exit = s.exit /\ s'.services = services
  BY <1>1, <1>4, <1>5 DEF StartupRecord
<1> QED
  BY <1>2, <1>5, <1>6, GoesOn

\* A group of services that was told is over, or some of it is too late.
LEMMA GroupOverInv ==
  ASSUME MainInv, M!GroupOver
  PROVE  MainInv'
<1>0. M!Step \in M!All(M!Groups) /\ M!Members \subseteq s.told /\ s \in StartupRecord
  BY DEF M!GroupOver, MainInv
<1>1. /\ s \in StartupRecord /\ s.at \in 32..36 /\ M!Members \subseteq s.told /\ M!Step = M!Steps[s.at]
      /\ s.at # 38 /\ ~(s.at >= 37) /\ s.at <= 36 /\ s.at \in Nat /\ s.at + 1 # 38 /\ 15 < s.at
  <2>1. s.at \in 32..36
    BY <1>0, StepFacts
  <2>2. M!Step = M!Steps[s.at]
    BY <2>1, StepFacts
  <2> QED
    BY <1>0, <2>1, <2>2
<1>2. PICK more \in SUBSET M!Members :
        s' = [s EXCEPT !.late = @ \cup more, !.services = @ \ (M!Members \ more), !.at = s.at + 1]
  <2>1. PICK slow \in SUBSET M!Members :
          LET late == slow \cup {x \in M!Members : M!MustBeLate(x)} IN
            s' = M!Advance([s EXCEPT !.late = @ \cup late, !.services = @ \ (M!Members \ late)])
    BY DEF M!GroupOver
  <2> DEFINE more == slow \cup {x \in M!Members : M!MustBeLate(x)}
  <2>2. more \in SUBSET M!Members
    OBVIOUS
  <2>3. s' = M!Advance([s EXCEPT !.late = @ \cup more, !.services = @ \ (M!Members \ more)])
    BY <2>1
  <2> HIDE DEF more
  <2>4. s' = [s EXCEPT !.late = @ \cup more, !.services = @ \ (M!Members \ more), !.at = s.at + 1]
    BY <1>1, <2>3 DEF M!Advance, StartupRecord
  <2> QED
    BY <2>2, <2>4
<1>3. M!Members = M!Group(M!Steps[s.at]) \cap s.services
  BY <1>1 DEF M!Members
<1>4. more \subseteq s.told /\ more \subseteq s.services
  BY <1>1, <1>3
<1>5. s.at + 1 \in Nat /\ s.services \subseteq M!All(M!Launched)
  BY <1>1 DEF StartupRecord
<1>6. /\ s' \in StartupRecord /\ s'.at = s.at + 1 /\ s'.set = s.set /\ s'.failed = s.failed
      /\ s'.late = s.late \cup more /\ s'.services = s.services \ (M!Members \ more)
      /\ s'.told = s.told /\ s'.exit = s.exit
  BY <1>1, <1>2, <1>4, <1>5 DEF StartupRecord
<1>7. s.exit # "clean" /\ s.failed = FALSE
  BY <1>1 DEF MainInv, StartupRecord
<1>8. ASSUME NEW i \in 32..36, i < s'.at
      PROVE  M!Group(M!Steps[i]) \cap s'.services \subseteq s'.late
  <2>1. i < s.at \/ i = s.at
    BY <1>1, <1>6, <1>8
  <2>2. CASE i < s.at
    BY <1>6, <1>7, <2>2 DEF MainInv
  <2>3. CASE i = s.at
    BY <1>3, <1>6, <2>3
  <2> QED
    BY <2>1, <2>2, <2>3
<1>9. \A i \in 1..15 : M!Fallible[i] \in s.set
  <2> TAKE i \in 1..15
  <2>1. i < s.at
    BY <1>1
  <2> QED
    BY <1>1, <2>1 DEF MainInv
<1>10. s'.at \in 1..(Len(M!Steps) + 1) /\ s'.at # 38
  BY <1>1, <1>6, StepsInOrder DEF StepsAreSo
<1>11. "vpn" \in s'.services => "vpn" \in s.services
  BY <1>6
<1>12. s'.late \subseteq s'.told
  BY <1>4, <1>6 DEF MainInv
<1> QED
  BY <1>6, <1>7, <1>8, <1>9, <1>10, <1>11, <1>12 DEF MainInv

\* _main returns, and the routing is torn down if it was set.
LEMMA ReturnInv ==
  ASSUME MainInv, M!Return
  PROVE  MainInv'
<1> DEFINE torn == "routing" \in s.set
<1>1. s \in StartupRecord /\ s.at = 37
  BY StepFacts DEF M!Return, MainInv
<1>2. s' = [s EXCEPT !.torn = torn, !.at = 38] /\ torn \in BOOLEAN
  <2>1. s' = M!Advance([s EXCEPT !.torn = torn]) /\ torn \in BOOLEAN
    BY DEF M!Return
  <2> HIDE DEF torn
  <2>2. M!Advance([s EXCEPT !.torn = torn]) = [s EXCEPT !.torn = torn, !.at = s.at + 1]
    BY <1>1 DEF M!Advance, StartupRecord
  <2>3. s.at + 1 = 38
    BY <1>1
  <2> QED
    BY <2>1, <2>2, <2>3
<1> HIDE DEF torn
<1>3. /\ s' \in StartupRecord /\ s'.at = 38 /\ s'.set = s.set /\ s'.failed = s.failed /\ s'.late = s.late
      /\ s'.services = s.services /\ s'.told = s.told /\ s'.exit = s.exit /\ s'.torn = torn
  BY <1>1, <1>2 DEF StartupRecord
<1>4. 38 \in 1..(Len(M!Steps) + 1) /\ ~(38 <= 36) /\ 38 >= 37 /\ \A i \in 32..36 : i < 37
  BY StepsInOrder DEF StepsAreSo
<1> QED
  BY <1>1, <1>3, <1>4 DEF MainInv, torn

\* The groups are told, and main and the servers go their way.
LEMMA AroundInv ==
  ASSUME MainInv, \/ M!Tell \/ M!Signal \/ M!Returned \/ M!GraceOver
                  \/ \E x \in M!Servers : M!Listens(x) \/ M!ListenFails(x) \/ M!ServerEnds(x)
  PROVE  MainInv'
<1>1. s \in StartupRecord
  BY DEF MainInv
<1>2. CASE M!Tell
  <2>1. s' = [s EXCEPT !.told = @ \cup M!Members] /\ M!Members \subseteq s.services
    BY <1>2 DEF M!Tell, M!Members
  <2>2. /\ s' \in StartupRecord /\ s'.at = s.at /\ s'.set = s.set /\ s'.services = s.services /\ s'.late = s.late
        /\ s'.told = s.told \cup M!Members /\ s'.failed = s.failed /\ s'.torn = s.torn /\ s'.exit = s.exit
    BY <1>1, <2>1 DEF StartupRecord
  <2> QED
    BY <2>2, StaysThere
<1>3. CASE M!Signal
  <2>1. s' = [s EXCEPT !.signal = TRUE, !.main = "grace"]
    BY <1>3 DEF M!Signal
  <2>2. /\ s' \in StartupRecord /\ s'.at = s.at /\ s'.set = s.set /\ s'.services = s.services /\ s'.late = s.late
        /\ s'.told = s.told /\ s'.failed = s.failed /\ s'.torn = s.torn /\ s'.exit = s.exit
    BY <1>1, <2>1 DEF StartupRecord
  <2> QED
    BY <2>2, StaysThere
<1>4. CASE M!Returned
  <2>1. s' = [s EXCEPT !.main = "exited", !.exit = "clean"] /\ s.at = 38
    BY <1>4, StepFacts DEF M!Returned
  <2>2. /\ s' \in StartupRecord /\ s'.at = s.at /\ s'.set = s.set /\ s'.services = s.services /\ s'.late = s.late
        /\ s'.told = s.told /\ s'.failed = s.failed /\ s'.torn = s.torn
    BY <1>1, <2>1 DEF StartupRecord
  <2> QED
    BY <2>1, <2>2, StaysThere
<1>5. CASE M!GraceOver
  <2>1. s' = [s EXCEPT !.main = "exited", !.exit = "timeout"]
    BY <1>5 DEF M!GraceOver
  <2>2. /\ s' \in StartupRecord /\ s'.at = s.at /\ s'.set = s.set /\ s'.services = s.services /\ s'.late = s.late
        /\ s'.told = s.told /\ s'.failed = s.failed /\ s'.torn = s.torn /\ s'.exit # "clean"
    BY <1>1, <2>1 DEF StartupRecord
  <2> QED
    BY <2>2, StaysThere
<1>6. ASSUME NEW x \in M!Servers, M!Listens(x) \/ M!ListenFails(x) \/ M!ServerEnds(x)
      PROVE  MainInv'
  <2>1. PICK is \in {"serving", "closing", "done"}, ready \in SUBSET M!Servers, deaf \in SUBSET M!Servers :
          s' = [s EXCEPT !.server[x] = is, !.ready = ready, !.deaf = deaf]
    <3>1. CASE M!Listens(x)
      <4>1. s' = [s EXCEPT !.server[x] = "serving", !.ready = s.ready \cup {x}, !.deaf = s.deaf]
        BY <1>1, <3>1 DEF M!Listens, StartupRecord
      <4>2. s.ready \cup {x} \in SUBSET M!Servers /\ s.deaf \in SUBSET M!Servers
        BY <1>1, <1>6 DEF StartupRecord
      <4> QED
        BY <4>1, <4>2
    <3>2. CASE M!ListenFails(x)
      <4>1. s' = [s EXCEPT !.server[x] = "done", !.ready = s.ready, !.deaf = s.deaf \cup {x}]
        BY <1>1, <3>2 DEF M!ListenFails, StartupRecord
      <4>2. s.ready \in SUBSET M!Servers /\ s.deaf \cup {x} \in SUBSET M!Servers
        BY <1>1, <1>6 DEF StartupRecord
      <4> QED
        BY <4>1, <4>2
    <3>3. CASE M!ServerEnds(x)
      <4>1. \E is \in {"closing", "done"} : s' = [s EXCEPT !.server[x] = is]
        BY <3>3 DEF M!ServerEnds
      <4>2. \E is \in {"closing", "done"} : s' = [s EXCEPT !.server[x] = is, !.ready = s.ready, !.deaf = s.deaf]
        <5>1. PICK is \in {"closing", "done"} : s' = [s EXCEPT !.server[x] = is]
          BY <4>1
        <5>2. s' = [s EXCEPT !.server[x] = is, !.ready = s.ready, !.deaf = s.deaf]
          BY <1>1, <5>1 DEF StartupRecord
        <5> QED
          BY <5>2
      <4>3. s.ready \in SUBSET M!Servers /\ s.deaf \in SUBSET M!Servers
        BY <1>1 DEF StartupRecord
      <4> QED
        BY <4>2, <4>3
    <3> QED
      BY <1>6, <3>1, <3>2, <3>3
  <2>2. /\ s' \in StartupRecord /\ s'.at = s.at /\ s'.set = s.set /\ s'.services = s.services /\ s'.late = s.late
        /\ s'.told = s.told /\ s'.failed = s.failed /\ s'.torn = s.torn /\ s'.exit = s.exit
    BY <1>1, <2>1 DEF StartupRecord
  <2> QED
    BY <2>2, StaysThere
<1> QED
  BY <1>2, <1>3, <1>4, <1>5, <1>6

\* Every step of the program.
LEMMA StartupStepInv ==
  ASSUME MainInv, M!StartupNext
  PROVE  MainInv'
  BY SucceedsInv, FailsInv, LaunchInv, WaitsInv, GroupOverInv, ReturnInv, AroundInv
     DEF M!StartupNext, M!MainStep

\* Every service is of a group, or is a loop that is stopped by its Stop.
LEMMA EveryServiceGrouped ==
  ASSUME NEW x \in M!All(M!Launched)
  PROVE  x \in M!Loops \/ \E i \in 32..36 : x \in M!Group(M!Steps[i])
<1>1. /\ M!Group("control") = {"httpServer", "dnsTicker", "updaterTicker"} /\ M!Group("tickers") = {"updater"}
      /\ M!Group("healthGroup") = {"health"} /\ M!Group("vpnGroup") = {"vpn"}
      /\ M!Group("other") = {"dns", "httpProxy", "shadowsocks", "pprof"}
  BY DEF M!Group
<1>2. /\ M!Steps[32] = "control" /\ M!Steps[33] = "tickers" /\ M!Steps[34] = "healthGroup"
      /\ M!Steps[35] = "vpnGroup" /\ M!Steps[36] = "other"
  BY StepsInOrder DEF StepsAreSo
<1>3. 32 \in 32..36 /\ 33 \in 32..36 /\ 34 \in 32..36 /\ 35 \in 32..36 /\ 36 \in 32..36
  OBVIOUS
<1>4. x \in {"portForwarding", "publicIP"} \/ x \in {"httpServer", "dnsTicker", "updaterTicker"} \/ x = "updater"
      \/ x = "health" \/ x = "vpn" \/ x \in {"dns", "httpProxy", "shadowsocks", "pprof"}
  BY StepSets DEF StepSetsAreSo
<1> QED
  BY <1>1, <1>2, <1>3, <1>4 DEF M!Loops

\* What the invariant says of the program.
LEMMA StartupFacts ==
  ASSUME MainInv
  PROVE  M!StartupTypeOK /\ M!AllTold /\ M!RoutingUndone
<1>1. M!StartupTypeOK
  BY DEF MainInv, StartupRecord, M!StartupTypeOK
<1>2. M!AllTold
  <2> SUFFICES ASSUME M!Step \in {"return", "end"}, ~s.failed, NEW x \in s.services, x \notin M!Loops
               PROVE  x \in s.late
    BY DEF M!AllTold
  <2>1. s.at \in {37, 38}
    BY StepFacts
  <2>2. \A i \in 32..36 : i < s.at
    BY <2>1
  <2>3. x \in M!All(M!Launched)
    BY DEF MainInv, StartupRecord
  <2>4. PICK i \in 32..36 : x \in M!Group(M!Steps[i])
    BY <2>3, EveryServiceGrouped
  <2> QED
    BY <2>2, <2>4 DEF MainInv
<1>3. M!RoutingUndone
  BY DEF MainInv, StartupRecord, M!RoutingUndone
<1> QED
  BY <1>1, <1>2, <1>3

\* Two routes are the same only if all that names them is.
LEMMA RouteNames ==
  /\ \A d, e : K!Inbound(d) = K!Inbound(e) <=> d = e
  /\ \A d, e, x : K!Inbound(d) # K!Outbound(x, e)
  /\ \A d, e, x, y : K!Outbound(x, d) = K!Outbound(y, e) <=> x = y /\ d = e
  BY DEF K!Inbound, K!Outbound

\* The same of rules.
LEMMA RuleNames ==
  /\ \A d, e : K!InboundRule(d) = K!InboundRule(e) <=> d = e
  /\ \A x, y : K!OutboundRule(x) = K!OutboundRule(y) <=> x = y
  /\ \A d, x : K!InboundRule(d) # K!OutboundRule(x)
  /\ \A d : K!InboundRule(d) # K!LocalRule
  /\ \A x : K!OutboundRule(x) # K!LocalRule
  BY DEF K!InboundRule, K!OutboundRule, K!LocalRule

\* The default routes stay what they are.
LEMMA SameDefaults ==
  ASSUME s'.defaults = s.defaults
  PROVE  /\ K!Each' = K!Each /\ (\A x : K!Matching(x)' = K!Matching(x)) /\ (\A d : K!Alike(d)' = K!Alike(d))
         /\ K!AllRoutes' = K!AllRoutes /\ (K!OnePerFamily' <=> K!OnePerFamily)
  BY DEF K!Each, K!Matching, K!Alike, K!AllRoutes, K!OnePerFamily

\* The loops: where they are, and what they are about.
LEMMA LoopFacts ==
  ASSUME K!RoutingConstants, RoutingPlaces
  PROVE  /\ s \in RoutingRecord /\ Len(s.defaults) \in Nat /\ Len(Subnets) \in Nat /\ s.subnet \in Nat
         /\ s.route \in Nat /\ s.route >= 1 /\ s.subnet >= 1 /\ s.faults \in Nat
         /\ K!InRoutes => s.route \in K!Each /\ s.route + 1 \in 1 .. Len(s.defaults) + 1
         /\ ~K!InRoutes => \A d \in K!Each : d < s.route
         /\ K!InSubnets => K!This \in K!Outer /\ s.subnet + 1 \in 1 .. Len(Subnets) + 1
         /\ ~K!InSubnets => \A i \in 1..Len(Subnets) : i < s.subnet
         /\ K!Each \subseteq Nat /\ (\A d \in K!Each : d >= 1) /\ (\A x : K!Matching(x) \subseteq K!Each)
         /\ \A d \in K!Each : d \in K!Alike(d)
         /\ \A x \in K!Outer : \E i \in 1..Len(Subnets) : x = Subnets[i]
         /\ 1 \in 1 .. Len(Subnets) + 1 /\ 1 \in 1 .. Len(s.defaults) + 1
<1>1. /\ s \in RoutingRecord /\ s.subnet \in 1 .. Len(Subnets) + 1 /\ s.route \in 1 .. Len(s.defaults) + 1
      /\ s.defaults \in DefaultFamilies /\ s.faults \in Nat
  BY DEF RoutingPlaces, RoutingRecord
<1>2. Len(s.defaults) \in Nat /\ Len(Subnets) \in Nat
  BY <1>1 DEF K!RoutingConstants
<1> DEFINE D == Len(s.defaults)
           N == Len(Subnets)
<1> HIDE DEF D, N
<1>3. D \in Nat /\ N \in Nat /\ s.subnet \in 1..(N + 1) /\ s.route \in 1..(D + 1)
  BY <1>1, <1>2 DEF D, N
<1>4. /\ s.subnet \in Nat /\ s.route \in Nat /\ s.route >= 1 /\ s.subnet >= 1
      /\ s.route <= D => s.route \in 1..D /\ s.route + 1 \in 1..(D + 1)
      /\ ~(s.route <= D) => \A d \in 1..D : d < s.route
      /\ s.subnet <= N => s.subnet \in 1..N /\ s.subnet + 1 \in 1..(N + 1)
      /\ ~(s.subnet <= N) => \A i \in 1..N : i < s.subnet
      /\ 1..D \subseteq Nat /\ (\A d \in 1..D : d >= 1) /\ 1 \in 1..(N + 1) /\ 1 \in 1..(D + 1)
  BY <1>3
<1>5. K!Each = 1..D /\ K!Outer = {Subnets[i] : i \in 1..N}
  BY DEF K!Each, K!Outer, D, N
<1>6. /\ (\A x : K!Matching(x) \subseteq K!Each) /\ \A d \in K!Each : d \in K!Alike(d)
  BY DEF K!Matching, K!Alike
<1> QED
  BY <1>1, <1>3, <1>4, <1>5, <1>6 DEF K!InRoutes, K!InSubnets, K!This, D, N

\* The state with these fields, and the default routes it has.
Stepped(a, i, r, rs, us, os, f) ==
    [s EXCEPT !.at = a, !.subnet = i, !.route = r, !.routes = rs, !.rules = us, !.outbound = os, !.faults = f]

\* The fields after a step.
LEMMA RoutingFields ==
  ASSUME s \in RoutingRecord, NEW a \in K!Stages, NEW i \in Nat, NEW r \in Nat, NEW rs \in SUBSET RouteSet,
         NEW us \in SUBSET RuleSet, NEW os \in SUBSET K!Outer, NEW f \in Nat,
         s' = Stepped(a, i, r, rs, us, os, f)
  PROVE  /\ s' \in RoutingRecord /\ s'.at = a /\ s'.subnet = i /\ s'.route = r /\ s'.routes = rs /\ s'.rules = us
         /\ s'.outbound = os /\ s'.faults = f /\ s'.defaults = s.defaults
  BY DEF RoutingRecord, Stepped

\* What At, NextRoute and NextSubnet make of a state.
LEMMA LoopSteps ==
  ASSUME s \in RoutingRecord, NEW rs, NEW us, NEW os
  PROVE  /\ \A a : K!At(a) = Stepped(a, 1, 1, s.routes, s.rules, s.outbound, s.faults)
         /\ K!NextRoute([s EXCEPT !.routes = rs]) =
              Stepped(s.at, s.subnet, s.route + 1, rs, s.rules, s.outbound, s.faults)
         /\ K!NextRoute([s EXCEPT !.rules = us]) =
              Stepped(s.at, s.subnet, s.route + 1, s.routes, us, s.outbound, s.faults)
         /\ K!NextRoute(s) =
              Stepped(s.at, s.subnet, s.route + 1, s.routes, s.rules, s.outbound, s.faults)
         /\ K!NextSubnet([s EXCEPT !.rules = us, !.outbound = os]) =
              Stepped(s.at, s.subnet + 1, 1, s.routes, us, os, s.faults)
         /\ K!NextSubnet(s) =
              Stepped(s.at, s.subnet + 1, 1, s.routes, s.rules, s.outbound, s.faults)
<1>1. ASSUME NEW a PROVE K!At(a) = Stepped(a, 1, 1, s.routes, s.rules, s.outbound, s.faults)
  BY DEF K!At, RoutingRecord, Stepped
<1>2. K!NextRoute([s EXCEPT !.routes = rs]) =
              Stepped(s.at, s.subnet, s.route + 1, rs, s.rules, s.outbound, s.faults)
  BY DEF K!NextRoute, RoutingRecord, Stepped
<1>3. K!NextRoute([s EXCEPT !.rules = us]) =
              Stepped(s.at, s.subnet, s.route + 1, s.routes, us, s.outbound, s.faults)
  BY DEF K!NextRoute, RoutingRecord, Stepped
<1>4. K!NextRoute(s) =
              Stepped(s.at, s.subnet, s.route + 1, s.routes, s.rules, s.outbound, s.faults)
  BY DEF K!NextRoute, RoutingRecord, Stepped
<1>5. K!NextSubnet([s EXCEPT !.rules = us, !.outbound = os]) =
              Stepped(s.at, s.subnet + 1, 1, s.routes, us, os, s.faults)
  BY DEF K!NextSubnet, RoutingRecord, Stepped
<1>6. K!NextSubnet(s) =
              Stepped(s.at, s.subnet + 1, 1, s.routes, s.rules, s.outbound, s.faults)
  BY DEF K!NextSubnet, RoutingRecord, Stepped
<1> QED
  BY <1>1, <1>2, <1>3, <1>4, <1>5, <1>6

\* The rules that may be there.
AllRules == {K!InboundRule(d) : d \in K!Each} \cup {K!OutboundRule(x) : x \in K!Outer} \cup {K!LocalRule}

\* A step to such a state, and what stays the same over it.
Reached(a, i, r, rs, us, os, f) ==
    /\ RoutingPlaces'
    /\ s'.at = a /\ s'.subnet = i /\ s'.route = r /\ s'.routes = rs /\ s'.rules = us
    /\ s'.outbound = os /\ s'.faults = f
    /\ K!Each' = K!Each /\ (\A x : K!Matching(x)' = K!Matching(x)) /\ (K!OnePerFamily' <=> K!OnePerFamily)
    /\ (K!InSubnets' <=> i <= Len(Subnets)) /\ K!This' = Subnets[i]
    /\ \A x : Routed(x)' <=> \E d \in K!Matching(x) : K!Outbound(x, d) \in rs

\* A step whose routes and rules are among those that may be there keeps the places.
LEMMA RoutingStep ==
  ASSUME K!RoutingConstants, RoutingPlaces, NEW a \in K!Stages, NEW i \in 1 .. Len(Subnets) + 1,
         NEW r \in 1 .. Len(s.defaults) + 1, NEW rs \in SUBSET K!AllRoutes, NEW us \in SUBSET AllRules,
         NEW os \in SUBSET K!Outer, NEW f \in Nat,
         s' = Stepped(a, i, r, rs, us, os, f)
  PROVE  Reached(a, i, r, rs, us, os, f)
<1>1. s \in RoutingRecord /\ Len(Subnets) \in Nat /\ Len(s.defaults) \in Nat /\ K!Each \subseteq Nat
      /\ \A x : K!Matching(x) \subseteq K!Each
  BY LoopFacts
<1>2. i \in Nat /\ r \in Nat
  BY <1>1
<1>3. rs \in SUBSET RouteSet /\ us \in SUBSET RuleSet
  BY <1>1 DEF RouteSet, RuleSet, AllRules, K!AllRoutes
<1>4. /\ s' \in RoutingRecord /\ s'.at = a /\ s'.subnet = i /\ s'.route = r /\ s'.routes = rs /\ s'.rules = us
      /\ s'.outbound = os /\ s'.faults = f /\ s'.defaults = s.defaults
  BY <1>1, <1>2, <1>3, RoutingFields
<1>5. /\ K!Each' = K!Each /\ (\A x : K!Matching(x)' = K!Matching(x))
      /\ K!AllRoutes' = K!AllRoutes /\ (K!OnePerFamily' <=> K!OnePerFamily)
  BY <1>4, SameDefaults
<1>6. RoutingPlaces'
  BY <1>4, <1>5 DEF RoutingPlaces, AllRules
<1>7. (K!InSubnets' <=> i <= Len(Subnets)) /\ K!This' = Subnets[i]
  BY <1>4 DEF K!InSubnets, K!This
<1>8. \A x : Routed(x)' <=> \E d \in K!Matching(x) : K!Outbound(x, d) \in rs
  BY <1>4, <1>5 DEF Routed, K!Matching, K!Each, K!Outbound
<1> QED
  BY <1>4, <1>5, <1>6, <1>7, <1>8 DEF Reached

\* What is in the record of the routing.
LEMMA RoutingSets ==
  ASSUME K!RoutingConstants, RoutingPlaces
  PROVE  /\ s.routes \in SUBSET K!AllRoutes /\ s.rules \in SUBSET AllRules /\ s.outbound \in SUBSET K!Outer
         /\ s.faults \in Nat /\ s.at \in K!Stages /\ s.subnet \in 1 .. Len(Subnets) + 1
         /\ s.route \in 1 .. Len(s.defaults) + 1
  BY DEF RoutingPlaces, RoutingRecord, AllRules

\* A step to another stage.
LEMMA StageStep ==
  ASSUME K!RoutingConstants, RoutingPlaces, NEW a \in K!Stages, s' = K!At(a)
  PROVE  /\ RoutingPlaces'
         /\ s'.at = a /\ s'.subnet = 1 /\ s'.route = 1 /\ s'.routes = s.routes /\ s'.rules = s.rules
         /\ s'.outbound = s.outbound /\ s'.faults = s.faults
         /\ K!Each' = K!Each /\ (\A x : K!Matching(x)' = K!Matching(x)) /\ (K!OnePerFamily' <=> K!OnePerFamily)
         /\ K!This' = Subnets[1]
         /\ \A x : Routed(x)' <=> Routed(x)
<1>1. s \in RoutingRecord /\ 1 \in 1 .. Len(Subnets) + 1 /\ 1 \in 1 .. Len(s.defaults) + 1
  BY LoopFacts
<1>2. s' = Stepped(a, 1, 1, s.routes, s.rules, s.outbound, s.faults)
  BY <1>1, LoopSteps
<1>3. /\ s.routes \in SUBSET K!AllRoutes /\ s.rules \in SUBSET AllRules /\ s.outbound \in SUBSET K!Outer
      /\ s.faults \in Nat
  BY RoutingSets
<1>4. Reached(a, 1, 1, s.routes, s.rules, s.outbound, s.faults)
  BY <1>1, <1>2, <1>3, RoutingStep
<1> QED
  BY <1>4 DEF Reached, Routed

\* A stage that is entered with nothing to show for it but what is recorded.
LEMMA StageRecorded ==
  ASSUME K!RoutingConstants, RoutingPlaces, RoutingRecorded, NEW a \in K!Stages, s' = K!At(a),
         s.at \in {"forget", "end"} => a = "end"
  PROVE  RoutingRecorded'
<1>1. /\ s'.at = a /\ s'.route = 1 /\ s'.rules = s.rules /\ s'.outbound = s.outbound
      /\ (\A x : K!Matching(x)' = K!Matching(x)) /\ (\A x : Routed(x)' <=> Routed(x)) /\ K!Each \subseteq Nat
      /\ (\A d \in K!Each : d >= 1) /\ (\A x : K!Matching(x) \subseteq K!Each)
  BY StageStep, LoopFacts
<1>2. K!Outer' = K!Outer
  BY DEF K!Outer
<1>3. s'.at \notin {"forget", "end"} => \A x \in s'.outbound : K!OutboundRule(x) \in s'.rules /\ Routed(x)'
  BY <1>1 DEF RoutingRecorded
<1>4. ~ \E d \in K!Matching(K!This)' : d < s'.route
  <2>1. K!Matching(K!This)' \subseteq K!Each
    BY <1>1 DEF K!Matching, K!Each
  <2>2. \A d \in K!Matching(K!This)' : d \in Nat /\ d >= 1
    BY <1>1, <2>1
  <2> QED
    BY <1>1, <2>2
<1>5. \A x \in K!Outer' : K!OutboundRule(x) \in s'.rules => x \in s'.outbound
  BY <1>1, <1>2 DEF RoutingRecorded
<1> QED
  BY <1>3, <1>4, <1>5 DEF RoutingRecorded, K!OutboundRule

\* From a stage to the next, when its loop has ended.
StageEnds(a) ==
    \/ s.at = "start" /\ a = "rules"
    \/ s.at = "rules" /\ a = "routes" /\ ~K!InRoutes
    \/ s.at = "routes" /\ a = "list" /\ ~K!InRoutes
    \/ s.at = "list" /\ a = "outbound"
    \/ s.at = "outbound" /\ a = "local" /\ ~K!InSubnets
    \/ s.at \in {"running", "teardown"} /\ a = "unroute"
    \/ s.at = "unroute" /\ a = "unrule" /\ ~K!InRoutes
    \/ s.at = "unroute" /\ a = "end" /\ K!InRoutes /\ K!Inbound(s.route) \notin s.routes
    \/ s.at = "unrule" /\ a = "forget" /\ ~K!InRoutes
    \/ s.at = "forget" /\ a = "end" /\ ~K!InSubnets

\* A stage that ends keeps the invariant.
LEMMA StageInv ==
  ASSUME K!RoutingConstants, RoutingInv, NEW a \in K!Stages, s' = K!At(a), StageEnds(a)
  PROVE  RoutingInv'
<1>1. /\ RoutingPlaces /\ RoutingRecorded
      /\ (s.faults = 0 /\ K!OnePerFamily => s.at # "teardown" /\ InboundDone /\ OutboundDone)
  BY DEF RoutingInv
<1>2. /\ RoutingPlaces'
      /\ s'.at = a /\ s'.subnet = 1 /\ s'.route = 1 /\ s'.routes = s.routes /\ s'.rules = s.rules
      /\ s'.outbound = s.outbound /\ s'.faults = s.faults
      /\ K!Each' = K!Each /\ (K!OnePerFamily' <=> K!OnePerFamily) /\ K!Outer' = K!Outer
  BY <1>1, StageStep DEF K!Outer
<1>3. /\ ~K!InRoutes => \A d \in K!Each : d < s.route
      /\ ~K!InSubnets => \A i \in 1..Len(Subnets) : i < s.subnet
      /\ K!InRoutes => s.route \in K!Each
      /\ K!Each \subseteq Nat /\ (\A d \in K!Each : d >= 1) /\ s.route \in Nat
      /\ (\A x \in K!Outer : \E i \in 1..Len(Subnets) : x = Subnets[i])
      /\ s.outbound \subseteq K!Outer
  BY <1>1, LoopFacts, RoutingSets
<1>4. s.at \in {"forget", "end"} => a = "end"
  BY DEF StageEnds
<1>5. RoutingRecorded'
  BY <1>1, <1>4, StageRecorded
<1>6. \A d \in K!Each : ~(d < s'.route)
  <2>1. s'.route = 1 /\ \A d \in K!Each : d \in Nat /\ d >= 1
    BY <1>2, <1>3
  <2> QED
    BY <2>1
<1>7. ASSUME s.faults = 0, K!OnePerFamily PROVE a # "teardown" /\ InboundDone' /\ OutboundDone'
  <2>1. s.at # "teardown" /\ InboundDone /\ OutboundDone
    BY <1>1, <1>7
  <2>2. s.at = "unroute" => a = "unrule" /\ ~K!InRoutes
    <3>1. s.at = "unroute" /\ K!InRoutes => K!Inbound(s.route) \in s.routes
      BY <1>3, <2>1 DEF InboundDone
    <3> QED
      BY <3>1 DEF StageEnds
  <2>3. InboundDone'
    <3>2. s'.at \in {"list", "outbound", "local", "running"} => \A d \in K!Each : K!Inbound(d) \in s'.routes
      <4>1. CASE a = "list"
        <5>1. s.at = "routes" /\ ~K!InRoutes
          BY <4>1 DEF StageEnds
        <5> QED
          BY <1>2, <1>3, <2>1, <5>1 DEF InboundDone
      <4>2. CASE a # "list"
        <5>1. a \in {"outbound", "local", "running"} => s.at \in {"list", "outbound"}
          BY <4>2 DEF StageEnds
        <5> QED
          BY <1>2, <2>1, <4>2, <5>1 DEF InboundDone
      <4> QED
        BY <4>1, <4>2
    <3>3. s'.at = "unroute" => \A d \in K!Each : K!Inbound(d) \in s'.routes <=> d >= s'.route
      <4>1. a = "unroute" => s.at = "running"
        BY <2>1 DEF StageEnds
      <4> QED
        BY <1>2, <1>3, <2>1, <4>1 DEF InboundDone
    <3>4. s'.at \in {"unrule", "forget", "end"} => \A d \in K!Each : K!Inbound(d) \notin s'.routes
      <4>1. CASE a = "unrule"
        <5>1. s.at = "unroute" /\ ~K!InRoutes
          BY <4>1 DEF StageEnds
        <5>2. \A d \in K!Each : ~(d >= s.route)
          BY <1>3, <5>1
        <5> QED
          BY <1>2, <2>1, <5>1, <5>2 DEF InboundDone
      <4>2. CASE a # "unrule"
        <5>1. a \in {"forget", "end"} => s.at \in {"unrule", "forget"}
          BY <2>2, <4>2 DEF StageEnds
        <5> QED
          BY <1>2, <2>1, <4>2, <5>1 DEF InboundDone
      <4> QED
        BY <4>1, <4>2
    <3>6. s'.at \in {"forget", "end"} => \A d \in K!Each : K!InboundRule(d) \notin s'.rules
      <4>1. a = "forget" => s.at = "unrule" /\ ~K!InRoutes
        BY DEF StageEnds
      <4>2. a = "end" => s.at = "forget"
        BY <2>2 DEF StageEnds
      <4> QED
        BY <1>2, <1>3, <2>1, <4>1, <4>2 DEF InboundDone
    <3> QED
      BY <1>2, <1>6, <3>2, <3>3, <3>4, <3>6 DEF InboundDone, K!Inbound, K!InboundRule
  <2>4. OutboundDone'
    <3>1. \A x \in K!Outer, d \in K!Each : K!Outbound(x, d) \in s.routes => x \in s.outbound
      <4>1. s.at = "outbound" => ~K!InSubnets
        BY DEF StageEnds
      <4> QED
        BY <2>1, <4>1 DEF OutboundDone
    <3>3. \A i \in 1..Len(Subnets) : ~(i < s'.subnet)
      BY <1>2
    <3>4. s'.at = "end" => s'.outbound = {}
      <4>1. a = "end" => s.at = "forget" /\ ~K!InSubnets
        BY <2>2 DEF StageEnds
      <4>2. s.at = "forget" /\ ~K!InSubnets => \A i \in 1..Len(Subnets) : Subnets[i] \notin s.outbound
        BY <1>3, <2>1 DEF OutboundDone
      <4>3. s.at = "forget" /\ ~K!InSubnets => s.outbound = {}
        BY <1>3, <4>2
      <4> QED
        BY <1>2, <4>1, <4>3
    <3> QED
      BY <1>2, <1>6, <3>1, <3>3, <3>4 DEF OutboundDone, K!Outbound
  <2>5. a # "teardown"
    BY DEF StageEnds
  <2> QED
    BY <2>3, <2>4, <2>5
<1> QED
  BY <1>2, <1>5, <1>7 DEF RoutingInv

\* What the steps of the loops start from.
LEMMA LoopStart ==
  ASSUME K!RoutingConstants, RoutingInv
  PROVE  /\ RoutingPlaces /\ RoutingRecorded /\ s \in RoutingRecord
         /\ (s.faults = 0 /\ K!OnePerFamily => s.at # "teardown" /\ InboundDone /\ OutboundDone)
         /\ s.routes \in SUBSET K!AllRoutes /\ s.rules \in SUBSET AllRules /\ s.outbound \in SUBSET K!Outer
         /\ s.faults \in Nat /\ s.at \in K!Stages /\ s.subnet \in 1 .. Len(Subnets) + 1
         /\ s.route \in 1 .. Len(s.defaults) + 1 /\ s.route \in Nat /\ s.subnet \in Nat
         /\ 1 \in 1 .. Len(s.defaults) + 1
         /\ (K!InRoutes => s.route \in K!Each /\ s.route + 1 \in 1 .. Len(s.defaults) + 1)
         /\ (K!InSubnets => K!This \in K!Outer /\ s.subnet + 1 \in 1 .. Len(Subnets) + 1)
         /\ \A d \in K!Each : d \in Nat /\ (d < s.route + 1 <=> d < s.route \/ d = s.route)
                              /\ (d >= s.route + 1 <=> d >= s.route /\ d # s.route)
                              /\ (~K!InRoutes => d < s.route) /\ ~(d < 1)
         /\ \A i \in 1..Len(Subnets) : i < s.subnet + 1 <=> i < s.subnet \/ i = s.subnet
         /\ K!Outer' = K!Outer /\ \A x : K!Matching(x) \subseteq K!Each
<1>1. RoutingPlaces /\ RoutingRecorded
      /\ (s.faults = 0 /\ K!OnePerFamily => s.at # "teardown" /\ InboundDone /\ OutboundDone)
  BY DEF RoutingInv
<1>2. /\ s.routes \in SUBSET K!AllRoutes /\ s.rules \in SUBSET AllRules /\ s.outbound \in SUBSET K!Outer
      /\ s.faults \in Nat /\ s.at \in K!Stages /\ s.subnet \in 1 .. Len(Subnets) + 1
      /\ s.route \in 1 .. Len(s.defaults) + 1
  BY <1>1, RoutingSets
<1>3. /\ s \in RoutingRecord /\ s.subnet \in Nat /\ s.route \in Nat
      /\ (K!InRoutes => s.route \in K!Each /\ s.route + 1 \in 1 .. Len(s.defaults) + 1)
      /\ (~K!InRoutes => \A d \in K!Each : d < s.route)
      /\ (K!InSubnets => K!This \in K!Outer /\ s.subnet + 1 \in 1 .. Len(Subnets) + 1)
      /\ K!Each \subseteq Nat /\ (\A x : K!Matching(x) \subseteq K!Each)
      /\ 1 \in 1 .. Len(s.defaults) + 1 /\ \A d \in K!Each : d >= 1
  BY <1>1, LoopFacts
<1>4. ASSUME NEW d \in K!Each
      PROVE  /\ d \in Nat /\ (d < s.route + 1 <=> d < s.route \/ d = s.route)
             /\ (d >= s.route + 1 <=> d >= s.route /\ d # s.route) /\ ~(d < 1)
  <2>1. d \in Nat /\ d >= 1 /\ s.route \in Nat
    BY <1>3, <1>4
  <2> QED
    BY <2>1
<1>5. ASSUME NEW i \in 1..Len(Subnets) PROVE i < s.subnet + 1 <=> i < s.subnet \/ i = s.subnet
  BY <1>3
<1>6. K!Outer' = K!Outer
  BY DEF K!Outer
<1> QED
  BY <1>1, <1>2, <1>3, <1>4, <1>5, <1>6

\* The setup: the rules and routes of the default routes.
LEMMA AddInboundRuleInv ==
  ASSUME K!RoutingConstants, RoutingInv, K!AddInboundRule
  PROVE  RoutingInv'
<1> DEFINE us == s.rules \cup {K!InboundRule(s.route)}
<1>1. /\ RoutingRecorded /\ s \in RoutingRecord
      /\ (s.faults = 0 /\ K!OnePerFamily => OutboundDone)
      /\ s.routes \in SUBSET K!AllRoutes /\ s.rules \in SUBSET AllRules /\ s.outbound \in SUBSET K!Outer
      /\ s.faults \in Nat /\ s.at \in K!Stages /\ s.subnet \in 1 .. Len(Subnets) + 1 /\ K!Outer' = K!Outer
  BY LoopStart
<1>2. s.at = "rules" /\ s.route \in K!Each /\ s.route + 1 \in 1 .. Len(s.defaults) + 1 /\ RoutingPlaces
  BY LoopStart DEF K!AddInboundRule
<1>3. s' = Stepped(s.at, s.subnet, s.route + 1, s.routes, us, s.outbound, s.faults)
  BY <1>1, LoopSteps DEF K!AddInboundRule
<1>4. us \in SUBSET AllRules
  BY <1>1, <1>2 DEF AllRules
<1>5. Reached(s.at, s.subnet, s.route + 1, s.routes, us, s.outbound, s.faults)
  <2> HIDE DEF us
  <2> QED
    BY <1>1, <1>2, <1>3, <1>4, RoutingStep
<1>6. RoutingRecorded'
  BY <1>1, <1>2, <1>5, RuleNames DEF RoutingRecorded, Reached, Routed
<1>7. InboundDone'
  BY <1>2, <1>5 DEF InboundDone, Reached
<1>8. OutboundDone => OutboundDone'
  BY <1>1, <1>2, <1>5 DEF OutboundDone, Reached
<1>9. s'.at # "teardown" /\ s'.faults = s.faults /\ (K!OnePerFamily' <=> K!OnePerFamily) /\ RoutingPlaces'
  BY <1>2, <1>5 DEF Reached
<1> QED
  BY <1>1, <1>6, <1>7, <1>8, <1>9 DEF RoutingInv

\* The default routes are added, each replacing one of its family.
LEMMA AddInboundRouteInv ==
  ASSUME K!RoutingConstants, RoutingInv, K!AddInboundRoute
  PROVE  RoutingInv'
<1> DEFINE rs == (s.routes \ {K!Inbound(d) : d \in K!Alike(s.route)}) \cup {K!Inbound(s.route)}
<1>1. /\ RoutingRecorded /\ s \in RoutingRecord
      /\ (s.faults = 0 /\ K!OnePerFamily => InboundDone /\ OutboundDone)
      /\ s.routes \in SUBSET K!AllRoutes /\ s.rules \in SUBSET AllRules /\ s.outbound \in SUBSET K!Outer
      /\ s.faults \in Nat /\ s.at \in K!Stages /\ s.subnet \in 1 .. Len(Subnets) + 1 /\ K!Outer' = K!Outer
  BY LoopStart
<1>2. s.at = "routes" /\ s.route \in K!Each /\ s.route + 1 \in 1 .. Len(s.defaults) + 1 /\ RoutingPlaces
      /\ \A d \in K!Each : d < s.route + 1 <=> d < s.route \/ d = s.route
  BY LoopStart DEF K!AddInboundRoute
<1>3. s' = Stepped(s.at, s.subnet, s.route + 1, rs, s.rules, s.outbound, s.faults)
  BY <1>1, LoopSteps DEF K!AddInboundRoute
<1>4. rs \in SUBSET K!AllRoutes
  BY <1>1, <1>2 DEF K!AllRoutes
<1>5. Reached(s.at, s.subnet, s.route + 1, rs, s.rules, s.outbound, s.faults)
  <2> HIDE DEF rs
  <2> QED
    BY <1>1, <1>2, <1>3, <1>4, RoutingStep
<1>6. \A x, d : K!Outbound(x, d) \in rs <=> K!Outbound(x, d) \in s.routes
  BY RouteNames
<1>7. K!OnePerFamily => \A d \in K!Each : K!Inbound(d) \in rs <=> K!Inbound(d) \in s.routes \/ d = s.route
  <2>1. K!OnePerFamily => K!Alike(s.route) = {s.route}
    BY <1>2 DEF K!OnePerFamily
  <2> QED
    BY <2>1, RouteNames
<1> HIDE DEF rs
<1>8. RoutingRecorded'
  BY <1>1, <1>2, <1>5, <1>6 DEF RoutingRecorded, Reached, Routed
<1>9. InboundDone /\ K!OnePerFamily => InboundDone'
  <2>1. /\ s'.at = "routes" /\ s'.route = s.route + 1 /\ s'.routes = rs /\ K!Each' = K!Each
    BY <1>2, <1>5 DEF Reached
  <2>2. InboundDone /\ K!OnePerFamily => \A d \in K!Each : d < s.route + 1 => K!Inbound(d) \in rs
    BY <1>2, <1>7 DEF InboundDone
  <2> QED
    BY <2>1, <2>2 DEF InboundDone, K!Inbound
<1>10. OutboundDone => OutboundDone'
  <2>1. /\ s'.at = "routes" /\ s'.outbound = s.outbound /\ s'.routes = rs /\ K!Each' = K!Each
    BY <1>2, <1>5 DEF Reached
  <2> QED
    BY <1>1, <1>2, <1>6, <2>1 DEF OutboundDone, K!Outbound
<1>11. s'.at # "teardown" /\ s'.faults = s.faults /\ (K!OnePerFamily' <=> K!OnePerFamily) /\ RoutingPlaces'
  BY <1>2, <1>5 DEF Reached
<1> QED
  BY <1>1, <1>8, <1>9, <1>10, <1>11 DEF RoutingInv

\* The setup: the routes and rules of the outbound subnets.
LEMMA AddOutboundRouteInv ==
  ASSUME K!RoutingConstants, RoutingInv, K!AddOutboundRoute
  PROVE  RoutingInv'
<1> DEFINE new == (s.routes \ {K!Outbound(K!This, d) : d \in K!Alike(s.route)}) \cup {K!Outbound(K!This, s.route)}
           rs == IF s.route \in K!Matching(K!This) THEN new ELSE s.routes
<1>1. /\ RoutingRecorded /\ s \in RoutingRecord
      /\ (s.faults = 0 /\ K!OnePerFamily => InboundDone /\ OutboundDone)
      /\ s.routes \in SUBSET K!AllRoutes /\ s.rules \in SUBSET AllRules /\ s.outbound \in SUBSET K!Outer
      /\ s.faults \in Nat /\ s.at \in K!Stages /\ s.subnet \in 1 .. Len(Subnets) + 1 /\ K!Outer' = K!Outer
      /\ \A x : K!Matching(x) \subseteq K!Each
  BY LoopStart
<1>2. s.at = "outbound" /\ K!InSubnets /\ s.route \in K!Each /\ s.route + 1 \in 1 .. Len(s.defaults) + 1
      /\ RoutingPlaces /\ K!This \in K!Outer
      /\ \A d \in K!Each : d < s.route + 1 <=> d < s.route \/ d = s.route
  BY LoopStart DEF K!AddOutboundRoute
<1>3. s' = Stepped(s.at, s.subnet, s.route + 1, rs, s.rules, s.outbound, s.faults)
  <2>1. CASE s.route \in K!Matching(K!This)
    <3>1. s' = K!NextRoute([s EXCEPT !.routes = new])
      BY <2>1 DEF K!AddOutboundRoute
    <3>2. rs = new
      BY <2>1
    <3> HIDE DEF new, rs
    <3>3. s' = Stepped(s.at, s.subnet, s.route + 1, new, s.rules, s.outbound, s.faults)
      BY <1>1, <3>1, LoopSteps
    <3> QED
      BY <3>2, <3>3
  <2>2. CASE s.route \notin K!Matching(K!This)
    <3>1. s' = K!NextRoute(s) /\ rs = s.routes
      BY <2>2 DEF K!AddOutboundRoute
    <3> HIDE DEF rs
    <3>2. s' = Stepped(s.at, s.subnet, s.route + 1, s.routes, s.rules, s.outbound, s.faults)
      BY <1>1, <3>1, LoopSteps
    <3> QED
      BY <3>1, <3>2
  <2> QED
    BY <2>1, <2>2
<1>4. rs \in SUBSET K!AllRoutes
  BY <1>1, <1>2 DEF K!AllRoutes
<1>5. Reached(s.at, s.subnet, s.route + 1, rs, s.rules, s.outbound, s.faults)
  <2> HIDE DEF rs
  <2> QED
    BY <1>1, <1>2, <1>3, <1>4, RoutingStep
<1>6. \A d : K!Inbound(d) \in rs <=> K!Inbound(d) \in s.routes
  BY RouteNames
<1>7. \A x, d : x # K!This => (K!Outbound(x, d) \in rs <=> K!Outbound(x, d) \in s.routes)
  BY RouteNames
<1>8. s.route \in K!Matching(K!This) => K!Outbound(K!This, s.route) \in rs
  OBVIOUS
<1>9. s.route \notin K!Matching(K!This) => rs = s.routes
  OBVIOUS
<1> HIDE DEF new, rs
<1>10. /\ s'.at = "outbound" /\ s'.route = s.route + 1 /\ s'.routes = rs /\ s'.rules = s.rules
       /\ s'.outbound = s.outbound /\ s'.faults = s.faults /\ K!Each' = K!Each
       /\ (\A x : K!Matching(x)' = K!Matching(x)) /\ K!This' = K!This /\ K!InSubnets'
       /\ (K!OnePerFamily' <=> K!OnePerFamily) /\ RoutingPlaces'
       /\ \A x : Routed(x)' <=> \E d \in K!Matching(x) : K!Outbound(x, d) \in rs
  BY <1>2, <1>5 DEF Reached, K!This, K!InSubnets
<1>11. RoutingRecorded'
  <2>1. ASSUME NEW x, Routed(x) PROVE Routed(x)'
    <3>1. CASE x = K!This /\ s.route \in K!Matching(K!This)
      BY <1>8, <1>10, <3>1
    <3>2. CASE ~(x = K!This /\ s.route \in K!Matching(K!This))
      BY <1>7, <1>9, <1>10, <2>1, <3>2 DEF Routed
    <3> QED
      BY <3>1, <3>2
  <2>2. \A x \in s.outbound : K!OutboundRule(x) \in s.rules /\ Routed(x)'
    BY <1>1, <1>2, <2>1 DEF RoutingRecorded
  <2>3. ASSUME NEW d \in K!Matching(K!This), d < s.route + 1 PROVE Routed(K!This)'
    <3>1. CASE s.route \in K!Matching(K!This)
      BY <1>8, <1>10, <3>1
    <3>2. CASE s.route \notin K!Matching(K!This)
      <4>1. d < s.route
        BY <1>1, <1>2, <2>3, <3>2
      <4>2. Routed(K!This)
        BY <1>1, <1>2, <2>3, <4>1 DEF RoutingRecorded
      <4> QED
        BY <1>7, <1>9, <1>10, <3>2, <4>2 DEF Routed
    <3> QED
      BY <3>1, <3>2
  <2>4. \A x \in K!Outer : K!OutboundRule(x) \in s.rules => x \in s.outbound
    BY <1>1 DEF RoutingRecorded
  <2>5. s'.at \notin {"forget", "end"} => \A x \in s'.outbound : K!OutboundRule(x) \in s'.rules /\ Routed(x)'
    BY <1>10, <2>2
  <2>6. (\E d \in K!Matching(K!This)' : d < s'.route) => Routed(K!This)'
    <3>1. K!Matching(K!This)' = K!Matching(K!This)
      BY <1>10 DEF K!Matching, K!Each, K!This
    <3> QED
      BY <1>10, <2>3, <3>1 DEF Routed, K!This
  <2>7. \A x \in K!Outer' : K!OutboundRule(x) \in s'.rules => x \in s'.outbound
    BY <1>1, <1>10, <2>4
  <2> QED
    BY <2>5, <2>6, <2>7 DEF RoutingRecorded, K!OutboundRule
<1>12. InboundDone => InboundDone'
  BY <1>2, <1>6, <1>10 DEF InboundDone, K!Inbound
<1>13. OutboundDone => OutboundDone'
  BY <1>1, <1>2, <1>7, <1>10 DEF OutboundDone, K!Outbound
<1>14. s'.at # "teardown"
  BY <1>10
<1> QED
  BY <1>1, <1>10, <1>11, <1>12, <1>13, <1>14 DEF RoutingInv

\* A subnet with a route gets its rule and is recorded.
LEMMA AddOutboundRuleInv ==
  ASSUME K!RoutingConstants, RoutingInv, K!AddOutboundRule
  PROVE  RoutingInv'
<1> DEFINE Skips == K!Matching(K!This) = {}
           us == IF Skips THEN s.rules ELSE s.rules \cup {K!OutboundRule(K!This)}
           os == IF Skips THEN s.outbound ELSE s.outbound \cup {K!This}
<1>1. /\ RoutingRecorded /\ s \in RoutingRecord
      /\ (s.faults = 0 /\ K!OnePerFamily => InboundDone /\ OutboundDone)
      /\ s.routes \in SUBSET K!AllRoutes /\ s.rules \in SUBSET AllRules /\ s.outbound \in SUBSET K!Outer
      /\ s.faults \in Nat /\ s.at \in K!Stages /\ 1 \in 1 .. Len(s.defaults) + 1 /\ K!Outer' = K!Outer
      /\ \A x : K!Matching(x) \subseteq K!Each
  BY LoopStart
<1>2. s.at = "outbound" /\ K!InSubnets /\ s.subnet + 1 \in 1 .. Len(Subnets) + 1
      /\ RoutingPlaces /\ K!This \in K!Outer /\ \A d \in K!Each : d < s.route /\ ~(d < 1)
  BY LoopStart DEF K!AddOutboundRule
<1>3. s' = Stepped(s.at, s.subnet + 1, 1, s.routes, us, os, s.faults)
  <2>1. CASE Skips
    <3>1. s' = K!NextSubnet(s) /\ us = s.rules /\ os = s.outbound
      BY <2>1 DEF K!AddOutboundRule
    <3> HIDE DEF us, os
    <3>2. s' = Stepped(s.at, s.subnet + 1, 1, s.routes, s.rules, s.outbound, s.faults)
      BY <1>1, <3>1, LoopSteps
    <3> QED
      BY <3>1, <3>2
  <2>2. CASE ~Skips
    <3>1. s' = K!NextSubnet([s EXCEPT !.rules = us, !.outbound = os])
      BY <2>2 DEF K!AddOutboundRule
    <3> HIDE DEF us, os
    <3> QED
      BY <1>1, <3>1, LoopSteps
  <2> QED
    BY <2>1, <2>2
<1>4. us \in SUBSET AllRules /\ os \in SUBSET K!Outer
  BY <1>1, <1>2 DEF AllRules
<1>5. Reached(s.at, s.subnet + 1, 1, s.routes, us, os, s.faults)
  <2> HIDE DEF us, os
  <2> QED
    BY <1>1, <1>2, <1>3, <1>4, RoutingStep
<1>6. ~Skips => Routed(K!This)
  BY <1>1, <1>2 DEF RoutingRecorded
<1>7. \A x : x \in os <=> x \in s.outbound \/ (~Skips /\ x = K!This)
  OBVIOUS
<1>8. /\ \A x : K!OutboundRule(x) \in us <=> K!OutboundRule(x) \in s.rules \/ (~Skips /\ x = K!This)
      /\ \A d : K!InboundRule(d) \in us <=> K!InboundRule(d) \in s.rules
  BY RuleNames
<1>9. Skips => \A d \in K!Each : K!Outbound(K!This, d) \notin s.routes
  <2> SUFFICES ASSUME Skips, NEW d \in K!Each, K!Outbound(K!This, d) \in s.routes PROVE FALSE
    OBVIOUS
  <2>1. K!Outbound(K!This, d) \in K!AllRoutes
    BY <1>1
  <2>2. \E x \in K!Outer : \E e \in K!Matching(x) : K!Outbound(K!This, d) = K!Outbound(x, e)
    <3>1. \A e \in K!Each : K!Outbound(K!This, d) # K!Inbound(e)
      BY RouteNames
    <3> QED
      BY <2>1, <3>1 DEF K!AllRoutes
  <2> QED
    BY <2>2, RouteNames
<1> HIDE DEF us, os
<1>10. /\ s'.at = "outbound" /\ s'.route = 1 /\ s'.routes = s.routes /\ s'.rules = us
       /\ s'.outbound = os /\ s'.faults = s.faults /\ K!Each' = K!Each
       /\ (K!OnePerFamily' <=> K!OnePerFamily) /\ RoutingPlaces'
       /\ \A x : Routed(x)' <=> Routed(x)
  BY <1>2, <1>5 DEF Reached, Routed
<1>11. RoutingRecorded'
  <2>1. \A x \in os : K!OutboundRule(x) \in us /\ Routed(x)'
    BY <1>1, <1>2, <1>6, <1>7, <1>8, <1>10 DEF RoutingRecorded
  <2>2. \A x \in K!Outer : K!OutboundRule(x) \in us => x \in os
    BY <1>1, <1>7, <1>8 DEF RoutingRecorded
  <2>3. \A d \in K!Matching(K!This)' : ~(d < s'.route)
    <3>1. \A d \in K!Matching(K!This)' : d \in K!Each'
      BY DEF K!Matching
    <3>2. \A d \in K!Each : ~(d < 1)
      BY <1>2
    <3> QED
      BY <1>10, <3>1, <3>2
  <2> HIDE DEF Skips
  <2> QED
    BY <1>1, <1>10, <2>1, <2>2, <2>3 DEF RoutingRecorded, K!OutboundRule
<1>12. InboundDone => InboundDone'
  BY <1>2, <1>8, <1>10 DEF InboundDone, K!Inbound
<1>13. OutboundDone => OutboundDone'
  BY <1>1, <1>2, <1>7, <1>9, <1>10 DEF OutboundDone, K!Outbound
<1>14. s'.at # "teardown"
  BY <1>10
<1> QED
  BY <1>1, <1>10, <1>11, <1>12, <1>13, <1>14 DEF RoutingInv

\* The rule of the local networks.
LEMMA AddLocalRulesInv ==
  ASSUME K!RoutingConstants, RoutingInv, K!AddLocalRules
  PROVE  RoutingInv'
<1> DEFINE us == s.rules \cup {K!LocalRule}
<1>1. /\ RoutingRecorded /\ s \in RoutingRecord
      /\ (s.faults = 0 /\ K!OnePerFamily => InboundDone /\ OutboundDone)
      /\ s.routes \in SUBSET K!AllRoutes /\ s.rules \in SUBSET AllRules /\ s.outbound \in SUBSET K!Outer
      /\ s.faults \in Nat /\ 1 \in 1 .. Len(s.defaults) + 1 /\ K!Outer' = K!Outer
      /\ RoutingPlaces /\ \A d \in K!Each : ~(d < 1)
  BY LoopStart
<1>2. s.at = "local" /\ 1 \in 1 .. Len(Subnets) + 1 /\ "running" \in K!Stages
  BY <1>1, LoopFacts DEF K!AddLocalRules, K!Stages
<1>3. s' = Stepped("running", 1, 1, s.routes, us, s.outbound, s.faults)
  BY <1>1 DEF K!AddLocalRules, K!At, Stepped, RoutingRecord
<1>4. us \in SUBSET AllRules
  BY <1>1 DEF AllRules
<1>5. Reached("running", 1, 1, s.routes, us, s.outbound, s.faults)
  <2> HIDE DEF us
  <2> QED
    BY <1>1, <1>2, <1>3, <1>4, RoutingStep
<1>6. /\ \A x : K!OutboundRule(x) \in us <=> K!OutboundRule(x) \in s.rules
      /\ \A d : K!InboundRule(d) \in us <=> K!InboundRule(d) \in s.rules
  BY RuleNames
<1> HIDE DEF us
<1>7. /\ s'.at = "running" /\ s'.route = 1 /\ s'.routes = s.routes /\ s'.rules = us
      /\ s'.outbound = s.outbound /\ s'.faults = s.faults /\ K!Each' = K!Each
      /\ (K!OnePerFamily' <=> K!OnePerFamily) /\ RoutingPlaces'
      /\ \A x : Routed(x)' <=> Routed(x)
  BY <1>5 DEF Reached, Routed
<1>8. RoutingRecorded'
  BY <1>1, <1>2, <1>6, <1>7 DEF RoutingRecorded, K!OutboundRule
<1>9. InboundDone => InboundDone'
  BY <1>2, <1>7 DEF InboundDone, K!Inbound
<1>10. OutboundDone => OutboundDone'
  BY <1>1, <1>2, <1>7 DEF OutboundDone, K!Outbound
<1>11. s'.at # "teardown"
  BY <1>7
<1> QED
  BY <1>1, <1>7, <1>8, <1>9, <1>10, <1>11 DEF RoutingInv

\* The teardown.
LEMMA UnrouteInv ==
  ASSUME K!RoutingConstants, RoutingInv, K!Unroute, K!Inbound(s.route) \in s.routes
  PROVE  RoutingInv'
<1> DEFINE rs == s.routes \ {K!Inbound(s.route)}
<1>1. /\ RoutingRecorded /\ s \in RoutingRecord
      /\ (s.faults = 0 /\ K!OnePerFamily => InboundDone /\ OutboundDone)
      /\ s.routes \in SUBSET K!AllRoutes /\ s.rules \in SUBSET AllRules /\ s.outbound \in SUBSET K!Outer
      /\ s.faults \in Nat /\ s.at \in K!Stages /\ s.subnet \in 1 .. Len(Subnets) + 1 /\ K!Outer' = K!Outer
  BY LoopStart
<1>2. s.at = "unroute" /\ s.route \in K!Each /\ s.route + 1 \in 1 .. Len(s.defaults) + 1 /\ RoutingPlaces
      /\ \A d \in K!Each : d >= s.route + 1 <=> d >= s.route /\ d # s.route
  BY LoopStart DEF K!Unroute
<1>3. s' = Stepped(s.at, s.subnet, s.route + 1, rs, s.rules, s.outbound, s.faults)
  BY <1>1, LoopSteps DEF K!Unroute
<1>4. rs \in SUBSET K!AllRoutes
  BY <1>1
<1>5. Reached(s.at, s.subnet, s.route + 1, rs, s.rules, s.outbound, s.faults)
  <2> HIDE DEF rs
  <2> QED
    BY <1>1, <1>2, <1>3, <1>4, RoutingStep
<1>6. /\ \A x, d : K!Outbound(x, d) \in rs <=> K!Outbound(x, d) \in s.routes
      /\ \A d : K!Inbound(d) \in rs <=> K!Inbound(d) \in s.routes /\ d # s.route
  BY RouteNames
<1> HIDE DEF rs
<1>7. /\ s'.at = "unroute" /\ s'.route = s.route + 1 /\ s'.routes = rs /\ s'.rules = s.rules
      /\ s'.outbound = s.outbound /\ s'.faults = s.faults /\ K!Each' = K!Each
      /\ (K!OnePerFamily' <=> K!OnePerFamily) /\ RoutingPlaces'
      /\ \A x : Routed(x)' <=> Routed(x)
  BY <1>2, <1>5, <1>6 DEF Reached, Routed
<1>8. RoutingRecorded'
  BY <1>1, <1>2, <1>7 DEF RoutingRecorded, K!OutboundRule
<1>9. InboundDone => InboundDone'
  <2>1. InboundDone => \A d \in K!Each : K!Inbound(d) \in rs <=> d >= s.route + 1
    BY <1>2, <1>6 DEF InboundDone
  <2> QED
    BY <1>7, <2>1 DEF InboundDone, K!Inbound
<1>10. OutboundDone => OutboundDone'
  BY <1>1, <1>2, <1>6, <1>7 DEF OutboundDone, K!Outbound
<1>11. s'.at # "teardown"
  BY <1>7
<1> QED
  BY <1>1, <1>7, <1>8, <1>9, <1>10, <1>11 DEF RoutingInv

\* The rules of the default routes are removed.
LEMMA UnruleInv ==
  ASSUME K!RoutingConstants, RoutingInv, K!Unrule
  PROVE  RoutingInv'
<1> DEFINE us == s.rules \ {K!InboundRule(s.route)}
<1>1. /\ RoutingRecorded /\ s \in RoutingRecord
      /\ (s.faults = 0 /\ K!OnePerFamily => InboundDone /\ OutboundDone)
      /\ s.routes \in SUBSET K!AllRoutes /\ s.rules \in SUBSET AllRules /\ s.outbound \in SUBSET K!Outer
      /\ s.faults \in Nat /\ s.at \in K!Stages /\ s.subnet \in 1 .. Len(Subnets) + 1 /\ K!Outer' = K!Outer
  BY LoopStart
<1>2. s.at = "unrule" /\ s.route \in K!Each /\ s.route + 1 \in 1 .. Len(s.defaults) + 1 /\ RoutingPlaces
      /\ \A d \in K!Each : d < s.route + 1 <=> d < s.route \/ d = s.route
  BY LoopStart DEF K!Unrule
<1>3. s' = Stepped(s.at, s.subnet, s.route + 1, s.routes, us, s.outbound, s.faults)
  BY <1>1, LoopSteps DEF K!Unrule
<1>4. us \in SUBSET AllRules
  BY <1>1
<1>5. Reached(s.at, s.subnet, s.route + 1, s.routes, us, s.outbound, s.faults)
  <2> HIDE DEF us
  <2> QED
    BY <1>1, <1>2, <1>3, <1>4, RoutingStep
<1>6. /\ \A x : K!OutboundRule(x) \in us <=> K!OutboundRule(x) \in s.rules
      /\ \A d : K!InboundRule(d) \in us <=> K!InboundRule(d) \in s.rules /\ d # s.route
  BY RuleNames
<1> HIDE DEF us
<1>7. /\ s'.at = "unrule" /\ s'.route = s.route + 1 /\ s'.routes = s.routes /\ s'.rules = us
      /\ s'.outbound = s.outbound /\ s'.faults = s.faults /\ K!Each' = K!Each
      /\ (K!OnePerFamily' <=> K!OnePerFamily) /\ RoutingPlaces'
      /\ \A x : Routed(x)' <=> Routed(x)
  BY <1>2, <1>5 DEF Reached, Routed
<1>8. RoutingRecorded'
  BY <1>1, <1>2, <1>6, <1>7 DEF RoutingRecorded, K!OutboundRule
<1>9. InboundDone => InboundDone'
  <2>1. InboundDone => \A d \in K!Each : d < s.route + 1 => K!InboundRule(d) \notin us
    BY <1>2, <1>6 DEF InboundDone
  <2>2. InboundDone => \A d \in K!Each : K!Inbound(d) \notin s.routes
    BY <1>2 DEF InboundDone
  <2> QED
    BY <1>7, <2>1, <2>2 DEF InboundDone, K!Inbound, K!InboundRule
<1>10. OutboundDone => OutboundDone'
  BY <1>1, <1>2, <1>7 DEF OutboundDone, K!Outbound
<1>11. s'.at # "teardown"
  BY <1>7
<1> QED
  BY <1>1, <1>7, <1>8, <1>9, <1>10, <1>11 DEF RoutingInv

\* An outbound subnet is forgotten when its routes and its rule are gone.
LEMMA ForgetRouteInv ==
  ASSUME K!RoutingConstants, RoutingInv, K!Forget, K!This \in s.outbound, K!InRoutes
  PROVE  RoutingInv'
<1> DEFINE rs == s.routes \ {K!Outbound(K!This, s.route)}
<1>1. /\ RoutingRecorded /\ s \in RoutingRecord
      /\ (s.faults = 0 /\ K!OnePerFamily => InboundDone /\ OutboundDone)
      /\ s.routes \in SUBSET K!AllRoutes /\ s.rules \in SUBSET AllRules /\ s.outbound \in SUBSET K!Outer
      /\ s.faults \in Nat /\ s.at \in K!Stages /\ s.subnet \in 1 .. Len(Subnets) + 1 /\ K!Outer' = K!Outer
  BY LoopStart
<1>2. s.at = "forget" /\ s.route \in K!Each /\ s.route + 1 \in 1 .. Len(s.defaults) + 1 /\ RoutingPlaces
      /\ \A d \in K!Each : d < s.route + 1 <=> d < s.route \/ d = s.route
  BY LoopStart DEF K!Forget
<1>3. s' = Stepped(s.at, s.subnet, s.route + 1, rs, s.rules, s.outbound, s.faults)
  BY <1>1, LoopSteps DEF K!Forget
<1>4. rs \in SUBSET K!AllRoutes
  BY <1>1
<1>5. Reached(s.at, s.subnet, s.route + 1, rs, s.rules, s.outbound, s.faults)
  <2> HIDE DEF rs
  <2> QED
    BY <1>1, <1>2, <1>3, <1>4, RoutingStep
<1>6. /\ \A x, d : K!Outbound(x, d) \in rs <=> K!Outbound(x, d) \in s.routes /\ ~(x = K!This /\ d = s.route)
      /\ \A d : K!Inbound(d) \in rs <=> K!Inbound(d) \in s.routes
  BY RouteNames
<1> HIDE DEF rs
<1>7. /\ s'.at = "forget" /\ s'.route = s.route + 1 /\ s'.routes = rs /\ s'.rules = s.rules
      /\ s'.outbound = s.outbound /\ s'.faults = s.faults /\ K!Each' = K!Each /\ s'.subnet = s.subnet
      /\ (K!OnePerFamily' <=> K!OnePerFamily) /\ RoutingPlaces' /\ K!This' = K!This
      /\ (K!InSubnets' <=> K!InSubnets)
  BY <1>2, <1>5 DEF Reached, K!This, K!InSubnets
<1>8. RoutingRecorded'
  BY <1>1, <1>2, <1>7 DEF RoutingRecorded, K!OutboundRule
<1>9. InboundDone => InboundDone'
  BY <1>2, <1>6, <1>7 DEF InboundDone, K!Inbound
<1>10. OutboundDone => OutboundDone'
  <2>1. OutboundDone => \A d \in K!Each : d < s.route + 1 => K!Outbound(K!This, d) \notin rs
    BY <1>2, <1>6 DEF OutboundDone, K!Forget
  <2>2. OutboundDone => \A x \in K!Outer, d \in K!Each : K!Outbound(x, d) \in rs => x \in s.outbound
    BY <1>2, <1>6 DEF OutboundDone
  <2>3. OutboundDone => \A i \in 1..Len(Subnets) : i < s.subnet => Subnets[i] \notin s.outbound
    BY <1>2 DEF OutboundDone
  <2> QED
    BY <1>1, <1>7, <2>1, <2>2, <2>3 DEF OutboundDone, K!Outbound
<1>11. s'.at # "teardown"
  BY <1>7
<1> QED
  BY <1>1, <1>7, <1>8, <1>9, <1>10, <1>11 DEF RoutingInv

\* Its rule is removed with its record, or it was not recorded.
LEMMA ForgetSubnetInv ==
  ASSUME K!RoutingConstants, RoutingInv, K!Forget, K!This \notin s.outbound \/ ~K!InRoutes
  PROVE  RoutingInv'
<1> DEFINE Skips == K!This \notin s.outbound
           us == IF Skips THEN s.rules ELSE s.rules \ {K!OutboundRule(K!This)}
           os == IF Skips THEN s.outbound ELSE s.outbound \ {K!This}
<1>1. /\ RoutingRecorded /\ s \in RoutingRecord
      /\ (s.faults = 0 /\ K!OnePerFamily => InboundDone /\ OutboundDone)
      /\ s.routes \in SUBSET K!AllRoutes /\ s.rules \in SUBSET AllRules /\ s.outbound \in SUBSET K!Outer
      /\ s.faults \in Nat /\ s.at \in K!Stages /\ 1 \in 1 .. Len(s.defaults) + 1 /\ K!Outer' = K!Outer
  BY LoopStart
<1>2. s.at = "forget" /\ K!InSubnets /\ s.subnet + 1 \in 1 .. Len(Subnets) + 1
      /\ RoutingPlaces /\ (\A d \in K!Each : ~(d < 1)) /\ (~K!InRoutes => \A d \in K!Each : d < s.route)
      /\ \A i \in 1..Len(Subnets) : i < s.subnet + 1 <=> i < s.subnet \/ i = s.subnet
  BY LoopStart DEF K!Forget
<1>3. s' = Stepped(s.at, s.subnet + 1, 1, s.routes, us, os, s.faults)
  <2>1. CASE Skips
    <3>1. s' = K!NextSubnet(s) /\ us = s.rules /\ os = s.outbound
      BY <2>1 DEF K!Forget
    <3> HIDE DEF us, os
    <3>2. s' = Stepped(s.at, s.subnet + 1, 1, s.routes, s.rules, s.outbound, s.faults)
      BY <1>1, <3>1, LoopSteps
    <3> QED
      BY <3>1, <3>2
  <2>2. CASE ~Skips
    <3>1. s' = K!NextSubnet([s EXCEPT !.rules = us, !.outbound = os])
      BY <2>2 DEF K!Forget
    <3> HIDE DEF us, os
    <3> QED
      BY <1>1, <3>1, LoopSteps
  <2> QED
    BY <2>1, <2>2
<1>4. us \in SUBSET AllRules /\ os \in SUBSET K!Outer
  BY <1>1
<1>5. Reached(s.at, s.subnet + 1, 1, s.routes, us, os, s.faults)
  <2> HIDE DEF us, os
  <2> QED
    BY <1>1, <1>2, <1>3, <1>4, RoutingStep
<1>6. \A x : x \in os <=> x \in s.outbound /\ x # K!This
  OBVIOUS
<1>7. /\ \A x : K!OutboundRule(x) \in us <=> K!OutboundRule(x) \in s.rules /\ (Skips \/ x # K!This)
      /\ \A d : K!InboundRule(d) \in us <=> K!InboundRule(d) \in s.rules
  BY RuleNames
<1> HIDE DEF us, os
<1>8. /\ s'.at = "forget" /\ s'.route = 1 /\ s'.routes = s.routes /\ s'.rules = us /\ s'.subnet = s.subnet + 1
      /\ s'.outbound = os /\ s'.faults = s.faults /\ K!Each' = K!Each
      /\ (K!OnePerFamily' <=> K!OnePerFamily) /\ RoutingPlaces'
  BY <1>2, <1>5 DEF Reached
<1>9. RoutingRecorded'
  <2>1. \A x \in K!Outer : K!OutboundRule(x) \in us => x \in os
    BY <1>1, <1>6, <1>7 DEF RoutingRecorded
  <2> QED
    BY <1>1, <1>8, <2>1 DEF RoutingRecorded, K!OutboundRule
<1>10. InboundDone => InboundDone'
  BY <1>2, <1>7, <1>8 DEF InboundDone, K!Inbound
<1>11. OutboundDone => OutboundDone'
  <2>1. OutboundDone => \A x \in K!Outer, d \in K!Each : K!Outbound(x, d) \in s.routes => x \in os
    <3>1. OutboundDone => \A x \in K!Outer, d \in K!Each : K!Outbound(x, d) \in s.routes => x \in s.outbound
      BY <1>2 DEF OutboundDone
    <3>2. OutboundDone /\ ~Skips => \A d \in K!Each : K!Outbound(K!This, d) \notin s.routes
      BY <1>2 DEF OutboundDone
    <3> QED
      BY <1>6, <3>1, <3>2
  <2>2. OutboundDone => \A i \in 1..Len(Subnets) : i < s.subnet + 1 => Subnets[i] \notin os
    BY <1>2, <1>6 DEF OutboundDone, K!This
  <2>3. \A d \in K!Each : ~(d < s'.route)
    BY <1>2, <1>8
  <2> HIDE DEF Skips
  <2> QED
    BY <1>1, <1>8, <2>1, <2>2, <2>3 DEF OutboundDone, K!Outbound
<1>12. s'.at # "teardown"
  BY <1>8
<1> QED
  BY <1>1, <1>8, <1>9, <1>10, <1>11, <1>12 DEF RoutingInv

\* Where the program is after a call that failed.
FailedAt(a, i, r) ==
    \/ s.at = "forget" /\ a = "forget" /\ K!InSubnets /\ K!InRoutes /\ i = s.subnet /\ r = s.route + 1
    \/ s.at = "forget" /\ a = "forget" /\ K!InSubnets /\ i = s.subnet + 1 /\ r = 1
    \/ s.at \notin {"forget", "end"} /\ a \in {"teardown", "end"} /\ i = 1 /\ r = 1

\* A call that fails ends the setup or the teardown, or is a warning.
LEMMA CallFailsInv ==
  ASSUME K!RoutingConstants, RoutingInv, K!CallFails
  PROVE  RoutingInv'
<1>1. /\ RoutingRecorded /\ s \in RoutingRecord /\ RoutingPlaces
      /\ s.routes \in SUBSET K!AllRoutes /\ s.rules \in SUBSET AllRules /\ s.outbound \in SUBSET K!Outer
      /\ s.faults \in Nat /\ s.at \in K!Stages /\ s.subnet \in 1 .. Len(Subnets) + 1 /\ K!Outer' = K!Outer
      /\ 1 \in 1 .. Len(s.defaults) + 1
      /\ (K!InRoutes => s.route + 1 \in 1 .. Len(s.defaults) + 1)
      /\ (K!InSubnets => s.subnet + 1 \in 1 .. Len(Subnets) + 1)
      /\ (\A x : K!Matching(x) \subseteq K!Each) /\ (\A d \in K!Each : ~(d < 1))
  BY LoopStart
<1>2. 1 \in 1 .. Len(Subnets) + 1 /\ s.faults + 1 \in Nat /\ s.faults + 1 # 0
  BY <1>1, LoopFacts
<1>3. PICK a \in K!Stages, i \in 1 .. Len(Subnets) + 1, r \in 1 .. Len(s.defaults) + 1 :
        /\ s' = Stepped(a, i, r, s.routes, s.rules, s.outbound, s.faults + 1)
        /\ FailedAt(a, i, r)
  <2>1. s' = [K!AfterFailure EXCEPT !.faults = s'.faults] /\ s'.faults = s.faults + 1 /\ K!Calls
    <3>1. s' = [K!AfterFailure EXCEPT !.faults = @ + 1] /\ K!Calls
      BY DEF K!CallFails
    <3>2. K!AfterFailure \in {K!NextRoute(s), K!NextSubnet(s), K!At("teardown"), K!At("end")}
      BY DEF K!AfterFailure
    <3>3. K!AfterFailure.faults = s.faults /\ DOMAIN K!AfterFailure = DOMAIN s /\ "faults" \in DOMAIN s
      BY <1>1, <3>2 DEF K!NextRoute, K!NextSubnet, K!At, RoutingRecord
    <3> QED
      BY <3>1, <3>3
  <2>2. CASE s.at = "forget" /\ K!InRoutes
    <3>1. K!AfterFailure = K!NextRoute(s) /\ K!InSubnets
      BY <2>1, <2>2 DEF K!AfterFailure, K!Calls
    <3>2. K!AfterFailure = Stepped(s.at, s.subnet, s.route + 1, s.routes, s.rules, s.outbound, s.faults)
      BY <1>1, <3>1, LoopSteps
    <3>3. s' = Stepped(s.at, s.subnet, s.route + 1, s.routes, s.rules, s.outbound, s.faults + 1)
      BY <1>1, <2>1, <3>2 DEF Stepped, RoutingRecord
    <3>4. FailedAt(s.at, s.subnet, s.route + 1)
      BY <2>2, <3>1 DEF FailedAt
    <3> QED
      BY <1>1, <2>2, <3>3, <3>4
  <2>3. CASE s.at = "forget" /\ ~K!InRoutes
    <3>1. K!AfterFailure = K!NextSubnet(s) /\ K!InSubnets
      BY <2>1, <2>3 DEF K!AfterFailure, K!Calls
    <3>2. K!AfterFailure = Stepped(s.at, s.subnet + 1, 1, s.routes, s.rules, s.outbound, s.faults)
      BY <1>1, <3>1, LoopSteps
    <3>3. s' = Stepped(s.at, s.subnet + 1, 1, s.routes, s.rules, s.outbound, s.faults + 1)
      BY <1>1, <2>1, <3>2 DEF Stepped, RoutingRecord
    <3>4. FailedAt(s.at, s.subnet + 1, 1)
      BY <2>3, <3>1 DEF FailedAt
    <3> QED
      BY <1>1, <3>1, <3>3, <3>4
  <2>4. CASE s.at # "forget"
    <3>1. PICK a \in {"teardown", "end"} : K!AfterFailure = K!At(a)
      BY <2>4 DEF K!AfterFailure
    <3>2. K!AfterFailure = Stepped(a, 1, 1, s.routes, s.rules, s.outbound, s.faults)
      BY <1>1, <3>1, LoopSteps
    <3>3. s' = Stepped(a, 1, 1, s.routes, s.rules, s.outbound, s.faults + 1)
      BY <1>1, <2>1, <3>2 DEF Stepped, RoutingRecord
    <3>4. FailedAt(a, 1, 1)
      BY <2>1, <2>4 DEF FailedAt, K!Calls
    <3>5. a \in K!Stages
      BY DEF K!Stages
    <3> QED
      BY <1>1, <1>2, <3>3, <3>4, <3>5
  <2> QED
    BY <2>2, <2>3, <2>4
<1>4. Reached(a, i, r, s.routes, s.rules, s.outbound, s.faults + 1)
  <2> DEFINE F == s.faults + 1
  <2>1. F \in Nat
    BY <1>2
  <2>2. s' = Stepped(a, i, r, s.routes, s.rules, s.outbound, F)
    BY <1>3
  <2> HIDE DEF F
  <2>3. Reached(a, i, r, s.routes, s.rules, s.outbound, F)
    BY <1>1, <2>1, <2>2, RoutingStep
  <2> QED
    BY <2>3 DEF F
<1>5. /\ s'.at = a /\ s'.route = r /\ s'.routes = s.routes /\ s'.rules = s.rules
      /\ s'.outbound = s.outbound /\ s'.faults = s.faults + 1 /\ RoutingPlaces'
      /\ \A x : Routed(x)' <=> Routed(x)
  BY <1>4 DEF Reached, Routed
<1>6. a # "outbound" /\ (a \notin {"forget", "end"} => s.at \notin {"forget", "end"})
  BY <1>3 DEF FailedAt
<1>7. RoutingRecorded'
  BY <1>1, <1>5, <1>6 DEF RoutingRecorded, K!OutboundRule
<1> QED
  BY <1>2, <1>5, <1>7 DEF RoutingInv

\* Every step of the routing.
LEMMA RoutingStepInv ==
  ASSUME K!RoutingConstants, RoutingInv, K!RoutingNext
  PROVE  RoutingInv'
<1>1. CASE \/ K!Setup \/ K!SetOutboundRoutes \/ K!TearDown \/ K!LoopEnds
           \/ K!Unroute /\ K!Inbound(s.route) \notin s.routes
  <2>1. PICK a \in K!Stages : s' = K!At(a) /\ StageEnds(a)
    <3> USE DEF StageEnds, K!Stages
    <3>1. K!Setup => s' = K!At("rules") /\ StageEnds("rules")
      BY DEF K!Setup
    <3>2. K!SetOutboundRoutes => s' = K!At("outbound") /\ StageEnds("outbound")
      BY DEF K!SetOutboundRoutes
    <3>3. K!TearDown => s' = K!At("unroute") /\ StageEnds("unroute")
      BY DEF K!TearDown
    <3>4. K!Unroute /\ K!Inbound(s.route) \notin s.routes => s' = K!At("end") /\ StageEnds("end")
      BY DEF K!Unroute
    <3>5. K!LoopEnds => \E a \in K!Stages : s' = K!At(a) /\ StageEnds(a)
      BY DEF K!LoopEnds
    <3> QED
      BY <1>1, <3>1, <3>2, <3>3, <3>4, <3>5
  <2> QED
    BY <2>1, StageInv
<1>2. CASE K!Forget
  BY <1>2, ForgetRouteInv, ForgetSubnetInv
<1> QED
  BY <1>1, <1>2, AddInboundRuleInv, AddInboundRouteInv, AddOutboundRouteInv, AddOutboundRuleInv,
     AddLocalRulesInv, UnrouteInv, UnruleInv, CallFailsInv DEF K!RoutingNext

\* The routing starts with nothing.
LEMMA RoutingInitInv ==
  ASSUME K!RoutingConstants, K!RoutingInit
  PROVE  RoutingInv
<1>1. PICK families \in DefaultFamilies :
        s = [at |-> "start", subnet |-> 1, route |-> 1, defaults |-> families, routes |-> {}, rules |-> {},
             outbound |-> {}, faults |-> 0]
  BY DEF K!RoutingInit
<1>2. /\ s.at = "start" /\ s.subnet = 1 /\ s.route = 1 /\ s.defaults = families /\ s.routes = {}
      /\ s.rules = {} /\ s.outbound = {} /\ s.faults = 0
  BY <1>1
<1>3. s \in RoutingRecord
  BY <1>1 DEF RoutingRecord, K!Stages
<1>4. RoutingPlaces
  <2>1. Len(Subnets) \in Nat /\ Len(families) \in Nat
    BY DEF K!RoutingConstants
  <2>2. 1 \in 1 .. Len(Subnets) + 1 /\ 1 \in 1 .. Len(families) + 1
    BY <2>1
  <2> QED
    BY <1>2, <1>3, <2>2 DEF RoutingPlaces
<1>5. RoutingRecorded
  BY <1>2 DEF RoutingRecorded
<1>6. InboundDone /\ OutboundDone
  BY <1>2 DEF InboundDone, OutboundDone
<1> QED
  BY <1>2, <1>4, <1>5, <1>6 DEF RoutingInv

\* What the invariant says of the routing.
LEMMA RoutingFacts ==
  ASSUME K!RoutingConstants, RoutingInv
  PROVE  K!RoutingTypeOK /\ K!NothingLeft /\ K!RecordedIsThere
<1>1. /\ RoutingPlaces /\ RoutingRecorded
      /\ (s.faults = 0 /\ K!OnePerFamily => s.at # "teardown" /\ InboundDone /\ OutboundDone)
  BY DEF RoutingInv
<1>2. K!RoutingTypeOK
  BY <1>1 DEF RoutingPlaces, RoutingRecord, K!RoutingTypeOK
<1>3. K!RecordedIsThere
  BY <1>1 DEF RoutingRecorded, Routed, K!RecordedIsThere
<1>4. K!NothingLeft
  <2> SUFFICES ASSUME s.at = "end", s.faults = 0, K!OnePerFamily
               PROVE  s.routes = {} /\ s.rules \subseteq {K!LocalRule}
    BY DEF K!NothingLeft
  <2>1. InboundDone /\ OutboundDone
    BY <1>1
  <2>2. /\ \A d \in K!Each : K!Inbound(d) \notin s.routes /\ K!InboundRule(d) \notin s.rules
        /\ s.outbound = {}
    BY <2>1 DEF InboundDone, OutboundDone
  <2>3. \A x \in K!Outer, d \in K!Each : K!Outbound(x, d) \notin s.routes
    BY <2>1, <2>2 DEF OutboundDone
  <2>4. \A x \in K!Outer : K!OutboundRule(x) \notin s.rules
    BY <1>1, <2>2 DEF RoutingRecorded
  <2>5. s.routes \subseteq K!AllRoutes /\ s.rules \subseteq AllRules /\ \A x : K!Matching(x) \subseteq K!Each
    BY <1>1, RoutingSets, LoopFacts
  <2>6. s.routes = {}
    BY <2>2, <2>3, <2>5 DEF K!AllRoutes
  <2>7. s.rules \subseteq {K!LocalRule}
    BY <2>2, <2>4, <2>5 DEF AllRules
  <2> QED
    BY <2>6, <2>7
<1> QED
  BY <1>2, <1>3, <1>4

(***************************************************************************)
(* All of them.                                                            *)
(***************************************************************************)

\* The invariant holds at first, and every step of the part that runs keeps it.
LEMMA AlwaysProgramInv == Spec => []ProgramInv
  <1>1. Init => ProgramInv
    BY ProgramConstants, StartupInitInv, StorageInitInv, RoutingInitInv, ResolverInitInv,
       CommandsInitInv
       DEF ProgramConstants, Init, ProgramInv
  <1>2. ProgramInv /\ Next => ProgramInv'
    <2> SUFFICES ASSUME ProgramInv, Next PROVE ProgramInv'
      OBVIOUS
    <2>1. which' = which
      BY DEF Next
    <2>2. which = "main" => MainInv'
      BY StartupStepInv DEF Next, ProgramInv
    <2>3. which = "storage" => StorageInv'
      BY ProgramConstants, StorageStepInv DEF ProgramConstants, Next, ProgramInv
    <2>4. which = "routing" => RoutingInv'
      BY ProgramConstants, RoutingStepInv DEF ProgramConstants, Next, ProgramInv
    <2>5. which = "resolver" => ResolverInv'
      BY ProgramConstants, ResolverStepInv DEF ProgramConstants, Next, ProgramInv
    <2>6. which = "command" => CommandsInv'
      BY CommandsStepInv DEF Next, ProgramInv
    <2>7. QED
      BY <2>1, <2>2, <2>3, <2>4, <2>5, <2>6 DEF ProgramInv
  <1>3. ProgramInv /\ UNCHANGED vars => ProgramInv'
    <2> SUFFICES ASSUME ProgramInv, UNCHANGED vars PROVE ProgramInv'
      OBVIOUS
    <2>1. which' = which /\ s' = s
      BY DEF vars
    <2>2. MainInv => MainInv'
      BY <2>1 DEF MainInv, StartupRecord
    <2>3. StorageInv => StorageInv'
      BY <2>1 DEF StorageInv, InMemory, Good, Newer
    <2>4. RoutingInv => RoutingInv'
      <3>1. /\ K!Each' = K!Each /\ (\A x : K!Matching(x)' = K!Matching(x)) /\ K!AllRoutes' = K!AllRoutes
            /\ (K!OnePerFamily' <=> K!OnePerFamily)
        BY <2>1, SameDefaults
      <3>2. K!Outer' = K!Outer /\ K!This' = K!This /\ (K!InSubnets' <=> K!InSubnets)
        BY <2>1 DEF K!Outer, K!This, K!InSubnets
      <3>3. \A x : Routed(x)' <=> Routed(x)
        BY <2>1, <3>1 DEF Routed
      <3>4. RoutingPlaces => RoutingPlaces'
        BY <2>1, <3>1, <3>2 DEF RoutingPlaces, RoutingRecord
      <3>5. RoutingRecorded => RoutingRecorded'
        <4>1. K!Matching(K!This)' = K!Matching(K!This) /\ (Routed(K!This)' <=> Routed(K!This))
          BY <2>1 DEF K!Matching, K!This, K!Each, Routed
        <4> QED
          BY <2>1, <3>2, <3>3, <4>1 DEF RoutingRecorded
      <3>6. InboundDone => InboundDone'
        BY <2>1, <3>1 DEF InboundDone
      <3>7. OutboundDone => OutboundDone'
        BY <2>1, <3>1, <3>2 DEF OutboundDone
      <3>8. QED
        BY <2>1, <3>1, <3>4, <3>5, <3>6, <3>7 DEF RoutingInv
    <2>5. ResolverInv => ResolverInv'
      BY <2>1 DEF ResolverInv
    <2>6. CommandsInv => CommandsInv'
      BY <2>1 DEF CommandsInv, NothingStarted
    <2>7. QED
      BY <2>1, <2>2, <2>3, <2>4, <2>5, <2>6 DEF ProgramInv
  <1>4. QED
    BY <1>1, <1>2, <1>3, PTL DEF Spec

(* Every part keeps to its types, for any steps that fail, hosts, subnets and default    *)
(* routes: only routes through a default route of their family are there, and only        *)
(* subnets of the settings are recorded (main.go, internal/storage, internal/routing,      *)
(* updater/resolver, command).                                                        *)
THEOREM ProgramTypeCorrect == Spec => []ProgramTypeOK
  <1>1. ProgramInv => ProgramTypeOK
    BY ProgramConstants, StartupFacts, StorageFacts, RoutingFacts, ResolverFacts, CommandsFacts
       DEF ProgramConstants, ProgramInv, ProgramTypeOK
  <1>2. QED
    BY <1>1, AlwaysProgramInv, PTL

(* Whatever failed, what was done is undone or recorded: every service of a program that  *)
(* ends was told to, the routing that was set is torn down, and nothing of it is left     *)
(* when no call is refused and no two default routes are of one family; a subnet that is  *)
(* recorded has its rule and a route, whichever calls fail; a run of a process returns    *)
(* with no goroutine of it left; and no host of a resolution sends after the channels     *)
(* are closed (main.go, internal/routing, command, updater/resolver).                  *)
THEOREM EverythingEndsClean == Spec => []EndsClean
  <1>1. ProgramInv => EndsClean
    BY ProgramConstants, StartupFacts, RoutingFacts, ResolverFacts, CommandsFacts
       DEF ProgramConstants, ProgramInv, EndsClean
  <1>2. QED
    BY <1>1, AlwaysProgramInv, PTL

(* Servers are not lost, for any number of updates, crashes, upgrades and edits: what was *)
(* saved is used at the next start unless what is built in is newer or of another          *)
(* version or the clock went back, what the user asked to keep is kept, and an address      *)
(* that was found is given (internal/storage, updater/resolver).                       *)
THEOREM NoServerLost == Spec => []ServersSurvive
  <1>1. ProgramInv => ServersSurvive
    BY ProgramConstants, StorageFacts, ResolverFacts DEF ProgramConstants, ProgramInv,
       ServersSurvive
  <1>2. QED
    BY <1>1, AlwaysProgramInv, PTL
=============================================================================
