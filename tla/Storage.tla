------------------------------- MODULE Storage -------------------------------
(***************************************************************************)
(* The servers data (internal/storage): the list built in the program, the    *)
(* list in memory and the file, over starts, updates, crashes, failed writes,  *)
(* upgrades of the program, clocks that are wrong and edits by the user.       *)
(***************************************************************************)
EXTENDS Naturals, FiniteSets

CONSTANTS
    MaxTime,    \* bound on the clock
    MaxUpdates, \* bound on calls of SetServers
    MaxFaults,  \* bound on crashes and failed writes
    MaxEdits    \* bound on the user's edits of the file

\* What the constants are assumed to be.
StorageConstants == MaxTime \in Nat /\ MaxTime >= 4 /\ MaxUpdates \in Nat /\ MaxFaults \in Nat

VARIABLE st
(* phase: where the program is, for the flush of its start or of SetServers;    *)
(* build: the program; mem: mergedServers; file: its content, torn between its   *)
(* truncation and its write, or missing; now: the clock, and back: it was set    *)
(* back; saved: the last update of each provider that SetServers said it saved,  *)
(* and when.                                                              *)

Providers == {"a", "b"}
Builds == 1..2

(* A server: its Key, its Keep field, and which it is of those with this key, 0   *)
(* for one that is built in and the number of the update otherwise.           *)
Server(key, keep, of) == [key |-> key, keep |-> keep, of |-> of]

\* The build 2 has another version of the data of provider b.
BuiltIn(b) ==
    [n \in Providers |-> [version |-> IF n = "b" THEN b ELSE 1, time |-> 2 * b - 1,
                          servers |-> {Server("x", FALSE, 0), Server("y", FALSE, 0)}]]

NoServers == [n \in Providers |-> [version |-> 0, time |-> 0, servers |-> {}]]
Content(what, of) == [is |-> what, of |-> of]

StorageTypeOK ==
    /\ st.phase \in {"off", "failed", "open", "encode", "run"} /\ st.build \in Builds
    /\ st.caller \in {"start"} \cup Providers
    /\ st.now \in 1..MaxTime /\ st.path \in BOOLEAN
    /\ st.file.is \in {"missing", "torn", "json"}
    /\ st.phase = "run" => \A n \in Providers : st.mem[n].version = BuiltIn(st.build)[n].version

StorageInit ==
    \E path \in BOOLEAN :
    st = [phase |-> "off", build |-> 1, caller |-> "start", mem |-> NoServers,
          file |-> Content("missing", NoServers), path |-> path, now |-> 2, back |-> FALSE,
          updates |-> 0, faults |-> 0, edits |-> 0,
          saved |-> [n \in Providers |-> [of |-> 0, time |-> 0]]]

-------------------------- (* readFromFile and merge *) -----------------------

\* A bug: the version of the file is not compared.
ReadServers_AnyVersion(b, onFile) == onFile

\* readServers drops the data of another version.
ReadServers(b, onFile) ==
    [n \in Providers |-> IF onFile[n].version = BuiltIn(b)[n].version THEN onFile[n] ELSE NoServers[n]]

\* A bug: the servers built in replace those to keep.
Merges_DropsKept(hardcoded, persisted) == {hardcoded}

(* The servers to keep take the place of the server built in with their key, or   *)
(* are added; of those that share a key one is kept, the last of the file.       *)
Merges(hardcoded, persisted) ==
    LET kept == {x \in persisted.servers : x.keep}
        keys == {x.key : x \in kept} IN
    {[hardcoded EXCEPT !.servers = {x \in @ : x.key \notin keys} \cup chosen] :
        chosen \in {c \in SUBSET kept : \A k \in keys : Cardinality({x \in c : x.key = k}) = 1}}

\* A bug: the newer data of the file is merged as the older is.
MergeProviderServers_AnyAge(hardcoded, persisted, now) == Merges(hardcoded, persisted)

MergeProviderServers(hardcoded, persisted, now) ==
    IF persisted.time <= now /\ persisted.time > hardcoded.time
    THEN {persisted} ELSE Merges(hardcoded, persisted)

\* allServers.Count, of which only whether it is 0 matters.
NoneIn(servers) == \A n \in Providers : servers[n].servers = {}

Merged(b, onFile, now) ==
    IF NoneIn(onFile) THEN {BuiltIn(b)}
    ELSE {m \in [Providers -> UNION {MergeProviderServers(BuiltIn(b)[n], onFile[n], now) : n \in Providers}] :
            \A n \in Providers : m[n] \in MergeProviderServers(BuiltIn(b)[n], onFile[n], now)}

------------------------------- (* The program *) ----------------------------

(* New.  The data read never equals the data merged, whose top level version is    *)
(* not read from the file, so the file is written at each start.               *)
Start ==
    /\ st.phase \in {"off", "failed"}
    /\ \E b \in st.build..2 :
          IF ~st.path THEN st' = [st EXCEPT !.phase = "run", !.build = b, !.mem = BuiltIn(b)]
          ELSE IF st.file.is = "torn" THEN st' = [st EXCEPT !.phase = "failed", !.build = b]
          ELSE \E m \in Merged(b, ReadServers(b, st.file.of), st.now) :
                  st' = [st EXCEPT !.phase = "open", !.caller = "start", !.build = b, !.mem = m]

\* SetServers changes what is in memory, then writes all of it.
SetServers(n) ==
    /\ st.phase = "run" /\ st.updates < MaxUpdates
    /\ st' = [st EXCEPT !.phase = IF st.path THEN "open" ELSE "run", !.caller = n, !.updates = @ + 1,
                        !.mem[n].time = st.now,
                        !.mem[n].servers = {Server("x", FALSE, st.updates + 1)}]

\* flushToFile truncates the file, then writes it.
Open == st.phase = "open" /\ st' = [st EXCEPT !.phase = "encode", !.file = Content("torn", NoServers)]

Returns(saved) == IF st.caller = "start" THEN st.saved ELSE [st.saved EXCEPT ![st.caller] = saved]

Encode ==
    /\ st.phase = "encode"
    /\ st' = [st EXCEPT !.phase = "run", !.file = Content("json", st.mem),
                        !.saved = Returns([of |-> st.updates, time |-> st.now])]

(* A write that fails is a warning at the start and an error of SetServers: in      *)
(* both cases the program goes on with what is in memory.                      *)
WriteFails ==
    /\ st.phase \in {"open", "encode"} /\ st.faults < MaxFaults
    /\ st' = [st EXCEPT !.phase = "run", !.faults = @ + 1]

Exit == st.phase = "run" /\ st' = [st EXCEPT !.phase = "off", !.mem = NoServers]

Crash ==
    /\ st.phase \in {"open", "encode"} /\ st.faults < MaxFaults
    /\ st' = [st EXCEPT !.phase = "off", !.mem = NoServers, !.faults = @ + 1]

------------------------------ (* What is around *) --------------------------

\* Modelled between two runs: a run is an instant.
ClockMoves ==
    /\ st.phase = "off"
    /\ \E t \in {st.now + 1, 1} :
          t <= MaxTime /\ st' = [st EXCEPT !.now = t, !.back = @ \/ t < st.now]

\* The user adds a server to keep, or removes the file, while the program is off.
UserEdits ==
    /\ st.phase \in {"off", "failed"} /\ st.edits < MaxEdits
    /\ \/ \E n \in Providers, x \in {Server("x", TRUE, 0), Server("x", TRUE, 1), Server("z", TRUE, 0)} :
             /\ st.file.is = "json"
             /\ st' = [st EXCEPT !.edits = @ + 1, !.file.of[n].servers = @ \cup {x}]
       \/ st' = [st EXCEPT !.edits = @ + 1, !.file = Content("missing", NoServers),
                           !.saved = [n \in Providers |-> [of |-> 0, time |-> 0]]]

StorageNext ==
    \/ Start \/ Open \/ Encode \/ WriteFails \/ Exit \/ Crash \/ ClockMoves \/ UserEdits
    \/ \E n \in Providers : SetServers(n)

------------------------------- (* Properties *) -----------------------------

(* An update that was saved, or one that came after it, is what the program uses  *)
(* at every later start, unless the clock was set back, or the program was        *)
(* upgraded to one with newer data, or with another version of it              *)
(* (storage/servers.go, SetServers, and storage/merge.go).                    *)
UpdatesSurvive ==
    st.phase = "run" /\ ~st.back =>
        \A n \in Providers :
           st.saved[n].time > BuiltIn(st.build)[n].time
           /\ BuiltIn(st.build)[n].version = BuiltIn(1)[n].version =>
              \E x \in st.mem[n].servers : ~x.keep /\ x.of >= st.saved[n].of

Kept(list) == {x.key : x \in {y \in list : y.keep}}

(* A start, and an upgrade with newer servers, loses no server that the user asked *)
(* to keep, as long as the version of the data is the same                    *)
(* (storage/merge.go, mergeProviderServers).                                *)
KeptSurvive ==
    st.phase \in {"off", "failed"} /\ st.file.is = "json" /\ st.path =>
        \A b \in st.build..2 : \A m \in Merged(b, ReadServers(b, st.file.of), st.now), n \in Providers :
           st.file.of[n].version = BuiltIn(b)[n].version =>
              Kept(st.file.of[n].servers) \subseteq Kept(m[n].servers)
=============================================================================
