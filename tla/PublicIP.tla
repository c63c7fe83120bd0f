------------------------------ MODULE PublicIP -------------------------------
(***************************************************************************)
(* The public IP loop (internal/publicip), which fetches the address of the   *)
(* machine each time a tunnel is up, and the fetchers it asks               *)
(* (internal/publicip/api/resilient.go).  Tunnels come up one after the other; *)
(* each has a goroutine that calls RunOnce, and the VPN loop clears the data   *)
(* when it takes a tunnel down, before it cancels that goroutine.  UpdateWith  *)
(* has no caller and is left out.                                          *)
(***************************************************************************)
EXTENDS Naturals, Sequences, FiniteSets

CONSTANTS
    MaxTunnels, \* bound on tunnels
    Fetchers,   \* the sequence of fetchers
    MaxBans     \* bound on fetchers that say they were asked too often

\* What the constants are assumed to be.
PublicIPConstants == MaxTunnels \in Nat \ {0} /\ MaxBans \in Nat

VARIABLE p
(* vpn: the VPN loop, where "clear" and "write" are its ClearData; tunnel: the     *)
(* last tunnel, whose context is live or not; call: where the RunOnce of each     *)
(* tunnel is, and ok: the ones that returned nil; loop: where the loop is, for    *)
(* which tunnel; asked: the fetchers queried, and banned; data and file: the      *)
(* tunnel whose address is known and written, 0 for none; enabled: the setting;   *)
(* clearer: who holds ipDataMutex in ClearData; stop: where Stop is; quit: runCtx  *)
(* is done.                                                                *)

Tunnels == 1..MaxTunnels
Names == {Fetchers[i] : i \in DOMAIN Fetchers}
IPs == 0..MaxTunnels

(* The states, and that no request is under way unless the loop waits for it. *)
IPTypeOK ==
    /\ p.asked # {} => p.loop = "fetch"
    /\ p \in [vpn : {"down", "up", "clear", "write", "cancel"}, tunnel : IPs, live : SUBSET Tunnels,
              call : [Tunnels -> {"none", "trigger", "result", "drain", "returned"}], ok : SUBSET Tunnels,
              loop : {"select", "fetch", "store", "persist", "answer", "done"}, serves : IPs,
              asked : SUBSET Names, banned : SUBSET Names, bans : 0..MaxBans, failed : BOOLEAN,
              data : IPs, file : IPs, clearer : {"nobody", "vpn", "stop"},
              stop : {"none", "wait", "clear", "write", "done"}, quit : BOOLEAN, enabled : BOOLEAN]

IPInit ==
    \E enabled \in BOOLEAN :
    p = [vpn |-> "down", tunnel |-> 0, live |-> {}, call |-> [t \in Tunnels |-> "none"], ok |-> {},
         loop |-> "select", serves |-> 0, asked |-> {}, banned |-> {}, bans |-> 0, failed |-> FALSE,
         data |-> 0, file |-> 0, clearer |-> "nobody", stop |-> "none", quit |-> FALSE,
         enabled |-> enabled]

------------------------------- (* The VPN loop *) ---------------------------

TunnelUp ==
    /\ p.vpn = "down" /\ p.tunnel < MaxTunnels /\ p.stop = "none"
    /\ LET t == p.tunnel + 1 IN
       p' = [p EXCEPT !.vpn = "up", !.tunnel = t, !.live = @ \cup {t}, !.call[t] = "trigger"]

TunnelDown == p.vpn = "up" /\ p' = [p EXCEPT !.vpn = "clear"]

\* ClearData: the data, then the file, under ipDataMutex.
ClearsData(v, who) == p.clearer = "nobody" /\ p' = [v EXCEPT !.data = 0, !.clearer = who]
ClearsFile(v) == p' = [v EXCEPT !.file = 0, !.clearer = "nobody"]

VPNClears ==
    \/ p.vpn = "clear" /\ ClearsData([p EXCEPT !.vpn = "write"], "vpn")
    \/ p.vpn = "write" /\ ClearsFile([p EXCEPT !.vpn = "cancel"])

\* vpnCancel()
CancelTunnel == p.vpn = "cancel" /\ p' = [p EXCEPT !.vpn = "down", !.live = @ \ {p.tunnel}]

--------------------------------- (* RunOnce *) ------------------------------

\* l.runTrigger <- singleRunCtx; unless enabled, there is nothing to fetch.
Trigger(t) ==
    /\ p.call[t] = "trigger" /\ p.loop = "select"
    /\ p' = [p EXCEPT !.call[t] = "result", !.serves = t, !.failed = FALSE,
                      !.loop = IF p.enabled THEN "fetch" ELSE "answer"]

\* <-ctx.Done() while the loop is busy, or has ended.
GiveUp(t) ==
    /\ p.call[t] = "trigger" /\ t \notin p.live
    /\ p' = [p EXCEPT !.call[t] = "returned"]

\* A bug: the result is not read once the loop is asked to end.
LoopGone_NoDrain(t) ==
    /\ p.call[t] = "result" /\ p.quit
    /\ p' = [p EXCEPT !.call[t] = "returned"]

\* <-l.runCtx.Done(): the fetch is cancelled and its result read, then dropped.
LoopGone(t) ==
    /\ p.call[t] = "result" /\ p.quit
    /\ p' = [p EXCEPT !.call[t] = "drain"]

\* singleRunResult <- err, which the caller that waits, or drains, reads.
Answer(t) ==
    /\ p.loop = "answer" /\ p.call[t] \in {"result", "drain"}
    /\ p' = [p EXCEPT !.loop = "select", !.call[t] = "returned",
                      !.ok = IF p.failed \/ p.call[t] = "drain" THEN @ ELSE @ \cup {t}]

-------------------------------- (* FetchInfo *) -----------------------------

Banned(f) == f \in p.banned

(* The loop over the fetchers looks at the one at the number it has started: it *)
(* stays at the first that is banned, and those after it are not asked.       *)
Started ==
    {Fetchers[i] : i \in {k \in DOMAIN Fetchers : \A j \in 1..k : ~Banned(Fetchers[j])}}

\* The requests leave, in parallel.
Ask ==
    /\ p.loop = "fetch" /\ p.asked = {} /\ Started # {}
    /\ p' = [p EXCEPT !.asked = Started]

AllBanned ==
    /\ p.loop = "fetch" /\ p.asked = {} /\ Started = {}
    /\ p' = [p EXCEPT !.loop = "answer", !.failed = TRUE]

Cancelled == p.serves \notin p.live \/ p.call[p.serves] = "drain"

(* Every answer is there: one that was asked too often is banned, and one at       *)
(* least gives an address, which is that of the tunnel that is up.              *)
Fetched ==
    /\ p.loop = "fetch" /\ p.asked # {} /\ ~Cancelled /\ p.vpn # "down"
    /\ \E limited \in SUBSET p.asked :
          /\ limited # p.asked /\ p.bans + Cardinality(limited) <= MaxBans
          /\ p' = [p EXCEPT !.loop = "store", !.asked = {}, !.banned = @ \cup limited,
                            !.bans = @ + Cardinality(limited)]

\* A bug: the first error is returned, the other requests go on.
FetchFails_First ==
    /\ p.loop = "fetch" /\ p.asked # {}
    /\ p' = [p EXCEPT !.loop = "answer", !.failed = TRUE]

\* None does, or the context is done.
FetchFails ==
    /\ p.loop = "fetch" /\ p.asked # {}
    /\ \E limited \in SUBSET p.asked :
          /\ Cancelled => limited = {}
          /\ p.bans + Cardinality(limited) <= MaxBans
          /\ p' = [p EXCEPT !.loop = "answer", !.failed = TRUE, !.asked = {},
                            !.banned = @ \cup limited, !.bans = @ + Cardinality(limited)]

\* isBanned deletes a ban that is older than 30 days.
Expire(f) == Banned(f) /\ p' = [p EXCEPT !.banned = @ \ {f}]

-------------------------------- (* Loop.run *) ------------------------------

\* A bug: the caller is answered before the data is set.
Store_Answered ==
    /\ p.loop = "store" /\ p.clearer = "nobody"
    /\ p' = [p EXCEPT !.loop = "answer"]

Store ==
    /\ p.loop = "store" /\ p.clearer = "nobody"
    /\ p' = [p EXCEPT !.loop = "persist", !.data = p.serves]

\* persistPublicIP, which may fail.
Persist ==
    /\ p.loop = "persist"
    /\ \/ p' = [p EXCEPT !.loop = "answer", !.file = p.serves]
       \/ p' = [p EXCEPT !.loop = "answer", !.failed = TRUE]

Quit == p.quit /\ p.loop = "select" /\ p' = [p EXCEPT !.loop = "done"]

---------------------------------- (* Stop *) --------------------------------

StopCalled == p.stop = "none" /\ p' = [p EXCEPT !.stop = "wait", !.quit = TRUE]

\* A bug: the data is cleared while the loop may still run.
StopClears_NoWait ==
    \/ p.stop = "wait" /\ ClearsData([p EXCEPT !.stop = "write"], "stop")
    \/ p.stop = "write" /\ ClearsFile([p EXCEPT !.stop = "done"])

\* <-l.runDone, then ClearData.
StopClears ==
    \/ p.stop = "wait" /\ p.loop = "done" /\ p' = [p EXCEPT !.stop = "clear"]
    \/ p.stop = "clear" /\ ClearsData([p EXCEPT !.stop = "write"], "stop")
    \/ p.stop = "write" /\ ClearsFile([p EXCEPT !.stop = "done"])

IPLoopStep == Ask \/ AllBanned \/ Fetched \/ FetchFails \/ Store \/ Persist \/ Quit
RunOnceStep(t) == Trigger(t) \/ GiveUp(t) \/ LoopGone(t) \/ Answer(t)

IPNext ==
    \/ TunnelUp \/ TunnelDown \/ VPNClears \/ CancelTunnel
    \/ \E t \in Tunnels : RunOnceStep(t)
    \/ IPLoopStep
    \/ \E f \in Names : Expire(f)
    \/ StopCalled \/ StopClears

\* A request has a timeout, and a program that stops takes its tunnel down.
IPFairness ==
    /\ WF_p(IPLoopStep) /\ WF_p(Quit) /\ WF_p(StopClears) /\ WF_p(VPNClears) /\ WF_p(CancelTunnel)
    /\ WF_p(p.stop # "none" /\ TunnelDown)
    /\ \A t \in Tunnels : WF_p(RunOnceStep(t)) /\ WF_p(LoopGone(t))

------------------------------- (* Properties *) -----------------------------

(* While the loop fetches, stores or answers, one RunOnce waits for it, that of   *)
(* the tunnel it fetches for: no result is left for the next call              *)
(* (publicip/loop.go, RunOnce and run).                                    *)
OneServed ==
    p.loop \notin {"select", "done"} =>
        {t \in Tunnels : p.call[t] \in {"result", "drain"}} = {p.serves}

(* When RunOnce has returned nil for the tunnel that is up, the data and the file *)
(* are those of that tunnel, whatever an earlier fetch stored and whichever      *)
(* call was cancelled (publicip/loop.go).                                  *)
FreshAfterFetch ==
    p.vpn = "up" /\ p.tunnel \in p.ok /\ p.stop = "none" /\ p.enabled => p.data = p.tunnel /\ p.file = p.tunnel

(* Once Stop has returned nothing is known and nothing is written, although a   *)
(* fetch may have been going on and a tunnel still be up (publicip/loop.go).     *)
ClearedByStop == p.stop = "done" => p.data = 0 /\ p.file = 0

(* RunOnce returns, and so does Stop (publicip/loop.go).                     *)
RunOnceReturns == \A t \in Tunnels : p.call[t] # "none" ~> p.call[t] = "returned"
StopReturns == p.stop # "none" ~> p.stop = "done"
=============================================================================
