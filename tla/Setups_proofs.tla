---------------------------- MODULE Setups_proofs ----------------------------
(***************************************************************************)
(* What a tunnel needs around it, for any number of tunnels, checks, runs,     *)
(* ports and failures: the public IP loop, the run of WireGuard, the health    *)
(* checker, the port forwarding of the providers and the search of the MTU by  *)
(* themselves, and then all of them.                                        *)
(***************************************************************************)
EXTENDS MCSetups, FiniteSetTheorems, TLAPS

(***************************************************************************)
(* The public IP loop.                                                     *)
(***************************************************************************)

\* The calls whose result the loop has to give, and no other waits for one.
IPServed ==
    /\ s.loop \notin {"select", "done"} => s.serves \in P!Tunnels
    /\ \A t \in P!Tunnels :
          s.call[t] \in {"result", "drain"} <=> s.loop \notin {"select", "done"} /\ t = s.serves

\* One tunnel is up, the last, and a call that returned nil is over.
IPTunnels ==
    /\ s.live = IF s.vpn = "down" THEN {} ELSE {s.tunnel}
    /\ \A t \in P!Tunnels : t > s.tunnel => s.call[t] = "none"
    /\ \A t \in s.ok : s.call[t] = "returned"

(* What is known while the last tunnel is up and nothing stops: what the loop *)
(* stored for it is there until its caller is answered, and from then on no   *)
(* address of an older tunnel is on its way.                                *)
IPKnown ==
    /\ s.tunnel \in s.ok => s.loop \notin {"store", "persist"}
    /\ s.vpn = "up" /\ s.stop = "none" /\ s.enabled =>
          /\ s.loop = "persist" /\ s.serves = s.tunnel => s.data = s.tunnel
          /\ (s.loop = "answer" /\ ~s.failed /\ s.serves = s.tunnel) \/ s.tunnel \in s.ok
             => s.data = s.tunnel /\ s.file = s.tunnel

\* What Stop has done at each of its places.
IPStopped ==
    /\ s.stop \in {"clear", "write", "done"} => s.loop = "done"
    /\ s.stop \in {"write", "done"} => s.data = 0
    /\ s.stop = "done" => s.file = 0

IPInv == P!IPTypeOK /\ IPServed /\ IPTunnels /\ IPKnown /\ IPStopped

\* Nothing is asked at the start.
LEMMA InitIPInv == P!PublicIPConstants /\ P!IPInit => IPInv
  BY DEF P!PublicIPConstants, P!IPInit, IPInv, P!IPTypeOK, IPServed, IPTunnels, IPKnown, IPStopped,
         P!Tunnels, P!IPs, P!Names

\* There are finitely many fetchers, so those that are banned can be counted.
LEMMA FetchersCounted == ASSUME NEW S \in SUBSET P!Names PROVE P!Cardinality(S) \in Nat
  <1>1. P!Names = {"f1"} \cup {"f2"} \cup {"f3"}
    BY DEF P!Names, Fetchers
  <1>2. IsFiniteSet({"f1"}) /\ IsFiniteSet({"f2"}) /\ IsFiniteSet({"f3"})
    BY FS_Singleton
  <1>3. IsFiniteSet({"f1"} \cup {"f2"})
    BY <1>2, FS_Union
  <1>4. IsFiniteSet(P!Names)
    BY <1>1, <1>2, <1>3, FS_Union
  <1>5. QED
    <2>1. Cardinality(S) \in Nat
      BY <1>4, FS_Subset, FS_CardinalityType
    <2>2. P!Cardinality(S) = Cardinality(S)
      BY DEF P!Cardinality, Cardinality, P!IsFiniteSet, IsFiniteSet
    <2>3. QED
      BY <2>1, <2>2

\* The numbers of the tunnels.
LEMMA TunnelNumbers ==
  ASSUME P!PublicIPConstants
  PROVE  /\ 0 \in P!IPs /\ P!Tunnels \subseteq P!IPs
         /\ \A t \in P!IPs : t \in Nat
         /\ \A t \in P!IPs : t < MaxTunnels => t + 1 \in P!Tunnels
         /\ \A t \in P!Tunnels : t > 0
  BY DEF P!PublicIPConstants, P!IPs, P!Tunnels

\* Every step of the loop, its callers and the VPN loop keeps the types.
LEMMA NextIPTypeOK == ASSUME P!PublicIPConstants, IPInv, [P!IPNext]_s PROVE P!IPTypeOK'
  <1> USE DEF IPInv, P!IPTypeOK, IPServed, IPTunnels
  <1>1. CASE UNCHANGED s
    BY <1>1
  <1>2. CASE P!TunnelUp
    <2>1. s.tunnel + 1 \in P!Tunnels
      BY <1>2, TunnelNumbers DEF P!TunnelUp
    <2>2. QED
      BY ZenonT(60), <1>2, <2>1, TunnelNumbers DEF P!TunnelUp
  <1>3. CASE P!TunnelDown
    BY <1>3 DEF P!TunnelDown
  <1>4. CASE P!CancelTunnel
    BY <1>4 DEF P!CancelTunnel
  <1>5. CASE P!VPNClears
    <2>1. CASE s.vpn = "clear" /\ P!ClearsData([s EXCEPT !.vpn = "write"], "vpn")
      BY <2>1, TunnelNumbers DEF P!ClearsData
    <2>2. CASE s.vpn = "write" /\ P!ClearsFile([s EXCEPT !.vpn = "cancel"])
      BY <2>2, TunnelNumbers DEF P!ClearsFile
    <2>3. QED
      BY <1>5, <2>1, <2>2 DEF P!VPNClears
  <1>6. ASSUME NEW t \in P!Tunnels, P!RunOnceStep(t) PROVE P!IPTypeOK'
    <2>1. CASE P!Trigger(t)
      BY ZenonT(60), <2>1, TunnelNumbers DEF P!Trigger
    <2>2. CASE P!GiveUp(t)
      BY <2>2 DEF P!GiveUp
    <2>3. CASE P!LoopGone(t)
      BY <2>3 DEF P!LoopGone
    <2>4. CASE P!Answer(t)
      BY ZenonT(60), <2>4 DEF P!Answer
    <2>5. QED
      BY <1>6, <2>1, <2>2, <2>3, <2>4 DEF P!RunOnceStep
  <1>7. CASE P!Ask
    <2>1. P!Started \subseteq P!Names
      BY DEF P!Started, P!Names
    <2>2. QED
      BY <1>7, <2>1 DEF P!Ask
  <1>8. CASE P!AllBanned
    BY <1>8 DEF P!AllBanned
  <1>9. CASE P!Fetched
    <2>1. SUFFICES ASSUME NEW limited \in SUBSET s.asked, limited # s.asked,
                          s.bans + P!Cardinality(limited) <= MaxBans,
                          s' = [s EXCEPT !.loop = "store", !.asked = {}, !.banned = @ \cup limited,
                                         !.bans = @ + P!Cardinality(limited)]
                   PROVE  P!IPTypeOK'
      BY <1>9 DEF P!Fetched
    <2>2. s.bans + P!Cardinality(limited) \in 0..MaxBans
      BY <2>1, FetchersCounted DEF P!PublicIPConstants
    <2>3. QED
      BY <1>9, <2>1, <2>2 DEF P!Fetched, P!Cancelled
  <1>10. CASE P!FetchFails
    <2>1. SUFFICES ASSUME NEW limited \in SUBSET s.asked, P!Cancelled => limited = {},
                          s.bans + P!Cardinality(limited) <= MaxBans,
                          s' = [s EXCEPT !.loop = "answer", !.failed = TRUE, !.asked = {},
                                         !.banned = @ \cup limited, !.bans = @ + P!Cardinality(limited)]
                   PROVE  P!IPTypeOK'
      BY <1>10 DEF P!FetchFails
    <2>2. s.bans + P!Cardinality(limited) \in 0..MaxBans
      BY <2>1, FetchersCounted DEF P!PublicIPConstants
    <2>3. QED
      BY <1>10, <2>1, <2>2 DEF P!FetchFails
  <1>11. CASE P!Store
    BY <1>11 DEF P!Store
  <1>12. CASE P!Persist
    <2>1. CASE s' = [s EXCEPT !.loop = "answer", !.file = s.serves]
      BY <1>12, <2>1 DEF P!Persist
    <2>2. CASE s' = [s EXCEPT !.loop = "answer", !.failed = TRUE]
      BY <1>12, <2>2 DEF P!Persist
    <2>3. QED
      BY ONLY <1>12, <2>1, <2>2 DEF P!Persist
  <1>13. CASE P!Quit
    BY <1>13 DEF P!Quit
  <1>14. ASSUME NEW f \in P!Names, P!Expire(f) PROVE P!IPTypeOK'
    BY <1>14 DEF P!Expire
  <1>15. CASE P!StopCalled
    BY <1>15 DEF P!StopCalled
  <1>16. CASE P!StopClears
    <2>1. CASE s.stop = "wait" /\ s.loop = "done" /\ s' = [s EXCEPT !.stop = "clear"]
      BY <2>1
    <2>2. CASE s.stop = "clear" /\ P!ClearsData([s EXCEPT !.stop = "write"], "stop")
      BY <2>2, TunnelNumbers DEF P!ClearsData
    <2>3. CASE s.stop = "write" /\ P!ClearsFile([s EXCEPT !.stop = "done"])
      BY <2>3, TunnelNumbers DEF P!ClearsFile
    <2>4. QED
      BY <1>16, <2>1, <2>2, <2>3 DEF P!StopClears
  <1>17. QED
    BY <1>1, <1>2, <1>3, <1>4, <1>5, <1>6, <1>7, <1>8, <1>9, <1>10, <1>11, <1>12, <1>13, <1>14,
       <1>15, <1>16 DEF P!IPNext, P!IPLoopStep

\* And the rest of the invariant.
LEMMA NextIPInv == ASSUME P!PublicIPConstants, IPInv, [P!IPNext]_s PROVE IPInv'
  <1> P!IPTypeOK'
    BY NextIPTypeOK
  <1> USE DEF IPInv, P!IPTypeOK, IPServed, IPTunnels, IPKnown, IPStopped
  <1>1. CASE UNCHANGED s
    BY <1>1
  <1>2. CASE P!TunnelUp
    <2>1. s.tunnel + 1 \in P!Tunnels
      BY <1>2, TunnelNumbers DEF P!TunnelUp
    <2>2. QED
      BY <1>2, <2>1, TunnelNumbers DEF P!TunnelUp
  <1>3. CASE P!TunnelDown
    BY <1>3 DEF P!TunnelDown
  <1>4. CASE P!CancelTunnel
    BY <1>4 DEF P!CancelTunnel
  <1>5. CASE P!VPNClears
    <2>1. CASE s.vpn = "clear" /\ P!ClearsData([s EXCEPT !.vpn = "write"], "vpn")
      BY <2>1, TunnelNumbers DEF P!ClearsData
    <2>2. CASE s.vpn = "write" /\ P!ClearsFile([s EXCEPT !.vpn = "cancel"])
      BY <2>2, TunnelNumbers DEF P!ClearsFile
    <2>3. QED
      BY <1>5, <2>1, <2>2 DEF P!VPNClears
  <1>6. ASSUME NEW t \in P!Tunnels, P!RunOnceStep(t) PROVE IPInv'
    <2>1. CASE P!Trigger(t)
      BY <2>1, TunnelNumbers DEF P!Trigger
    <2>2. CASE P!GiveUp(t)
      BY <2>2 DEF P!GiveUp
    <2>3. CASE P!LoopGone(t)
      BY <2>3 DEF P!LoopGone
    <2>4. CASE P!Answer(t)
      BY <2>4 DEF P!Answer
    <2>5. QED
      BY <1>6, <2>1, <2>2, <2>3, <2>4 DEF P!RunOnceStep
  <1>7. CASE P!Ask
    <2>1. P!Started \subseteq P!Names
      BY DEF P!Started, P!Names
    <2>2. QED
      BY <1>7, <2>1 DEF P!Ask
  <1>8. CASE P!AllBanned
    BY <1>8 DEF P!AllBanned
  <1>9. CASE P!Fetched
    <2>1. SUFFICES ASSUME NEW limited \in SUBSET s.asked, limited # s.asked,
                          s.bans + P!Cardinality(limited) <= MaxBans,
                          s' = [s EXCEPT !.loop = "store", !.asked = {}, !.banned = @ \cup limited,
                                         !.bans = @ + P!Cardinality(limited)]
                   PROVE  IPInv'
      BY <1>9 DEF P!Fetched
    <2>2. s.bans + P!Cardinality(limited) \in 0..MaxBans
      BY <2>1, FetchersCounted DEF P!PublicIPConstants
    <2>3. QED
      BY <1>9, <2>1, <2>2 DEF P!Fetched, P!Cancelled
  <1>10. CASE P!FetchFails
    <2>1. SUFFICES ASSUME NEW limited \in SUBSET s.asked, P!Cancelled => limited = {},
                          s.bans + P!Cardinality(limited) <= MaxBans,
                          s' = [s EXCEPT !.loop = "answer", !.failed = TRUE, !.asked = {},
                                         !.banned = @ \cup limited, !.bans = @ + P!Cardinality(limited)]
                   PROVE  IPInv'
      BY ZenonT(60), <1>10 DEF P!FetchFails
    <2>2. s.bans + P!Cardinality(limited) \in 0..MaxBans
      BY <2>1, FetchersCounted DEF P!PublicIPConstants
    <2>3. QED
      BY <1>10, <2>1, <2>2 DEF P!FetchFails
  <1>11. CASE P!Store
    BY <1>11 DEF P!Store
  <1>12. CASE P!Persist
    <2>1. CASE s' = [s EXCEPT !.loop = "answer", !.file = s.serves]
      BY <1>12, <2>1 DEF P!Persist
    <2>2. CASE s' = [s EXCEPT !.loop = "answer", !.failed = TRUE]
      BY <1>12, <2>2 DEF P!Persist
    <2>3. QED
      BY ONLY <1>12, <2>1, <2>2 DEF P!Persist
  <1>13. CASE P!Quit
    BY <1>13 DEF P!Quit
  <1>14. ASSUME NEW f \in P!Names, P!Expire(f) PROVE IPInv'
    BY <1>14 DEF P!Expire
  <1>15. CASE P!StopCalled
    BY <1>15 DEF P!StopCalled
  <1>16. CASE P!StopClears
    <2>1. CASE s.stop = "wait" /\ s.loop = "done" /\ s' = [s EXCEPT !.stop = "clear"]
      BY <2>1
    <2>2. CASE s.stop = "clear" /\ P!ClearsData([s EXCEPT !.stop = "write"], "stop")
      BY <2>2, TunnelNumbers DEF P!ClearsData
    <2>3. CASE s.stop = "write" /\ P!ClearsFile([s EXCEPT !.stop = "done"])
      BY <2>3, TunnelNumbers DEF P!ClearsFile
    <2>4. QED
      BY <1>16, <2>1, <2>2, <2>3 DEF P!StopClears
  <1>17. QED
    BY <1>1, <1>2, <1>3, <1>4, <1>5, <1>6, <1>7, <1>8, <1>9, <1>10, <1>11, <1>12, <1>13, <1>14,
       <1>15, <1>16 DEF P!IPNext, P!IPLoopStep

(* What it says of the address that is known: one call waits for the loop, and    *)
(* after Stop nothing is left.                                              *)
LEMMA AddressKnown ==
  ASSUME IPInv PROVE P!OneServed /\ P!FreshAfterFetch /\ P!ClearedByStop
  <1>1. P!OneServed
    <2>1. SUFFICES ASSUME s.loop \notin {"select", "done"}
                   PROVE  {t \in P!Tunnels : s.call[t] \in {"result", "drain"}} = {s.serves}
      BY DEF P!OneServed
    <2>2. s.serves \in P!Tunnels
      BY <2>1 DEF IPInv, IPServed
    <2>3. \A t \in P!Tunnels : s.call[t] \in {"result", "drain"} <=> t = s.serves
      BY <2>1 DEF IPInv, IPServed
    <2>4. QED
      BY <2>2, <2>3
  <1>2. P!FreshAfterFetch
    BY DEF IPInv, IPKnown, P!FreshAfterFetch
  <1>3. P!ClearedByStop
    BY DEF IPInv, IPStopped, P!ClearedByStop
  <1>4. QED
    BY <1>1, <1>2, <1>3

(***************************************************************************)
(* The run of WireGuard.                                                   *)
(***************************************************************************)

(* What can be done on the way up, in the one order in which every             *)
(* implementation does what it does of it.                                  *)
StepNames ==
    {"client", "previous", "tun", "name", "link", "bind", "device", "file", "listener", "ipc", "accept",
     "addresses", "configure", "up", "routes", "rule6", "rule4"}
Rank(c) ==
    CASE c = "client" -> 1 [] c = "previous" -> 2 [] c = "tun" -> 3 [] c = "name" -> 4 [] c = "link" -> 5
      [] c = "bind" -> 6 [] c = "device" -> 7 [] c = "file" -> 8 [] c = "listener" -> 9 [] c = "ipc" -> 10
      [] c = "accept" -> 11 [] c = "addresses" -> 12 [] c = "configure" -> 13 [] c = "up" -> 14
      [] c = "routes" -> 15 [] c = "rule6" -> 16 [] c = "rule4" -> 17

(* The steps S of a mode are in that order, and an interface is made, brought up *)
(* and has its routes; in kernel space after an older one was looked for.       *)
StepsAreSo(mode, S) ==
    /\ Len(S) \in 1..19
    /\ \A i \in 1..Len(S) : S[i] \in StepNames
    /\ \A i, j \in 1..Len(S) : i < j => Rank(S[i]) < Rank(S[j])
    /\ \A c \in {"link", "up", "routes"} : \E i \in 1..Len(S) : S[i] = c
    /\ mode = "kernelspace" => S[2] = "previous" /\ S[3] = "link"

\* Those of kernelspace, with IPv6 and without.
LEMMA KernelSteps6 == StepsAreSo("kernelspace", W!Steps("kernelspace", TRUE))
  <1> DEFINE S == W!Steps("kernelspace", TRUE)
  <1>1. /\ Len(S) = 9
        /\ S[1] = "client" /\ S[2] = "previous" /\ S[3] = "link" /\ S[4] = "addresses" /\ S[5] = "configure"
        /\ S[6] = "up" /\ S[7] = "routes" /\ S[8] = "rule6" /\ S[9] = "rule4"
    BY DEF W!Steps, W!SetupSteps
  <1>2. /\ Rank(S[1]) = 1 /\ Rank(S[2]) = 2 /\ Rank(S[3]) = 5 /\ Rank(S[4]) = 12 /\ Rank(S[5]) = 13
        /\ Rank(S[6]) = 14 /\ Rank(S[7]) = 15 /\ Rank(S[8]) = 16 /\ Rank(S[9]) = 17
    BY <1>1 DEF Rank
  <1> HIDE DEF S
  <1>3. ASSUME NEW i \in 1..9, NEW j \in 1..9, i < j PROVE Rank(S[i]) < Rank(S[j])
    BY <1>2, <1>3
  <1>4. ASSUME NEW i \in 1..9 PROVE S[i] \in StepNames
    BY <1>1 DEF StepNames
  <1>5. \A c \in {"link", "up", "routes"} : \E i \in 1..9 : S[i] = c
    <2>1. S[3] = "link" /\ S[6] = "up" /\ S[7] = "routes"
      BY <1>1
    <2>2. QED
      BY <2>1
  <1>6. StepsAreSo("kernelspace", S)
    BY <1>1, <1>3, <1>4, <1>5 DEF StepsAreSo
  <1>7. QED
    BY <1>6 DEF S

LEMMA KernelSteps4 == StepsAreSo("kernelspace", W!Steps("kernelspace", FALSE))
  <1> DEFINE S == W!Steps("kernelspace", FALSE)
  <1>1. /\ Len(S) = 8
        /\ S[1] = "client" /\ S[2] = "previous" /\ S[3] = "link" /\ S[4] = "addresses" /\ S[5] = "configure"
        /\ S[6] = "up" /\ S[7] = "routes" /\ S[8] = "rule4"
    BY DEF W!Steps, W!SetupSteps
  <1>2. /\ Rank(S[1]) = 1 /\ Rank(S[2]) = 2 /\ Rank(S[3]) = 5 /\ Rank(S[4]) = 12 /\ Rank(S[5]) = 13
        /\ Rank(S[6]) = 14 /\ Rank(S[7]) = 15 /\ Rank(S[8]) = 17
    BY <1>1 DEF Rank
  <1> HIDE DEF S
  <1>3. ASSUME NEW i \in 1..8, NEW j \in 1..8, i < j PROVE Rank(S[i]) < Rank(S[j])
    BY <1>2, <1>3
  <1>4. ASSUME NEW i \in 1..8 PROVE S[i] \in StepNames
    BY <1>1 DEF StepNames
  <1>5. \A c \in {"link", "up", "routes"} : \E i \in 1..8 : S[i] = c
    <2>1. S[3] = "link" /\ S[6] = "up" /\ S[7] = "routes"
      BY <1>1
    <2>2. QED
      BY <2>1
  <1>6. StepsAreSo("kernelspace", S)
    BY <1>1, <1>3, <1>4, <1>5 DEF StepsAreSo
  <1>7. QED
    BY <1>6 DEF S

\* Those of userspace, with IPv6 and without.
LEMMA UserSpaceSteps6 == StepsAreSo("userspace", W!Steps("userspace", TRUE))
  <1> DEFINE S == W!Steps("userspace", TRUE)
  <1>1. /\ Len(S) = 15
        /\ S[1] = "client" /\ S[2] = "tun" /\ S[3] = "name" /\ S[4] = "link" /\ S[5] = "bind"
        /\ S[6] = "device" /\ S[7] = "file" /\ S[8] = "listener" /\ S[9] = "accept" /\ S[10] = "addresses"
        /\ S[11] = "configure" /\ S[12] = "up" /\ S[13] = "routes" /\ S[14] = "rule6" /\ S[15] = "rule4"
    BY DEF W!Steps, W!SetupSteps, W!UserSteps
  <1>2. /\ Rank(S[1]) = 1 /\ Rank(S[2]) = 3 /\ Rank(S[3]) = 4 /\ Rank(S[4]) = 5 /\ Rank(S[5]) = 6
        /\ Rank(S[6]) = 7 /\ Rank(S[7]) = 8 /\ Rank(S[8]) = 9 /\ Rank(S[9]) = 11 /\ Rank(S[10]) = 12
        /\ Rank(S[11]) = 13 /\ Rank(S[12]) = 14 /\ Rank(S[13]) = 15 /\ Rank(S[14]) = 16 /\ Rank(S[15]) = 17
    BY <1>1 DEF Rank
  <1> HIDE DEF S
  <1>3. ASSUME NEW i \in 1..15, NEW j \in 1..15, i < j PROVE Rank(S[i]) < Rank(S[j])
    BY <1>2, <1>3
  <1>4. ASSUME NEW i \in 1..15 PROVE S[i] \in StepNames
    BY <1>1 DEF StepNames
  <1>5. \A c \in {"link", "up", "routes"} : \E i \in 1..15 : S[i] = c
    <2>1. S[4] = "link" /\ S[12] = "up" /\ S[13] = "routes"
      BY <1>1
    <2>2. QED
      BY <2>1
  <1>6. StepsAreSo("userspace", S)
    BY <1>1, <1>3, <1>4, <1>5 DEF StepsAreSo
  <1>7. QED
    BY <1>6 DEF S

LEMMA UserSpaceSteps4 == StepsAreSo("userspace", W!Steps("userspace", FALSE))
  <1> DEFINE S == W!Steps("userspace", FALSE)
  <1>1. /\ Len(S) = 14
        /\ S[1] = "client" /\ S[2] = "tun" /\ S[3] = "name" /\ S[4] = "link" /\ S[5] = "bind"
        /\ S[6] = "device" /\ S[7] = "file" /\ S[8] = "listener" /\ S[9] = "accept" /\ S[10] = "addresses"
        /\ S[11] = "configure" /\ S[12] = "up" /\ S[13] = "routes" /\ S[14] = "rule4"
    BY DEF W!Steps, W!SetupSteps, W!UserSteps
  <1>2. /\ Rank(S[1]) = 1 /\ Rank(S[2]) = 3 /\ Rank(S[3]) = 4 /\ Rank(S[4]) = 5 /\ Rank(S[5]) = 6
        /\ Rank(S[6]) = 7 /\ Rank(S[7]) = 8 /\ Rank(S[8]) = 9 /\ Rank(S[9]) = 11 /\ Rank(S[10]) = 12
        /\ Rank(S[11]) = 13 /\ Rank(S[12]) = 14 /\ Rank(S[13]) = 15 /\ Rank(S[14]) = 17
    BY <1>1 DEF Rank
  <1> HIDE DEF S
  <1>3. ASSUME NEW i \in 1..14, NEW j \in 1..14, i < j PROVE Rank(S[i]) < Rank(S[j])
    BY <1>2, <1>3
  <1>4. ASSUME NEW i \in 1..14 PROVE S[i] \in StepNames
    BY <1>1 DEF StepNames
  <1>5. \A c \in {"link", "up", "routes"} : \E i \in 1..14 : S[i] = c
    <2>1. S[4] = "link" /\ S[12] = "up" /\ S[13] = "routes"
      BY <1>1
    <2>2. QED
      BY <2>1
  <1>6. StepsAreSo("userspace", S)
    BY <1>1, <1>3, <1>4, <1>5 DEF StepsAreSo
  <1>7. QED
    BY <1>6 DEF S

\* Those of amneziawg, with IPv6 and without.
LEMMA AmneziaSteps6 == StepsAreSo("amneziawg", W!Steps("amneziawg", TRUE))
  <1> DEFINE S == W!Steps("amneziawg", TRUE)
  <1>1. /\ Len(S) = 16
        /\ S[1] = "client" /\ S[2] = "tun" /\ S[3] = "name" /\ S[4] = "link" /\ S[5] = "bind"
        /\ S[6] = "device" /\ S[7] = "file" /\ S[8] = "listener" /\ S[9] = "ipc" /\ S[10] = "accept"
        /\ S[11] = "addresses" /\ S[12] = "configure" /\ S[13] = "up" /\ S[14] = "routes" /\ S[15] = "rule6"
        /\ S[16] = "rule4"
    BY DEF W!Steps, W!SetupSteps, W!UserSteps
  <1>2. /\ Rank(S[1]) = 1 /\ Rank(S[2]) = 3 /\ Rank(S[3]) = 4 /\ Rank(S[4]) = 5 /\ Rank(S[5]) = 6
        /\ Rank(S[6]) = 7 /\ Rank(S[7]) = 8 /\ Rank(S[8]) = 9 /\ Rank(S[9]) = 10 /\ Rank(S[10]) = 11
        /\ Rank(S[11]) = 12 /\ Rank(S[12]) = 13 /\ Rank(S[13]) = 14 /\ Rank(S[14]) = 15 /\ Rank(S[15]) = 16
        /\ Rank(S[16]) = 17
    BY <1>1 DEF Rank
  <1> HIDE DEF S
  <1>3. ASSUME NEW i \in 1..16, NEW j \in 1..16, i < j PROVE Rank(S[i]) < Rank(S[j])
    BY <1>2, <1>3
  <1>4. ASSUME NEW i \in 1..16 PROVE S[i] \in StepNames
    BY <1>1 DEF StepNames
  <1>5. \A c \in {"link", "up", "routes"} : \E i \in 1..16 : S[i] = c
    <2>1. S[4] = "link" /\ S[13] = "up" /\ S[14] = "routes"
      BY <1>1
    <2>2. QED
      BY <2>1
  <1>6. StepsAreSo("amneziawg", S)
    BY <1>1, <1>3, <1>4, <1>5 DEF StepsAreSo
  <1>7. QED
    BY <1>6 DEF S

LEMMA AmneziaSteps4 == StepsAreSo("amneziawg", W!Steps("amneziawg", FALSE))
  <1> DEFINE S == W!Steps("amneziawg", FALSE)
  <1>1. /\ Len(S) = 15
        /\ S[1] = "client" /\ S[2] = "tun" /\ S[3] = "name" /\ S[4] = "link" /\ S[5] = "bind"
        /\ S[6] = "device" /\ S[7] = "file" /\ S[8] = "listener" /\ S[9] = "ipc" /\ S[10] = "accept"
        /\ S[11] = "addresses" /\ S[12] = "configure" /\ S[13] = "up" /\ S[14] = "routes" /\ S[15] = "rule4"
    BY DEF W!Steps, W!SetupSteps, W!UserSteps
  <1>2. /\ Rank(S[1]) = 1 /\ Rank(S[2]) = 3 /\ Rank(S[3]) = 4 /\ Rank(S[4]) = 5 /\ Rank(S[5]) = 6
        /\ Rank(S[6]) = 7 /\ Rank(S[7]) = 8 /\ Rank(S[8]) = 9 /\ Rank(S[9]) = 10 /\ Rank(S[10]) = 11
        /\ Rank(S[11]) = 12 /\ Rank(S[12]) = 13 /\ Rank(S[13]) = 14 /\ Rank(S[14]) = 15 /\ Rank(S[15]) = 17
    BY <1>1 DEF Rank
  <1> HIDE DEF S
  <1>3. ASSUME NEW i \in 1..15, NEW j \in 1..15, i < j PROVE Rank(S[i]) < Rank(S[j])
    BY <1>2, <1>3
  <1>4. ASSUME NEW i \in 1..15 PROVE S[i] \in StepNames
    BY <1>1 DEF StepNames
  <1>5. \A c \in {"link", "up", "routes"} : \E i \in 1..15 : S[i] = c
    <2>1. S[4] = "link" /\ S[13] = "up" /\ S[14] = "routes"
      BY <1>1
    <2>2. QED
      BY <2>1
  <1>6. StepsAreSo("amneziawg", S)
    BY <1>1, <1>3, <1>4, <1>5 DEF StepsAreSo
  <1>7. QED
    BY <1>6 DEF S

\* Whatever the mode.
LEMMA StepsInOrder == ASSUME NEW mode \in W!Modes, NEW ipv6 \in BOOLEAN
                      PROVE  StepsAreSo(mode, W!Steps(mode, ipv6))
  <1>1. CASE ipv6 = TRUE
    BY <1>1, KernelSteps6, UserSpaceSteps6, AmneziaSteps6 DEF W!Modes
  <1>2. CASE ipv6 = FALSE
    BY <1>2, KernelSteps4, UserSpaceSteps4, AmneziaSteps4 DEF W!Modes
  <1>3. QED
    BY <1>1, <1>2

\* Everything there may be is made by one of the steps.
LEMMA EverythingIsMade == StepNames \subseteq W!Everything
  <1> DEFINE S == W!Steps("amneziawg", TRUE)
  <1>1. /\ Len(S) = 16
        /\ S[1] = "client" /\ S[2] = "tun" /\ S[3] = "name" /\ S[4] = "link" /\ S[5] = "bind"
        /\ S[6] = "device" /\ S[7] = "file" /\ S[8] = "listener" /\ S[9] = "ipc" /\ S[10] = "accept"
        /\ S[11] = "addresses" /\ S[12] = "configure" /\ S[13] = "up" /\ S[14] = "routes" /\ S[15] = "rule6"
        /\ S[16] = "rule4"
    BY DEF W!Steps, W!SetupSteps, W!UserSteps
  <1> HIDE DEF S
  <1>2. W!Everything = {S[i] : i \in 1..16} \cup {"previous"}
    BY <1>1 DEF W!Everything, S
  <1>3. ASSUME NEW c \in StepNames PROVE c = "previous" \/ \E i \in 1..16 : S[i] = c
    <2>1. CASE c = "client"
      <3>1. S[1] = c
        BY <1>1, <2>1
      <3>2. QED
        BY <3>1
    <2>2. CASE c = "tun"
      <3>1. S[2] = c
        BY <1>1, <2>2
      <3>2. QED
        BY <3>1
    <2>3. CASE c = "name"
      <3>1. S[3] = c
        BY <1>1, <2>3
      <3>2. QED
        BY <3>1
    <2>4. CASE c = "link"
      <3>1. S[4] = c
        BY <1>1, <2>4
      <3>2. QED
        BY <3>1
    <2>5. CASE c = "bind"
      <3>1. S[5] = c
        BY <1>1, <2>5
      <3>2. QED
        BY <3>1
    <2>6. CASE c = "device"
      <3>1. S[6] = c
        BY <1>1, <2>6
      <3>2. QED
        BY <3>1
    <2>7. CASE c = "file"
      <3>1. S[7] = c
        BY <1>1, <2>7
      <3>2. QED
        BY <3>1
    <2>8. CASE c = "listener"
      <3>1. S[8] = c
        BY <1>1, <2>8
      <3>2. QED
        BY <3>1
    <2>9. CASE c = "ipc"
      <3>1. S[9] = c
        BY <1>1, <2>9
      <3>2. QED
        BY <3>1
    <2>10. CASE c = "accept"
      <3>1. S[10] = c
        BY <1>1, <2>10
      <3>2. QED
        BY <3>1
    <2>11. CASE c = "addresses"
      <3>1. S[11] = c
        BY <1>1, <2>11
      <3>2. QED
        BY <3>1
    <2>12. CASE c = "configure"
      <3>1. S[12] = c
        BY <1>1, <2>12
      <3>2. QED
        BY <3>1
    <2>13. CASE c = "up"
      <3>1. S[13] = c
        BY <1>1, <2>13
      <3>2. QED
        BY <3>1
    <2>14. CASE c = "routes"
      <3>1. S[14] = c
        BY <1>1, <2>14
      <3>2. QED
        BY <3>1
    <2>15. CASE c = "rule6"
      <3>1. S[15] = c
        BY <1>1, <2>15
      <3>2. QED
        BY <3>1
    <2>16. CASE c = "rule4"
      <3>1. S[16] = c
        BY <1>1, <2>16
      <3>2. QED
        BY <3>1
    <2>17. QED
      BY <2>1, <2>2, <2>3, <2>4, <2>5, <2>6, <2>7, <2>8, <2>9, <2>10, <2>11, <2>12, <2>13, <2>14,
         <2>15, <2>16 DEF StepNames
  <1>4. QED
    BY <1>2, <1>3

\* The steps of this run, and those that are done.
RunSteps == W!Steps(s.mode, s.ipv6)
Done == {RunSteps[i] : i \in 1..(s.step - 1)}
GoingUp == s.place \in {"setup", "ready", "wait"}

\* The fields of the record and their types, for the provers.
RunFields ==
    s \in [mode : W!Modes, ipv6 : BOOLEAN,
           place : {"idle", "setup", "ready", "wait", "clean", "join", "report", "undo", "ended"},
           step : 1..20, have : SUBSET W!Everything, pending : SUBSET W!HasCleanup,
           failed : SUBSET W!HasCleanup, cancelled : BOOLEAN,
           accept : {"none", "accept", "send", "gone"}, closed : BOOLEAN, broken : BOOLEAN,
           runs : 0..MaxRuns, faults : 0..MaxSystemFaults]

\* On the way up every step that has a cleanup has left it, and the interface it needs is there.
UpSoFar ==
    /\ s.place = "setup" => s.step \in 1..Len(RunSteps)
    /\ s.place \in {"ready", "wait"} => s.step = Len(RunSteps) + 1
    /\ GoingUp => s.pending = Done \cap W!HasCleanup /\ {"link", "up", "routes"} \cap Done \subseteq s.have
    /\ s.place = "setup" /\ s.mode = "kernelspace" /\ s.step = 3 => "link" \notin s.have

(* What exists has its cleanup to come, or had one that failed, but what goes with *)
(* an interface that has; and the routes are there while a rule is to be removed.  *)
Accounted ==
    /\ \A c \in s.have : c \in s.pending \/ c \in s.failed
                          \/ (c \in W!WithLink /\ \E d \in {"link", "tun"} : d \in s.pending \/ d \in s.failed)
    /\ \A r \in W!Rules : r \in s.pending => {"link", "up", "routes"} \subseteq s.have
    /\ s.place \in {"idle", "join", "ended"} => s.pending = {}

RunInv == RunFields /\ UpSoFar /\ Accounted /\ W!FailsForAReason

\* A number of steps is a number.
LEMMA Bounded == ASSUME NEW n \in 1..19 PROVE n \in Nat /\ n <= 19
  OBVIOUS
LEMMA FirstStep == ASSUME NEW n \in 1..19 PROVE 1 \in 1..n
  OBVIOUS
LEMMA NextBounded == ASSUME NEW n \in 1..19, NEW i \in 1..n PROVE i + 1 \in 1..20
  OBVIOUS

\* The step that is taken comes after those that are done.
LEMMA CurrentIsNext ==
  ASSUME RunInv, s.place = "setup"
  PROVE  /\ W!Current \in StepNames /\ W!Current \in W!Everything
         /\ \A d \in Done : Rank(d) < Rank(W!Current)
         /\ \A c \in {"link", "up", "routes"} : Rank(c) < Rank(W!Current) => c \in Done
         /\ s.mode = "kernelspace" => (W!Current = "link" => s.step = 3) /\ (s.step = 2 => W!Current = "previous")
  <1>1. s.mode \in W!Modes /\ s.ipv6 \in BOOLEAN /\ s.step \in 1..Len(RunSteps)
    BY DEF RunInv, RunFields, UpSoFar
  <1>2. StepsAreSo(s.mode, RunSteps)
    BY <1>1, StepsInOrder DEF RunSteps
  <1>3. W!Current = RunSteps[s.step]
    BY DEF W!Current, RunSteps
  <1>4. Len(RunSteps) \in Nat /\ Len(RunSteps) <= 19
    <2>1. Len(RunSteps) \in 1..19
      BY <1>2 DEF StepsAreSo
    <2>2. QED
      BY <2>1, Bounded
  <1>5. W!Current \in StepNames
    BY <1>1, <1>2, <1>3 DEF StepsAreSo
  <1>6. ASSUME NEW d \in Done PROVE Rank(d) < Rank(W!Current)
    <2>1. PICK i \in 1..(s.step - 1) : d = RunSteps[i]
      BY <1>6 DEF Done
    <2>2. i \in 1..Len(RunSteps) /\ i < s.step
      BY <1>1, <1>4, <2>1
    <2>3. QED
      BY <1>1, <1>2, <1>3, <2>1, <2>2 DEF StepsAreSo
  <1>7. ASSUME NEW c \in {"link", "up", "routes"}, Rank(c) < Rank(W!Current) PROVE c \in Done
    <2>1. PICK i \in 1..Len(RunSteps) : RunSteps[i] = c
      BY <1>2, <1>7 DEF StepsAreSo
    <2>2. Rank(c) \in Nat /\ Rank(W!Current) \in Nat
      BY <1>5, <1>7 DEF Rank, StepNames
    <2>3. ~(s.step < i) /\ s.step # i
      BY <1>1, <1>2, <1>3, <1>7, <2>1, <2>2 DEF StepsAreSo
    <2>4. i \in 1..(s.step - 1)
      BY <1>1, <1>4, <2>1, <2>3
    <2>5. QED
      BY <2>1, <2>4 DEF Done
  <1>8. ASSUME s.mode = "kernelspace"
        PROVE  (W!Current = "link" => s.step = 3) /\ (s.step = 2 => W!Current = "previous")
    <2>1. RunSteps[2] = "previous" /\ RunSteps[3] = "link"
      BY <1>2, <1>8 DEF StepsAreSo
    <2>2. s.step = 2 => W!Current = "previous"
      BY <1>3, <2>1
    <2>3. Rank("link") = 5
      BY DEF Rank
    <2>4. ASSUME W!Current = "link", s.step # 3 PROVE FALSE
      <3>1. s.step < 3 \/ (3 < s.step /\ 3 \in 1..Len(RunSteps))
        BY <1>1, <1>4, <2>4
      <3>2. CASE 3 < s.step /\ 3 \in 1..Len(RunSteps)
        <4>1. Rank(RunSteps[3]) < Rank(RunSteps[s.step])
          BY <1>1, <1>2, <3>2 DEF StepsAreSo
        <4>2. QED
          BY <1>3, <2>1, <2>3, <2>4, <4>1
      <3>3. CASE s.step < 3
        <4>1. s.step = 1 \/ s.step = 2
          BY <1>1, <3>3
        <4>2. s.step # 2
          BY <2>2, <2>4
        <4>3. \E k \in 1..Len(RunSteps) : RunSteps[k] = "routes"
          BY <1>2 DEF StepsAreSo
        <4>4. \E k \in 1..Len(RunSteps) : RunSteps[k] = "up"
          BY <1>2 DEF StepsAreSo
        <4>5. Rank("routes") = 15 /\ Rank("up") = 14 /\ Rank("previous") = 2
          BY DEF Rank
        <4>6. 2 \in 1..Len(RunSteps)
          BY <1>3, <1>4, <2>4, <4>1, <4>2, <4>3, <4>4
        <4>7. Rank(RunSteps[1]) < Rank(RunSteps[2])
          BY <1>1, <1>2, <4>1, <4>2, <4>6 DEF StepsAreSo
        <4>8. RunSteps[1] = "link"
          BY <1>3, <2>4, <4>1, <4>2
        <4>9. QED
          BY <2>1, <2>3, <4>5, <4>7, <4>8
      <3>4. QED
        BY <3>1, <3>2, <3>3
    <2>5. QED
      BY <2>2, <2>4
  <1>9. QED
    BY <1>5, <1>6, <1>7, <1>8, EverythingIsMade

\* What the steps are, by their order.
LEMMA StepKinds ==
  ASSUME NEW c \in StepNames
  PROVE  /\ Rank(c) \in 1..17
         /\ c \in W!Passing \/ c \in W!HasCleanup \/ c \in {"addresses", "routes"}
         /\ c \in {"addresses", "routes"} => Rank("link") < Rank(c)
         /\ c \in W!Rules => Rank("link") < Rank(c) /\ Rank("up") < Rank(c) /\ Rank("routes") < Rank(c)
         /\ c = "previous" => ~(Rank("link") < Rank(c)) /\ ~(Rank("up") < Rank(c)) /\ ~(Rank("routes") < Rank(c))
                               /\ ~(Rank("rule4") < Rank(c)) /\ ~(Rank("rule6") < Rank(c))
  <1>1. Rank(c) \in 1..17
    BY DEF StepNames, Rank
  <1>2. c \in W!Passing \/ c \in W!HasCleanup \/ c \in {"addresses", "routes"}
    BY DEF StepNames, W!Passing, W!HasCleanup, W!Rules
  <1>3. /\ Rank("previous") = 2 /\ Rank("link") = 5 /\ Rank("addresses") = 12 /\ Rank("up") = 14
        /\ Rank("routes") = 15 /\ Rank("rule6") = 16 /\ Rank("rule4") = 17
    BY DEF Rank
  <1>4. QED
    BY <1>1, <1>2, <1>3 DEF W!Rules

\* What is made on the way up is accounted for.
LEMMA SetupStepKeeps == ASSUME W!WireguardConstants, RunInv, W!SetupStep PROVE RunInv'
  <1> DEFINE c == W!Current
  <1>1. /\ s.place = "setup" /\ ~W!Refused(c)
        /\ s' = [s EXCEPT !.have = W!Made(c), !.pending = @ \cup ({c} \cap W!HasCleanup),
                         !.step = @ + 1, !.accept = IF c = "accept" THEN "accept" ELSE @,
                         !.place = IF s.step = Len(RunSteps) THEN "ready" ELSE @]
    BY DEF W!SetupStep, RunSteps
  <1>2. /\ c \in StepNames /\ c \in W!Everything
        /\ \A d \in Done : Rank(d) < Rank(c)
        /\ \A d \in {"link", "up", "routes"} : Rank(d) < Rank(c) => d \in Done
        /\ s.mode = "kernelspace" => (c = "link" => s.step = 3) /\ (s.step = 2 => c = "previous")
    BY <1>1, CurrentIsNext
  <1>3. /\ c = RunSteps[s.step] /\ s.step \in 1..Len(RunSteps) /\ Len(RunSteps) \in 1..19
        /\ Len(RunSteps) \in Nat
    <2>1. s.mode \in W!Modes /\ s.ipv6 \in BOOLEAN
      BY DEF RunInv, RunFields
    <2>2. StepsAreSo(s.mode, RunSteps)
      BY <2>1, StepsInOrder DEF RunSteps
    <2>3. Len(RunSteps) \in 1..19
      BY <2>2 DEF StepsAreSo
    <2>4. c = RunSteps[s.step]
      BY DEF W!Current, RunSteps
    <2>5. s.step \in 1..Len(RunSteps)
      BY <1>1 DEF RunInv, UpSoFar
    <2>6. QED
      BY <2>3, <2>4, <2>5, Bounded
  <1> HIDE DEF c
  <1>4. "link" \in W!Everything /\ W!Made(c) \subseteq W!Everything
    <2>1. "link" \in W!Everything
      BY EverythingIsMade DEF StepNames
    <2>2. QED
      BY <1>2, <2>1 DEF W!Made, RunInv, RunFields
  <1>5. s.step + 1 \in 1..20
    BY <1>3, NextBounded
  <1>6. RunFields'
    <2>1. (IF c = "accept" THEN "accept" ELSE s.accept) \in {"none", "accept", "send", "gone"}
      BY DEF RunInv, RunFields
    <2>2. (IF s.step = Len(RunSteps) THEN "ready" ELSE s.place) \in {"setup", "ready"}
      BY <1>1
    <2>3. QED
      BY <1>1, <1>4, <1>5, <2>1, <2>2 DEF RunInv, RunFields
  <1>7. /\ s'.mode = s.mode /\ s'.ipv6 = s.ipv6 /\ s'.have = W!Made(c) /\ s'.failed = s.failed
        /\ s'.pending = s.pending \cup ({c} \cap W!HasCleanup) /\ s'.step = s.step + 1
        /\ s'.place = IF s.step = Len(RunSteps) THEN "ready" ELSE "setup"
    BY <1>1 DEF RunInv, RunFields
  <1>8. RunSteps' = RunSteps
    BY <1>7 DEF RunSteps
  <1>9. Done' = Done \cup {c}
    <2>1. \A i : i \in 1..(s.step + 1 - 1) <=> i \in 1..(s.step - 1) \/ i = s.step
      BY <1>3
    <2>2. QED
      BY <1>3, <1>7, <1>8, <2>1 DEF Done
  <1>10. s.pending = Done \cap W!HasCleanup /\ {"link", "up", "routes"} \cap Done \subseteq s.have
    BY <1>1 DEF RunInv, UpSoFar, GoingUp
  <1>11. c = "previous" => "link" \notin Done /\ "up" \notin Done /\ "routes" \notin Done
                            /\ "rule4" \notin Done /\ "rule6" \notin Done
    BY <1>2, StepKinds
  <1>12. UpSoFar'
    <2>1. s'.place = "setup" => s'.step \in 1..Len(RunSteps')
      BY <1>3, <1>7, <1>8
    <2>2. s'.place \in {"ready", "wait"} => s'.step = Len(RunSteps') + 1
      BY <1>7, <1>8
    <2>3. s'.pending = Done' \cap W!HasCleanup
      BY <1>7, <1>9, <1>10
    <2>4. {"link", "up", "routes"} \cap Done' \subseteq s'.have
      BY <1>7, <1>9, <1>10, <1>11 DEF W!Made, W!Passing, W!WithLink
    <2>5. s'.place = "setup" /\ s'.mode = "kernelspace" /\ s'.step = 3 => "link" \notin s'.have
      BY <1>2, <1>3, <1>7 DEF W!Made, W!WithLink
    <2>6. QED
      BY <2>1, <2>2, <2>3, <2>4, <2>5 DEF UpSoFar
  <1>13. Accounted'
    <2>1. ASSUME NEW e \in s'.have
          PROVE  e \in s'.pending \/ e \in s'.failed
                 \/ (e \in W!WithLink /\ \E d \in {"link", "tun"} : d \in s'.pending \/ d \in s'.failed)
      <3>1. CASE e \in s.have
        BY <1>7, <3>1 DEF RunInv, Accounted
      <3>2. CASE e \notin s.have /\ c = "tun"
        BY <1>7, <2>1, <3>2 DEF W!Made, W!Passing, W!HasCleanup, W!WithLink
      <3>3. CASE e \notin s.have /\ c # "tun"
        <4>1. e = c /\ c \notin W!Passing
          BY <1>7, <2>1, <3>3 DEF W!Made, W!Passing
        <4>2. CASE c \in W!HasCleanup
          BY <1>7, <4>1, <4>2
        <4>3. CASE c \in {"addresses", "routes"}
          <5>1. "link" \in Done
            BY <1>2, <4>3, StepKinds
          <5>2. "link" \in s'.pending
            BY <1>7, <1>10, <5>1 DEF W!HasCleanup
          <5>3. QED
            BY <4>1, <4>3, <5>2 DEF W!WithLink
        <4>4. QED
          BY <1>2, <4>1, <4>2, <4>3, StepKinds
      <3>4. QED
        BY <3>1, <3>2, <3>3
    <2>2. ASSUME NEW r \in W!Rules, r \in s'.pending
          PROVE  {"link", "up", "routes"} \subseteq s'.have
      <3>1. CASE r \in s.pending
        <4>1. c # "previous"
          BY <1>10, <1>11, <3>1 DEF W!Rules
        <4>2. {"link", "up", "routes"} \subseteq s.have
          BY <3>1 DEF RunInv, Accounted
        <4>3. QED
          BY <1>7, <4>1, <4>2 DEF W!Made
      <3>2. CASE r \notin s.pending
        <4>1. r = c
          BY <1>7, <2>2, <3>2
        <4>2. {"link", "up", "routes"} \subseteq Done
          BY <1>2, <4>1, StepKinds
        <4>3. c # "previous"
          BY <4>1 DEF W!Rules
        <4>4. QED
          BY <1>7, <1>10, <4>2, <4>3 DEF W!Made
      <3>3. QED
        BY <3>1, <3>2
    <2>3. s'.place \notin {"idle", "join", "ended"}
      BY <1>7
    <2>4. QED
      BY <2>1, <2>2, <2>3 DEF Accounted
  <1>14. W!FailsForAReason'
    BY <1>7 DEF W!FailsForAReason
  <1>15. QED
    BY <1>6, <1>12, <1>13, <1>14 DEF RunInv

\* What a step of the run leaves alone, when it makes and undoes nothing.
SameThings ==
    /\ s'.mode = s.mode /\ s'.ipv6 = s.ipv6 /\ s'.have = s.have /\ s'.pending = s.pending
    /\ s'.failed = s.failed

\* A failure within the bound.
LEMMA FaultsBounded ==
  ASSUME W!WireguardConstants, RunInv, s.faults < MaxSystemFaults
  PROVE  s.faults + 1 \in 0..MaxSystemFaults
  <1>1. s.faults \in 0..MaxSystemFaults /\ MaxSystemFaults \in Nat
    BY DEF RunInv, RunFields, W!WireguardConstants
  <1>2. QED
    BY <1>1

\* A step that makes and undoes nothing, and goes to a place where nothing is said of the steps.
LEMMA ElsewhereKeeps ==
  ASSUME RunInv, SameThings, s'.place \in {"report", "undo", "clean", "ended"}, s'.place = "ended" => s.pending = {},
         W!FailsForAReason'
  PROVE  UpSoFar' /\ Accounted' /\ W!FailsForAReason'
  BY DEF RunInv, SameThings, UpSoFar, GoingUp, Accounted

\* A step that only moves on the way up.
LEMMA StaysUpKeeps ==
  ASSUME RunInv, SameThings, s'.step = s.step,
         s'.place = s.place \/ (s.place = "ready" /\ s'.place = "wait"), s'.broken = s.broken \/ s'.broken = TRUE
  PROVE  UpSoFar' /\ Accounted' /\ W!FailsForAReason'
  <1>1. RunSteps' = RunSteps /\ Done' = Done
    BY DEF SameThings, RunSteps, Done
  <1>2. UpSoFar'
    BY <1>1 DEF RunInv, SameThings, UpSoFar, GoingUp
  <1>3. Accounted'
    BY DEF RunInv, SameThings, Accounted
  <1>4. W!FailsForAReason'
    BY DEF RunInv, SameThings, W!FailsForAReason
  <1>5. QED
    BY <1>2, <1>3, <1>4

(* A step of the setup that is refused was made by an earlier run, whose cleanup  *)
(* of it failed.                                                            *)
LEMMA RefusedForAReason ==
  ASSUME W!WireguardConstants, RunInv, s.place = "setup", W!Refused(W!Current)
  PROVE  s.failed \cap (W!Rules \cup {"tun"}) # {}
  <1> DEFINE c == W!Current
  <1>1. /\ c \in StepNames /\ \A d \in Done : Rank(d) < Rank(c)
        /\ s.mode = "kernelspace" => (c = "link" => s.step = 3)
    BY CurrentIsNext
  <1>2. c \in {"link", "tun"} \cup W!Rules /\ c \in s.have /\ ~(c = "link" /\ s.mode # "kernelspace")
    BY DEF W!Refused
  <1> HIDE DEF c
  <1>3. c # "link"
    BY <1>1, <1>2 DEF RunInv, UpSoFar
  <1>4. Rank(c) \in 1..17
    BY <1>1, StepKinds
  <1>5. c \notin Done
    BY <1>1, <1>4
  <1>6. c \notin s.pending
    BY <1>5 DEF RunInv, UpSoFar, GoingUp
  <1>7. c \in s.failed
    BY <1>2, <1>3, <1>6 DEF RunInv, Accounted, W!WithLink, W!Rules
  <1>8. QED
    BY <1>2, <1>3, <1>7

\* What a cleanup removes, or fails to remove, is accounted for.
LEMMA CleanupKeeps == ASSUME W!WireguardConstants, RunInv, W!CleanupStep PROVE RunInv'
  <1>1. s.place \in {"clean", "undo"}
    BY DEF W!CleanupStep
  <1>2. PICK c \in s.pending :
           /\ \A d \in s.pending : W!OrderIndex(c) <= W!OrderIndex(d)
           /\ \/ s' = W!Cleaned(c, [s EXCEPT !.pending = @ \ {c}, !.have = W!Undone(c)])
              \/ /\ s.faults < MaxSystemFaults
                 /\ s' = W!Cleaned(c, [s EXCEPT !.pending = @ \ {c}, !.failed = @ \cup {c}, !.faults = @ + 1])
    BY DEF W!CleanupStep
  <1> DEFINE left == s.pending \ {c}
             goesTo == IF left = {} THEN (IF s.place = "clean" /\ W!UserMode THEN "join" ELSE "ended") ELSE s.place
  <1>3. c \in W!HasCleanup /\ left \in SUBSET W!HasCleanup /\ W!Undone(c) \in SUBSET W!Everything
    BY DEF RunInv, RunFields, W!Undone
  <1>4. goesTo \in {"clean", "undo", "join", "ended"} /\ (goesTo \in {"join", "ended"} => left = {})
        /\ (goesTo \in {"clean", "undo"} => goesTo = s.place)
    BY <1>1
  <1>5. (\E r \in W!Rules : r \in left) => c \in W!Rules \cup {"client"}
    BY <1>2, <1>3 DEF W!OrderIndex, W!Rules, W!HasCleanup
  <1>6. \/ s' = [s EXCEPT !.pending = left, !.have = W!Undone(c), !.place = goesTo]
        \/ /\ s.faults < MaxSystemFaults
           /\ s' = [s EXCEPT !.pending = left, !.failed = s.failed \cup {c}, !.faults = s.faults + 1,
                            !.place = goesTo]
    BY ZenonT(60), <1>2 DEF W!Cleaned, RunInv, RunFields
  <1> HIDE DEF left, goesTo
  <1>7. CASE s' = [s EXCEPT !.pending = left, !.have = W!Undone(c), !.place = goesTo]
    <2>1. RunFields'
      BY <1>3, <1>4, <1>7 DEF RunInv, RunFields
    <2>2. /\ s'.have = W!Undone(c) /\ s'.pending = left /\ s'.failed = s.failed /\ s'.place = goesTo
          /\ s'.broken = s.broken
      BY <1>7 DEF RunInv, RunFields
    <2>3. UpSoFar'
      BY <1>4, <2>2 DEF UpSoFar, GoingUp
    <2>4. Accounted'
      <3>1. ASSUME NEW e \in s'.have
            PROVE  e \in s'.pending \/ e \in s'.failed
                   \/ (e \in W!WithLink /\ \E d \in {"link", "tun"} : d \in s'.pending \/ d \in s'.failed)
        <4>1. e \in s.have /\ e # c /\ (c \in {"link", "tun", "device"} => e \notin W!WithLink)
          BY <2>2, <3>1 DEF W!Undone, W!WithLink
        <4>2. \/ e \in s.pending \/ e \in s.failed
              \/ (e \in W!WithLink /\ \E d \in {"link", "tun"} : d \in s.pending \/ d \in s.failed)
          BY <4>1 DEF RunInv, Accounted
        <4>3. QED
          BY <2>2, <4>1, <4>2 DEF left
      <3>2. ASSUME NEW r \in W!Rules, r \in s'.pending
            PROVE  {"link", "up", "routes"} \subseteq s'.have
        <4>1. c \in W!Rules \cup {"client"} /\ r \in s.pending
          BY <1>5, <2>2, <3>2 DEF left
        <4>2. {"link", "up", "routes"} \subseteq s.have
          BY <4>1 DEF RunInv, Accounted
        <4>3. W!Undone(c) = s.have \ {c}
          BY <4>1 DEF W!Undone, W!Rules
        <4>4. QED
          BY <2>2, <4>1, <4>2, <4>3 DEF W!Rules
      <3>3. QED
        BY <1>4, <2>2, <3>1, <3>2 DEF Accounted
    <2>5. W!FailsForAReason'
      BY <1>4, <2>2 DEF RunInv, W!FailsForAReason
    <2>6. QED
      BY <2>1, <2>3, <2>4, <2>5 DEF RunInv
  <1>8. CASE /\ s.faults < MaxSystemFaults
             /\ s' = [s EXCEPT !.pending = left, !.failed = s.failed \cup {c}, !.faults = s.faults + 1,
                              !.place = goesTo]
    <2>1. RunFields'
      BY <1>3, <1>4, <1>8, FaultsBounded DEF RunInv, RunFields
    <2>2. /\ s'.have = s.have /\ s'.pending = left /\ s'.failed = s.failed \cup {c} /\ s'.place = goesTo
          /\ s'.broken = s.broken
      BY <1>8 DEF RunInv, RunFields
    <2>3. UpSoFar'
      BY <1>4, <2>2 DEF UpSoFar, GoingUp
    <2>4. Accounted'
      BY <1>4, <2>2 DEF RunInv, Accounted, left
    <2>5. W!FailsForAReason'
      BY <1>4, <2>2 DEF RunInv, W!FailsForAReason
    <2>6. QED
      BY <2>1, <2>3, <2>4, <2>5 DEF RunInv
  <1>9. QED
    BY <1>6, <1>7, <1>8

\* Every step of a run keeps the invariant.
LEMMA NextRunInv == ASSUME W!WireguardConstants, RunInv, [W!WireguardNext]_s PROVE RunInv'
  <1>1. CASE UNCHANGED s
    BY <1>1 DEF RunInv, RunFields, UpSoFar, GoingUp, RunSteps, Done, Accounted, W!FailsForAReason
  <1>2. CASE W!Begin
    <2>1. s.runs + 1 \in 0..MaxRuns
      <3>1. s.runs \in 0..MaxRuns /\ MaxRuns \in Nat /\ s.runs < MaxRuns
        BY <1>2 DEF RunInv, RunFields, W!WireguardConstants, W!Begin
      <3>2. QED
        BY <3>1
    <2>2. /\ s.place \in {"idle", "ended"}
          /\ s' = [s EXCEPT !.place = "setup", !.step = 1, !.pending = {}, !.cancelled = FALSE,
                           !.accept = "none", !.closed = FALSE, !.broken = FALSE, !.runs = s.runs + 1]
      BY <1>2 DEF W!Begin
    <2>3. RunFields'
      <3>1. 1 \in 1..20 /\ {} \in SUBSET W!HasCleanup
        OBVIOUS
      <3>2. QED
        BY <2>1, <2>2, <3>1 DEF RunInv, RunFields
    <2>4. /\ SameThings /\ s'.step = 1 /\ s'.place = "setup" /\ s.pending = {}
      BY <2>2 DEF RunInv, RunFields, SameThings, Accounted
    <2>5. RunSteps' = RunSteps /\ Len(RunSteps) \in 1..19
      <3>1. StepsAreSo(s.mode, RunSteps)
        BY StepsInOrder DEF RunInv, RunFields, RunSteps
      <3>2. QED
        BY <2>4, <3>1 DEF SameThings, RunSteps, StepsAreSo
    <2>6. Done' = {}
      <3>1. 1..(1 - 1) = {}
        OBVIOUS
      <3>2. QED
        BY <2>4, <3>1 DEF Done
    <2>7. 1 \in 1..Len(RunSteps)
      BY <2>5, FirstStep
    <2>8. UpSoFar'
      BY <2>4, <2>5, <2>6, <2>7 DEF UpSoFar, GoingUp, SameThings
    <2>9. Accounted' /\ W!FailsForAReason'
      BY <2>4 DEF RunInv, Accounted, SameThings, W!FailsForAReason
    <2>10. QED
      BY <2>3, <2>8, <2>9 DEF RunInv
  <1>3. CASE W!Cancel
    <2>1. s' = [s EXCEPT !.cancelled = TRUE]
      BY <1>3 DEF W!Cancel
    <2>2. RunFields' /\ SameThings /\ s'.step = s.step /\ s'.place = s.place /\ s'.broken = s.broken
      BY <2>1 DEF RunInv, RunFields, SameThings
    <2>3. QED
      BY <2>2, StaysUpKeeps DEF RunInv
  <1>4. CASE W!SetupStep
    BY <1>4, SetupStepKeeps
  <1>5. CASE W!SetupFails
    <2>1. CASE W!Refused(W!Current) /\ s' = [s EXCEPT !.place = "report"]
      <3>1. s.failed \cap (W!Rules \cup {"tun"}) # {}
        BY <1>5, <2>1, RefusedForAReason DEF W!SetupFails
      <3>2. RunFields' /\ SameThings /\ s'.place = "report"
        BY <2>1 DEF RunInv, RunFields, SameThings
      <3>3. W!FailsForAReason'
        BY <3>1, <3>2 DEF W!FailsForAReason, SameThings
      <3>4. QED
        BY <3>2, <3>3, ElsewhereKeeps DEF RunInv
    <2>2. CASE /\ s.faults < MaxSystemFaults
               /\ s' = [s EXCEPT !.place = "report", !.broken = TRUE, !.faults = s.faults + 1]
      <3>1. RunFields' /\ SameThings /\ s'.place = "report" /\ s'.broken = TRUE
        BY <2>2, FaultsBounded DEF RunInv, RunFields, SameThings
      <3>2. W!FailsForAReason'
        BY <3>1 DEF W!FailsForAReason
      <3>3. QED
        BY <3>1, <3>2, ElsewhereKeeps DEF RunInv
    <2>3. QED
      BY <1>5, <2>1, <2>2 DEF W!SetupFails
  <1>6. CASE W!Reported
    <2>1. s.place = "report" /\ s' = [s EXCEPT !.place = "undo"]
      BY <1>6 DEF W!Reported
    <2>2. RunFields' /\ SameThings /\ s'.place = "undo" /\ s'.broken = s.broken
      BY <2>1 DEF RunInv, RunFields, SameThings
    <2>3. W!FailsForAReason'
      BY <2>1, <2>2 DEF RunInv, W!FailsForAReason, SameThings
    <2>4. QED
      BY <2>2, <2>3, ElsewhereKeeps DEF RunInv
  <1>7. CASE W!Ready
    <2>1. s.place = "ready" /\ s' = [s EXCEPT !.place = "wait"]
      BY <1>7 DEF W!Ready
    <2>2. RunFields' /\ SameThings /\ s'.step = s.step /\ s'.place = "wait" /\ s'.broken = s.broken
      BY <2>1 DEF RunInv, RunFields, SameThings
    <2>3. QED
      BY <2>1, <2>2, StaysUpKeeps DEF RunInv
  <1>8. CASE W!AcceptFails
    <2>1. \/ s' = [s EXCEPT !.accept = "send"]
          \/ /\ s.faults < MaxSystemFaults
             /\ s' = [s EXCEPT !.accept = "send", !.faults = s.faults + 1, !.broken = TRUE]
      BY <1>8 DEF W!AcceptFails
    <2>2. RunFields'
      <3>1. CASE s' = [s EXCEPT !.accept = "send"]
        BY <3>1 DEF RunInv, RunFields
      <3>2. CASE /\ s.faults < MaxSystemFaults
                 /\ s' = [s EXCEPT !.accept = "send", !.faults = s.faults + 1, !.broken = TRUE]
        BY <3>2, FaultsBounded DEF RunInv, RunFields
      <3>3. QED
        BY <2>1, <3>1, <3>2
    <2>3. SameThings /\ s'.step = s.step /\ s'.place = s.place /\ (s'.broken = s.broken \/ s'.broken = TRUE)
      BY <2>1 DEF RunInv, RunFields, SameThings
    <2>4. QED
      BY <2>2, <2>3, StaysUpKeeps DEF RunInv
  <1>9. CASE W!Wakes
    <2>1. \/ s' = [s EXCEPT !.place = "clean"]
          \/ s' = [s EXCEPT !.place = "clean", !.accept = "gone", !.closed = TRUE]
          \/ /\ s.faults < MaxSystemFaults
             /\ s' = [s EXCEPT !.place = "clean", !.faults = s.faults + 1, !.broken = TRUE]
      BY <1>9 DEF W!Wakes
    <2>2. RunFields'
      <3>1. CASE s' = [s EXCEPT !.place = "clean"]
        BY <3>1 DEF RunInv, RunFields
      <3>2. CASE s' = [s EXCEPT !.place = "clean", !.accept = "gone", !.closed = TRUE]
        BY <3>2 DEF RunInv, RunFields
      <3>3. CASE /\ s.faults < MaxSystemFaults
                 /\ s' = [s EXCEPT !.place = "clean", !.faults = s.faults + 1, !.broken = TRUE]
        BY <3>3, FaultsBounded DEF RunInv, RunFields
      <3>4. QED
        BY <2>1, <3>1, <3>2, <3>3
    <2>3. SameThings /\ s'.place = "clean"
      BY <2>1 DEF RunInv, RunFields, SameThings
    <2>4. W!FailsForAReason'
      BY <2>3 DEF W!FailsForAReason
    <2>5. QED
      BY <2>2, <2>3, <2>4, ElsewhereKeeps DEF RunInv
  <1>10. CASE W!CleanupStep
    BY <1>10, CleanupKeeps
  <1>11. CASE W!NothingToUndo
    <2>1. s.pending = {} /\ s' = [s EXCEPT !.place = "ended"]
      BY <1>11 DEF W!NothingToUndo
    <2>2. RunFields' /\ SameThings /\ s'.place = "ended"
      BY <2>1 DEF RunInv, RunFields, SameThings
    <2>3. W!FailsForAReason'
      BY <2>2 DEF W!FailsForAReason
    <2>4. QED
      BY <2>1, <2>2, <2>3, ElsewhereKeeps DEF RunInv
  <1>12. CASE W!Join
    <2>1. /\ s.place = "join"
          /\ s' = [s EXCEPT !.place = "ended"] \/ s' = [s EXCEPT !.place = "ended", !.accept = "gone"]
      BY <1>12 DEF W!Join
    <2>2. RunFields' /\ SameThings /\ s'.place = "ended" /\ s.pending = {}
      BY <2>1 DEF RunInv, RunFields, SameThings, Accounted
    <2>3. W!FailsForAReason'
      BY <2>2 DEF W!FailsForAReason
    <2>4. QED
      BY <2>2, <2>3, ElsewhereKeeps DEF RunInv
  <1>13. QED
    BY <1>1, <1>2, <1>3, <1>4, <1>5, <1>6, <1>7, <1>8, <1>9, <1>10, <1>11, <1>12
    DEF W!WireguardNext, W!WireguardStep

\* Nothing is made at the start.
LEMMA InitRunInv == ASSUME W!WireguardConstants, W!WireguardInit PROVE RunInv
  <1>1. PICK mode \in W!Modes, ipv6 \in BOOLEAN :
           s = [mode |-> mode, ipv6 |-> ipv6, place |-> "idle", step |-> 1, have |-> {}, pending |-> {},
                failed |-> {}, cancelled |-> FALSE, accept |-> "none", closed |-> FALSE, broken |-> FALSE,
                runs |-> 0, faults |-> 0]
    BY DEF W!WireguardInit
  <1>2. 0 \in 0..MaxRuns /\ 0 \in 0..MaxSystemFaults /\ 1 \in 1..20
    BY DEF W!WireguardConstants
  <1>3. RunFields
    BY <1>1, <1>2 DEF RunFields
  <1>4. UpSoFar /\ Accounted /\ W!FailsForAReason
    BY <1>1 DEF UpSoFar, GoingUp, Accounted, W!FailsForAReason
  <1>5. QED
    BY <1>3, <1>4 DEF RunInv

\* What it says of a run.
LEMMA RunUndone ==
  ASSUME RunInv
  PROVE  W!WireguardTypeOK /\ W!NothingLeft /\ W!RulesAfterRoutes /\ W!FailsForAReason
  <1>1. W!NothingLeft
    BY DEF RunInv, Accounted, W!NothingLeft
  <1>2. W!RulesAfterRoutes
    BY DEF RunInv, Accounted, W!RulesAfterRoutes, W!Rules, W!WithLink
  <1>3. s.place \in {"ready", "wait"} => s.have \cap W!HasCleanup \subseteq s.pending \cup s.failed
    <2>1. SUFFICES ASSUME s.place \in {"ready", "wait"}
                   PROVE  "link" \in s.pending /\ "up" \in s.pending
      BY DEF RunInv, Accounted, W!WithLink, W!HasCleanup, W!Rules
    <2>2. StepsAreSo(s.mode, RunSteps)
      BY StepsInOrder DEF RunInv, RunFields, RunSteps
    <2>3. Len(RunSteps) \in 1..19
      BY <2>2 DEF StepsAreSo
    <2>4. s.step - 1 = Len(RunSteps)
      BY <2>1, <2>3, Bounded DEF RunInv, UpSoFar
    <2>5. "link" \in Done /\ "up" \in Done
      BY <2>2, <2>4 DEF StepsAreSo, Done
    <2>6. QED
      BY <2>1, <2>5 DEF RunInv, UpSoFar, GoingUp, W!HasCleanup
  <1>4. W!WireguardTypeOK
    BY <1>3 DEF RunInv, RunFields, W!WireguardTypeOK
  <1>5. QED
    BY <1>1, <1>2, <1>4 DEF RunInv

(***************************************************************************)
(* The health checker.                                                     *)
(***************************************************************************)

(* What is true of the goroutines of the tunnels whether or not they overlap:  *)
(* a tunnel to come has none, the one that collects begins when the other has *)
(* ended, and the one that starts the checker left a run to be stopped.       *)
HealthTunnels ==
    /\ \A t \in H!Tunnels :
          t > s.tunnel => s.up[t] = "none" /\ s.collector[t] = "none" /\ s.checker[t] = "none"
    /\ \A t \in H!Tunnels : s.up[t] # "done" => s.collector[t] = "none"
    /\ \A t \in H!Tunnels :
          s.up[t] = "report" \/ s.collector[t] \in {"watch", "stop", "join"} => s.current \in H!Tunnels

\* A goroutine that is about to restart the VPN has seen its check fail.
HealthReasons ==
    /\ s.failed # {} => s.restartVPN
    /\ \A t \in H!Tunnels : s.up[t] = "restart" \/ s.collector[t] = "restart" => t \in s.failed
    /\ s.restarted \subseteq s.failed

\* The goroutine of t that collects has still to stop the checker.
Collects(t) == s.collector[t] \in {"watch", "stop", "join"}

(* While no tunnel overlapped another, only the goroutines of the last one use  *)
(* the checker, which runs for them between Start and the end of Stop, with   *)
(* the configuration and the type of check they set.                        *)
HealthAlone ==
    ~s.overlapped =>
        /\ ~s.panicked
        /\ \A t \in H!Tunnels : H!Busy(t) => t = s.tunnel
        /\ \A t \in H!Tunnels : H!Running(t) => s.up[t] = "report" \/ Collects(t)
        /\ \A t \in H!Tunnels : s.up[t] = "report" \/ Collects(t) => s.current = t
        /\ \A t \in H!Tunnels : s.collector[t] = "join" => s.joins[t] = t
        /\ \A t \in H!Tunnels :
              s.up[t] \in {"start", "startup", "launch", "report"} \/ Collects(t) => s.configured
        /\ \A t \in H!Tunnels :
              (s.up[t] \in {"startup", "launch", "report"} \/ H!Running(t)) /\ s.notPermitted
              => s.smallCheck = "dns"

HealthInv == H!HealthTypeOK /\ HealthTunnels /\ HealthReasons /\ HealthAlone

\* The numbers of the tunnels.
LEMMA HealthNumbers ==
  ASSUME H!HealthConstants
  PROVE  /\ H!Tunnels \subseteq 0..MaxTunnels
         /\ \A t \in 0..MaxTunnels : t \in Nat
         /\ \A t \in 0..MaxTunnels : t < MaxTunnels => t + 1 \in H!Tunnels
         /\ \A t \in H!Tunnels : t > 0
         /\ 0 \in 0..MaxTunnels
  BY DEF H!HealthConstants, H!Tunnels

\* The places of the goroutines and the results of a check.
LEMMA HealthPlaces ==
  /\ {"none", "config", "start", "startup", "launch", "report", "restart", "done"} \subseteq H!UpPlaces
  /\ {"none", "watch", "stop", "join", "restart", "done"} \subseteq H!CollectorPlaces
  /\ {"none", "ok", "bad"} \subseteq H!Results
  BY DEF H!UpPlaces, H!CollectorPlaces, H!Results

\* No goroutine runs at the start.
LEMMA InitHealthInv == ASSUME H!HealthConstants, H!HealthInit PROVE HealthInv
  <1>0. SUFFICES ASSUME NEW restart \in BOOLEAN,
                        s = [tunnel |-> 0, live |-> 0, up |-> [t \in H!Tunnels |-> "none"],
                             collector |-> [t \in H!Tunnels |-> "none"],
                             checker |-> [t \in H!Tunnels |-> "none"], cancelled |-> {},
                             buffer |-> [t \in H!Tunnels |-> "none"],
                             result |-> [t \in H!Tunnels |-> "none"], current |-> 0,
                             joins |-> [t \in H!Tunnels |-> 0], configured |-> FALSE,
                             smallCheck |-> "icmp", notPermitted |-> FALSE, server |-> "not run",
                             restartVPN |-> restart, failed |-> {}, restarted |-> {},
                             overlapped |-> FALSE, panicked |-> FALSE, checks |-> 0]
                 PROVE  HealthInv
    BY DEF H!HealthInit
  <1>1. H!HealthTypeOK
    <2>1. 0 \in 0..MaxChecks
      BY DEF H!HealthConstants
    <2>2. QED
      BY <1>0, <2>1, HealthNumbers, HealthPlaces DEF H!HealthTypeOK
  <1>2. /\ s.up = [t \in H!Tunnels |-> "none"] /\ s.collector = [t \in H!Tunnels |-> "none"]
        /\ s.checker = [t \in H!Tunnels |-> "none"] /\ s.failed = {} /\ s.restarted = {}
        /\ ~s.panicked
    BY <1>0
  <1>3. HealthTunnels /\ HealthReasons /\ HealthAlone
    BY <1>2 DEF HealthTunnels, HealthReasons, HealthAlone, H!Busy, H!Running, Collects
  <1>4. QED
    BY <1>1, <1>3 DEF HealthInv

(* What a step leaves alone: the tunnels there are, the configuration of the     *)
(* checker, why it is to restart, the run it is at, and where the goroutines are. *)
SameTunnels == s'.tunnel = s.tunnel /\ s'.overlapped = s.overlapped /\ s'.panicked = s.panicked
SameConfig == s'.configured = s.configured /\ s'.notPermitted = s.notPermitted /\ s'.smallCheck = s.smallCheck
SameReasons == s'.failed = s.failed /\ s'.restarted = s.restarted /\ s'.restartVPN = s.restartVPN
SameRun == s'.current = s.current /\ s'.joins = s.joins
SamePlaces == s'.up = s.up /\ s'.collector = s.collector /\ s'.checker = s.checker

\* The fields that are functions of the tunnels are defined on them.
HealthDomains ==
    /\ DOMAIN s.up = H!Tunnels /\ DOMAIN s.collector = H!Tunnels /\ DOMAIN s.checker = H!Tunnels
    /\ DOMAIN s.joins = H!Tunnels /\ DOMAIN s.buffer = H!Tunnels /\ DOMAIN s.result = H!Tunnels

\* Every step of the tunnels, their goroutines and the checker keeps the invariant.
LEMMA NextHealthInv == ASSUME H!HealthConstants, HealthInv, [H!HealthNext]_s PROVE HealthInv'
  <1>1. HealthDomains /\ H!HealthTypeOK
    BY DEF HealthInv, H!HealthTypeOK, HealthDomains
  <1>2. CASE UNCHANGED s
    BY ZenonT(60), <1>2 DEF HealthInv, H!HealthTypeOK, HealthTunnels, HealthReasons, HealthAlone, Collects,
       H!Busy,
       H!Running
  <1> USE <1>1
  <1>3. CASE H!TunnelUp
    <2>1. s.tunnel + 1 \in H!Tunnels
      BY <1>3, HealthNumbers DEF H!TunnelUp, H!HealthTypeOK
    <2>2. s' = [s EXCEPT !.tunnel = s.tunnel + 1, !.live = s.tunnel + 1, !.up[s.tunnel + 1] = "config",
                         !.overlapped = s.overlapped \/ \E older \in H!Tunnels : H!Busy(older)]
      BY <1>3 DEF H!TunnelUp
    <2>3. QED
      <3>1. H!HealthTypeOK'
        BY <2>1, <2>2, HealthNumbers, HealthPlaces DEF H!HealthTypeOK
      <3>2. /\ s'.tunnel = s.tunnel + 1
            /\ s'.up = [s.up EXCEPT ![s.tunnel + 1] = "config"]
            /\ s'.overlapped = (s.overlapped \/ \E older \in H!Tunnels : H!Busy(older))
            /\ s'.panicked = s.panicked /\ SameConfig /\ SameReasons /\ SameRun
            /\ s'.collector = s.collector /\ s'.checker = s.checker
        BY <2>1, <2>2, HealthNumbers DEF H!HealthTypeOK, SameConfig, SameReasons, SameRun
      <3>3. s.tunnel \in Nat /\ \A t \in H!Tunnels : t \in Nat
        BY HealthNumbers DEF H!HealthTypeOK
      <3>4. HealthTunnels' /\ HealthReasons'
        <4>1. HealthTunnels'
          BY <2>1, <3>2, <3>3 DEF HealthInv, HealthTunnels, HealthDomains, SameRun
        <4>2. HealthReasons'
          BY <2>1, <3>2 DEF HealthInv, HealthReasons, HealthDomains, SameReasons
        <4>3. QED
          BY <4>1, <4>2
      <3>5. HealthAlone'
        <4>1. SUFFICES ASSUME ~s'.overlapped PROVE HealthAlone'
          BY DEF HealthAlone
        <4>2. ~s.overlapped /\ \A t \in H!Tunnels : ~H!Busy(t)
          BY <3>2, <4>1
        <4>3. \A t \in H!Tunnels : ~H!Running(t) /\ ~Collects(t) /\ s.up[t] \in {"none", "restart", "done"}
          BY <4>2 DEF HealthInv, HealthAlone, H!Busy, H!Running, Collects
        <4>4. \A t \in H!Tunnels : ~H!Running(t)' /\ ~Collects(t)'
          BY <3>2, <4>3 DEF H!Running, Collects
        <4>5. QED
          BY <2>1, <3>2, <4>2, <4>3, <4>4 DEF HealthInv, HealthAlone, H!Busy, Collects,
             HealthDomains, SameConfig
      <3>6. QED
        BY <3>1, <3>4, <3>5 DEF HealthInv
  <1>4. CASE H!TunnelDown
    <2>1. s' = [s EXCEPT !.live = 0]
      BY <1>4 DEF H!TunnelDown
    <2>2. QED
      <3>1. H!HealthTypeOK'
        BY <2>1, HealthPlaces, HealthNumbers DEF H!HealthTypeOK
      <3>2. /\ SameTunnels /\ SameConfig /\ SameReasons /\ SameRun /\ SamePlaces
        BY <2>1 DEF H!HealthTypeOK, SameTunnels, SameConfig, SameReasons, SameRun, SamePlaces
      <3>3. QED
        BY <2>1, <3>1, <3>2 DEF HealthInv, HealthTunnels, HealthReasons, HealthAlone, Collects,
           H!Busy, H!Running, HealthDomains, SameTunnels, SameConfig, SameReasons, SameRun, SamePlaces
  <1>5. ASSUME NEW t \in H!Tunnels, H!UpStep(t) PROVE HealthInv'
    <2>1. CASE H!SetConfig(t)
      <3>1. /\ s.up[t] = "config"
            /\ s' = [s EXCEPT !.up[t] = "start", !.configured = TRUE, !.smallCheck = "icmp"]
        BY <2>1 DEF H!SetConfig
      <3>2. QED
        <4>1. H!HealthTypeOK'
          BY <3>1, HealthPlaces DEF H!HealthTypeOK
        <4>2. /\ s'.up = [s.up EXCEPT ![t] = "start"] /\ s'.configured = TRUE
              /\ s'.smallCheck = "icmp" /\ SameTunnels /\ s'.notPermitted = s.notPermitted
              /\ SameReasons /\ SameRun /\ s'.collector = s.collector
              /\ s'.checker = s.checker
          BY <3>1 DEF H!HealthTypeOK, SameTunnels, SameReasons, SameRun
        <4>3. QED
          BY <3>1, <4>1, <4>2 DEF HealthInv, HealthTunnels, HealthReasons, HealthAlone, Collects,
             H!Busy, H!Running, HealthDomains, SameTunnels, SameReasons, SameRun
    <2>2. CASE H!StartCheck(t)
      <3>1. CASE /\ s.up[t] = "start" /\ ~s.configured
                 /\ s' = [s EXCEPT !.panicked = TRUE]
        <4>1. H!HealthTypeOK'
          BY <3>1, HealthPlaces DEF H!HealthTypeOK
        <4>2. /\ s'.panicked = TRUE /\ s'.tunnel = s.tunnel /\ s'.overlapped = s.overlapped
              /\ SameConfig /\ SameReasons /\ SameRun /\ SamePlaces
          BY <3>1 DEF H!HealthTypeOK, SameConfig, SameReasons, SameRun, SamePlaces
        <4>3. QED
          BY <3>1, <4>1, <4>2 DEF HealthInv, HealthTunnels, HealthReasons, HealthAlone, Collects,
             H!Busy, H!Running, HealthDomains, SameConfig, SameReasons, SameRun, SamePlaces
      <3>2. CASE /\ s.up[t] = "start" /\ s.configured /\ s.notPermitted
                 /\ s' = [s EXCEPT !.up[t] = "startup", !.smallCheck = "dns"]
        <4>1. H!HealthTypeOK'
          BY <3>2, HealthPlaces DEF H!HealthTypeOK
        <4>2. /\ s'.up = [s.up EXCEPT ![t] = "startup"] /\ s'.smallCheck = "dns"
              /\ SameTunnels /\ s'.configured = s.configured
              /\ s'.notPermitted = s.notPermitted /\ SameReasons /\ SameRun
              /\ s'.collector = s.collector /\ s'.checker = s.checker
          BY <3>2 DEF H!HealthTypeOK, SameTunnels, SameReasons, SameRun
        <4>3. QED
          BY <3>2, <4>1, <4>2 DEF HealthInv, HealthTunnels, HealthReasons, HealthAlone, Collects,
             H!Busy, H!Running, HealthDomains, SameTunnels, SameReasons, SameRun
      <3>3. CASE /\ s.up[t] = "start" /\ s.configured /\ ~s.notPermitted
                 /\ s' = [s EXCEPT !.up[t] = "startup", !.smallCheck = s.smallCheck]
        <4>1. H!HealthTypeOK'
          BY <3>3, HealthPlaces DEF H!HealthTypeOK
        <4>2. /\ s'.up = [s.up EXCEPT ![t] = "startup"] /\ s'.smallCheck = s.smallCheck
              /\ SameTunnels /\ s'.configured = s.configured
              /\ s'.notPermitted = s.notPermitted /\ SameReasons /\ SameRun
              /\ s'.collector = s.collector /\ s'.checker = s.checker
          BY <3>3 DEF H!HealthTypeOK, SameTunnels, SameReasons, SameRun
        <4>3. QED
          BY <3>3, <4>1, <4>2 DEF HealthInv, HealthTunnels, HealthReasons, HealthAlone, Collects,
             H!Busy, H!Running, HealthDomains, SameTunnels, SameReasons, SameRun
      <3>4. QED
        BY <2>2, <3>1, <3>2, <3>3 DEF H!StartCheck, H!Panics, H!HealthTypeOK, H!Results
    <2>3. CASE H!Startup(t)
      <3>1. CASE /\ s.up[t] = "startup"
                 /\ s' = [s EXCEPT !.up[t] = "launch"]
        <4>1. H!HealthTypeOK'
          BY <3>1, HealthPlaces DEF H!HealthTypeOK
        <4>2. /\ s'.up = [s.up EXCEPT ![t] = "launch"] /\ SameTunnels /\ SameConfig
              /\ SameReasons /\ SameRun /\ s'.collector = s.collector
              /\ s'.checker = s.checker
          BY <3>1 DEF H!HealthTypeOK, SameTunnels, SameConfig, SameReasons, SameRun
        <4>3. QED
          BY <3>1, <4>1, <4>2 DEF HealthInv, HealthTunnels, HealthReasons, HealthAlone, Collects,
             H!Busy, H!Running, HealthDomains, SameTunnels, SameConfig, SameReasons, SameRun
      <3>2. CASE /\ s.up[t] = "startup" /\ s.restartVPN
                 /\ s' = [s EXCEPT !.up[t] = "restart", !.server = "bad", !.failed = s.failed \cup {t}]
        <4>1. H!HealthTypeOK'
          BY <3>2, HealthPlaces DEF H!HealthTypeOK
        <4>2. /\ s'.up = [s.up EXCEPT ![t] = "restart"] /\ s'.failed = s.failed \cup {t}
              /\ SameTunnels /\ SameConfig /\ s'.restarted = s.restarted
              /\ s'.restartVPN = s.restartVPN /\ SameRun /\ s'.collector = s.collector
              /\ s'.checker = s.checker
          BY <3>2 DEF H!HealthTypeOK, SameTunnels, SameConfig, SameRun
        <4>3. QED
          BY <3>2, <4>1, <4>2 DEF HealthInv, HealthTunnels, HealthReasons, HealthAlone, Collects,
             H!Busy, H!Running, HealthDomains, SameTunnels, SameConfig, SameRun
      <3>3. CASE /\ s.up[t] = "startup"
                 /\ s' = [s EXCEPT !.up[t] = "launch", !.buffer[t] = "bad"]
        <4>1. H!HealthTypeOK'
          BY <3>3, HealthPlaces DEF H!HealthTypeOK
        <4>2. /\ s'.up = [s.up EXCEPT ![t] = "launch"] /\ SameTunnels /\ SameConfig
              /\ SameReasons /\ SameRun /\ s'.collector = s.collector
              /\ s'.checker = s.checker
          BY <3>3 DEF H!HealthTypeOK, SameTunnels, SameConfig, SameReasons, SameRun
        <4>3. QED
          BY <3>3, <4>1, <4>2 DEF HealthInv, HealthTunnels, HealthReasons, HealthAlone, Collects,
             H!Busy, H!Running, HealthDomains, SameTunnels, SameConfig, SameReasons, SameRun
      <3>4. QED
        BY <2>3, <3>1, <3>2, <3>3 DEF H!Startup, H!HealthTypeOK, H!Results
    <2>4. CASE H!Launch(t)
      <3>1. /\ s.up[t] = "launch"
            /\ s' = [s EXCEPT !.up[t] = "report", !.checker[t] = "wait", !.current = t]
        BY <2>4 DEF H!Launch
      <3>2. QED
        <4>1. H!HealthTypeOK'
          BY <3>1, HealthPlaces, HealthNumbers DEF H!HealthTypeOK
        <4>2. /\ s'.up = [s.up EXCEPT ![t] = "report"]
              /\ s'.checker = [s.checker EXCEPT ![t] = "wait"] /\ s'.current = t
              /\ SameTunnels /\ SameConfig /\ SameReasons /\ s'.joins = s.joins
              /\ s'.collector = s.collector
          BY <3>1 DEF H!HealthTypeOK, SameTunnels, SameConfig, SameReasons
        <4>3. QED
          BY <3>1, <4>1, <4>2 DEF HealthInv, HealthTunnels, HealthReasons, HealthAlone, Collects,
             H!Busy, H!Running, HealthDomains, SameTunnels, SameConfig, SameReasons
    <2>5. CASE H!Report(t)
      <3>1. /\ s.up[t] = "report"
            /\ s' = [s EXCEPT !.up[t] = "done", !.server = "ok", !.collector[t] = "watch"]
        BY <2>5 DEF H!Report
      <3>2. QED
        <4>1. H!HealthTypeOK'
          BY <3>1, HealthPlaces DEF H!HealthTypeOK
        <4>2. /\ s'.up = [s.up EXCEPT ![t] = "done"]
              /\ s'.collector = [s.collector EXCEPT ![t] = "watch"] /\ SameTunnels
              /\ SameConfig /\ SameReasons /\ SameRun /\ s'.checker = s.checker
          BY <3>1 DEF H!HealthTypeOK, SameTunnels, SameConfig, SameReasons, SameRun
        <4>3. QED
          BY <3>1, <4>1, <4>2 DEF HealthInv, HealthTunnels, HealthReasons, HealthAlone, Collects,
             H!Busy, H!Running, HealthDomains, SameTunnels, SameConfig, SameReasons, SameRun
    <2>6. CASE H!RestartVPN(t)
      <3>1. CASE /\ s.up[t] = "restart"
                 /\ s' = [s EXCEPT !.up[t] = "done", !.live = 0, !.restarted = s.restarted \cup {t}]
        <4>1. H!HealthTypeOK'
          BY <3>1, HealthPlaces, HealthNumbers DEF H!HealthTypeOK
        <4>2. /\ s'.up = [s.up EXCEPT ![t] = "done"] /\ s'.restarted = s.restarted \cup {t}
              /\ SameTunnels /\ SameConfig /\ s'.failed = s.failed
              /\ s'.restartVPN = s.restartVPN /\ SameRun /\ s'.collector = s.collector
              /\ s'.checker = s.checker
          BY <3>1 DEF H!HealthTypeOK, SameTunnels, SameConfig, SameRun
        <4>3. QED
          BY <3>1, <4>1, <4>2 DEF HealthInv, HealthTunnels, HealthReasons, HealthAlone, Collects,
             H!Busy, H!Running, HealthDomains, SameTunnels, SameConfig, SameRun
      <3>2. CASE /\ s.collector[t] = "restart"
                 /\ s' = [s EXCEPT !.collector[t] = "done", !.live = 0, !.restarted = s.restarted \cup {t}]
        <4>1. H!HealthTypeOK'
          BY ZenonT(60), <3>2, HealthPlaces, HealthNumbers DEF H!HealthTypeOK
        <4>2. /\ s'.collector = [s.collector EXCEPT ![t] = "done"]
              /\ s'.restarted = s.restarted \cup {t} /\ SameTunnels /\ SameConfig
              /\ s'.failed = s.failed /\ s'.restartVPN = s.restartVPN /\ SameRun
              /\ s'.up = s.up /\ s'.checker = s.checker
          BY <3>2 DEF H!HealthTypeOK, SameTunnels, SameConfig, SameRun
        <4>3. QED
          BY <3>2, <4>1, <4>2 DEF HealthInv, HealthTunnels, HealthReasons, HealthAlone, Collects,
             H!Busy, H!Running, HealthDomains, SameTunnels, SameConfig, SameRun
      <3>3. QED
        BY <2>6, <3>1, <3>2 DEF H!RestartVPN, H!HealthTypeOK, H!Results
    <2>7. QED
      BY <1>5, <2>1, <2>2, <2>3, <2>4, <2>5, <2>6 DEF H!UpStep
  <1>6. ASSUME NEW t \in H!Tunnels, H!CheckBegins(t) PROVE HealthInv'
    <2>1. CASE s.checker[t] = "wait" /\ ~s.configured /\ s' = [s EXCEPT !.panicked = TRUE]
      <3>1. H!HealthTypeOK'
        BY <2>1, HealthPlaces DEF H!HealthTypeOK
      <3>2. /\ s'.panicked = TRUE /\ s'.tunnel = s.tunnel /\ s'.overlapped = s.overlapped
            /\ SameConfig /\ SameReasons /\ SameRun /\ SamePlaces
        BY <2>1 DEF H!HealthTypeOK, SameConfig, SameReasons, SameRun, SamePlaces
      <3>3. QED
        BY <2>1, <3>1, <3>2 DEF HealthInv, HealthTunnels, HealthReasons, HealthAlone, Collects,
           H!Busy, H!Running, HealthDomains, SameConfig, SameReasons, SameRun, SamePlaces
    <2>2. CASE /\ s.checker[t] = "wait" /\ s.configured /\ s.checks < MaxChecks
               /\ s' = [s EXCEPT !.checker[t] = "check", !.checks = s.checks + 1]
      <3> s.checks + 1 \in 0..MaxChecks
        <4>1. s.checks \in 0..MaxChecks
          BY DEF H!HealthTypeOK
        <4>2. QED
          BY <2>2, <4>1 DEF H!HealthConstants
      <3>1. H!HealthTypeOK'
        BY <2>2, HealthPlaces DEF H!HealthTypeOK
      <3>2. /\ s'.checker = [s.checker EXCEPT ![t] = "check"] /\ SameTunnels
            /\ SameConfig /\ SameReasons /\ SameRun /\ s'.up = s.up
            /\ s'.collector = s.collector
        BY <2>2 DEF H!HealthTypeOK, SameTunnels, SameConfig, SameReasons, SameRun
      <3>3. QED
        BY <2>2, <3>1, <3>2 DEF HealthInv, HealthTunnels, HealthReasons, HealthAlone, Collects,
           H!Busy, H!Running, HealthDomains, SameTunnels, SameConfig, SameReasons, SameRun
    <2>3. QED
      BY <1>6, <2>1, <2>2 DEF H!CheckBegins, H!Panics
  <1>7. ASSUME NEW t \in H!Tunnels, H!CheckerStep(t) PROVE HealthInv'
    <2>1. CASE H!CheckEnds(t)
      <3>1. PICK r \in {"ok", "bad"}, denied \in BOOLEAN :
               /\ s.checker[t] = "check" /\ (denied => s.smallCheck = "icmp" /\ ~s.notPermitted)
               /\ s' = [s EXCEPT !.checker[t] = "report", !.result[t] = r,
                                !.notPermitted = @ \/ denied, !.smallCheck = IF denied THEN "dns" ELSE @]
        BY <2>1 DEF H!CheckEnds
      <3>2. CASE /\ s.checker[t] = "check" /\ r \in H!Results /\ denied
                 /\ s' = [s EXCEPT !.checker[t] = "report", !.result[t] = r, !.notPermitted = TRUE,
                                   !.smallCheck = "dns"]
        <4>1. H!HealthTypeOK'
          BY <3>2, HealthPlaces DEF H!HealthTypeOK
        <4>2. /\ s'.checker = [s.checker EXCEPT ![t] = "report"] /\ s'.notPermitted = TRUE
              /\ s'.smallCheck = "dns" /\ SameTunnels /\ s'.configured = s.configured
              /\ SameReasons /\ SameRun /\ s'.up = s.up /\ s'.collector = s.collector
          BY <3>2 DEF H!HealthTypeOK, SameTunnels, SameReasons, SameRun
        <4>3. QED
          BY <3>2, <4>1, <4>2 DEF HealthInv, HealthTunnels, HealthReasons, HealthAlone, Collects,
             H!Busy, H!Running, HealthDomains, SameTunnels, SameReasons, SameRun
      <3>3. CASE /\ s.checker[t] = "check" /\ r \in H!Results /\ ~denied
                 /\ s' = [s EXCEPT !.checker[t] = "report", !.result[t] = r,
                                   !.notPermitted = s.notPermitted, !.smallCheck = s.smallCheck]
        <4>1. H!HealthTypeOK'
          BY <3>3, HealthPlaces DEF H!HealthTypeOK
        <4>2. /\ s'.checker = [s.checker EXCEPT ![t] = "report"]
              /\ s'.notPermitted = s.notPermitted /\ s'.smallCheck = s.smallCheck
              /\ SameTunnels /\ s'.configured = s.configured /\ SameReasons /\ SameRun
              /\ s'.up = s.up /\ s'.collector = s.collector
          BY <3>3 DEF H!HealthTypeOK, SameTunnels, SameReasons, SameRun
        <4>3. QED
          BY <3>3, <4>1, <4>2 DEF HealthInv, HealthTunnels, HealthReasons, HealthAlone, Collects,
             H!Busy, H!Running, HealthDomains, SameTunnels, SameReasons, SameRun
      <3>4. s.notPermitted \in BOOLEAN
        BY DEF H!HealthTypeOK
      <3>5. QED
        BY <3>1, <3>2, <3>3, <3>4, HealthPlaces
    <2>2. CASE H!CheckReports(t)
      <3>1. CASE /\ s.checker[t] = "report"
                 /\ s' = [s EXCEPT !.checker[t] = "wait"]
        <4>1. H!HealthTypeOK'
          BY <3>1, HealthPlaces DEF H!HealthTypeOK
        <4>2. /\ s'.checker = [s.checker EXCEPT ![t] = "wait"] /\ SameTunnels /\ SameConfig
              /\ SameReasons /\ SameRun /\ s'.up = s.up /\ s'.collector = s.collector
          BY <3>1 DEF H!HealthTypeOK, SameTunnels, SameConfig, SameReasons, SameRun
        <4>3. QED
          BY <3>1, <4>1, <4>2 DEF HealthInv, HealthTunnels, HealthReasons, HealthAlone, Collects,
             H!Busy, H!Running, HealthDomains, SameTunnels, SameConfig, SameReasons, SameRun
      <3>2. CASE /\ s.checker[t] = "report"
                 /\ s' = [s EXCEPT !.checker[t] = "wait", !.buffer[t] = s.result[t]]
        <4>1. H!HealthTypeOK'
          BY <3>2, HealthPlaces DEF H!HealthTypeOK
        <4>2. /\ s'.checker = [s.checker EXCEPT ![t] = "wait"] /\ SameTunnels /\ SameConfig
              /\ SameReasons /\ SameRun /\ s'.up = s.up /\ s'.collector = s.collector
          BY <3>2 DEF H!HealthTypeOK, SameTunnels, SameConfig, SameReasons, SameRun
        <4>3. QED
          BY <3>2, <4>1, <4>2 DEF HealthInv, HealthTunnels, HealthReasons, HealthAlone, Collects,
             H!Busy, H!Running, HealthDomains, SameTunnels, SameConfig, SameReasons, SameRun
      <3>3. QED
        BY <2>2, <3>1, <3>2 DEF H!CheckReports, H!HealthTypeOK, H!Results
    <2>3. CASE H!CheckerQuits(t)
      <3>1. /\ s.checker[t] = "wait"
            /\ s' = [s EXCEPT !.checker[t] = "done"]
        BY <2>3 DEF H!CheckerQuits
      <3>2. QED
        <4>1. H!HealthTypeOK'
          BY <3>1, HealthPlaces DEF H!HealthTypeOK
        <4>2. /\ s'.checker = [s.checker EXCEPT ![t] = "done"] /\ SameTunnels /\ SameConfig
              /\ SameReasons /\ SameRun /\ s'.up = s.up /\ s'.collector = s.collector
          BY <3>1 DEF H!HealthTypeOK, SameTunnels, SameConfig, SameReasons, SameRun
        <4>3. QED
          BY <3>1, <4>1, <4>2 DEF HealthInv, HealthTunnels, HealthReasons, HealthAlone, Collects,
             H!Busy, H!Running, HealthDomains, SameTunnels, SameConfig, SameReasons, SameRun
    <2>4. QED
      BY <1>7, <2>1, <2>2, <2>3 DEF H!CheckerStep
  <1>8. ASSUME NEW t \in H!Tunnels, H!CollectorStep(t) PROVE HealthInv'
    <2>1. CASE H!Collect(t)
      <3>1. CASE /\ s.collector[t] = "watch"
                 /\ s' = [s EXCEPT !.collector[t] = "stop"]
        <4>1. H!HealthTypeOK'
          BY <3>1, HealthPlaces DEF H!HealthTypeOK
        <4>2. /\ s'.collector = [s.collector EXCEPT ![t] = "stop"] /\ SameTunnels
              /\ SameConfig /\ SameReasons /\ SameRun /\ s'.up = s.up
              /\ s'.checker = s.checker
          BY <3>1 DEF H!HealthTypeOK, SameTunnels, SameConfig, SameReasons, SameRun
        <4>3. QED
          BY <3>1, <4>1, <4>2 DEF HealthInv, HealthTunnels, HealthReasons, HealthAlone, Collects,
             H!Busy, H!Running, HealthDomains, SameTunnels, SameConfig, SameReasons, SameRun
      <3>2. CASE /\ s.collector[t] = "watch" /\ s.restartVPN
                 /\ s' = [s EXCEPT !.buffer[t] = "none", !.server = "bad",
                                   !.failed = s.failed \cup {t}, !.collector[t] = "stop"]
        <4>1. H!HealthTypeOK'
          <5> DEFINE buffer == [s.buffer EXCEPT ![t] = "none"]
                     collector == [s.collector EXCEPT ![t] = "stop"]
                     failed == s.failed \cup {t}
          <5>1. /\ buffer \in [H!Tunnels -> H!Results] /\ failed \in SUBSET H!Tunnels
                /\ collector \in [H!Tunnels -> H!CollectorPlaces]
                /\ \A u \in H!Tunnels : collector[u] = "join" => s.collector[u] = "join"
            BY HealthPlaces DEF H!HealthTypeOK
          <5>2. s' = [s EXCEPT !.buffer = buffer, !.server = "bad", !.failed = failed, !.collector = collector]
            BY <3>2 DEF H!HealthTypeOK
          <5>3. QED
            <6> HIDE DEF buffer, collector, failed
            <6> QED
              BY <5>1, <5>2 DEF H!HealthTypeOK
        <4>2. /\ s'.failed = s.failed \cup {t}
              /\ s'.collector = [s.collector EXCEPT ![t] = "stop"] /\ SameTunnels
              /\ SameConfig /\ s'.restarted = s.restarted /\ s'.restartVPN = s.restartVPN
              /\ SameRun /\ s'.up = s.up /\ s'.checker = s.checker
          BY <3>2 DEF H!HealthTypeOK, SameTunnels, SameConfig, SameRun
        <4>3. QED
          BY <3>2, <4>1, <4>2 DEF HealthInv, HealthTunnels, HealthReasons, HealthAlone, Collects,
             H!Busy, H!Running, HealthDomains, SameTunnels, SameConfig, SameRun
      <3>3. CASE /\ s.collector[t] = "watch" /\ s.buffer[t] \in {"ok", "bad"}
                 /\ s' = [s EXCEPT !.buffer[t] = "none", !.server = s.buffer[t],
                                   !.failed = s.failed, !.collector[t] = "watch"]
        <4>1. H!HealthTypeOK'
          BY ZenonT(60), <3>3, HealthPlaces DEF H!HealthTypeOK
        <4>2. /\ s'.failed = s.failed /\ s'.collector = [s.collector EXCEPT ![t] = "watch"]
              /\ SameTunnels /\ SameConfig /\ s'.restarted = s.restarted
              /\ s'.restartVPN = s.restartVPN /\ SameRun /\ s'.up = s.up
              /\ s'.checker = s.checker
          BY <3>3 DEF H!HealthTypeOK, SameTunnels, SameConfig, SameRun
        <4>3. QED
          BY <3>3, <4>1, <4>2 DEF HealthInv, HealthTunnels, HealthReasons, HealthAlone, Collects,
             H!Busy, H!Running, HealthDomains, SameTunnels, SameConfig, SameRun
      <3>4. QED
        BY <2>1, <3>1, <3>2, <3>3 DEF H!Collect, H!HealthTypeOK, H!Results
    <2>2. CASE H!StopChecker(t)
      <3>1. /\ s.collector[t] = "stop" /\ s.current \in H!Tunnels
            /\ s' = [s EXCEPT !.cancelled = s.cancelled \cup {s.current}, !.joins[t] = s.current,
                              !.collector[t] = "join"]
        BY <2>2 DEF H!StopChecker, HealthInv, HealthTunnels
      <3>2. QED
        <4>1. H!HealthTypeOK'
          BY ZenonT(60), <3>1, HealthPlaces, HealthNumbers DEF H!HealthTypeOK
        <4>2. /\ s'.joins = [s.joins EXCEPT ![t] = s.current]
              /\ s'.collector = [s.collector EXCEPT ![t] = "join"] /\ SameTunnels
              /\ SameConfig /\ SameReasons /\ s'.current = s.current /\ s'.up = s.up
              /\ s'.checker = s.checker
          BY <3>1 DEF H!HealthTypeOK, SameTunnels, SameConfig, SameReasons
        <4>3. QED
          BY <3>1, <4>1, <4>2 DEF HealthInv, HealthTunnels, HealthReasons, HealthAlone, Collects,
             H!Busy, H!Running, HealthDomains, SameTunnels, SameConfig, SameReasons
    <2>3. CASE H!Stopped(t)
      <3>1. CASE /\ s.collector[t] = "join" /\ s.checker[s.joins[t]] = "done" /\ t \in s.failed
                 /\ s' = [s EXCEPT !.configured = FALSE, !.collector[t] = "restart"]
        <4>1. H!HealthTypeOK'
          BY <3>1, HealthPlaces DEF H!HealthTypeOK
        <4>2. /\ s'.configured = FALSE
              /\ s'.collector = [s.collector EXCEPT ![t] = "restart"] /\ SameTunnels
              /\ s'.notPermitted = s.notPermitted /\ s'.smallCheck = s.smallCheck
              /\ SameReasons /\ SameRun /\ s'.up = s.up /\ s'.checker = s.checker
          BY <3>1 DEF H!HealthTypeOK, SameTunnels, SameReasons, SameRun
        <4>3. QED
          BY <3>1, <4>1, <4>2 DEF HealthInv, HealthTunnels, HealthReasons, HealthAlone, Collects,
             H!Busy, H!Running, HealthDomains, SameTunnels, SameReasons, SameRun
      <3>2. CASE /\ s.collector[t] = "join" /\ s.checker[s.joins[t]] = "done"
                 /\ s' = [s EXCEPT !.configured = FALSE, !.collector[t] = "done"]
        <4>1. H!HealthTypeOK'
          BY <3>2, HealthPlaces DEF H!HealthTypeOK
        <4>2. /\ s'.configured = FALSE /\ s'.collector = [s.collector EXCEPT ![t] = "done"]
              /\ SameTunnels /\ s'.notPermitted = s.notPermitted
              /\ s'.smallCheck = s.smallCheck /\ SameReasons /\ SameRun /\ s'.up = s.up
              /\ s'.checker = s.checker
          BY <3>2 DEF H!HealthTypeOK, SameTunnels, SameReasons, SameRun
        <4>3. QED
          BY <3>2, <4>1, <4>2 DEF HealthInv, HealthTunnels, HealthReasons, HealthAlone, Collects,
             H!Busy, H!Running, HealthDomains, SameTunnels, SameReasons, SameRun
      <3>3. QED
        BY <2>3, <3>1, <3>2 DEF H!Stopped, H!HealthTypeOK, H!Results
    <2>4. QED
      BY <1>8, <2>1, <2>2, <2>3 DEF H!CollectorStep
  <1>9. QED
    BY <1>2, <1>3, <1>4, <1>5, <1>6, <1>7, <1>8 DEF H!HealthNext

\* What it says of the checker.
LEMMA CheckerAlone ==
  ASSUME HealthInv PROVE H!OneChecker /\ H!FallbackStays /\ H!RestartedForFailure
  <1>1. ASSUME NEW t \in H!Tunnels, H!Running(t), ~s.overlapped PROVE s.current = t
    BY <1>1 DEF HealthInv, HealthAlone
  <1>2. H!OneChecker
    BY <1>1 DEF HealthInv, HealthAlone, H!OneChecker
  <1>3. H!FallbackStays
    BY DEF HealthInv, HealthAlone, H!FallbackStays
  <1>4. H!RestartedForFailure
    BY DEF HealthInv, HealthReasons, H!RestartedForFailure
  <1>5. QED
    BY <1>2, <1>3, <1>4

(***************************************************************************)
(* The port forwarding of the providers.                                   *)
(***************************************************************************)

\* What PIA gives, and a port or none.
Data == [port : Externals \cup {F!None}, until : Nat]
Ports0 == Externals \cup {F!None}
ForwardPlaces ==
    {"idle", "read", "find", "refresh", "open", "encode", "bind", "start", "keep", "failed", "add", "again"}

\* The fields of the record and their types, for the provers.
ForwardersFields ==
    s \in [provider : {"pia", "protonvpn", "perfectprivacy", "privatevpn"}, at : ForwardPlaces,
           data : Data, expired : BOOLEAN, file : [is : {"missing", "torn", "json"}, of : Data],
           bound : SUBSET Externals, given : Data, now : 0..MaxClock, ports : [F!Internals -> Ports0],
           asking : [F!Internals -> Ports0], todo : SUBSET F!Mappings, refreshed : BOOLEAN,
           faults : 0..MaxFaults, gateway : [F!Mappings -> Ports0]]

\* The port that was given has not expired.
Holds == s.now < s.given.until

(* PIA: as long as the port that was given holds, the file has it, and whoever   *)
(* has read it since has it too; so none is asked for or written until it ends.  *)
(* What is bound was read from the file, or written there.                  *)
PIAKeeps ==
    s.provider = "pia" =>
        /\ s.file.is # "json" => s.file.of = F!NoData
        /\ s.given.until > 0 => s.given.port # F!None
        /\ Holds => s.file.is = "json" /\ s.file.of = s.given
        /\ s.at \in {"find", "bind", "start", "keep"} /\ Holds => s.data = s.given
        /\ s.at \in {"refresh", "open", "encode"} \/ (s.at = "find" /\ s.expired) => ~Holds
        /\ s.at \in {"open", "encode", "bind", "start", "keep"} \/ (s.at = "find" /\ ~s.expired) =>
              s.data.port \in Externals
        /\ s.at \in {"find", "bind", "start"} /\ s.file.is # "missing" =>
              s.file.is = "json" /\ s.file.of = s.data
        /\ s.at \in {"start", "keep"} => s.data.port \in s.bound

\* The gateway maps the mapping x to the port that was returned, or has forgotten it.
Same(x) == s.gateway[x] \in {s.ports[x[1]], F!None}

\* ProtonVPN: what has been asked for again is the same.
ProtonKeeps ==
    s.provider = "protonvpn" =>
        /\ s.at \in {"add", "again"} => ~s.refreshed
        /\ s.at = "again" => \A x \in F!Mappings \ s.todo : Same(x)
        /\ s.refreshed => \A x \in F!Mappings : Same(x)

PortsInv == ForwardersFields /\ PIAKeeps /\ ProtonKeeps

\* A port that is given is not 0, and the bounds are numbers.
LEMMA ForwardersNumbers ==
  ASSUME F!ForwardersConstants
  PROVE  /\ F!None \notin Externals /\ F!None = 0 /\ MaxFaults \in Nat /\ MaxClock \in Nat /\ Life \in Nat
         /\ F!NoData \in Data /\ F!NoData.port = 0 /\ F!NoData.until = 0
  BY DEF F!ForwardersConstants, F!None, F!NoData, Data

\* The places of PortForward and KeepPortForward.
LEMMA ForwardPlacesHere == /\ {"idle", "read", "find", "refresh", "open", "encode"} \subseteq ForwardPlaces
                           /\ {"bind", "start", "keep", "failed", "add", "again"} \subseteq ForwardPlaces
  BY DEF ForwardPlaces

(* What a step leaves alone: for PIA, the times and the port given, the file and  *)
(* what is bound; for ProtonVPN, the ports, the mappings and the gateway.        *)
SameTimes == s'.provider = s.provider /\ s'.now = s.now /\ s'.given = s.given
SameData == s'.data = s.data /\ s'.expired = s.expired
SameFile == s'.file = s.file
SameBound == s'.bound = s.bound
SameProton == s'.ports = s.ports /\ s'.gateway = s.gateway /\ s'.todo = s.todo /\ s'.refreshed = s.refreshed

\* A failure within the bound.
LEMMA FaultCounted ==
  ASSUME F!ForwardersConstants, PortsInv, s.faults < MaxFaults PROVE s.faults + 1 \in 0..MaxFaults
  <1>1. s.faults \in 0..MaxFaults
    BY DEF PortsInv, ForwardersFields
  <1>2. QED
    BY <1>1, ForwardersNumbers

\* The steps of PIA keep it.
LEMMA PIAStepKeeps == ASSUME F!ForwardersConstants, PortsInv, F!PIAStep PROVE PortsInv'
  <1>1. CASE F!Read
    <2>1. CASE /\ s.provider = "pia"
               /\ s' = [s EXCEPT !.at = "failed"]
      <3>1. ForwardersFields'
        BY <2>1, ForwardPlacesHere, ForwardersNumbers DEF PortsInv, ForwardersFields
      <3>2. /\ s'.at = "failed" /\ SameTimes /\ SameData /\ SameFile /\ SameBound
            /\ SameProton
        BY <2>1 DEF PortsInv, ForwardersFields, SameTimes, SameData, SameFile, SameBound, SameProton
      <3>3. PIAKeeps'
        BY <2>1, <3>2, ForwardersNumbers DEF PortsInv, ForwardersFields, PIAKeeps, Holds, Data,
           SameTimes, SameData, SameFile, SameBound, SameProton
      <3>4. ProtonKeeps'
        BY <2>1, <3>2, ForwardersNumbers DEF PortsInv, ForwardersFields, ProtonKeeps, Same,
           SameTimes, SameData, SameFile, SameBound, SameProton
      <3>5. QED
        BY <3>1, <3>3, <3>4 DEF PortsInv
    <2>2. CASE /\ s.provider = "pia" /\ s.file.is # "torn"
               /\ s' = [s EXCEPT !.at = "find", !.data = s.file.of, !.expired = F!Expired(s.file.of)]
      <3>0. s.file.of \in Data /\ F!Expired(s.file.of) \in BOOLEAN /\ s.now \in Nat
        BY ForwardersNumbers DEF F!Expired, PortsInv, ForwardersFields
      <3>1. ForwardersFields'
        BY <2>2, ForwardPlacesHere, ForwardersNumbers, <3>0 DEF PortsInv, ForwardersFields
      <3>2. /\ s'.at = "find" /\ s'.data = s.file.of /\ s'.expired = F!Expired(s.file.of)
            /\ SameTimes /\ SameFile /\ SameBound /\ SameProton
        BY <2>2 DEF PortsInv, ForwardersFields, SameTimes, SameFile, SameBound, SameProton
      <3>3. PIAKeeps'
        <4>1. ~F!Expired(s.file.of) => s.file.of.port \in Externals
          BY <3>0, ForwardersNumbers DEF F!Expired, Data
        <4>2. Holds => ~F!Expired(s.file.of)
          BY <2>2, <3>0, ForwardersNumbers DEF F!Expired, Data, Holds, PortsInv, PIAKeeps,
             ForwardersFields
        <4>3. s.file.is # "missing" => s.file.is = "json"
          BY <2>2 DEF PortsInv, ForwardersFields
        <4>4. Holds' <=> Holds
          BY <3>2 DEF Holds, SameTimes
        <4>5. QED
          BY <2>2, <3>2, <4>1, <4>2, <4>3, <4>4
          DEF PortsInv, PIAKeeps, SameTimes, SameFile, SameBound
      <3>4. ProtonKeeps'
        BY <2>2, <3>2, ForwardersNumbers DEF PortsInv, ForwardersFields, ProtonKeeps, Same,
           SameTimes, SameFile, SameBound, SameProton
      <3>5. QED
        BY <3>1, <3>3, <3>4 DEF PortsInv
    <2>3. QED
      BY <1>1, <2>1, <2>2 DEF F!Read, F!At, F!Goes
  <1>2. CASE F!FindAPIIP
    <2>1. CASE /\ s.provider = "pia" /\ s.at = "find" /\ s.expired
               /\ s' = [s EXCEPT !.at = "refresh"]
      <3>1. ForwardersFields'
        BY <2>1, ForwardPlacesHere, ForwardersNumbers DEF PortsInv, ForwardersFields
      <3>2. /\ s'.at = "refresh" /\ SameTimes /\ SameData /\ SameFile /\ SameBound
            /\ SameProton
        BY <2>1 DEF PortsInv, ForwardersFields, SameTimes, SameData, SameFile, SameBound, SameProton
      <3>3. PIAKeeps'
        BY <2>1, <3>2, ForwardersNumbers DEF PortsInv, ForwardersFields, PIAKeeps, Holds, Data,
           SameTimes, SameData, SameFile, SameBound, SameProton
      <3>4. ProtonKeeps'
        BY <2>1, <3>2, ForwardersNumbers DEF PortsInv, ForwardersFields, ProtonKeeps, Same,
           SameTimes, SameData, SameFile, SameBound, SameProton
      <3>5. QED
        BY <3>1, <3>3, <3>4 DEF PortsInv
    <2>2. CASE /\ s.provider = "pia" /\ s.at = "find" /\ ~s.expired
               /\ s' = [s EXCEPT !.at = "bind"]
      <3>1. ForwardersFields'
        BY <2>2, ForwardPlacesHere, ForwardersNumbers DEF PortsInv, ForwardersFields
      <3>2. /\ s'.at = "bind" /\ SameTimes /\ SameData /\ SameFile /\ SameBound
            /\ SameProton
        BY <2>2 DEF PortsInv, ForwardersFields, SameTimes, SameData, SameFile, SameBound, SameProton
      <3>3. PIAKeeps'
        BY <2>2, <3>2, ForwardersNumbers DEF PortsInv, ForwardersFields, PIAKeeps, Holds, Data,
           SameTimes, SameData, SameFile, SameBound, SameProton
      <3>4. ProtonKeeps'
        BY <2>2, <3>2, ForwardersNumbers DEF PortsInv, ForwardersFields, ProtonKeeps, Same,
           SameTimes, SameData, SameFile, SameBound, SameProton
      <3>5. QED
        BY <3>1, <3>3, <3>4 DEF PortsInv
    <2>3. QED
      BY <1>2, <2>1, <2>2 DEF F!FindAPIIP, F!At, F!Goes
  <1>3. CASE F!Refresh
    <2>1. PICK port \in Externals :
             /\ s.provider = "pia" /\ s.at = "refresh"
             /\ s' = [s EXCEPT !.at = "open", !.data = [port |-> port, until |-> s.now + Life]]
      BY <1>3 DEF F!Refresh, F!At
    <2>2. [port |-> port, until |-> s.now + Life] \in Data
      BY ForwardersNumbers DEF Data, PortsInv, ForwardersFields
    <2>3. QED
      <3>1. ForwardersFields'
        BY <2>1, <2>2, ForwardPlacesHere, ForwardersNumbers DEF PortsInv, ForwardersFields
      <3>2. /\ s'.at = "open" /\ s'.data = [port |-> port, until |-> s.now + Life]
            /\ SameTimes /\ s'.expired = s.expired /\ SameFile /\ SameBound /\ SameProton
        BY <2>1, <2>2 DEF PortsInv, ForwardersFields, SameTimes, SameFile, SameBound, SameProton
      <3>3. PIAKeeps'
        BY <2>1, <2>2, <3>2, ForwardersNumbers DEF PortsInv, ForwardersFields, PIAKeeps, Holds,
           Data, SameTimes, SameFile, SameBound, SameProton
      <3>4. ProtonKeeps'
        BY <2>1, <2>2, <3>2, ForwardersNumbers DEF PortsInv, ForwardersFields, ProtonKeeps, Same,
           SameTimes, SameFile, SameBound, SameProton
      <3>5. QED
        BY <3>1, <3>3, <3>4 DEF PortsInv
  <1>4. CASE F!Open
    <2>1. /\ s.provider = "pia" /\ s.at = "open"
          /\ s' = [s EXCEPT !.at = "encode", !.file = [is |-> "torn", of |-> F!NoData]]
      BY <1>4 DEF F!Open, F!At, F!Goes
    <2>2. QED
      <3>1. ForwardersFields'
        BY <2>1, ForwardPlacesHere, ForwardersNumbers DEF PortsInv, ForwardersFields
      <3>2. /\ s'.at = "encode" /\ s'.file = [is |-> "torn", of |-> F!NoData] /\ SameTimes
            /\ SameData /\ SameBound /\ SameProton
        BY <2>1 DEF PortsInv, ForwardersFields, SameTimes, SameData, SameBound, SameProton
      <3>3. PIAKeeps'
        BY <2>1, <3>2, ForwardersNumbers DEF PortsInv, ForwardersFields, PIAKeeps, Holds, Data,
           SameTimes, SameData, SameBound, SameProton
      <3>4. ProtonKeeps'
        BY <2>1, <3>2, ForwardersNumbers DEF PortsInv, ForwardersFields, ProtonKeeps, Same,
           SameTimes, SameData, SameBound, SameProton
      <3>5. QED
        BY <3>1, <3>3, <3>4 DEF PortsInv
  <1>5. CASE F!Encode
    <2>1. ~Holds /\ s.given.until \in Nat /\ s.now \in Nat
      BY <1>5, ForwardersNumbers DEF F!Encode, F!At, PortsInv, PIAKeeps, ForwardersFields, Data
    <2>2. /\ s.provider = "pia" /\ s.at = "encode"
          /\ s' = [s EXCEPT !.at = "bind", !.file = [is |-> "json", of |-> s.data], !.given = s.data]
      BY <1>5, <2>1 DEF F!Encode, F!At, Holds
    <2>3. QED
      <3>1. ForwardersFields'
        BY <2>1, <2>2, ForwardPlacesHere, ForwardersNumbers DEF PortsInv, ForwardersFields
      <3>2. /\ s'.at = "bind" /\ s'.file = [is |-> "json", of |-> s.data]
            /\ s'.given = s.data /\ s'.provider = s.provider /\ s'.now = s.now /\ SameData
            /\ SameBound /\ SameProton
        BY <2>1, <2>2 DEF PortsInv, ForwardersFields, SameData, SameBound, SameProton
      <3>3. PIAKeeps'
        BY <2>1, <2>2, <3>2, ForwardersNumbers DEF PortsInv, ForwardersFields, PIAKeeps, Holds,
           Data, SameData, SameBound, SameProton
      <3>4. ProtonKeeps'
        BY <2>1, <2>2, <3>2, ForwardersNumbers DEF PortsInv, ForwardersFields, ProtonKeeps, Same,
           SameData, SameBound, SameProton
      <3>5. QED
        BY <3>1, <3>3, <3>4 DEF PortsInv
  <1>6. CASE F!BindPort
    <2>1. /\ s.provider = "pia" /\ s.at = "bind" /\ s.data.port \in Externals
          /\ s' = [s EXCEPT !.at = "start", !.bound = s.bound \cup {s.data.port}]
      BY <1>6 DEF F!BindPort, F!At, F!Goes, PortsInv, PIAKeeps
    <2>2. QED
      <3>1. ForwardersFields'
        BY <2>1, ForwardPlacesHere, ForwardersNumbers DEF PortsInv, ForwardersFields
      <3>2. /\ s'.at = "start" /\ s'.bound = s.bound \cup {s.data.port} /\ SameTimes
            /\ SameData /\ SameFile /\ SameProton
        BY <2>1 DEF PortsInv, ForwardersFields, SameTimes, SameData, SameFile, SameProton
      <3>3. PIAKeeps'
        BY <2>1, <3>2, ForwardersNumbers DEF PortsInv, ForwardersFields, PIAKeeps, Holds, Data,
           SameTimes, SameData, SameFile, SameProton
      <3>4. ProtonKeeps'
        BY <2>1, <3>2, ForwardersNumbers DEF PortsInv, ForwardersFields, ProtonKeeps, Same,
           SameTimes, SameData, SameFile, SameProton
      <3>5. QED
        BY <3>1, <3>3, <3>4 DEF PortsInv
  <1>7. CASE F!KeepRead
    <2>1. CASE /\ s.provider = "pia"
               /\ s' = [s EXCEPT !.at = "failed"]
      <3>1. ForwardersFields'
        BY <2>1, ForwardPlacesHere, ForwardersNumbers DEF PortsInv, ForwardersFields
      <3>2. /\ s'.at = "failed" /\ SameTimes /\ SameData /\ SameFile /\ SameBound
            /\ SameProton
        BY <2>1 DEF PortsInv, ForwardersFields, SameTimes, SameData, SameFile, SameBound, SameProton
      <3>3. PIAKeeps'
        BY <2>1, <3>2, ForwardersNumbers DEF PortsInv, ForwardersFields, PIAKeeps, Holds, Data,
           SameTimes, SameData, SameFile, SameBound, SameProton
      <3>4. ProtonKeeps'
        BY <2>1, <3>2, ForwardersNumbers DEF PortsInv, ForwardersFields, ProtonKeeps, Same,
           SameTimes, SameData, SameFile, SameBound, SameProton
      <3>5. QED
        BY <3>1, <3>3, <3>4 DEF PortsInv
    <2>2. CASE /\ s.provider = "pia"
               /\ s' = [s EXCEPT !.at = "failed", !.data = s.file.of]
      <3>1. ForwardersFields'
        BY <2>2, ForwardPlacesHere, ForwardersNumbers DEF PortsInv, ForwardersFields
      <3>2. /\ s'.at = "failed" /\ s'.data = s.file.of /\ SameTimes
            /\ s'.expired = s.expired /\ SameFile /\ SameBound /\ SameProton
        BY <2>2 DEF PortsInv, ForwardersFields, SameTimes, SameFile, SameBound, SameProton
      <3>3. PIAKeeps'
        BY <2>2, <3>2, ForwardersNumbers DEF PortsInv, ForwardersFields, PIAKeeps, Holds, Data,
           SameTimes, SameFile, SameBound, SameProton
      <3>4. ProtonKeeps'
        BY <2>2, <3>2, ForwardersNumbers DEF PortsInv, ForwardersFields, ProtonKeeps, Same,
           SameTimes, SameFile, SameBound, SameProton
      <3>5. QED
        BY <3>1, <3>3, <3>4 DEF PortsInv
    <2>3. CASE /\ s.provider = "pia" /\ s.at = "start" /\ s.file.is # "torn" /\ ~F!Expired(s.file.of)
               /\ s' = [s EXCEPT !.at = "keep", !.data = s.file.of]
      <3>1. ForwardersFields'
        BY <2>3, ForwardPlacesHere, ForwardersNumbers DEF PortsInv, ForwardersFields
      <3>2. /\ s'.at = "keep" /\ s'.data = s.file.of /\ SameTimes /\ s'.expired = s.expired
            /\ SameFile /\ SameBound /\ SameProton
        BY <2>3 DEF PortsInv, ForwardersFields, SameTimes, SameFile, SameBound, SameProton
      <3>3. PIAKeeps'
        BY <2>3, <3>2, ForwardersNumbers DEF F!Expired, PortsInv, ForwardersFields, PIAKeeps, Holds,
           Data, SameTimes, SameFile, SameBound, SameProton
      <3>4. ProtonKeeps'
        BY <2>3, <3>2, ForwardersNumbers DEF F!Expired, PortsInv, ForwardersFields, ProtonKeeps,
           Same, SameTimes, SameFile, SameBound, SameProton
      <3>5. QED
        BY <3>1, <3>3, <3>4 DEF PortsInv
    <2>4. QED
      BY <1>7, <2>1, <2>2, <2>3 DEF F!KeepRead, F!At, F!Goes
  <1>8. CASE F!KeepAlive
    <2>1. /\ s.provider = "pia" /\ s.at = "keep" /\ s.data.port \in Externals
          /\ s' = [s EXCEPT !.bound = s.bound \cup {s.data.port}]
      BY <1>8 DEF F!KeepAlive, F!At, F!Goes, PortsInv, PIAKeeps
    <2>2. QED
      <3>1. ForwardersFields'
        BY <2>1, ForwardPlacesHere, ForwardersNumbers DEF PortsInv, ForwardersFields
      <3>2. /\ s'.bound = s.bound \cup {s.data.port} /\ s'.at = s.at /\ SameTimes
            /\ SameData /\ SameFile /\ SameProton
        BY <2>1 DEF PortsInv, ForwardersFields, SameTimes, SameData, SameFile, SameProton
      <3>3. PIAKeeps'
        BY <2>1, <3>2, ForwardersNumbers DEF PortsInv, ForwardersFields, PIAKeeps, Holds, Data,
           SameTimes, SameData, SameFile, SameProton
      <3>4. ProtonKeeps'
        BY <2>1, <3>2, ForwardersNumbers DEF PortsInv, ForwardersFields, ProtonKeeps, Same,
           SameTimes, SameData, SameFile, SameProton
      <3>5. QED
        BY <3>1, <3>3, <3>4 DEF PortsInv
  <1>9. CASE F!Expires
    <2>1. /\ s.provider = "pia"
          /\ s' = [s EXCEPT !.at = "failed"]
      BY <1>9 DEF F!Expires, F!At, F!Goes
    <2>2. QED
      <3>1. ForwardersFields'
        BY <2>1, ForwardPlacesHere, ForwardersNumbers DEF PortsInv, ForwardersFields
      <3>2. /\ s'.at = "failed" /\ SameTimes /\ SameData /\ SameFile /\ SameBound
            /\ SameProton
        BY <2>1 DEF PortsInv, ForwardersFields, SameTimes, SameData, SameFile, SameBound, SameProton
      <3>3. PIAKeeps'
        BY <2>1, <3>2, ForwardersNumbers DEF PortsInv, ForwardersFields, PIAKeeps, Holds, Data,
           SameTimes, SameData, SameFile, SameBound, SameProton
      <3>4. ProtonKeeps'
        BY <2>1, <3>2, ForwardersNumbers DEF PortsInv, ForwardersFields, ProtonKeeps, Same,
           SameTimes, SameData, SameFile, SameBound, SameProton
      <3>5. QED
        BY <3>1, <3>3, <3>4 DEF PortsInv
  <1>10. QED
    BY <1>1, <1>2, <1>3, <1>4, <1>5, <1>6, <1>7, <1>8, <1>9 DEF F!PIAStep

\* The steps of ProtonVPN keep it.
LEMMA ProtonStepKeeps == ASSUME F!ForwardersConstants, PortsInv, F!ProtonStep PROVE PortsInv'
  <1>1. CASE F!ExternalAddress
    <2>1. /\ s.provider = "protonvpn" /\ F!NoPorts \in [F!Internals -> Ports0]
          /\ s' = [s EXCEPT !.at = "add", !.todo = F!Mappings, !.ports = F!NoPorts,
                            !.asking = F!NoPorts, !.refreshed = FALSE]
      BY <1>1 DEF F!ExternalAddress, F!At, F!Goes, F!NoPorts, Ports0
    <2>2. QED
      <3>1. ForwardersFields'
        BY <2>1, ForwardPlacesHere, ForwardersNumbers DEF PortsInv, ForwardersFields
      <3>2. /\ s'.at = "add" /\ s'.todo = F!Mappings /\ s'.ports = F!NoPorts
            /\ s'.refreshed = FALSE /\ SameTimes /\ SameData /\ SameFile /\ SameBound
            /\ s'.gateway = s.gateway
        BY <2>1 DEF PortsInv, ForwardersFields, SameTimes, SameData, SameFile, SameBound
      <3>3. PIAKeeps'
        BY <2>1, <3>2, ForwardersNumbers DEF PortsInv, ForwardersFields, PIAKeeps, Holds, Data,
           SameTimes, SameData, SameFile, SameBound
      <3>4. ProtonKeeps'
        BY <2>1, <3>2, ForwardersNumbers DEF PortsInv, ForwardersFields, ProtonKeeps, Same,
           SameTimes, SameData, SameFile, SameBound
      <3>5. QED
        BY <3>1, <3>3, <3>4 DEF PortsInv
  <1>2. CASE F!AddMapping
    <2>1. SUFFICES ASSUME NEW x \in s.todo, NEW e \in F!Assigned(x, F!None),
                          s.provider = "protonvpn", s.at = "add",
                          s' = [s EXCEPT !.gateway[x] = e, !.todo = s.todo \ {x},
                                         !.at = IF s.todo \ {x} = {} THEN "keep" ELSE "add",
                                         !.ports[x[1]] = IF x[2] = "tcp" THEN e ELSE @]
                   PROVE  PortsInv'
      BY <1>2 DEF F!AddMapping, F!At
    <2> DEFINE left == s.todo \ {x}
               at == IF left = {} THEN "keep" ELSE "add"
               port == IF x[2] = "tcp" THEN e ELSE s.ports[x[1]]
    <2>2. x \in F!Mappings /\ x[1] \in F!Internals /\ left \in SUBSET F!Mappings
      BY DEF PortsInv, ForwardersFields, F!Mappings, F!Asked
    <2>3. e \in Ports0
      BY <2>1, <2>2 DEF PortsInv, ForwardersFields, Ports0, F!None, F!Assigned
    <2>4. port \in Ports0 /\ at \in {"keep", "add"} /\ at \in ForwardPlaces
      BY <2>2, <2>3, ForwardPlacesHere DEF PortsInv, ForwardersFields
    <2>5. /\ s.provider = "protonvpn" /\ s.at = "add"
          /\ s' = [s EXCEPT !.gateway[x] = e, !.todo = left, !.at = at, !.ports[x[1]] = port]
      BY <2>1
    <2> HIDE DEF left, at, port
    <2>6. QED
      <3>1. ForwardersFields'
        BY <2>2, <2>3, <2>4, <2>5, ForwardPlacesHere, ForwardersNumbers DEF PortsInv,
           ForwardersFields
      <3>2. /\ s'.gateway = [s.gateway EXCEPT ![x] = e] /\ s'.todo = left /\ s'.at = at
            /\ s'.ports = [s.ports EXCEPT ![x[1]] = port] /\ SameTimes /\ SameData
            /\ SameFile /\ SameBound /\ s'.refreshed = s.refreshed
        BY <2>2, <2>3, <2>4, <2>5 DEF PortsInv, ForwardersFields, SameTimes, SameData, SameFile,
           SameBound
      <3>3. PIAKeeps'
        BY <2>2, <2>3, <2>4, <2>5, <3>2, ForwardersNumbers DEF PortsInv, ForwardersFields, PIAKeeps,
           Holds, Data, SameTimes, SameData, SameFile, SameBound
      <3>4. ProtonKeeps'
        BY <2>2, <2>3, <2>4, <2>5, <3>2, ForwardersNumbers DEF PortsInv, ForwardersFields,
           ProtonKeeps, Same, SameTimes, SameData, SameFile, SameBound
      <3>5. QED
        BY <3>1, <3>3, <3>4 DEF PortsInv
  <1>3. CASE F!RefreshTimer
    <2>1. /\ s.provider = "protonvpn" /\ s.at = "keep"
          /\ s' = [s EXCEPT !.at = "again", !.todo = F!Mappings, !.refreshed = FALSE]
      BY <1>3 DEF F!RefreshTimer, F!At, F!Goes
    <2>2. QED
      <3>1. ForwardersFields'
        BY <2>1, ForwardPlacesHere, ForwardersNumbers DEF PortsInv, ForwardersFields
      <3>2. /\ s'.at = "again" /\ s'.todo = F!Mappings /\ s'.refreshed = FALSE /\ SameTimes
            /\ SameData /\ SameFile /\ SameBound /\ s'.ports = s.ports
            /\ s'.gateway = s.gateway
        BY <2>1 DEF PortsInv, ForwardersFields, SameTimes, SameData, SameFile, SameBound
      <3>3. PIAKeeps'
        BY <2>1, <3>2, ForwardersNumbers DEF PortsInv, ForwardersFields, PIAKeeps, Holds, Data,
           SameTimes, SameData, SameFile, SameBound
      <3>4. ProtonKeeps'
        BY <2>1, <3>2, ForwardersNumbers DEF PortsInv, ForwardersFields, ProtonKeeps, Same,
           SameTimes, SameData, SameFile, SameBound
      <3>5. QED
        BY <3>1, <3>3, <3>4 DEF PortsInv
  <1>4. CASE F!RefreshMapping
    <2>1. SUFFICES ASSUME NEW x \in s.todo, NEW e \in F!Assigned(x, s.ports[x[1]]),
                          s.provider = "protonvpn", s.at = "again",
                          s' = [s EXCEPT !.gateway[x] = e,
                                         !.todo = IF F!Changed(x, e) THEN {} ELSE s.todo \ {x},
                                         !.refreshed = ~F!Changed(x, e) /\ s.todo \ {x} = {},
                                         !.at = IF F!Changed(x, e) THEN "failed"
                                                ELSE IF s.todo \ {x} = {} THEN "keep" ELSE "again"]
                   PROVE  PortsInv'
      BY <1>4 DEF F!RefreshMapping, F!At
    <2> DEFINE left == s.todo \ {x}
    <2>2. x \in F!Mappings /\ x[1] \in F!Internals /\ left \in SUBSET F!Mappings
      BY DEF PortsInv, ForwardersFields, F!Mappings, F!Asked
    <2>3. e \in Ports0
      BY <2>1, <2>2 DEF PortsInv, ForwardersFields, Ports0, F!None, F!Assigned
    <2>4. CASE /\ s.provider = "protonvpn" /\ s.at = "again" /\ F!Changed(x, e)
               /\ s' = [s EXCEPT !.gateway[x] = e, !.todo = {}, !.refreshed = FALSE, !.at = "failed"]
      <3>1. ForwardersFields'
        BY <2>2, <2>3, <2>4, ForwardPlacesHere, ForwardersNumbers DEF PortsInv, ForwardersFields
      <3>2. /\ s'.gateway = [s.gateway EXCEPT ![x] = e] /\ s'.todo = {}
            /\ s'.refreshed = FALSE /\ s'.at = "failed" /\ SameTimes /\ SameData
            /\ SameFile /\ SameBound /\ s'.ports = s.ports
        BY <2>2, <2>3, <2>4 DEF PortsInv, ForwardersFields, SameTimes, SameData, SameFile, SameBound
      <3>3. PIAKeeps'
        BY <2>2, <2>3, <2>4, <3>2, ForwardersNumbers DEF PortsInv, ForwardersFields, PIAKeeps,
           Holds, Data, SameTimes, SameData, SameFile, SameBound
      <3>4. ProtonKeeps'
        BY <2>2, <2>3, <2>4, <3>2, ForwardersNumbers DEF PortsInv, ForwardersFields, ProtonKeeps,
           Same, SameTimes, SameData, SameFile, SameBound
      <3>5. QED
        BY <3>1, <3>3, <3>4 DEF PortsInv
    <2>5. CASE /\ s.provider = "protonvpn" /\ s.at = "again" /\ e = s.ports[x[1]] /\ left = {}
               /\ s' = [s EXCEPT !.gateway[x] = e, !.todo = left, !.refreshed = TRUE, !.at = "keep"]
      <3>1. ForwardersFields'
        BY <2>2, <2>3, <2>5, ForwardPlacesHere, ForwardersNumbers DEF PortsInv, ForwardersFields
      <3>2. /\ s'.gateway = [s.gateway EXCEPT ![x] = e] /\ s'.todo = left
            /\ s'.refreshed = TRUE /\ s'.at = "keep" /\ SameTimes /\ SameData /\ SameFile
            /\ SameBound /\ s'.ports = s.ports
        BY <2>2, <2>3, <2>5 DEF PortsInv, ForwardersFields, SameTimes, SameData, SameFile, SameBound
      <3>3. PIAKeeps'
        BY <2>2, <2>3, <2>5, <3>2, ForwardersNumbers DEF PortsInv, ForwardersFields, PIAKeeps,
           Holds, Data, SameTimes, SameData, SameFile, SameBound
      <3>4. ProtonKeeps'
        BY <2>2, <2>3, <2>5, <3>2, ForwardersNumbers DEF PortsInv, ForwardersFields, ProtonKeeps,
           Same, SameTimes, SameData, SameFile, SameBound
      <3>5. QED
        BY <3>1, <3>3, <3>4 DEF PortsInv
    <2>6. CASE /\ s.provider = "protonvpn" /\ s.at = "again" /\ e = s.ports[x[1]] /\ left # {}
               /\ s' = [s EXCEPT !.gateway[x] = e, !.todo = left, !.refreshed = FALSE, !.at = "again"]
      <3>1. ForwardersFields'
        BY <2>2, <2>3, <2>6, ForwardPlacesHere, ForwardersNumbers DEF PortsInv, ForwardersFields
      <3>2. /\ s'.gateway = [s.gateway EXCEPT ![x] = e] /\ s'.todo = left
            /\ s'.refreshed = FALSE /\ s'.at = "again" /\ SameTimes /\ SameData /\ SameFile
            /\ SameBound /\ s'.ports = s.ports
        BY <2>2, <2>3, <2>6 DEF PortsInv, ForwardersFields, SameTimes, SameData, SameFile, SameBound
      <3>3. PIAKeeps'
        BY <2>2, <2>3, <2>6, <3>2, ForwardersNumbers DEF PortsInv, ForwardersFields, PIAKeeps,
           Holds, Data, SameTimes, SameData, SameFile, SameBound
      <3>4. ProtonKeeps'
        BY <2>2, <2>3, <2>6, <3>2, ForwardersNumbers DEF PortsInv, ForwardersFields, ProtonKeeps,
           Same, SameTimes, SameData, SameFile, SameBound
      <3>5. QED
        BY <3>1, <3>3, <3>4 DEF PortsInv
    <2>7. QED
      BY <2>1, <2>4, <2>5, <2>6 DEF F!Changed
  <1>5. QED
    BY <1>1, <1>2, <1>3, <1>4 DEF F!ProtonStep

\* Every step of the providers, the service and the user keeps it.
LEMMA NextPortsInv == ASSUME F!ForwardersConstants, PortsInv, [F!ForwardersNext]_s PROVE PortsInv'
  <1>1. CASE UNCHANGED s
    BY <1>1 DEF PortsInv, ForwardersFields, PIAKeeps, ProtonKeeps, Holds, Same
  <1>2. CASE F!PIAStep \/ F!ProtonStep
    BY <1>2, PIAStepKeeps, ProtonStepKeeps
  <1>3. CASE F!Call
    <2>1. s' = [s EXCEPT !.at = "read"]
      BY <1>3 DEF F!Call, F!At, F!Goes
    <2>2. QED
      <3>1. ForwardersFields'
        BY <2>1, ForwardPlacesHere, ForwardersNumbers DEF PortsInv, ForwardersFields
      <3>2. /\ s'.at = "read" /\ SameTimes /\ SameData /\ SameFile /\ SameBound
            /\ SameProton
        BY <2>1 DEF PortsInv, ForwardersFields, SameTimes, SameData, SameFile, SameBound, SameProton
      <3>3. PIAKeeps'
        BY <2>1, <3>2, ForwardersNumbers DEF PortsInv, ForwardersFields, PIAKeeps, Holds, Data,
           SameTimes, SameData, SameFile, SameBound, SameProton
      <3>4. ProtonKeeps'
        BY <2>1, <3>2, ForwardersNumbers DEF PortsInv, ForwardersFields, ProtonKeeps, Same,
           SameTimes, SameData, SameFile, SameBound, SameProton
      <3>5. QED
        BY <3>1, <3>3, <3>4 DEF PortsInv
  <1>4. CASE F!PIAFails
    <2>1. /\ s.provider = "pia" /\ s.faults + 1 \in 0..MaxFaults
          /\ s' = [s EXCEPT !.at = "failed", !.faults = s.faults + 1]
      BY <1>4, FaultCounted DEF F!PIAFails, F!Faulty
    <2>2. QED
      <3>1. ForwardersFields'
        BY <2>1, ForwardPlacesHere, ForwardersNumbers DEF PortsInv, ForwardersFields
      <3>2. /\ s'.at = "failed" /\ SameTimes /\ SameData /\ SameFile /\ SameBound
            /\ SameProton
        BY <2>1 DEF PortsInv, ForwardersFields, SameTimes, SameData, SameFile, SameBound, SameProton
      <3>3. PIAKeeps'
        BY <2>1, <3>2, ForwardersNumbers DEF PortsInv, ForwardersFields, PIAKeeps, Holds, Data,
           SameTimes, SameData, SameFile, SameBound, SameProton
      <3>4. ProtonKeeps'
        BY <2>1, <3>2, ForwardersNumbers DEF PortsInv, ForwardersFields, ProtonKeeps, Same,
           SameTimes, SameData, SameFile, SameBound, SameProton
      <3>5. QED
        BY <3>1, <3>3, <3>4 DEF PortsInv
  <1>5. CASE F!ProtonFails
    <2>1. /\ s.provider = "protonvpn" /\ s.at \in {"read", "add", "again"} /\ s.faults + 1 \in 0..MaxFaults
          /\ s' = [s EXCEPT !.at = "failed", !.todo = {}, !.faults = s.faults + 1]
      BY <1>5, FaultCounted DEF F!ProtonFails, F!Faulty
    <2>2. QED
      <3>1. ForwardersFields'
        BY <2>1, ForwardPlacesHere, ForwardersNumbers DEF PortsInv, ForwardersFields
      <3>2. /\ s'.at = "failed" /\ s'.todo = {} /\ SameTimes /\ SameData /\ SameFile
            /\ SameBound /\ s'.ports = s.ports /\ s'.gateway = s.gateway
            /\ s'.refreshed = s.refreshed
        BY <2>1 DEF PortsInv, ForwardersFields, SameTimes, SameData, SameFile, SameBound
      <3>3. PIAKeeps'
        BY <2>1, <3>2, ForwardersNumbers DEF PortsInv, ForwardersFields, PIAKeeps, Holds, Data,
           SameTimes, SameData, SameFile, SameBound
      <3>4. ProtonKeeps'
        BY <2>1, <3>2, ForwardersNumbers DEF PortsInv, ForwardersFields, ProtonKeeps, Same,
           SameTimes, SameData, SameFile, SameBound
      <3>5. QED
        BY <3>1, <3>3, <3>4 DEF PortsInv
  <1>6. CASE F!GatewayForgets
    <2>1. PICK x \in F!Mappings : F!Faulty([s EXCEPT !.gateway[x] = F!None])
      BY <1>6 DEF F!GatewayForgets
    <2>2. /\ s.faults + 1 \in 0..MaxFaults /\ F!None \in Ports0
          /\ s' = [s EXCEPT !.gateway[x] = F!None, !.faults = s.faults + 1]
      BY <2>1, FaultCounted DEF F!Faulty, Ports0
    <2>3. QED
      <3>1. ForwardersFields'
        BY <2>2, ForwardPlacesHere, ForwardersNumbers DEF PortsInv, ForwardersFields
      <3>2. /\ s'.gateway = [s.gateway EXCEPT ![x] = F!None] /\ s'.at = s.at /\ SameTimes
            /\ SameData /\ SameFile /\ SameBound /\ s'.ports = s.ports /\ s'.todo = s.todo
            /\ s'.refreshed = s.refreshed
        BY <2>2 DEF PortsInv, ForwardersFields, SameTimes, SameData, SameFile, SameBound
      <3>3. PIAKeeps'
        BY <2>2, <3>2, ForwardersNumbers DEF PortsInv, ForwardersFields, PIAKeeps, Holds, Data,
           SameTimes, SameData, SameFile, SameBound
      <3>4. ProtonKeeps'
        BY <2>2, <3>2, ForwardersNumbers DEF PortsInv, ForwardersFields, ProtonKeeps, Same,
           SameTimes, SameData, SameFile, SameBound
      <3>5. QED
        BY <3>1, <3>3, <3>4 DEF PortsInv
  <1>7. CASE F!Others
    <2>1. CASE /\ s.provider \in {"perfectprivacy", "privatevpn"}
               /\ s' = [s EXCEPT !.at = "keep"]
      <3>1. ForwardersFields'
        BY <2>1, ForwardPlacesHere, ForwardersNumbers DEF PortsInv, ForwardersFields
      <3>2. /\ s'.at = "keep" /\ SameTimes /\ SameData /\ SameFile /\ SameBound
            /\ SameProton
        BY <2>1 DEF PortsInv, ForwardersFields, SameTimes, SameData, SameFile, SameBound, SameProton
      <3>3. PIAKeeps'
        BY <2>1, <3>2, ForwardersNumbers DEF PortsInv, ForwardersFields, PIAKeeps, Holds, Data,
           SameTimes, SameData, SameFile, SameBound, SameProton
      <3>4. ProtonKeeps'
        BY <2>1, <3>2, ForwardersNumbers DEF PortsInv, ForwardersFields, ProtonKeeps, Same,
           SameTimes, SameData, SameFile, SameBound, SameProton
      <3>5. QED
        BY <3>1, <3>3, <3>4 DEF PortsInv
    <2>2. CASE /\ s.provider = "privatevpn" /\ s.faults + 1 \in 0..MaxFaults
               /\ s' = [s EXCEPT !.at = "failed", !.faults = s.faults + 1]
      <3>1. ForwardersFields'
        BY <2>2, ForwardPlacesHere, ForwardersNumbers DEF PortsInv, ForwardersFields
      <3>2. /\ s'.at = "failed" /\ SameTimes /\ SameData /\ SameFile /\ SameBound
            /\ SameProton
        BY <2>2 DEF PortsInv, ForwardersFields, SameTimes, SameData, SameFile, SameBound, SameProton
      <3>3. PIAKeeps'
        BY <2>2, <3>2, ForwardersNumbers DEF PortsInv, ForwardersFields, PIAKeeps, Holds, Data,
           SameTimes, SameData, SameFile, SameBound, SameProton
      <3>4. ProtonKeeps'
        BY <2>2, <3>2, ForwardersNumbers DEF PortsInv, ForwardersFields, ProtonKeeps, Same,
           SameTimes, SameData, SameFile, SameBound, SameProton
      <3>5. QED
        BY <3>1, <3>3, <3>4 DEF PortsInv
    <2>3. QED
      BY <1>7, <2>1, <2>2, FaultCounted DEF F!Others, F!Faulty, F!At, F!Goes
  <1>8. CASE F!Cancel
    <2>1. /\ s.faults + 1 \in 0..MaxFaults
          /\ s' = [s EXCEPT !.at = "idle", !.todo = {}, !.bound = {}, !.faults = s.faults + 1]
      BY <1>8, FaultCounted DEF F!Cancel, F!Faulty
    <2>2. QED
      <3>1. ForwardersFields'
        BY <2>1, ForwardPlacesHere, ForwardersNumbers DEF PortsInv, ForwardersFields
      <3>2. /\ s'.at = "idle" /\ s'.todo = {} /\ s'.bound = {} /\ SameTimes /\ SameData
            /\ SameFile /\ s'.ports = s.ports /\ s'.gateway = s.gateway
            /\ s'.refreshed = s.refreshed
        BY <2>1 DEF PortsInv, ForwardersFields, SameTimes, SameData, SameFile
      <3>3. PIAKeeps'
        BY <2>1, <3>2, ForwardersNumbers DEF PortsInv, ForwardersFields, PIAKeeps, Holds, Data,
           SameTimes, SameData, SameFile
      <3>4. ProtonKeeps'
        BY <2>1, <3>2, ForwardersNumbers DEF PortsInv, ForwardersFields, ProtonKeeps, Same,
           SameTimes, SameData, SameFile
      <3>5. QED
        BY <3>1, <3>3, <3>4 DEF PortsInv
  <1>9. CASE F!Crash
    <2>1. /\ s.faults + 1 \in 0..MaxFaults
          /\ s' = [s EXCEPT !.at = "idle", !.todo = {}, !.data = F!NoData, !.bound = {},
                            !.faults = s.faults + 1]
      BY <1>9, FaultCounted DEF F!Crash, F!Faulty
    <2>2. QED
      <3>1. ForwardersFields'
        BY <2>1, ForwardPlacesHere, ForwardersNumbers DEF PortsInv, ForwardersFields
      <3>2. /\ s'.at = "idle" /\ s'.todo = {} /\ s'.data = F!NoData /\ s'.bound = {}
            /\ SameTimes /\ s'.expired = s.expired /\ SameFile /\ s'.ports = s.ports
            /\ s'.gateway = s.gateway /\ s'.refreshed = s.refreshed
        BY <2>1 DEF PortsInv, ForwardersFields, SameTimes, SameFile
      <3>3. PIAKeeps'
        BY <2>1, <3>2, ForwardersNumbers DEF PortsInv, ForwardersFields, PIAKeeps, Holds, Data,
           SameTimes, SameFile
      <3>4. ProtonKeeps'
        BY <2>1, <3>2, ForwardersNumbers DEF PortsInv, ForwardersFields, ProtonKeeps, Same,
           SameTimes, SameFile
      <3>5. QED
        BY <3>1, <3>3, <3>4 DEF PortsInv
  <1>10. CASE F!RemoveFile
    <2>1. /\ s.faults + 1 \in 0..MaxFaults /\ s.provider = "pia" /\ s.at \notin {"open", "encode"}
          /\ s' = [s EXCEPT !.file = [is |-> "missing", of |-> F!NoData], !.given = F!NoData,
                            !.faults = s.faults + 1]
      BY <1>10, FaultCounted DEF F!RemoveFile, F!Faulty
    <2>2. QED
      <3>1. ForwardersFields'
        BY <2>1, ForwardPlacesHere, ForwardersNumbers DEF PortsInv, ForwardersFields
      <3>2. /\ s'.file = [is |-> "missing", of |-> F!NoData] /\ s'.given = F!NoData
            /\ s'.at = s.at /\ s'.provider = s.provider /\ s'.now = s.now /\ SameData
            /\ SameBound /\ SameProton
        BY <2>1 DEF PortsInv, ForwardersFields, SameData, SameBound, SameProton
      <3>3. PIAKeeps'
        BY <2>1, <3>2, ForwardersNumbers DEF PortsInv, ForwardersFields, PIAKeeps, Holds, Data,
           SameData, SameBound, SameProton
      <3>4. ProtonKeeps'
        BY <2>1, <3>2, ForwardersNumbers DEF PortsInv, ForwardersFields, ProtonKeeps, Same,
           SameData, SameBound, SameProton
      <3>5. QED
        BY <3>1, <3>3, <3>4 DEF PortsInv
  <1>11. CASE F!Tick
    <2>1. s' = [s EXCEPT !.now = s.now + 1] /\ s.now + 1 \in 0..MaxClock /\ s.now \in Nat
      <3>1. s.now \in 0..MaxClock
        BY DEF PortsInv, ForwardersFields
      <3>2. QED
        BY <1>11, <3>1, ForwardersNumbers DEF F!Tick
    <2>2. QED
      <3>1. ForwardersFields'
        BY <2>1, ForwardPlacesHere, ForwardersNumbers DEF PortsInv, ForwardersFields
      <3>2. /\ s'.now = s.now + 1 /\ s'.at = s.at /\ s'.provider = s.provider
            /\ s'.given = s.given /\ SameData /\ SameFile /\ SameBound /\ SameProton
        BY <2>1 DEF PortsInv, ForwardersFields, SameData, SameFile, SameBound, SameProton
      <3>3. PIAKeeps'
        BY <2>1, <3>2, ForwardersNumbers DEF PortsInv, ForwardersFields, PIAKeeps, Holds, Data,
           SameData, SameFile, SameBound, SameProton
      <3>4. ProtonKeeps'
        BY <2>1, <3>2, ForwardersNumbers DEF PortsInv, ForwardersFields, ProtonKeeps, Same,
           SameData, SameFile, SameBound, SameProton
      <3>5. QED
        BY <3>1, <3>3, <3>4 DEF PortsInv
  <1>12. QED
    BY <1>1, <1>2, <1>3, <1>4, <1>5, <1>6, <1>7, <1>8, <1>9, <1>10, <1>11 DEF F!ForwardersNext

\* Nothing is given or asked for at the start.
LEMMA InitPortsInv == ASSUME F!ForwardersConstants, F!ForwardersInit PROVE PortsInv
  <1>1. PICK provider \in {"pia", "protonvpn", "perfectprivacy", "privatevpn"} :
           s = [provider |-> provider, at |-> "idle", data |-> F!NoData, expired |-> FALSE,
                file |-> [is |-> "missing", of |-> F!NoData], bound |-> {}, given |-> F!NoData, now |-> 0,
                ports |-> F!NoPorts, asking |-> F!NoPorts, todo |-> {}, refreshed |-> FALSE, faults |-> 0,
                gateway |-> [x \in F!Mappings |-> F!None]]
    BY DEF F!ForwardersInit
  <1>2. F!NoPorts \in [F!Internals -> Ports0] /\ 0 \in 0..MaxClock /\ 0 \in 0..MaxFaults
    BY ForwardersNumbers DEF F!NoPorts, Ports0
  <1>3. [x \in F!Mappings |-> F!None] \in [F!Mappings -> Ports0]
    BY DEF Ports0
  <1>4. ForwardersFields
    BY <1>1, <1>2, <1>3, ForwardersNumbers, ForwardPlacesHere DEF ForwardersFields
  <1>5. PIAKeeps /\ ProtonKeeps
    BY <1>1, ForwardersNumbers DEF PIAKeeps, ProtonKeeps, Holds
  <1>6. QED
    BY <1>4, <1>5 DEF PortsInv

\* What it says of the ports.
LEMMA PortsKept == ASSUME F!ForwardersConstants, PortsInv
                   PROVE  F!ForwardersTypeOK /\ F!SamePort /\ F!KeptBoth
  <1>1. F!ForwardersTypeOK
    BY DEF PortsInv, ForwardersFields, PIAKeeps, F!ForwardersTypeOK, Data, Ports0
  <1>2. F!SamePort
    BY DEF PortsInv, ForwardersFields, PIAKeeps, F!SamePort, Holds, Data
  <1>3. F!KeptBoth
    BY DEF PortsInv, ProtonKeeps, F!KeptBoth, Same
  <1>4. QED
    BY <1>1, <1>2, <1>3

(***************************************************************************)
(* The search of the MTU.                                                  *)
(***************************************************************************)

\* The fields of the record and their types, for the provers.
Asked == 0..ICMPAddrs
Lost == 0..MaxLost
Bounds == 0..M!MaxSize
Lows == 0..M!Wrapped
MTUFields ==
    s \in [stage : M!Stages, family : M!Families, vpn : VPNs, path : Paths, servers : SUBSET MSSes,
           link : M!Sizes, asked : Asked, icmp : M!Sizes, lo : Lows, hi : Bounds,
           top : Bounds, rounds : 0..9, lost : Lost, found : M!Sizes, failed : M!Failures,
           mtu : M!Sizes, left : SUBSET VPNRoutes, advMSS : [VPNRoutes -> M!Sizes], refused : BOOLEAN]

\* What does not change, but the link, which is as wide as the tunnel until the end.
MTUSetting ==
    /\ s.path >= M!Least
    /\ \E a, b \in MSSes : s.servers = {a, b}
    /\ s.stage \in {"icmp", "sizes", "mss", "tests", "routes", "restore"} => s.link = M!Widest
    /\ s.stage \in {"link", "icmp", "sizes"} => s.asked < ICMPAddrs

\* How wide a range can be after so many rounds.
Narrows(rounds, wide) ==
    /\ rounds <= 4
    /\ wide <= 1599
    /\ rounds >= 1 => wide <= 159
    /\ rounds >= 2 => wide <= 15
    /\ rounds >= 3 => wide <= 1
    /\ rounds = 4 => wide = 0

(* What is searched: the lowest size has passed once a round is over, and       *)
(* nothing above the highest one passes, unless a test was lost or it is what   *)
(* the search began with.                                                  *)
Searched(top) ==
    /\ s.lo <= s.hi /\ s.hi <= top /\ Narrows(s.rounds, s.hi - s.lo)
    /\ s.rounds > 0 => M!Passes(s.lo)
    /\ s.lost = 0 => s.hi = top \/ s.path <= s.hi \/ s.link <= s.hi

\* The lowest size TCP looks at is one that passes, unless a test was lost or a hop lied.
LowStart == s.lost > 0 \/ s.lo <= M!Least \/ s.lo + 150 <= s.icmp

MTUSearch ==
    /\ s.rounds <= 4
    /\ s.stage = "sizes" => s.lo >= M!Least /\ Searched(s.link)
    /\ s.stage = "mss" => /\ s.hi <= 1500 /\ s.lo >= M!Least /\ (s.lo <= 1500 \/ s.lo = 9999)
                          /\ LowStart
    /\ s.stage = "tests" => /\ s.top >= 576 /\ s.top <= 1520 /\ Searched(s.top)
                            /\ s.lo >= M!Headers + 20 /\ (s.rounds = 0 => s.lo <= 1500 /\ LowStart)

\* What is found, once and for all.
MTUFound ==
    /\ s.stage \in {"link", "icmp", "sizes", "mss", "tests"} =>
          s.found = 0 /\ s.failed = "none" /\ ~s.refused /\ s.left = VPNRoutes
    /\ M!FoundPasses /\ M!FoundIsLargest /\ M!GivenUpForAReason
    /\ s.found > 0 => s.found >= M!Headers + 20

\* What the link and the routes are to have.
MTUResult ==
    /\ s.stage \in {"routes", "restore"} /\ ~s.refused =>
          /\ s.mtu = IF s.found > 0 THEN s.found ELSE OriginalMTU
          /\ \A r \in VPNRoutes \ s.left : s.advMSS[r] = M!AdvMSS(s.mtu)
    /\ s.stage = "routes" => ~s.refused
    /\ s.stage = "restore" /\ ~s.refused => s.left = {}
    /\ M!LinkAndRoutesAgree

MTUInv == MTUFields /\ MTUSetting /\ MTUSearch /\ MTUFound /\ MTUResult


\* From one size to the next.
Gap(a, b, diff) == a < b /\ 10 * (b - 1 - a) <= diff - 1

\* The numbers a search rests on.
LEMMA MTUNumbers ==
  ASSUME M!PathConstants, s.family \in M!Families
  PROVE  /\ (M!Least = 68 /\ M!Headers = 40) \/ (M!Least = 1280 /\ M!Headers = 60)
         /\ M!Widest \in Nat /\ M!Widest >= 1399 /\ M!Widest <= 1440
         /\ M!MaxEthernetFrameSize = 1500 /\ M!MaxSize = 1520 /\ M!Wrapped = 9999
  <1>1. M!Overhead(s.vpn) \in {40, 49, 61}
    BY DEF M!Overhead
  <1>2. /\ s.family = 4 => M!Least = 68 /\ M!Headers = 40 /\ M!IPHeader(s.family) = 20
        /\ s.family = 6 => M!Least = 1280 /\ M!Headers = 60 /\ M!IPHeader(s.family) = 40
    BY DEF M!Least, M!MinMTU, M!Headers, M!IPHeader, M!TCPHeader
  <1>3. s.family \in {4, 6}
    BY DEF M!Families
  <1>4. M!MaxEthernetFrameSize = 1500 /\ M!MaxSize = 1520 /\ M!Wrapped = 9999
    BY DEF M!MaxEthernetFrameSize, M!MaxSize, M!Wrapped
  <1>5. QED
    BY <1>1, <1>2, <1>3, <1>4 DEF M!Widest, M!MaxTheoreticalVPNMTU

\* What the numbers of the constants are.
LEMMA PathNumbers ==
  ASSUME M!PathConstants
  PROVE  /\ \A path \in Paths : path \in Nat /\ path >= 576 /\ path <= 1500
         /\ \A mss \in MSSes : mss \in Nat /\ (mss = 0 \/ mss >= 536) /\ mss <= 1460
         /\ OriginalMTU \in Nat /\ OriginalMTU >= 576 /\ OriginalMTU <= 1500
         /\ MaxLost \in Nat /\ ICMPAddrs \in Nat /\ ICMPAddrs > 0
  <1>1. M!MaxEthernetFrameSize = 1500
    BY DEF M!MaxEthernetFrameSize
  <1>2. ICMPAddrs \in Nat /\ ICMPAddrs # 0 /\ OriginalMTU \in 576..M!MaxEthernetFrameSize /\ MaxLost \in Nat
    BY DEF M!PathConstants
  <1>3. \A path \in Paths : path \in Nat /\ path >= 576 /\ path <= 1500
    BY <1>1 DEF M!PathConstants
  <1>4. \A mss \in MSSes : mss \in Nat /\ (mss = 0 \/ mss >= 536) /\ mss <= 1460
    BY <1>1 DEF M!PathConstants
  <1>5. QED
    BY <1>1, <1>2, <1>3, <1>4

\* A number is in the range of a field if it is no larger than its end.
LEMMA InRange ==
  ASSUME M!PathConstants
  PROVE  /\ \A x : x \in M!Sizes <=> x \in Nat /\ x <= 1500
         /\ \A x : x \in Bounds <=> x \in Nat /\ x <= 1520
         /\ \A x : x \in Lows <=> x \in Nat /\ x <= 9999
         /\ \A x : x \in Asked <=> x \in Nat /\ x <= ICMPAddrs
         /\ \A x : x \in Lost <=> x \in Nat /\ x <= MaxLost
  <1>1. M!MaxEthernetFrameSize = 1500 /\ M!MaxSize = 1520 /\ M!Wrapped = 9999
    BY DEF M!MaxEthernetFrameSize, M!MaxSize, M!Wrapped
  <1>2. ICMPAddrs \in Nat /\ MaxLost \in Nat
    BY PathNumbers
  <1>3. ASSUME NEW x
        PROVE  /\ x \in M!Sizes <=> x \in Nat /\ x <= 1500
               /\ x \in Bounds <=> x \in Nat /\ x <= 1520
               /\ x \in Lows <=> x \in Nat /\ x <= 9999
    <2>1. M!MaxEthernetFrameSize \in Nat /\ M!MaxSize \in Nat /\ M!Wrapped \in Nat
      BY <1>1
    <2>2. x \in M!Sizes <=> x \in Nat /\ x <= M!MaxEthernetFrameSize
      BY <2>1 DEF M!Sizes
    <2>3. x \in Bounds <=> x \in Nat /\ x <= M!MaxSize
      BY <2>1 DEF Bounds
    <2>4. x \in Lows <=> x \in Nat /\ x <= M!Wrapped
      BY <2>1 DEF Lows
    <2>5. QED
      BY <1>1, <2>2, <2>3, <2>4
  <1>4. ASSUME NEW x
        PROVE  /\ x \in Asked <=> x \in Nat /\ x <= ICMPAddrs
               /\ x \in Lost <=> x \in Nat /\ x <= MaxLost
    BY <1>2 DEF Asked, Lost
  <1>5. QED
    BY <1>3, <1>4

\* What is searched is between the bounds, which are sizes too.
SizesAreSo(lo, hi, sizes) ==
    /\ Len(sizes) \in 1..12 /\ DOMAIN sizes = 1..Len(sizes)
    /\ \A i \in 1..Len(sizes) : sizes[i] \in lo..hi
    /\ sizes[1] = lo /\ sizes[Len(sizes)] = hi /\ (Len(sizes) = 1 <=> lo = hi)
    /\ \A i \in 1..(Len(sizes) - 1) : Gap(sizes[i], sizes[i + 1], hi - lo)

LEMMA SizesOfRange ==
  ASSUME NEW lo \in Nat, NEW hi \in Nat, lo <= hi
  PROVE  SizesAreSo(lo, hi, M!MTUsToTest(lo, hi))
  <1> DEFINE sizes == M!MTUsToTest(lo, hi)
             diff == hi - lo
  <1>1. diff \in Nat
    OBVIOUS
  <1>2. CASE diff <= 11
    <2>1. sizes = [i \in 1..(diff + 1) |-> lo + i - 1]
      BY <1>2 DEF M!MTUsToTest
    <2>2. sizes \in Seq(Nat) /\ Len(sizes) = diff + 1
      BY <1>1, <2>1
    <2>3. QED
      BY <1>1, <1>2, <2>1, <2>2 DEF SizesAreSo, Gap
  <1>3. CASE diff > 11
    <2>1. sizes = [i \in 1..11 |-> (20 * lo + 2 * diff * (i - 1) + 10) \div 20]
      BY <1>3 DEF M!MTUsToTest
    <2>2. \A i \in 1..11 : sizes[i] = (20 * lo + 2 * diff * (i - 1) + 10) \div 20
      BY <2>1
    <2>3. Len(sizes) = 11 /\ DOMAIN sizes = 1..11
      <3>1. \A i \in 1..11 : (20 * lo + 2 * diff * (i - 1) + 10) \div 20 \in Int
        BY <1>1
      <3>2. sizes \in Seq(Int)
        BY <2>1, <3>1
      <3>3. QED
        BY <2>1, <3>2
    <2> HIDE DEF sizes
    <2>4. sizes[1] = lo /\ sizes[11] = hi
      <3>1. sizes[1] = (20 * lo + 10) \div 20 /\ sizes[11] = (20 * lo + 20 * diff + 10) \div 20
        BY <1>1, <2>2
      <3>2. 20 * lo + 20 * diff = 20 * hi
        BY <1>1
      <3>3. QED
        BY <3>1, <3>2
    <2>5. ASSUME NEW i \in 1..10
          PROVE  Gap(sizes[i], sizes[i + 1], diff) /\ sizes[i] \in Nat /\ sizes[i + 1] \in Nat
      <3> DEFINE x == 20 * lo + 2 * diff * (i - 1)
      <3>1. x \in Nat /\ 20 * lo + 2 * diff * (i + 1 - 1) = x + 2 * diff
        BY <1>1
      <3>2. sizes[i] = (x + 10) \div 20 /\ sizes[i + 1] = (x + 2 * diff + 10) \div 20
        BY <2>2, <3>1
      <3> HIDE DEF x
      <3>3. diff \in Nat /\ diff >= 12
        BY <1>1, <1>3
      <3> HIDE DEF diff
      <3>4. /\ Gap((x + 10) \div 20, (x + 2 * diff + 10) \div 20, diff)
            /\ (x + 10) \div 20 \in Nat /\ (x + 2 * diff + 10) \div 20 \in Nat
        BY <3>1, <3>3 DEF Gap
      <3>5. QED
        BY <3>2, <3>4
    <2>6. \A i \in 1..11 : sizes[i] \in lo..hi
      <3>1. \A i \in 1..10 : sizes[i] \in Int /\ sizes[i] < sizes[i + 1]
        BY <2>5 DEF Gap
      <3>2. QED
        BY <1>1, <2>4, <3>1, SMTT(30)
    <2>7. QED
      BY <1>1, <1>3, <2>3, <2>4, <2>5, <2>6 DEF SizesAreSo, sizes
  <1>4. QED
    BY <1>1, <1>2, <1>3

\* The largest of a few numbers.
LEMMA LargestOf ==
  ASSUME NEW S \in SUBSET (1..12), S # {}
  PROVE  M!Max(S) \in S /\ \A i \in S : i <= M!Max(S)
  <1>1. \E k \in S : \A i \in S : k >= i
    <2>1. CASE 12 \in S
      BY <2>1
    <2>2. CASE 12 \notin S /\ 11 \in S
      BY <2>2
    <2>3. CASE S \cap (11..12) = {} /\ 10 \in S
      BY <2>3
    <2>4. CASE S \cap (10..12) = {} /\ 9 \in S
      BY <2>4
    <2>5. CASE S \cap (9..12) = {} /\ 8 \in S
      BY <2>5
    <2>6. CASE S \cap (8..12) = {} /\ 7 \in S
      BY <2>6
    <2>7. CASE S \cap (7..12) = {} /\ 6 \in S
      BY <2>7
    <2>8. CASE S \cap (6..12) = {} /\ 5 \in S
      BY <2>8
    <2>9. CASE S \cap (5..12) = {} /\ 4 \in S
      BY <2>9
    <2>10. CASE S \cap (4..12) = {} /\ 3 \in S
      BY <2>10
    <2>11. CASE S \cap (3..12) = {} /\ 2 \in S
      BY <2>11
    <2>12. CASE S \cap (2..12) = {}
      <3>1. PICK k \in S : TRUE
        OBVIOUS
      <3>2. \A i \in S : i = 1
        BY <2>12
      <3>3. QED
        BY <3>1, <3>2
    <2>13. QED
      BY <2>1, <2>2, <2>3, <2>4, <2>5, <2>6, <2>7, <2>8, <2>9, <2>10, <2>11, <2>12
  <1>2. QED
    BY <1>1 DEF M!Max

\* The smallest of three.
LEMMA SmallestOf ==
  ASSUME NEW a \in Nat, NEW b \in Nat, NEW c \in Nat, NEW d \in {a, b, c}, d <= a, d <= b, d <= c
  PROVE  M!Min({a, b, c}) = d
  BY DEF M!Min

\* Of the sizes tested, those that pass, and how many tests were lost if only those of ok came back.
Passed == {i \in DOMAIN M!Tested : M!Passes(M!Tested[i])}
LostBy(ok) == s.lost + M!Cardinality(Passed) - M!Cardinality(ok)

LEMMA OutcomesCounted ==
  ASSUME M!PathConstants, MTUFields, s.lo <= s.hi, NEW ok \in M!Outcomes
  PROVE  /\ ok \subseteq Passed /\ LostBy(ok) \in 0..MaxLost /\ LostBy(ok) >= s.lost
         /\ LostBy(ok) = 0 => s.lost = 0 /\ ok = Passed
         /\ M!Back(ok) = [s EXCEPT !.lost = LostBy(ok)]
  <1>1. s.lo \in Nat /\ s.hi \in Nat /\ s.lost \in Nat /\ s.lost <= MaxLost /\ MaxLost \in Nat
    <2>1. s.lo \in Lows /\ s.hi \in Bounds /\ s.lost \in Lost
      BY DEF MTUFields
    <2>2. QED
      BY <2>1, InRange, PathNumbers
  <1>2. DOMAIN M!Tested = 1..Len(M!Tested) /\ Len(M!Tested) \in 1..12
    <2>1. SizesAreSo(s.lo, s.hi, M!Tested)
      BY <1>1, SizesOfRange DEF M!Tested
    <2>2. QED
      BY <2>1 DEF SizesAreSo
  <1>3. Passed \subseteq 1..12
    BY <1>2 DEF Passed
  <1>4. IsFiniteSet(Passed)
    <2>1. 1 \in Int /\ 12 \in Int
      OBVIOUS
    <2>2. IsFiniteSet(1..12)
      BY ONLY <2>1, FS_Interval
    <2>3. QED
      BY ONLY <1>3, <2>2, FS_Subset
  <1>5. \A S : M!Cardinality(S) = Cardinality(S)
    BY DEF M!Cardinality, Cardinality, M!IsFiniteSet, IsFiniteSet
  <1>6. M!Outcomes = {Passed} \cup (IF s.lost < MaxLost THEN {Passed \ {i} : i \in Passed} ELSE {})
    BY DEF M!Outcomes, Passed
  <1>7. Cardinality(Passed) \in Nat
    BY <1>4, FS_CardinalityType
  <1>8. M!Back(ok) = [s EXCEPT !.lost = LostBy(ok)]
    BY DEF M!Back, LostBy, Passed
  <1>9. CASE ok = Passed
    <2>1. LostBy(ok) = s.lost
      BY <1>1, <1>5, <1>7, <1>9 DEF LostBy
    <2>2. QED
      BY <1>1, <1>8, <1>9, <2>1
  <1>10. CASE s.lost < MaxLost /\ \E i \in Passed : ok = Passed \ {i}
    <2>1. PICK i \in Passed : ok = Passed \ {i}
      BY <1>10
    <2>2. Cardinality(ok) = Cardinality(Passed) - 1
      <3>1. i \in Passed /\ ok = Passed \ {i}
        BY <2>1
      <3>2. QED
        BY ONLY <1>4, <1>7, <3>1, FS_RemoveElement
    <2>3. LostBy(ok) = s.lost + 1
      BY <1>1, <1>5, <1>7, <2>2 DEF LostBy
    <2>4. QED
      BY <1>1, <1>8, <1>10, <2>1, <2>3
  <1>11. QED
    BY <1>6, <1>9, <1>10
\* A state with as many tests lost is the same.
LEMMA SameLost ==
  ASSUME MTUFields
  PROVE  [s EXCEPT !.lost = s.lost] = s
  BY DEF MTUFields

\* What is common to all that follows.
MTUSame ==
    s'.family = s.family /\ s'.vpn = s.vpn /\ s'.path = s.path /\ s'.servers = s.servers

\* Nothing these depend on changes.
LEMMA SameNumbers ==
  ASSUME MTUSame
  PROVE  M!Least' = M!Least /\ M!Headers' = M!Headers /\ M!Widest' = M!Widest
  BY DEF MTUSame, M!Least, M!MinMTU, M!Headers, M!IPHeader, M!TCPHeader, M!Widest,
     M!MaxTheoreticalVPNMTU, M!Overhead

\* The numbers of a state.
LEMMA StateNumbers ==
  ASSUME MTUInv, M!PathConstants
  PROVE  /\ s.path \in Nat /\ s.path >= 576 /\ s.path <= 1500
         /\ s.link \in Nat /\ s.link <= 1500 /\ s.icmp \in Nat /\ s.icmp <= 1500
         /\ s.lo \in Nat /\ s.hi \in Nat /\ s.hi <= 1520 /\ s.top \in Nat
         /\ s.rounds \in Nat /\ s.lost \in Nat /\ s.asked \in Nat
         /\ s.found \in Nat /\ s.found <= 1500 /\ s.mtu \in Nat /\ s.mtu <= 1500
  <1>1. /\ s.path \in Paths /\ s.link \in M!Sizes /\ s.icmp \in M!Sizes /\ s.lo \in Lows
        /\ s.hi \in Bounds /\ s.top \in Bounds /\ s.rounds \in 0..9 /\ s.lost \in Lost
        /\ s.asked \in Asked /\ s.found \in M!Sizes /\ s.mtu \in M!Sizes
    BY DEF MTUInv, MTUFields
  <1>2. QED
    BY <1>1, InRange, PathNumbers

\* The search is given up.
LEMMA GivesUp ==
  ASSUME MTUInv, M!PathConstants, s.stage \in {"icmp", "sizes", "mss", "tests"},
         NEW lost \in Lost, NEW why \in M!Failures, why # "none",
         why = "noSize" /\ lost = 0 => s.icmp > s.path + 150,
         s' = M!NotDiscovered([s EXCEPT !.lost = lost], why)
  PROVE  MTUInv'
  <1>1. OriginalMTU \in M!Sizes
    BY PathNumbers, InRange
  <1>2. MTUFields'
    BY <1>1 DEF MTUInv, MTUFields, M!NotDiscovered, M!Stages
  <1>3. /\ s'.stage = "routes" /\ s'.failed = why /\ s'.mtu = OriginalMTU /\ s'.lost = lost
        /\ MTUSame /\ s'.link = s.link /\ s'.icmp = s.icmp /\ s'.found = s.found
        /\ s'.left = s.left /\ s'.refused = s.refused /\ s'.rounds = s.rounds
    BY DEF MTUInv, MTUFields, M!NotDiscovered, MTUSame
  <1>4. M!Least' = M!Least /\ M!Widest' = M!Widest
    BY <1>3, SameNumbers
  <1>5. s.found = 0 /\ s.failed = "none" /\ ~s.refused /\ s.left = VPNRoutes /\ s.link = M!Widest
    BY DEF MTUInv, MTUFound, MTUSetting
  <1>6. MTUSetting'
    BY <1>3, <1>4, <1>5 DEF MTUInv, MTUSetting, MTUSame
  <1>7. MTUSearch'
    BY <1>3 DEF MTUInv, MTUSearch
  <1>8. MTUFound'
    BY <1>3, <1>5, StateNumbers DEF MTUFound, M!FoundPasses, M!FoundIsLargest, M!GivenUpForAReason,
       MTUSame
  <1>9. MTUResult'
    BY <1>3, <1>5 DEF MTUResult, M!LinkAndRoutesAgree
  <1>10. QED
    BY <1>2, <1>6, <1>7, <1>8, <1>9 DEF MTUInv

\* ICMP found a size.
LEMMA ICMPIsOver ==
  ASSUME MTUInv, M!PathConstants, s.stage \in {"icmp", "sizes"},
         NEW lost \in Lost, NEW size \in Nat, size <= s.link, lost = 0 => size >= 150,
         s' = M!ICMPFound([s EXCEPT !.lost = lost], size)
  PROVE  MTUInv'
  <1>. DEFINE lo == IF size < 150 THEN M!Wrapped
                    ELSE IF size >= M!Least + 150 THEN size - 150 ELSE M!Least
  <1>1. /\ s.family \in M!Families /\ s.link = M!Widest /\ s.found = 0 /\ s.failed = "none"
        /\ ~s.refused /\ s.left = VPNRoutes
    BY DEF MTUInv, MTUFields, MTUFound, MTUSetting
  <1>2. size <= 1440
    BY <1>1, MTUNumbers
  <1>3. /\ lo \in Nat /\ lo >= M!Least /\ (lo <= 1500 \/ lo = 9999)
        /\ lost > 0 \/ lo <= M!Least \/ lo + 150 <= size
    <2>1. lost \in Nat
      BY InRange
    <2>2. M!Least \in Nat /\ M!Least <= 1280 /\ M!Wrapped = 9999
      BY <1>1, MTUNumbers
    <2>3. QED
      BY <1>2, <2>1, <2>2
  <1> HIDE DEF lo
  <1>4. size \in M!Sizes /\ size \in Bounds /\ lo \in Lows
    BY <1>2, <1>3, InRange
  <1>5. s' = [s EXCEPT !.lost = lost, !.stage = "mss", !.icmp = size, !.hi = size, !.lo = lo]
    BY DEF M!ICMPFound, M!Least, lo, MTUInv, MTUFields
  <1>6. MTUFields'
    BY ZenonT(60), <1>4, <1>5 DEF MTUInv, MTUFields, M!Stages
  <1>7. /\ s'.stage = "mss" /\ s'.icmp = size /\ s'.hi = size /\ s'.lo = lo /\ s'.lost = lost
        /\ MTUSame /\ s'.link = s.link /\ s'.found = s.found /\ s'.failed = s.failed
        /\ s'.left = s.left /\ s'.refused = s.refused /\ s'.rounds = s.rounds
    BY ZenonT(60), <1>5 DEF MTUInv, MTUFields, MTUSame
  <1>8. M!Least' = M!Least /\ M!Widest' = M!Widest
    BY <1>7, SameNumbers
  <1>9. MTUSetting'
    BY <1>1, <1>7, <1>8 DEF MTUInv, MTUSetting, MTUSame
  <1>10. MTUSearch'
    BY <1>2, <1>3, <1>7, <1>8 DEF MTUInv, MTUSearch, LowStart
  <1>11. MTUFound'
    BY <1>1, <1>7, StateNumbers DEF MTUFound, M!FoundPasses, M!FoundIsLargest, M!GivenUpForAReason
  <1>12. MTUResult'
    BY <1>7 DEF MTUResult, M!LinkAndRoutesAgree
  <1>13. QED
    BY <1>6, <1>9, <1>10, <1>11, <1>12 DEF MTUInv

\* The next address is asked, or TCP looks everywhere.
LEMMA AsksNext ==
  ASSUME MTUInv, M!PathConstants, s.stage \in {"icmp", "sizes"}, NEW lost \in Lost,
         s' = M!NextAddress([s EXCEPT !.lost = lost])
  PROVE  MTUInv'
  <1>1. /\ s.family \in M!Families /\ s.link = M!Widest /\ s.found = 0 /\ s.failed = "none"
        /\ ~s.refused /\ s.left = VPNRoutes /\ s.asked \in Asked /\ s.asked < ICMPAddrs
    BY DEF MTUInv, MTUFields, MTUFound, MTUSetting
  <1>2. /\ M!Least \in Nat /\ M!Least <= 1280 /\ s.link \in Nat /\ s.link <= 1440
        /\ s.asked \in Nat /\ ICMPAddrs \in Nat
    BY <1>1, MTUNumbers, InRange, PathNumbers
  <1>3. s.asked + 1 \in Asked /\ M!Least \in Lows /\ s.link \in Bounds
    BY <1>1, <1>2, InRange
  <1>4. CASE s.asked + 1 < ICMPAddrs
    <2>1. s' = [s EXCEPT !.lost = lost, !.stage = "icmp", !.asked = s.asked + 1]
      BY <1>4 DEF M!NextAddress, MTUInv, MTUFields
    <2>2. MTUFields'
      BY ZenonT(60), <1>3, <2>1 DEF MTUInv, MTUFields, M!Stages
    <2>3. /\ s'.stage = "icmp" /\ s'.asked = s.asked + 1
          /\ MTUSame /\ s'.link = s.link /\ s'.found = s.found /\ s'.failed = s.failed
          /\ s'.left = s.left /\ s'.refused = s.refused /\ s'.rounds = s.rounds
      BY <2>1 DEF MTUInv, MTUFields, MTUSame
    <2>4. M!Least' = M!Least /\ M!Widest' = M!Widest
      BY <2>3, SameNumbers
    <2>5. MTUSetting' /\ MTUSearch'
      BY <1>1, <1>4, <2>3, <2>4 DEF MTUInv, MTUSetting, MTUSearch, MTUSame
    <2>6. MTUFound'
      BY <1>1, <2>3, StateNumbers DEF MTUFound, M!FoundPasses, M!FoundIsLargest, M!GivenUpForAReason
    <2>7. MTUResult'
      BY <2>3 DEF MTUResult, M!LinkAndRoutesAgree
    <2>8. QED
      BY <2>2, <2>5, <2>6, <2>7 DEF MTUInv
  <1>5. CASE ~(s.asked + 1 < ICMPAddrs)
    <2>1. s' = [s EXCEPT !.lost = lost, !.stage = "mss", !.asked = s.asked + 1, !.lo = M!Least, !.hi = s.link]
      BY <1>5 DEF M!NextAddress, MTUInv, MTUFields
    <2>2. MTUFields'
      BY ZenonT(60), <1>3, <2>1 DEF MTUInv, MTUFields, M!Stages
    <2>3. /\ s'.stage = "mss" /\ s'.lo = M!Least /\ s'.hi = s.link
          /\ MTUSame /\ s'.link = s.link /\ s'.found = s.found /\ s'.failed = s.failed
          /\ s'.left = s.left /\ s'.refused = s.refused /\ s'.rounds = s.rounds
      BY ZenonT(60), <2>1 DEF MTUInv, MTUFields, MTUSame
    <2>4. M!Least' = M!Least /\ M!Widest' = M!Widest
      BY <2>3, SameNumbers
    <2>5. MTUSetting'
      BY <1>1, <2>3, <2>4 DEF MTUInv, MTUSetting, MTUSame
    <2>6. MTUSearch'
      BY <1>2, <2>3, <2>4 DEF MTUInv, MTUSearch, LowStart
    <2>7. MTUFound'
      BY <1>1, <2>3, StateNumbers DEF MTUFound, M!FoundPasses, M!FoundIsLargest, M!GivenUpForAReason
    <2>8. MTUResult'
      BY <2>3 DEF MTUResult, M!LinkAndRoutesAgree
    <2>9. QED
      BY <2>2, <2>5, <2>6, <2>7, <2>8 DEF MTUInv
  <1>6. QED
    BY <1>4, <1>5

\* A round narrows the range as much as the rounds that are left need.
LEMMA NarrowsMore ==
  ASSUME NEW k \in Nat, NEW wide \in Nat, NEW now \in Nat,
         Narrows(k, wide), wide > 0, 10 * now <= wide - 1
  PROVE  k + 1 <= 4 /\ Narrows(k + 1, now)
  <1>1. k \in {0, 1, 2, 3}
    BY DEF Narrows
  <1>2. QED
    BY <1>1 DEF Narrows

\* What is between two neighbours of a range.
LEMMA Between ==
  ASSUME NEW lo \in Nat, NEW hi \in Nat, NEW a \in lo..hi, NEW b \in lo..hi, NEW top \in Nat,
         NEW least \in Nat, lo <= hi, hi <= top, hi <= 1520, lo >= least, Gap(a, b, hi - lo)
  PROVE  /\ a \in Nat /\ b \in Nat /\ a <= b - 1 /\ a <= 1520 /\ b - 1 <= 1520 /\ b - 1 \in Nat
         /\ b - 1 <= top /\ a >= least /\ b - 1 - a \in Nat /\ hi - lo \in Nat /\ hi - lo > 0
         /\ 10 * (b - 1 - a) <= hi - lo - 1
  BY DEF Gap

\* The range is narrowed to what is between two sizes.
LEMMA IsNarrowed ==
  ASSUME MTUInv, M!PathConstants, s.stage \in {"sizes", "tests"},
         NEW lost \in Lost, lost >= s.lost, NEW i \in 1..(Len(M!Tested) - 1), i \in Passed,
         lost = 0 => i + 1 \notin Passed, s' = M!Narrow([s EXCEPT !.lost = lost], i)
  PROVE  MTUInv'
  <1>. DEFINE a == M!Tested[i]
              b == M!Tested[i + 1]
              top == IF s.stage = "sizes" THEN s.link ELSE s.top
              least == IF s.stage = "sizes" THEN M!Least ELSE M!Headers + 20
  <1>1. /\ s.family \in M!Families /\ s.link = M!Widest /\ s.found = 0 /\ s.failed = "none"
        /\ ~s.refused /\ s.left = VPNRoutes
    BY DEF MTUInv, MTUFields, MTUFound, MTUSetting
  <1>2. /\ s.lo \in Nat /\ s.hi \in Nat /\ s.hi <= 1520 /\ s.path \in Nat /\ s.link \in Nat
        /\ s.rounds \in Nat /\ top \in Nat /\ least \in Nat
    <2>1. /\ s.lo \in Nat /\ s.hi \in Nat /\ s.hi <= 1520 /\ s.path \in Nat /\ s.link \in Nat
          /\ s.rounds \in Nat /\ s.top \in Nat
      BY StateNumbers
    <2>2. M!Least \in Nat /\ M!Headers + 20 \in Nat
      BY <1>1, MTUNumbers
    <2>3. QED
      BY <2>1, <2>2
  <1>3. s.lo <= s.hi /\ s.hi <= top /\ Narrows(s.rounds, s.hi - s.lo) /\ s.lo >= least
    BY DEF MTUInv, MTUSearch, Searched
  <1>4. SizesAreSo(s.lo, s.hi, M!Tested)
    BY <1>2, <1>3, SizesOfRange DEF M!Tested
  <1>5. /\ DOMAIN M!Tested = 1..Len(M!Tested) /\ Len(M!Tested) \in Nat /\ i \in Nat /\ i + 1 \in 1..Len(M!Tested)
        /\ a \in s.lo..s.hi /\ b \in s.lo..s.hi /\ Gap(a, b, s.hi - s.lo)
    BY <1>4 DEF SizesAreSo
  <1>6. a <= s.path /\ a <= s.link
    BY DEF Passed, M!Passes
  <1>7. ASSUME lost = 0
        PROVE  ~(b <= s.path /\ b <= s.link)
    BY <1>5, <1>7 DEF Passed, M!Passes
  <1>8. M!Narrow([s EXCEPT !.lost = lost], i)
        = [s EXCEPT !.lost = lost, !.lo = a, !.hi = b - 1, !.rounds = M!Min({s.rounds + 1, 9})]
    BY DEF M!Narrow, M!Narrowed, MTUInv, MTUFields
  <1> HIDE DEF a, b, top, least
  <1>. DEFINE last == b - 1
  <1>9. /\ a \in Nat /\ b \in Nat /\ last \in Nat /\ a <= last /\ a <= 1520 /\ last <= 1520
        /\ last <= top /\ a >= least /\ b = last + 1
    BY SMTT(60), <1>2, <1>3, <1>5, Between
  <1>10. s.rounds + 1 <= 4 /\ Narrows(s.rounds + 1, last - a)
    <2> DEFINE now == last - a
               wide == s.hi - s.lo
    <2>1. now \in Nat /\ wide \in Nat /\ wide > 0 /\ 10 * now <= wide - 1
      BY SMTT(60), <1>2, <1>3, <1>5, Between
    <2>2. Narrows(s.rounds, wide)
      BY <1>3
    <2> HIDE DEF now, wide
    <2>3. s.rounds + 1 <= 4 /\ Narrows(s.rounds + 1, now)
      BY <1>2, <2>1, <2>2, NarrowsMore
    <2>4. QED
      BY <2>3 DEF now
  <1>11. s' = [s EXCEPT !.lost = lost, !.lo = a, !.hi = last, !.rounds = s.rounds + 1]
    <2>1. s.rounds + 1 \in {s.rounds + 1, 9} /\ s.rounds + 1 <= 9 /\ s.rounds + 1 \in Nat
      BY <1>2, <1>10
    <2>2. M!Min({s.rounds + 1, 9}) = s.rounds + 1
      BY <2>1 DEF M!Min
    <2>3. QED
      BY <1>8, <2>2
  <1> HIDE DEF last
  <1>12. a \in Lows /\ last \in Bounds /\ s.rounds + 1 \in 0..9
    <2>1. a <= 9999
      BY <1>9
    <2>2. s.rounds + 1 \in 0..9
      <3>1. s.rounds + 1 <= 4 /\ s.rounds \in Nat
        BY <1>2, <1>10
      <3>2. QED
        BY <3>1
    <2>3. QED
      BY <1>9, <2>1, <2>2, InRange
  <1>13. MTUFields'
    BY ZenonT(60), <1>11, <1>12 DEF MTUInv, MTUFields
  <1>14. /\ s'.lo = a /\ s'.hi = last /\ s'.lost = lost /\ s'.rounds = s.rounds + 1 /\ s'.stage = s.stage
         /\ MTUSame /\ s'.link = s.link /\ s'.found = s.found /\ s'.failed = s.failed
         /\ s'.left = s.left /\ s'.refused = s.refused /\ s'.top = s.top /\ s'.asked = s.asked
    BY <1>11 DEF MTUInv, MTUFields, MTUSame
  <1>15. M!Least' = M!Least /\ M!Widest' = M!Widest /\ M!Headers' = M!Headers
    BY <1>14, SameNumbers
  <1>16. MTUSetting'
    BY <1>14, <1>15 DEF MTUInv, MTUSetting, MTUSame
  <1>17. MTUSearch'
    <2>1. /\ s'.lo <= s'.hi /\ s'.hi <= top /\ Narrows(s'.rounds, s'.hi - s'.lo)
          /\ s'.rounds > 0 /\ s'.rounds <= 4 /\ s'.lo >= least
      <3>1. last \in Nat /\ a \in Nat /\ s.rounds \in Nat /\ a <= last /\ last <= top /\ a >= least
        BY <1>2, <1>9
      <3>2. s.rounds + 1 > 0
        BY <3>1
      <3>3. QED
        BY <1>10, <1>14, <3>1, <3>2
    <2>2. M!Passes(s.lo)'
      BY <1>6, <1>14 DEF M!Passes, MTUSame
    <2>3. s'.lost = 0 => s'.path <= s'.hi \/ s'.link <= s'.hi
      <3>1. ~(b <= s.path /\ b <= s.link) => s.path <= last \/ s.link <= last
        BY <1>2, <1>9
      <3>2. QED
        BY <1>7, <1>14, <3>1 DEF MTUSame
    <2>4. CASE s.stage = "sizes"
      <3>1. top = s'.link /\ least = M!Least'
        BY <2>4, <1>14, <1>15 DEF top, least
      <3>2. QED
        BY <1>14, <2>1, <2>2, <2>3, <2>4, <3>1 DEF MTUSearch, Searched
    <2>5. CASE s.stage = "tests"
      <3>1. top = s'.top /\ least = M!Headers' + 20
        BY <2>5, <1>14, <1>15 DEF top, least
      <3>2. s'.top >= 576 /\ s'.top <= 1520
        BY <2>5, <1>14 DEF MTUInv, MTUSearch
      <3>3. QED
        BY <1>14, <2>1, <2>2, <2>3, <2>5, <3>1, <3>2 DEF MTUSearch, Searched
    <2>6. QED
      BY <2>4, <2>5
  <1>18. MTUFound'
    BY <1>1, <1>14, StateNumbers DEF MTUFound, M!FoundPasses, M!FoundIsLargest, M!GivenUpForAReason
  <1>19. MTUResult'
    BY <1>14 DEF MTUResult, M!LinkAndRoutesAgree
  <1>20. QED
    BY <1>13, <1>16, <1>17, <1>18, <1>19 DEF MTUInv

\* A size is found: the only one, or one that passed and is as large as can be without losses.
LEMMA IsFound ==
  ASSUME MTUInv, M!PathConstants, s.stage = "tests", NEW lost \in Lost, NEW size \in Nat,
         s.lo <= size, size <= s.hi,
         \/ s.rounds = 0 /\ s.lo = s.hi
         \/ /\ M!Passes(size)
            /\ lost = 0 => size = s.top \/ s.path <= size \/ s.link <= size,
         s' = M!Discovered([s EXCEPT !.lost = lost], size)
  PROVE  MTUInv'
  <1>1. /\ s.family \in M!Families /\ s.link = M!Widest /\ s.found = 0 /\ s.failed = "none"
        /\ ~s.refused /\ s.left = VPNRoutes
    BY DEF MTUInv, MTUFields, MTUFound, MTUSetting
  <1>2. /\ s.lo \in Nat /\ s.hi \in Nat /\ s.path \in Nat /\ s.path <= 1500
        /\ s.link \in Nat /\ s.link <= 1500 /\ s.top \in Nat
    BY StateNumbers
  <1>3. /\ s.hi <= s.top /\ s.lo >= M!Headers + 20
        /\ s.rounds = 0 => s.lo <= 1500
    BY DEF MTUInv, MTUSearch, Searched
  <1>4. M!Headers \in Nat /\ M!Widest \in Nat
    BY <1>1, MTUNumbers
  <1>5. size <= 1500 /\ size <= s.top /\ size >= M!Headers + 20 /\ size > 0
    BY <1>2, <1>3, <1>4 DEF M!Passes
  <1>6. size \in M!Sizes
    BY <1>5, InRange
  <1>7. s' = [s EXCEPT !.lost = lost, !.stage = "routes", !.found = size, !.mtu = size]
    BY DEF M!Discovered, MTUInv, MTUFields
  <1>8. MTUFields'
    BY ZenonT(60), <1>6, <1>7 DEF MTUInv, MTUFields, M!Stages
  <1>9. /\ s'.stage = "routes" /\ s'.found = size /\ s'.mtu = size /\ s'.lost = lost
        /\ MTUSame /\ s'.link = s.link /\ s'.failed = s.failed /\ s'.left = s.left
        /\ s'.refused = s.refused /\ s'.rounds = s.rounds /\ s'.lo = s.lo /\ s'.hi = s.hi /\ s'.top = s.top
    BY <1>7 DEF MTUInv, MTUFields, MTUSame
  <1>10. M!Least' = M!Least /\ M!Widest' = M!Widest /\ M!Headers' = M!Headers
    BY <1>9, SameNumbers
  <1>11. MTUSetting' /\ MTUSearch'
    BY <1>1, <1>9, <1>10 DEF MTUInv, MTUSetting, MTUSearch, MTUSame
  <1>12. M!FoundPasses'
    BY <1>1, <1>9, <1>10 DEF M!FoundPasses, M!OneSize, M!Passes, MTUSame
  <1>13. M!FoundIsLargest'
    <2>1. CASE s.rounds = 0 /\ s.lo = s.hi
      BY <1>9, <2>1 DEF M!FoundIsLargest, M!OneSize
    <2>2. CASE lost # 0
      BY <1>9, <2>2 DEF M!FoundIsLargest
    <2>3. CASE lost = 0 /\ ~(s.rounds = 0 /\ s.lo = s.hi)
      <3>1. size <= s.path /\ size <= M!Widest /\ size <= s.top /\ size \in {s.path, M!Widest, s.top}
        BY <1>1, <1>2, <1>5, <2>3 DEF M!Passes
      <3>2. M!Min({s.path, M!Widest, s.top}) = size
        BY <1>2, <1>4, <3>1, SmallestOf
      <3>3. QED
        BY <1>9, <1>10, <3>2 DEF M!FoundIsLargest, MTUSame
    <2>4. QED
      BY <2>1, <2>2, <2>3
  <1>14. MTUFound'
    BY <1>1, <1>5, <1>9, <1>10, <1>12, <1>13 DEF MTUFound, M!GivenUpForAReason
  <1>15. MTUResult'
    BY <1>1, <1>5, <1>9 DEF MTUResult, M!LinkAndRoutesAgree
  <1>16. QED
    BY <1>8, <1>11, <1>14, <1>15 DEF MTUInv

\* The segments of a server are to be looked for.
LEMMA MSSFound ==
  ASSUME MTUInv, M!PathConstants, M!FindMSS
  PROVE  MTUInv'
  <1>1. SUFFICES ASSUME NEW mss \in M!Chosen, NEW low, s' = M!Segments(mss, low),
                        low = IF s.lo > M!Headers + mss THEN M!Headers + mss - 100 ELSE s.lo
                 PROVE  MTUInv'
    BY DEF M!FindMSS
  <1>2. /\ s.stage = "mss" /\ s.family \in M!Families /\ s.link = M!Widest /\ s.found = 0
        /\ s.failed = "none" /\ ~s.refused /\ s.left = VPNRoutes
        /\ s.lo >= M!Least /\ (s.lo <= 1500 \/ s.lo = 9999) /\ LowStart
    BY DEF M!FindMSS, MTUInv, MTUFields, MTUFound, MTUSetting, MTUSearch
  <1>3. /\ s.lo \in Nat /\ s.hi \in Nat /\ s.lost \in Nat /\ s.icmp \in Nat /\ s.lost \in Lost
    BY StateNumbers DEF MTUInv, MTUFields
  <1>4. mss \in MSSes
    <2>1. PICK a, b \in MSSes : s.servers = {a, b}
      BY DEF MTUInv, MTUSetting
    <2>2. a \in Nat /\ b \in Nat
      BY <2>1, PathNumbers
    <2>3. M!Max({a, b}) \in {a, b}
      <3>1. \E x \in {a, b} : \A y \in {a, b} : x >= y
        BY <2>2
      <3>2. QED
        BY <3>1 DEF M!Max
    <2>4. QED
      BY <2>1, <2>3 DEF M!Chosen
  <1>5. CASE mss = 0
    <2>1. s' = M!NotDiscovered([s EXCEPT !.lost = s.lost], "noServer")
      BY <1>1, <1>5, SameLost DEF M!Segments, MTUInv
    <2>2. "noServer" \in M!Failures
      BY DEF M!Failures
    <2>3. QED
      BY <1>2, <1>3, <2>1, <2>2, GivesUp
  <1>6. CASE mss # 0
    <2>. DEFINE top == M!Headers + mss
    <2>1. /\ (M!Least = 68 /\ M!Headers = 40) \/ (M!Least = 1280 /\ M!Headers = 60)
      BY <1>2, MTUNumbers
    <2>2. mss \in Nat /\ mss >= 536 /\ mss <= 1460
      BY <1>4, <1>6, PathNumbers
    <2>3. top \in Nat /\ top >= 576 /\ top <= 1520
      BY <2>1, <2>2
    <2>4. top = M!Headers + mss
      OBVIOUS
    <2> HIDE DEF top
    <2>5. low \in Nat /\ low <= top /\ low <= 1500 /\ low >= M!Headers + 20
      BY <1>1, <1>2, <1>3, <2>1, <2>2, <2>4
    <2>6. s.lost > 0 \/ low <= M!Least \/ low + 150 <= s.icmp
      BY <1>1, <1>2, <1>3, <2>1, <2>2, <2>4 DEF LowStart
    <2>7. low \in Lows /\ top \in Bounds
      <3>1. low <= 9999
        BY <2>5
      <3>2. QED
        BY <2>3, <2>5, <3>1, InRange
    <2>4a. s' = [s EXCEPT !.stage = "tests", !.lo = low, !.hi = top, !.top = top, !.rounds = 0]
      BY <1>1, <1>6 DEF M!Segments, top
    <2>8. MTUFields'
      <3>1. 0 \in 0..9 /\ "tests" \in M!Stages
        BY DEF M!Stages, M!Searches
      <3>2. QED
        BY <2>4a, <2>7, <3>1 DEF MTUInv, MTUFields
    <2>9. /\ s'.stage = "tests" /\ s'.lo = low /\ s'.hi = top /\ s'.top = top /\ s'.rounds = 0
          /\ s'.lost = s.lost /\ s'.icmp = s.icmp
          /\ MTUSame /\ s'.link = s.link /\ s'.found = s.found /\ s'.failed = s.failed
          /\ s'.left = s.left /\ s'.refused = s.refused
      BY <2>4a DEF MTUInv, MTUFields, MTUSame
    <2>10. M!Least' = M!Least /\ M!Widest' = M!Widest /\ M!Headers' = M!Headers
      BY <2>9, SameNumbers
    <2>11. MTUSetting'
      BY <1>2, <2>9, <2>10 DEF MTUInv, MTUSetting, MTUSame
    <2>12. Narrows(0, top - low)
      BY <2>3, <2>5 DEF Narrows
    <2>13. MTUSearch'
      BY <2>3, <2>5, <2>6, <2>9, <2>10, <2>12 DEF MTUSearch, Searched, LowStart
    <2>14. MTUFound'
      BY <1>2, <2>9 DEF MTUFound, M!FoundPasses, M!FoundIsLargest, M!GivenUpForAReason
    <2>15. MTUResult'
      BY <2>9 DEF MTUResult, M!LinkAndRoutesAgree
    <2>16. QED
      BY <2>8, <2>11, <2>13, <2>14, <2>15 DEF MTUInv
  <1>7. QED
    BY <1>5, <1>6

\* What is not the last of a few numbers is followed by one.
LEMMA NotLast ==
  ASSUME NEW n \in 1..12, NEW i \in 1..n, i # n
  PROVE  i \in 1..(n - 1)
  OBVIOUS

\* The next of a number is not in a set it is the largest of.
LEMMA NoneAfter ==
  ASSUME NEW n \in Nat, NEW i \in 1..n, NEW S, \A j \in S : j <= i
  PROVE  i + 1 \notin S
  OBVIOUS

\* All sizes pass when the largest does.
LEMMA AllBelow ==
  ASSUME MTUInv, M!PathConstants, s.lo <= s.hi, Len(M!Tested) \in Passed
  PROVE  Passed = DOMAIN M!Tested
  <1>1. SizesAreSo(s.lo, s.hi, M!Tested)
    BY StateNumbers, SizesOfRange DEF M!Tested
  <1>2. s.lo \in Nat /\ s.hi \in Nat /\ s.path \in Nat /\ s.link \in Nat
    BY StateNumbers
  <1>3. s.hi <= s.path /\ s.hi <= s.link
    BY <1>1 DEF SizesAreSo, Passed, M!Passes
  <1>4. \A i \in DOMAIN M!Tested : M!Tested[i] \in s.lo..s.hi
    BY <1>1 DEF SizesAreSo
  <1>5. ASSUME NEW i \in DOMAIN M!Tested
        PROVE  M!Tested[i] <= s.path /\ M!Tested[i] <= s.link
    BY <1>2, <1>3, <1>4
  <1>6. QED
    BY <1>5 DEF Passed, M!Passes

\* A round of sizes.
LEMMA SizesTested ==
  ASSUME MTUInv, M!PathConstants, M!SizesRound
  PROVE  MTUInv'
  <1>1. SUFFICES ASSUME NEW ok \in M!Outcomes,
                        s' = IF ok = DOMAIN M!Tested THEN M!ICMPFound(s, s.hi)
                             ELSE IF ok \ {Len(M!Tested)} # {}
                                  THEN M!Narrow(M!Back(ok), M!Max(ok \ {Len(M!Tested)}))
                                  ELSE M!NextAddress(M!Back(ok))
                 PROVE  MTUInv'
    BY DEF M!SizesRound
  <1>2. s.stage = "sizes" /\ Len(M!Tested) > 1
    BY DEF M!SizesRound
  <1>3. /\ s.lo <= s.hi /\ s.hi <= s.link /\ s.link = M!Widest
        /\ s.lost = 0 => s.hi = s.link \/ s.path <= s.hi \/ s.link <= s.hi
    BY <1>2 DEF MTUInv, MTUSearch, Searched, MTUSetting
  <1>4. MTUFields /\ s.family \in M!Families /\ s.lost \in Lost
    BY DEF MTUInv, MTUFields
  <1>5. SizesAreSo(s.lo, s.hi, M!Tested)
    BY <1>3, StateNumbers, SizesOfRange DEF M!Tested
  <1>6. /\ ok \subseteq Passed /\ LostBy(ok) \in 0..MaxLost /\ LostBy(ok) >= s.lost
        /\ LostBy(ok) = 0 => s.lost = 0 /\ ok = Passed
        /\ M!Back(ok) = [s EXCEPT !.lost = LostBy(ok)]
    BY <1>3, <1>4, OutcomesCounted
  <1>7. LostBy(ok) \in Lost
    BY <1>6 DEF Lost
  <1>8. CASE ok = DOMAIN M!Tested
    <2>1. s' = M!ICMPFound([s EXCEPT !.lost = s.lost], s.hi)
      BY <1>1, <1>4, <1>8, SameLost
    <2>2. s.lost = 0 => s.hi >= 150
      <3>1. s.path \in Nat /\ s.path >= 576 /\ s.hi \in Nat
        BY StateNumbers
      <3>2. s.link \in Nat /\ s.link >= 1399
        BY <1>3, <1>4, MTUNumbers
      <3>3. QED
        BY <1>3, <3>1, <3>2
    <2>3. s.hi \in Nat
      BY StateNumbers
    <2>4. QED
      BY <1>2, <1>3, <1>4, <2>1, <2>2, <2>3, ICMPIsOver
  <1>9. CASE ok # DOMAIN M!Tested /\ ok \ {Len(M!Tested)} = {}
    <2>1. s' = M!NextAddress([s EXCEPT !.lost = LostBy(ok)])
      BY <1>1, <1>6, <1>9
    <2>2. QED
      BY <1>2, <1>7, <2>1, AsksNext
  <1>10. CASE ok # DOMAIN M!Tested /\ ok \ {Len(M!Tested)} # {}
    <2>. DEFINE below == ok \ {Len(M!Tested)}
                i == M!Max(below)
    <2>1. Len(M!Tested) \in 1..12 /\ DOMAIN M!Tested = 1..Len(M!Tested)
      BY <1>5 DEF SizesAreSo
    <2>2. ok \subseteq 1..Len(M!Tested)
      BY <1>6, <2>1 DEF Passed
    <2>3. below \in SUBSET (1..12) /\ below # {}
      <3>1. ok \in SUBSET (1..12)
        BY <2>1, <2>2
      <3>2. QED
        BY <1>10, <3>1
    <2>4. i \in below /\ \A j \in below : j <= i
      BY <2>3, LargestOf
    <2>5. s' = M!Narrow([s EXCEPT !.lost = LostBy(ok)], i)
      BY <1>1, <1>6, <1>10
    <2> HIDE DEF i
    <2>6. i \in ok /\ i \in 1..Len(M!Tested) /\ i # Len(M!Tested)
      BY <2>2, <2>4
    <2>7. i \in 1..(Len(M!Tested) - 1)
      BY <2>1, <2>6, NotLast
    <2>8. ASSUME LostBy(ok) = 0, i + 1 \in Passed
          PROVE  FALSE
      <3>1. ok = Passed
        BY <1>6, <2>8
      <3>2. i + 1 \notin below
        <4>1. Len(M!Tested) \in Nat
          BY <2>1
        <4>2. QED
          BY <2>4, <2>6, <4>1, NoneAfter
      <3>3. i + 1 = Len(M!Tested)
        BY <2>8, <3>1, <3>2
      <3>4. Passed = DOMAIN M!Tested
        BY <1>3, <2>8, <3>3, AllBelow
      <3>5. QED
        BY <1>10, <3>1, <3>4
    <2>9. i \in Passed
      BY <1>6, <2>6
    <2>10. QED
      BY <1>2, <1>6, <1>7, <2>5, <2>7, <2>8, <2>9, IsNarrowed
  <1>11. QED
    BY <1>8, <1>9, <1>10

\* The last size over ICMP.
LEMMA SizesOver ==
  ASSUME MTUInv, M!PathConstants, M!SizesEnd
  PROVE  MTUInv'
  <1>1. s.stage = "sizes" /\ Len(M!Tested) = 1 /\ s' = M!ICMPFound(s, s.lo)
    BY DEF M!SizesEnd
  <1>2. /\ s.lo <= s.hi /\ s.hi <= s.link /\ s.link = M!Widest
        /\ s.lost = 0 => s.hi = s.link \/ s.path <= s.hi \/ s.link <= s.hi
    BY <1>1 DEF MTUInv, MTUSearch, Searched, MTUSetting
  <1>3. MTUFields /\ s.family \in M!Families /\ s.lost \in Lost
    BY DEF MTUInv, MTUFields
  <1>4. s.lo = s.hi
    <2>1. SizesAreSo(s.lo, s.hi, M!Tested)
      BY <1>2, StateNumbers, SizesOfRange DEF M!Tested
    <2>2. QED
      BY <1>1, <2>1 DEF SizesAreSo
  <1>5. s' = M!ICMPFound([s EXCEPT !.lost = s.lost], s.hi)
    BY <1>1, <1>3, <1>4, SameLost
  <1>6. s.lost = 0 => s.hi >= 150
    <2>1. s.path \in Nat /\ s.path >= 576 /\ s.hi \in Nat
      BY StateNumbers
    <2>2. s.link \in Nat /\ s.link >= 1399
      BY <1>2, <1>3, MTUNumbers
    <2>3. QED
      BY <1>2, <2>1, <2>2
  <1>7. s.hi \in Nat
    BY StateNumbers
  <1>8. QED
    BY <1>1, <1>2, <1>3, <1>5, <1>6, <1>7, ICMPIsOver

\* A round of segments.
LEMMA SegmentsTested ==
  ASSUME MTUInv, M!PathConstants, M!TestsRound
  PROVE  MTUInv'
  <1>1. SUFFICES ASSUME NEW ok \in M!Outcomes,
                        s' = IF Len(M!Tested) \in ok THEN M!Discovered(M!Back(ok), s.hi)
                             ELSE IF ok # {} THEN M!Narrow(M!Back(ok), M!Max(ok))
                             ELSE M!NotDiscovered(M!Back(ok), "noSize")
                 PROVE  MTUInv'
    BY DEF M!TestsRound
  <1>2. s.stage = "tests" /\ Len(M!Tested) > 1
    BY DEF M!TestsRound
  <1>3. /\ s.lo <= s.hi /\ s.link = M!Widest
        /\ s.rounds > 0 => M!Passes(s.lo)
        /\ s.lost = 0 => s.hi = s.top \/ s.path <= s.hi \/ s.link <= s.hi
        /\ s.rounds = 0 => LowStart
        /\ s.path >= M!Least
    BY <1>2 DEF MTUInv, MTUSearch, Searched, MTUSetting
  <1>4. MTUFields /\ s.family \in M!Families
    BY DEF MTUInv, MTUFields
  <1>5. SizesAreSo(s.lo, s.hi, M!Tested)
    BY <1>3, StateNumbers, SizesOfRange DEF M!Tested
  <1>6. /\ ok \subseteq Passed /\ LostBy(ok) \in 0..MaxLost /\ LostBy(ok) >= s.lost
        /\ LostBy(ok) = 0 => s.lost = 0 /\ ok = Passed
        /\ M!Back(ok) = [s EXCEPT !.lost = LostBy(ok)]
    BY <1>3, <1>4, OutcomesCounted
  <1>7. LostBy(ok) \in Lost
    BY <1>6 DEF Lost
  <1>8. /\ Len(M!Tested) \in 1..12 /\ DOMAIN M!Tested = 1..Len(M!Tested)
        /\ M!Tested[1] = s.lo /\ M!Tested[Len(M!Tested)] = s.hi
    BY <1>5 DEF SizesAreSo
  <1>9. CASE Len(M!Tested) \in ok
    <2>1. s' = M!Discovered([s EXCEPT !.lost = LostBy(ok)], s.hi)
      BY <1>1, <1>6, <1>9
    <2>2. M!Passes(s.hi)
      BY <1>6, <1>8, <1>9 DEF Passed
    <2>3. s.hi \in Nat /\ s.hi <= s.hi
      BY StateNumbers
    <2>4. QED
      BY <1>2, <1>3, <1>6, <1>7, <2>1, <2>2, <2>3, IsFound
  <1>10. CASE Len(M!Tested) \notin ok /\ ok # {}
    <2>. DEFINE i == M!Max(ok)
    <2>1. ok \subseteq 1..Len(M!Tested)
      BY <1>6, <1>8 DEF Passed
    <2>2. ok \in SUBSET (1..12)
      BY <1>8, <2>1
    <2>3. i \in ok /\ \A j \in ok : j <= i
      BY <1>10, <2>2, LargestOf
    <2>4. s' = M!Narrow([s EXCEPT !.lost = LostBy(ok)], i)
      BY <1>1, <1>6, <1>10
    <2> HIDE DEF i
    <2>5. i \in 1..(Len(M!Tested) - 1)
      <3>1. i \in 1..Len(M!Tested) /\ i # Len(M!Tested)
        BY <1>10, <2>1, <2>3
      <3>2. QED
        BY <1>8, <3>1, NotLast
    <2>6. i + 1 \notin ok
      BY <1>8, <2>3, <2>5
    <2>7. i \in Passed /\ (LostBy(ok) = 0 => i + 1 \notin Passed)
      BY <1>6, <2>3, <2>6
    <2>8. QED
      BY <1>2, <1>6, <1>7, <2>4, <2>5, <2>7, IsNarrowed
  <1>11. CASE ok = {}
    <2>1. s' = M!NotDiscovered([s EXCEPT !.lost = LostBy(ok)], "noSize")
      BY <1>1, <1>6, <1>11
    <2>2. ASSUME LostBy(ok) = 0
          PROVE  s.icmp > s.path + 150
      <3>1. s.lost = 0 /\ Passed = {}
        BY <1>6, <1>11, <2>2
      <3>2. 1 \in DOMAIN M!Tested
        BY <1>8
      <3>3. ~M!Passes(s.lo)
        BY <1>8, <3>1, <3>2 DEF Passed
      <3>4. s.lo \in Nat /\ s.path \in Nat /\ s.link \in Nat /\ s.icmp \in Nat /\ s.icmp <= 1500 /\ s.rounds \in Nat
        BY StateNumbers
      <3>5. LowStart
        BY <1>3, <3>3, <3>4
      <3>6. M!Least \in Nat /\ M!Least <= 1280 /\ s.link >= 1399
        BY <1>3, <1>4, MTUNumbers
      <3>7. s.lo > s.path \/ s.lo > s.link
        BY <3>3, <3>4 DEF M!Passes
      <3>8. QED
        BY <1>3, <3>1, <3>4, <3>5, <3>6, <3>7 DEF LowStart
    <2>3. "noSize" \in M!Failures
      BY DEF M!Failures
    <2>4. QED
      BY <1>2, <1>7, <2>1, <2>2, <2>3, GivesUp
  <1>12. QED
    BY <1>9, <1>10, <1>11

\* The last size over TCP.
LEMMA SegmentsOver ==
  ASSUME MTUInv, M!PathConstants, M!TestsEnd
  PROVE  MTUInv'
  <1>1. s.stage = "tests" /\ Len(M!Tested) = 1 /\ s' = M!Discovered(s, s.lo)
    BY DEF M!TestsEnd
  <1>2. /\ s.lo <= s.hi /\ (s.rounds > 0 => M!Passes(s.lo))
        /\ s.lost = 0 => s.hi = s.top \/ s.path <= s.hi \/ s.link <= s.hi
    BY <1>1 DEF MTUInv, MTUSearch, Searched
  <1>3. MTUFields /\ s.lost \in Lost
    BY DEF MTUInv, MTUFields
  <1>4. s.lo = s.hi
    <2>1. SizesAreSo(s.lo, s.hi, M!Tested)
      BY <1>2, StateNumbers, SizesOfRange DEF M!Tested
    <2>2. QED
      BY <1>1, <2>1 DEF SizesAreSo
  <1>5. s' = M!Discovered([s EXCEPT !.lost = s.lost], s.lo)
    BY <1>1, <1>3, SameLost
  <1>6. s.lo \in Nat /\ s.rounds \in Nat /\ s.lo <= s.lo
    BY StateNumbers
  <1>7. s.rounds = 0 \/ s.rounds > 0
    BY <1>6
  <1>8. QED
    BY <1>1, <1>2, <1>3, <1>4, <1>5, <1>6, <1>7, IsFound

\* The first steps: the MTU of the tests is set, and an echo is sent over it.
LEMMA TestMTUSet ==
  ASSUME MTUInv, M!PathConstants, M!SetTestMTU \/ M!SetTestMTUFails
  PROVE  MTUInv'
  <1>1. /\ s.family \in M!Families /\ s.found = 0 /\ s.failed = "none" /\ ~s.refused
        /\ s.left = VPNRoutes /\ s.asked < ICMPAddrs
    BY DEF MTUInv, MTUFields, MTUFound, MTUSetting, M!SetTestMTU, M!SetTestMTUFails
  <1>2. CASE M!SetTestMTU
    <2>1. M!Widest \in M!Sizes
      <3>1. M!Widest \in Nat /\ M!Widest <= 1440
        BY <1>1, MTUNumbers
      <3>2. M!Widest <= 1500
        BY <3>1
      <3>3. QED
        BY <3>1, <3>2, InRange
    <2>2. s' = [s EXCEPT !.stage = "icmp", !.link = M!Widest]
      BY <1>2 DEF M!SetTestMTU
    <2>3. MTUFields'
      BY <2>1, <2>2 DEF MTUInv, MTUFields, M!Stages
    <2>4. /\ s'.stage = "icmp" /\ s'.link = M!Widest /\ MTUSame /\ s'.found = s.found
          /\ s'.failed = s.failed /\ s'.left = s.left /\ s'.refused = s.refused
          /\ s'.rounds = s.rounds /\ s'.asked = s.asked
      BY <2>2 DEF MTUInv, MTUFields, MTUSame
    <2>5. M!Least' = M!Least /\ M!Widest' = M!Widest
      BY <2>4, SameNumbers
    <2>6. MTUSetting' /\ MTUSearch'
      BY <1>1, <2>4, <2>5 DEF MTUInv, MTUSetting, MTUSearch, MTUSame
    <2>7. MTUFound'
      BY <1>1, <2>4, StateNumbers DEF MTUFound, M!FoundPasses, M!FoundIsLargest, M!GivenUpForAReason
    <2>8. MTUResult'
      BY <2>4 DEF MTUResult, M!LinkAndRoutesAgree
    <2>9. QED
      BY <2>3, <2>6, <2>7, <2>8 DEF MTUInv
  <1>3. CASE M!SetTestMTUFails
    <2>1. s' = [s EXCEPT !.stage = "done", !.refused = TRUE]
      BY <1>3 DEF M!SetTestMTUFails
    <2>2. MTUFields'
      BY <2>1 DEF MTUInv, MTUFields, M!Stages
    <2>3. /\ s'.stage = "done" /\ s'.refused /\ MTUSame /\ s'.found = s.found
          /\ s'.failed = s.failed /\ s'.rounds = s.rounds
      BY <2>1 DEF MTUInv, MTUFields, MTUSame
    <2>4. M!Least' = M!Least
      BY <2>3, SameNumbers
    <2>5. MTUSetting' /\ MTUSearch'
      BY <1>1, <2>3, <2>4 DEF MTUInv, MTUSetting, MTUSearch, MTUSame
    <2>6. MTUFound'
      BY <1>1, <2>3, StateNumbers DEF MTUFound, M!FoundPasses, M!FoundIsLargest, M!GivenUpForAReason
    <2>7. MTUResult'
      BY <2>3 DEF MTUResult, M!LinkAndRoutesAgree
    <2>8. QED
      BY <2>2, <2>5, <2>6, <2>7 DEF MTUInv
  <1>4. QED
    BY <1>2, <1>3

\* An answer to the echo, or none.
LEMMA EchoAnswered ==
  ASSUME MTUInv, M!PathConstants, M!EchoReturns \/ M!HopTooNarrow
  PROVE  MTUInv'
  <1>1. s.stage = "icmp" /\ s.link = M!Widest /\ s.family \in M!Families /\ s.lost \in Lost /\ MTUFields
    BY DEF M!EchoReturns, M!HopTooNarrow, MTUInv, MTUSetting, MTUFields
  <1>2. s.link \in Nat /\ s.link >= 150
    <2>1. s.link \in Nat /\ s.link >= 1399
      BY <1>1, MTUNumbers
    <2>2. QED
      BY <2>1
  <1>3. CASE M!EchoReturns
    <2>1. s' = M!ICMPFound([s EXCEPT !.lost = s.lost], s.link)
      BY <1>1, <1>3, SameLost DEF M!EchoReturns
    <2>2. s.link <= s.link
      BY <1>2
    <2>3. QED
      BY <1>1, <1>2, <2>1, <2>2, ICMPIsOver
  <1>4. CASE M!HopTooNarrow
    <2>1. SUFFICES ASSUME NEW hop \in Paths, hop < s.link, s' = M!ICMPFound(s, hop)
                   PROVE  MTUInv'
      BY <1>4 DEF M!HopTooNarrow
    <2>2. hop \in Nat /\ hop >= 576
      BY PathNumbers
    <2>3. hop >= 150 /\ hop <= s.link
      BY <1>2, <2>1, <2>2
    <2>4. s' = M!ICMPFound([s EXCEPT !.lost = s.lost], hop)
      BY <1>1, <2>1, SameLost
    <2>5. QED
      BY <1>1, <2>2, <2>3, <2>4, ICMPIsOver
  <1>5. QED
    BY <1>3, <1>4

LEMMA EchoUnanswered ==
  ASSUME MTUInv, M!PathConstants, M!NotPermitted \/ M!ICMPFails \/ M!Interrupted
  PROVE  MTUInv'
  <1>1. s.lost \in Lost /\ MTUFields /\ [s EXCEPT !.lost = s.lost] = s
    BY SameLost DEF MTUInv, MTUFields
  <1>2. CASE M!NotPermitted
    BY <1>1, <1>2, AsksNext DEF M!NotPermitted
  <1>3. CASE M!ICMPFails
    <2>1. "icmp" \in M!Failures
      BY DEF M!Failures
    <2>2. s.stage \in {"icmp", "sizes"} /\ s' = M!NotDiscovered([s EXCEPT !.lost = s.lost], "icmp")
      BY <1>1, <1>3 DEF M!ICMPFails
    <2>3. QED
      BY <1>1, <2>1, <2>2, GivesUp
  <1>4. CASE M!Interrupted
    <2>1. "interrupted" \in M!Failures
      BY DEF M!Failures
    <2>2. s.stage \in {"mss", "tests"} /\ s' = M!NotDiscovered([s EXCEPT !.lost = s.lost], "interrupted")
      BY <1>1, <1>4 DEF M!Interrupted
    <2>3. QED
      BY <1>1, <2>1, <2>2, GivesUp
  <1>5. QED
    BY <1>2, <1>3, <1>4

\* Sizes are searched instead.
LEMMA SizesStart ==
  ASSUME MTUInv, M!PathConstants, M!Blackhole
  PROVE  MTUInv'
  <1>1. /\ s.stage = "icmp" /\ s.family \in M!Families /\ s.link = M!Widest /\ s.found = 0
        /\ s.failed = "none" /\ ~s.refused /\ s.left = VPNRoutes /\ s.asked < ICMPAddrs
    BY DEF M!Blackhole, MTUInv, MTUFields, MTUFound, MTUSetting
  <1>2. /\ M!Least \in Nat /\ s.link \in Nat /\ M!Least >= 68 /\ M!Least <= 1280
        /\ s.link >= 1399 /\ s.link <= 1440
    BY <1>1, MTUNumbers
  <1>3. M!Least \in Lows /\ s.link \in Bounds /\ 0 \in 0..9
    <2>1. M!Least <= 9999 /\ s.link <= 1520
      BY <1>2
    <2>2. QED
      BY <1>2, <2>1, InRange
  <1>4. s' = [s EXCEPT !.stage = "sizes", !.lo = M!Least, !.hi = s.link, !.rounds = 0]
    BY DEF M!Blackhole
  <1>5. "sizes" \in M!Stages
    BY DEF M!Stages, M!Searches
  <1>6. MTUFields'
    BY <1>3, <1>4, <1>5 DEF MTUInv, MTUFields
  <1>7. /\ s'.stage = "sizes" /\ s'.lo = M!Least /\ s'.hi = s.link /\ s'.rounds = 0
        /\ MTUSame /\ s'.link = s.link /\ s'.found = s.found /\ s'.failed = s.failed
        /\ s'.left = s.left /\ s'.refused = s.refused /\ s'.asked = s.asked
    BY <1>4 DEF MTUInv, MTUFields, MTUSame
  <1>8. M!Least' = M!Least /\ M!Widest' = M!Widest
    BY <1>7, SameNumbers
  <1>9. MTUSetting'
    BY <1>1, <1>7, <1>8 DEF MTUInv, MTUSetting, MTUSame
  <1>10. Narrows(0, s.link - M!Least) /\ M!Least <= s.link
    BY <1>2 DEF Narrows
  <1>11. M!Least <= M!Least /\ s.link <= s.link
    BY <1>2
  <1>12. MTUSearch'
    BY <1>7, <1>8, <1>10, <1>11 DEF MTUSearch, Searched
  <1>13. MTUFound'
    BY <1>1, <1>7, StateNumbers DEF MTUFound, M!FoundPasses, M!FoundIsLargest, M!GivenUpForAReason
  <1>14. MTUResult'
    BY <1>7 DEF MTUResult, M!LinkAndRoutesAgree
  <1>15. QED
    BY <1>6, <1>9, <1>12, <1>13, <1>14 DEF MTUInv

\* Nothing of what was found changes when only these may.
LEMMA FoundStays ==
  ASSUME MTUInv, M!PathConstants, MTUSame, s.stage \in {"routes", "restore"},
         s'.stage \in {"routes", "restore", "done"},
         s'.found = s.found, s'.failed = s.failed, s'.rounds = s.rounds, s'.lo = s.lo, s'.hi = s.hi,
         s'.top = s.top, s'.lost = s.lost, s'.icmp = s.icmp,
         s'.stage # "done" => s'.link = s.link
  PROVE  MTUSetting' /\ MTUSearch' /\ MTUFound'
  <1>1. M!Least' = M!Least /\ M!Widest' = M!Widest /\ M!Headers' = M!Headers
    BY SameNumbers
  <1>2. MTUSetting'
    BY <1>1 DEF MTUInv, MTUSetting, MTUSame
  <1>3. MTUSearch'
    BY DEF MTUInv, MTUSearch
  <1>4. M!FoundPasses' /\ M!FoundIsLargest' /\ M!GivenUpForAReason'
    BY <1>1 DEF MTUInv, MTUFound, M!FoundPasses, M!FoundIsLargest, M!GivenUpForAReason, M!OneSize,
       MTUSame
  <1>5. MTUFound'
    BY <1>1, <1>4 DEF MTUInv, MTUFound
  <1>6. QED
    BY <1>2, <1>3, <1>5

\* A route is replaced.
LEMMA RouteReplaced ==
  ASSUME MTUInv, M!PathConstants, M!ReplaceRoute
  PROVE  MTUInv'
  <1>1. SUFFICES ASSUME NEW r \in s.left,
                        s' = [s EXCEPT !.left = s.left \ {r}, !.advMSS[r] = M!AdvMSS(s.mtu)]
                 PROVE  MTUInv'
    <2>1. (CHOOSE r \in s.left : TRUE) \in s.left
      BY DEF M!ReplaceRoute
    <2>2. QED
      BY <2>1 DEF M!ReplaceRoute
  <1>2. /\ s.stage = "routes" /\ ~s.refused /\ s.family \in M!Families /\ s.left \subseteq VPNRoutes
        /\ s.mtu = IF s.found > 0 THEN s.found ELSE OriginalMTU
        /\ s.found > 0 => s.found >= M!Headers + 20
        /\ \A q \in VPNRoutes \ s.left : s.advMSS[q] = M!AdvMSS(s.mtu)
    BY DEF M!ReplaceRoute, MTUInv, MTUFields, MTUFound, MTUResult
  <1>3. M!AdvMSS(s.mtu) \in M!Sizes
    <2>1. OriginalMTU \in Nat /\ OriginalMTU >= 576 /\ OriginalMTU <= 1500
      BY PathNumbers
    <2>2. M!Headers \in {40, 60} /\ s.found \in Nat /\ s.found <= 1500
      BY <1>2, MTUNumbers, StateNumbers
    <2>3. s.mtu \in Nat /\ s.mtu >= M!Headers + 20 /\ s.mtu <= 1500
      BY <1>2, <2>1, <2>2
    <2>4. M!AdvMSS(s.mtu) \in Nat /\ M!AdvMSS(s.mtu) <= 1500
      BY <2>2, <2>3 DEF M!AdvMSS
    <2>5. QED
      BY <2>4, InRange
  <1> DEFINE adv == M!AdvMSS(s.mtu)
  <1> HIDE DEF adv
  <1>4. s' = [s EXCEPT !.left = s.left \ {r}, !.advMSS = [s.advMSS EXCEPT ![r] = adv]]
    BY <1>1 DEF adv
  <1>5. [s.advMSS EXCEPT ![r] = adv] \in [VPNRoutes -> M!Sizes]
    BY <1>3 DEF MTUInv, MTUFields, adv
  <1>6. MTUFields'
    BY <1>4, <1>5 DEF MTUInv, MTUFields
  <1>7. /\ s'.left = s.left \ {r} /\ s'.advMSS = [s.advMSS EXCEPT ![r] = adv] /\ s'.stage = s.stage
        /\ s'.mtu = s.mtu /\ MTUSame /\ s'.link = s.link /\ s'.found = s.found
        /\ s'.failed = s.failed /\ s'.rounds = s.rounds /\ s'.lo = s.lo /\ s'.hi = s.hi /\ s'.top = s.top
        /\ s'.lost = s.lost /\ s'.icmp = s.icmp /\ s'.refused = s.refused
    BY <1>4 DEF MTUInv, MTUFields, MTUSame
  <1>8. MTUSetting' /\ MTUSearch' /\ MTUFound'
    BY <1>2, <1>7, FoundStays
  <1>9. \A q \in VPNRoutes \ s'.left : s'.advMSS[q] = adv
    <2>1. s.advMSS \in [VPNRoutes -> M!Sizes]
      BY DEF MTUInv, MTUFields
    <2>2. QED
      BY <1>2, <1>7, <2>1 DEF adv
  <1>10. adv = M!AdvMSS(s.mtu)'
    <2>1. M!Headers' = M!Headers
      BY <1>7, SameNumbers
    <2>2. QED
      BY <1>7, <2>1 DEF adv, M!AdvMSS
  <1>11. MTUResult'
    BY <1>2, <1>7, <1>9, <1>10 DEF MTUResult, M!LinkAndRoutesAgree
  <1>12. QED
    BY <1>6, <1>8, <1>11 DEF MTUInv

\* The routes are over, and the link is as it is to be.
LEMMA LinkRestored ==
  ASSUME MTUInv, M!PathConstants,
         M!ReplaceFails \/ M!RoutesReplaced \/ M!SetFinalMTU \/ M!SetFinalMTUFails
  PROVE  MTUInv'
  <1>1. CASE M!ReplaceFails
    <2>1. s.stage = "routes" /\ s' = [s EXCEPT !.stage = "restore", !.mtu = OriginalMTU, !.refused = TRUE]
      BY <1>1 DEF M!ReplaceFails
    <2>2. OriginalMTU \in M!Sizes
      BY PathNumbers, InRange
    <2>3. MTUFields'
      BY <2>1, <2>2 DEF MTUInv, MTUFields, M!Stages
    <2>4. /\ s'.stage = "restore" /\ s'.refused /\ MTUSame /\ s'.link = s.link /\ s'.found = s.found
          /\ s'.failed = s.failed /\ s'.rounds = s.rounds /\ s'.lo = s.lo /\ s'.hi = s.hi /\ s'.top = s.top
          /\ s'.lost = s.lost /\ s'.icmp = s.icmp
      BY <2>1 DEF MTUInv, MTUFields, MTUSame
    <2>5. MTUSetting' /\ MTUSearch' /\ MTUFound'
      BY <2>1, <2>4, FoundStays
    <2>6. MTUResult'
      BY <2>4 DEF MTUResult, M!LinkAndRoutesAgree
    <2>7. QED
      BY <2>3, <2>5, <2>6 DEF MTUInv
  <1>2. CASE M!RoutesReplaced
    <2>1. s.stage = "routes" /\ s.left = {} /\ s' = [s EXCEPT !.stage = "restore"]
      BY <1>2 DEF M!RoutesReplaced
    <2>2. MTUFields'
      BY <2>1 DEF MTUInv, MTUFields, M!Stages
    <2>3. /\ s'.stage = "restore" /\ s'.refused = s.refused /\ MTUSame /\ s'.link = s.link /\ s'.found = s.found
          /\ s'.failed = s.failed /\ s'.rounds = s.rounds /\ s'.lo = s.lo /\ s'.hi = s.hi /\ s'.top = s.top
          /\ s'.lost = s.lost /\ s'.icmp = s.icmp /\ s'.mtu = s.mtu /\ s'.left = s.left /\ s'.advMSS = s.advMSS
      BY <2>1 DEF MTUInv, MTUFields, MTUSame
    <2>4. MTUSetting' /\ MTUSearch' /\ MTUFound'
      BY <2>1, <2>3, FoundStays
    <2>5. M!AdvMSS(s.mtu)' = M!AdvMSS(s.mtu)
      BY <2>3, SameNumbers DEF M!AdvMSS
    <2>6. MTUResult'
      BY <2>1, <2>3, <2>5 DEF MTUInv, MTUResult, M!LinkAndRoutesAgree
    <2>7. QED
      BY <2>2, <2>4, <2>6 DEF MTUInv
  <1>3. CASE M!SetFinalMTU
    <2>1. s.stage = "restore" /\ s' = [s EXCEPT !.stage = "done", !.link = s.mtu]
      BY <1>3 DEF M!SetFinalMTU
    <2>2. MTUFields'
      BY <2>1 DEF MTUInv, MTUFields, M!Stages
    <2>3. /\ s'.stage = "done" /\ s'.refused = s.refused /\ MTUSame /\ s'.link = s.mtu /\ s'.found = s.found
          /\ s'.failed = s.failed /\ s'.rounds = s.rounds /\ s'.lo = s.lo /\ s'.hi = s.hi /\ s'.top = s.top
          /\ s'.lost = s.lost /\ s'.icmp = s.icmp /\ s'.mtu = s.mtu /\ s'.left = s.left /\ s'.advMSS = s.advMSS
      BY <2>1 DEF MTUInv, MTUFields, MTUSame
    <2>4. MTUSetting' /\ MTUSearch' /\ MTUFound'
      BY <2>1, <2>3, FoundStays
    <2>5. ~s.refused => /\ s.mtu = IF s.found > 0 THEN s.found ELSE OriginalMTU
                        /\ \A r \in VPNRoutes : s.advMSS[r] = M!AdvMSS(s.mtu)
      BY <2>1 DEF MTUInv, MTUResult
    <2>6. M!AdvMSS(s.link)' = M!AdvMSS(s.mtu)
      BY <2>3, SameNumbers DEF M!AdvMSS
    <2>7. M!LinkAndRoutesAgree'
      BY <2>3, <2>5, <2>6 DEF M!LinkAndRoutesAgree
    <2>8. MTUResult'
      BY <2>3, <2>7 DEF MTUResult
    <2>9. QED
      BY <2>2, <2>4, <2>8 DEF MTUInv
  <1>4. CASE M!SetFinalMTUFails
    <2>1. s.stage = "restore" /\ s' = [s EXCEPT !.stage = "done", !.refused = TRUE]
      BY <1>4 DEF M!SetFinalMTUFails
    <2>2. MTUFields'
      BY <2>1 DEF MTUInv, MTUFields, M!Stages
    <2>3. /\ s'.stage = "done" /\ s'.refused /\ MTUSame /\ s'.found = s.found
          /\ s'.failed = s.failed /\ s'.rounds = s.rounds /\ s'.lo = s.lo /\ s'.hi = s.hi /\ s'.top = s.top
          /\ s'.lost = s.lost /\ s'.icmp = s.icmp
      BY <2>1 DEF MTUInv, MTUFields, MTUSame
    <2>4. MTUSetting' /\ MTUSearch' /\ MTUFound'
      BY <2>1, <2>3, FoundStays
    <2>5. MTUResult'
      BY <2>3 DEF MTUResult, M!LinkAndRoutesAgree
    <2>6. QED
      BY <2>2, <2>4, <2>5 DEF MTUInv
  <1>5. QED
    BY <1>1, <1>2, <1>3, <1>4

\* The search begins with its invariant, and every step keeps it.
LEMMA MTUStarts ==
  ASSUME M!PathConstants, M!MTUInit
  PROVE  MTUInv
  <1>1. SUFFICES ASSUME NEW family \in M!Families, NEW vpn \in VPNs, NEW path \in Paths,
                        NEW a \in MSSes, NEW b \in MSSes, path >= M!MinMTU(family),
                        s = [stage |-> "link", family |-> family, vpn |-> vpn, path |-> path,
                             servers |-> {a, b}, link |-> OriginalMTU, asked |-> 0, icmp |-> 0,
                             lo |-> 0, hi |-> 0, top |-> 0, rounds |-> 0, lost |-> 0, found |-> 0,
                             failed |-> "none", mtu |-> 0, left |-> VPNRoutes,
                             advMSS |-> [r \in VPNRoutes |-> 0], refused |-> FALSE]
                 PROVE  MTUInv
    BY DEF M!MTUInit
  <1>2. /\ 0 \in M!Sizes /\ 0 \in Bounds /\ 0 \in Lows /\ 0 \in Asked /\ 0 \in Lost /\ 0 \in 0..9
        /\ OriginalMTU \in M!Sizes /\ 0 < ICMPAddrs
    <2>1. 0 \in Nat /\ 0 <= 1500 /\ 0 <= 1520 /\ 0 <= 9999 /\ 0 <= ICMPAddrs /\ 0 <= MaxLost /\ 0 \in 0..9
      BY PathNumbers
    <2>2. QED
      BY <2>1, InRange, PathNumbers
  <1>3. "link" \in M!Stages /\ "none" \in M!Failures /\ [r \in VPNRoutes |-> 0] \in [VPNRoutes -> M!Sizes]
    BY <1>2 DEF M!Stages, M!Failures
  <1>4. MTUFields
    BY <1>1, <1>2, <1>3 DEF MTUFields
  <1>5. /\ s.stage = "link" /\ s.path = path /\ s.family = family /\ s.servers = {a, b} /\ s.asked = 0
        /\ s.rounds = 0 /\ s.found = 0 /\ s.failed = "none" /\ ~s.refused /\ s.left = VPNRoutes
    BY <1>1
  <1>6. MTUSetting
    BY <1>1, <1>2, <1>5 DEF MTUSetting, M!Least
  <1>7. MTUSearch /\ MTUFound /\ MTUResult
    BY <1>5 DEF MTUSearch, MTUFound, MTUResult, M!FoundPasses, M!FoundIsLargest,
       M!GivenUpForAReason, M!LinkAndRoutesAgree
  <1>8. QED
    BY <1>4, <1>6, <1>7 DEF MTUInv

LEMMA NextMTUInv ==
  ASSUME MTUInv, M!PathConstants, [M!MTUStep]_s
  PROVE  MTUInv'
  <1>0. CASE UNCHANGED s
    BY <1>0 DEF MTUInv, MTUFields, MTUSetting, MTUSearch, Searched, LowStart, MTUFound, MTUResult,
       M!Least, M!MinMTU, M!Headers, M!IPHeader, M!TCPHeader, M!Widest, M!MaxTheoreticalVPNMTU, M!Overhead,
       M!Passes, M!FoundPasses, M!FoundIsLargest, M!OneSize, M!GivenUpForAReason, M!LinkAndRoutesAgree, M!AdvMSS
  <1>1. \/ UNCHANGED s
        \/ M!SetTestMTU \/ M!SetTestMTUFails \/ M!EchoReturns \/ M!HopTooNarrow \/ M!NotPermitted
        \/ M!Blackhole \/ M!ICMPFails \/ M!SizesEnd \/ M!SizesRound \/ M!FindMSS \/ M!TestsEnd
        \/ M!TestsRound \/ M!Interrupted \/ M!ReplaceRoute \/ M!ReplaceFails \/ M!RoutesReplaced
        \/ M!SetFinalMTU \/ M!SetFinalMTUFails
    BY DEF M!MTUStep
  <1>2. QED
    BY <1>0, <1>1, TestMTUSet, EchoAnswered, EchoUnanswered, SizesStart, SizesOver, SizesTested,
       MSSFound,
       SegmentsOver, SegmentsTested, RouteReplaced, LinkRestored

\* What the invariant says of the search.
LEMMA MTUSays ==
  ASSUME MTUInv, M!PathConstants
  PROVE  /\ M!MTUTypeOK /\ M!FoundPasses /\ M!FoundIsLargest /\ M!FewRounds
         /\ M!LinkAndRoutesAgree /\ M!GivenUpForAReason
  <1>1. M!MTUTypeOK
    BY DEF MTUInv, MTUFields, MTUSearch, Searched, M!MTUTypeOK, M!Searches, Asked, Lost, Bounds,
       Lows
  <1>2. M!FewRounds
    BY DEF MTUInv, MTUSearch, M!FewRounds
  <1>3. QED
    BY <1>1, <1>2 DEF MTUInv, MTUFound, MTUResult

(***************************************************************************)
(* All of them.                                                            *)
(***************************************************************************)

SetupsInv ==
    /\ which = "ip" => IPInv
    /\ which = "wireguard" => RunInv
    /\ which = "health" => HealthInv
    /\ which = "ports" => PortsInv
    /\ which = "mtu" => MTUInv

\* It holds at the start of each.
LEMMA InitSetupsInv == Init => SetupsInv
  <1>1. SUFFICES ASSUME Init PROVE SetupsInv
    OBVIOUS
  <1>2. /\ P!PublicIPConstants /\ W!WireguardConstants /\ H!HealthConstants
        /\ F!ForwardersConstants /\ M!PathConstants
    BY SetupsConstants DEF SetupsConstants
  <1>3. CASE which = "ip" /\ P!IPInit
    BY <1>2, <1>3, InitIPInv DEF SetupsInv
  <1>4. CASE which = "wireguard" /\ W!WireguardInit
    BY <1>2, <1>4, InitRunInv DEF SetupsInv
  <1>5. CASE which = "health" /\ H!HealthInit
    BY <1>2, <1>5, InitHealthInv DEF SetupsInv
  <1>6. CASE which = "ports" /\ F!ForwardersInit
    BY <1>2, <1>6, InitPortsInv DEF SetupsInv
  <1>7. CASE which = "mtu" /\ M!MTUInit
    BY <1>2, <1>7, MTUStarts DEF SetupsInv
  <1>8. QED
    BY <1>1, <1>3, <1>4, <1>5, <1>6, <1>7 DEF Init

\* A step is one of the component that the behaviour is about.
LEMMA NextSetupsInv == ASSUME SetupsInv, [Next]_vars PROVE SetupsInv'
  <1>1. which' = which
    BY DEF Next, vars
  <1>2. /\ P!PublicIPConstants /\ W!WireguardConstants /\ H!HealthConstants
        /\ F!ForwardersConstants /\ M!PathConstants
    BY SetupsConstants DEF SetupsConstants
  <1>3. CASE which = "ip"
    <2>1. [P!IPNext]_s
      BY <1>3 DEF Next, vars
    <2>2. QED
      BY <1>1, <1>2, <1>3, <2>1, NextIPInv DEF SetupsInv
  <1>4. CASE which = "wireguard"
    <2>1. [W!WireguardNext]_s
      BY <1>4 DEF Next, vars
    <2>2. QED
      BY <1>1, <1>2, <1>4, <2>1, NextRunInv DEF SetupsInv
  <1>5. CASE which = "health"
    <2>1. [H!HealthNext]_s
      BY <1>5 DEF Next, vars
    <2>2. QED
      BY <1>1, <1>2, <1>5, <2>1, NextHealthInv DEF SetupsInv
  <1>6. CASE which = "ports"
    <2>1. [F!ForwardersNext]_s
      BY <1>6 DEF Next, vars
    <2>2. QED
      BY <1>1, <1>2, <1>6, <2>1, NextPortsInv DEF SetupsInv
  <1>7. CASE which = "mtu"
    <2>1. [M!MTUStep]_s
      BY <1>7 DEF Next, vars
    <2>2. QED
      BY <1>1, <1>2, <1>7, <2>1, NextMTUInv DEF SetupsInv
  <1>8. QED
    BY <1>1, <1>3, <1>4, <1>5, <1>6, <1>7 DEF SetupsInv

\* So it holds in every state.
LEMMA AlwaysSetupsInv == Spec => []SetupsInv
  <1>1. Init => SetupsInv
    BY InitSetupsInv
  <1>2. SetupsInv /\ [Next]_vars => SetupsInv'
    BY NextSetupsInv
  <1>3. QED
    BY <1>1, <1>2, PTL DEF Spec

(* What is known of a tunnel is of that tunnel, for any number of tunnels, fetchers,    *)
(* bans and checks: the address the loop stored for the tunnel that is up is the one     *)
(* that is known and written, one goroutine checks at a time and with the type of       *)
(* check that was found to work, unless two tunnels overlapped, and the VPN restarts    *)
(* for a failure (publicip/loop.go, healthcheck/checker.go, vpn/tunnelup.go).         *)
THEOREM KnownOfThatTunnel == Spec => []OfThatTunnel
  <1>1. SetupsInv => OfThatTunnel
    BY AddressKnown, CheckerAlone DEF SetupsInv, OfThatTunnel
  <1>2. QED
    BY <1>1, AlwaysSetupsInv, PTL

(* Whatever step of a run of WireGuard fails or is refused, in any of its three forms   *)
(* and with IPv6 or without, what it made is undone by the cleanups, in the order that   *)
(* needs it, but what a cleanup failed to remove, and a later run is only refused for    *)
(* that (wireguard/run.go, amneziawg/run.go, cleanup/cleanup.go).                    *)
THEOREM EverythingUndone == Spec => []SetupUndone
  <1>1. SetupsInv => SetupUndone
    BY RunUndone DEF SetupsInv, SetupUndone
  <1>2. QED
    BY <1>1, AlwaysSetupsInv, PTL

(* The port that was given is the one that is bound again and kept, for any ports, times *)
(* and failures, and after a restart read from its file (privateinternetaccess and      *)
(* protonvpn portforward.go).                                                       *)
THEOREM PortKept == Spec => []SamePortKept
  <1>1. SetupsInv => SamePortKept
    BY PortsKept, SetupsConstants DEF SetupsInv, SamePortKept, SetupsConstants
  <1>2. QED
    BY <1>1, AlwaysSetupsInv, PTL

(* Every part keeps to its types and to what they leave unsaid, for any number of       *)
(* tunnels, runs, ports, paths and failures: requests are only open while a fetch goes   *)
(* on, a run that is ready has a cleanup for all it made, a goroutine joins another of   *)
(* the tunnels, the port that is kept is bound, and what is searched for the MTU is a    *)
(* range that is not empty (MakeMTUsToTest panics otherwise).                         *)
THEOREM SetupsTypeCorrect == Spec => []SetupsTypeOK
  <1>1. SetupsInv => SetupsTypeOK
    <2>1. F!ForwardersConstants /\ M!PathConstants
      BY SetupsConstants DEF SetupsConstants
    <2>2. QED
      BY <2>1, RunUndone, PortsKept, MTUSays DEF SetupsInv, SetupsTypeOK, IPInv, HealthInv
  <1>2. QED
    BY <1>1, AlwaysSetupsInv, PTL

(* Whatever the path takes, the servers announce and the hops say, and whichever tests    *)
(* are lost, the MTU that is found passes the path, and without losses no larger one that *)
(* the server takes does; four rounds are enough; and the link and the routes have it, or  *)
(* what they had, unless the kernel refused a call (pmtud.go, tcp/multi.go, icmp/multi.go, *)
(* test/mtu.go, vpn/tunnelup.go).                                                    *)
THEOREM SearchFindsLargest == Spec => []LargestThatPasses
  <1>1. SetupsInv => LargestThatPasses
    BY MTUSays, SetupsConstants DEF SetupsInv, LargestThatPasses, SetupsConstants
  <1>2. QED
    BY <1>1, AlwaysSetupsInv, PTL
=============================================================================
