------------------------------- MODULE PathMTU -------------------------------
(***************************************************************************)
(* The discovery of the path MTU when a tunnel is up: updateToMaxMTU of        *)
(* internal/vpn/tunnelup.go, internal/pmtud/pmtud.go, and the searches over    *)
(* ICMP (internal/pmtud/icmp) and TCP (internal/pmtud/tcp).  Tests run in       *)
(* parallel and one round is one step, since all of them are waited for.        *)
(* A test is a size: it passes when neither the link nor the path is narrower   *)
(* and it is not lost.                                                      *)
(***************************************************************************)
EXTENDS Naturals, Sequences, FiniteSetsExt

CONSTANTS
    Paths,      \* the MTUs a path or a hop of it may have
    MSSes,      \* the segment sizes servers announce; 0: the server does not answer
    ICMPAddrs,  \* how many addresses are asked over ICMP
    VPNs,       \* the kinds of tunnels
    Routes,     \* the routes through the VPN interface
    OriginalMTU,\* the MTU of the interface before
    MaxLost     \* bound on tests that are lost though they would pass

MaxEthernetFrameSize == 1500

\* What the constants are assumed to be.
PathConstants ==
    /\ Paths \subseteq 576..MaxEthernetFrameSize /\ MSSes \subseteq {0} \cup 536..(MaxEthernetFrameSize - 40)
    /\ VPNs \subseteq {"wireguard", "openvpnUDP", "openvpnTCP"}
    /\ ICMPAddrs \in Nat \ {0} /\ OriginalMTU \in 576..MaxEthernetFrameSize /\ MaxLost \in Nat

VARIABLE m
(* stage: where updateToMaxMTU is; family: of the gateway and the addresses; vpn:    *)
(* what the tunnel is made of; path: the MTU of the path; servers: the segment sizes  *)
(* TCP servers announce; link: the MTU of the interface; asked: ICMP addresses     *)
(* asked so far; icmp: the MTU found over ICMP, or 0; lo, hi: the range searched,     *)
(* and top: the hi the TCP search began with; rounds: of this search; lost: tests     *)
(* lost so far; found: the MTU discovered, or 0, and failed: why there is none; mtu:  *)
(* that the interface and routes are to have; left: routes to replace; advMSS: that  *)
(* of each route, 0 before; refused: a call to the kernel failed.                 *)

Families == {4, 6}
Searches == {"sizes", "tests"}
Failures == {"none", "icmp", "noServer", "noSize", "interrupted"}
Stages == {"link", "icmp", "mss", "routes", "restore", "done"} \cup Searches

\* Sizes, of which a server that takes large segments over IPv6 makes the largest.
Sizes == 0..MaxEthernetFrameSize
MaxSize == MaxEthernetFrameSize + 20
\* Stands for the numbers just below 2^32: more than any size, and only compared with one.
Wrapped == 9999
MinMTU(family) == IF family = 4 THEN 68 ELSE 1280
IPHeader(family) == IF family = 4 THEN 20 ELSE 40
TCPHeader == 20

\* UDP or TCP, and what WireGuard or OpenVPN adds.
Overhead(vpn) ==
    CASE vpn = "wireguard" -> 8 + 32 [] vpn = "openvpnUDP" -> 8 + 41 [] OTHER -> 20 + 41
MaxTheoreticalVPNMTU(vpn, family) == MaxEthernetFrameSize - IPHeader(family) - Overhead(vpn)

MTUsToTest_Six(lo, hi) ==
    LET diff == hi - lo
    IN  IF diff <= 6 THEN [i \in 1..(diff + 1) |-> lo + i - 1]
        ELSE [i \in 1..6 |-> (10 * lo + 2 * diff * (i - 1) + 5) \div 10]

\* The bounds of a range and sizes in between, at a distance of a tenth of it, rounded.
MTUsToTest(lo, hi) ==
    LET diff == hi - lo
    IN  IF diff <= 11 THEN [i \in 1..(diff + 1) |-> lo + i - 1]
        ELSE [i \in 1..11 |-> (20 * lo + 2 * diff * (i - 1) + 10) \div 20]

(* The states, and that a range to search is one: MakeMTUsToTest panics otherwise. *)
MTUTypeOK ==
    /\ m \in [stage : Stages, family : Families, vpn : VPNs, path : Paths, servers : SUBSET MSSes,
              link : Sizes, asked : 0..ICMPAddrs, icmp : Sizes, lo : 0..Wrapped, hi : 0..MaxSize,
              top : 0..MaxSize, rounds : 0..9, lost : 0..MaxLost, found : Sizes, failed : Failures, mtu : Sizes,
              left : SUBSET Routes, advMSS : [Routes -> Sizes], refused : BOOLEAN]
    /\ m.stage \in Searches => m.lo <= m.hi

MTUInit ==
    \E family \in Families, vpn \in VPNs, path \in Paths, servers \in {{a, b} : a, b \in MSSes} :
        /\ path >= MinMTU(family)
        /\ m = [stage |-> "link", family |-> family, vpn |-> vpn, path |-> path, servers |-> servers,
                link |-> OriginalMTU, asked |-> 0, icmp |-> 0, lo |-> 0, hi |-> 0, top |-> 0, rounds |-> 0,
                lost |-> 0, found |-> 0, failed |-> "none", mtu |-> 0, left |-> Routes,
                advMSS |-> [r \in Routes |-> 0], refused |-> FALSE]

Least == MinMTU(m.family)
Headers == IPHeader(m.family) + TCPHeader
Widest == MaxTheoreticalVPNMTU(m.vpn, m.family)

------------------------------ (* The link and ICMP *) ----------------------

SetTestMTU == m.stage = "link" /\ m' = [m EXCEPT !.stage = "icmp", !.link = Widest]
SetTestMTUFails == m.stage = "link" /\ m' = [m EXCEPT !.stage = "done", !.refused = TRUE]

\* The discovery ends, from the state r: with an MTU, or with an error and the one from before.
Discovered(r, size) == [r EXCEPT !.stage = "routes", !.found = size, !.mtu = size]
NotDiscovered_KeepsTest(r, why) == [r EXCEPT !.stage = "routes", !.failed = why, !.mtu = r.link]
NotDiscovered(r, why) == [r EXCEPT !.stage = "routes", !.failed = why, !.mtu = OriginalMTU]

(* ICMP is over, with an MTU or without: where TCP is to look.  The lower bound is     *)
(* max(size - 150, Least) of uint32: it wraps when the MTU that was found is below 150. *)
ICMPFound_Narrow(r, size) ==
    [r EXCEPT !.stage = "mss", !.icmp = size, !.hi = size,
              !.lo = IF size >= Least + 50 THEN size - 50 ELSE Least]
ICMPFound(r, size) ==
    [r EXCEPT !.stage = "mss", !.icmp = size, !.hi = size,
              !.lo = IF size < 150 THEN Wrapped ELSE IF size >= Least + 150 THEN size - 150 ELSE Least]

NextAddress(r) ==
    IF r.asked + 1 < ICMPAddrs THEN [r EXCEPT !.stage = "icmp", !.asked = r.asked + 1]
    ELSE [r EXCEPT !.stage = "mss", !.asked = r.asked + 1, !.lo = Least, !.hi = r.link]

\* The answer to an echo as large as the link: it comes back, or a hop says what it takes.
EchoReturns == m.stage = "icmp" /\ m.path >= m.link /\ m' = ICMPFound(m, m.link)
HopTooNarrow ==
    /\ m.stage = "icmp" /\ m.path < m.link
    /\ \E hop \in Paths :
          /\ m.path <= hop /\ hop < m.link
          /\ m' = ICMPFound(m, hop)
NotPermitted == m.stage = "icmp" /\ m' = NextAddress(m)
\* No answer, or over IPv4 "administratively prohibited".
Blackhole ==
    /\ m.stage = "icmp"
    /\ m' = [m EXCEPT !.stage = "sizes", !.lo = Least, !.hi = m.link, !.rounds = 0]
\* An answer that is none of these.
ICMPFails == m.stage \in {"icmp", "sizes"} /\ m' = NotDiscovered(m, "icmp")

--------------------------------- (* The search *) --------------------------

Tested == MTUsToTest(m.lo, m.hi)
Passes(size) == size <= m.path /\ size <= m.link

\* The tests that came back, and how many were lost on the way.
Outcomes ==
    LET pass == {i \in DOMAIN Tested : Passes(Tested[i])}
    IN  {pass} \cup (IF m.lost < MaxLost THEN {pass \ {i} : i \in pass} ELSE {})
Back(ok) == [m EXCEPT !.lost = @ + Cardinality({i \in DOMAIN Tested : Passes(Tested[i])}) - Cardinality(ok)]

\* Between the largest size that passed and the next one tested.
Narrowed_FromNext(i) == <<Tested[i + 1], Tested[i + 1]>>
Narrowed_Skips(i) == <<Tested[i], Max({Tested[i], Tested[i + 1] - 2})>>
Narrowed(i) == <<Tested[i], Tested[i + 1] - 1>>
Narrow(r, i) ==
    [r EXCEPT !.lo = Narrowed(i)[1], !.hi = Narrowed(i)[2], !.rounds = Min({r.rounds + 1, 9})]

\* ICMP returns the last size when every test came back, and otherwise looks below it.
SizesEnd == m.stage = "sizes" /\ Len(Tested) = 1 /\ m' = ICMPFound(m, m.lo)
SizesRound ==
    /\ m.stage = "sizes" /\ Len(Tested) > 1
    /\ \E ok \in Outcomes :
          LET below == ok \ {Len(Tested)}
          IN  m' = IF ok = DOMAIN Tested THEN ICMPFound(m, m.hi)
                   ELSE IF below # {} THEN Narrow(Back(ok), Max(below))
                   ELSE NextAddress(Back(ok))

\* The server that announces the largest segments, or the first whose are large enough.
Chosen ==
    LET enough == {size \in m.servers : size + Headers >= m.hi}
    IN  IF enough # {} THEN enough ELSE {Max(m.servers)}
Segments(mss, low) ==
    IF mss = 0 THEN NotDiscovered(m, "noServer")
    ELSE [m EXCEPT !.stage = "tests", !.lo = low, !.hi = Headers + mss, !.top = Headers + mss, !.rounds = 0]
FindMSS_KeepsLow == m.stage = "mss" /\ \E mss \in Chosen : m' = Segments(mss, m.lo)
FindMSS ==
    /\ m.stage = "mss"
    /\ \E mss \in Chosen :
          m' = Segments(mss, IF m.lo > Headers + mss THEN Headers + mss - 100 ELSE m.lo)

\* TCP returns the last size when its test came back, whatever happened to the others.
TestsEnd == m.stage = "tests" /\ Len(Tested) = 1 /\ m' = Discovered(m, m.lo)
TestsRound ==
    /\ m.stage = "tests" /\ Len(Tested) > 1
    /\ \E ok \in Outcomes :
          m' = IF Len(Tested) \in ok THEN Discovered(Back(ok), m.hi)
               ELSE IF ok # {} THEN Narrow(Back(ok), Max(ok))
               ELSE NotDiscovered(Back(ok), "noSize")

\* The raw sockets cannot be opened or read, or the tunnel is stopped.
Interrupted == m.stage \in {"mss", "tests"} /\ m' = NotDiscovered(m, "interrupted")

--------------------------------- (* The result *) --------------------------

AdvMSS(mtu) == mtu - Headers - 20
ReplaceRoute ==
    /\ m.stage = "routes"
    /\ m.left # {}
    /\ LET r == CHOOSE r \in m.left : TRUE IN m' = [m EXCEPT !.left = m.left \ {r}, !.advMSS[r] = AdvMSS(m.mtu)]
ReplaceFails ==
    /\ m.stage = "routes" /\ m.left # {}
    /\ m' = [m EXCEPT !.stage = "restore", !.mtu = OriginalMTU, !.refused = TRUE]
RoutesReplaced == m.stage = "routes" /\ m.left = {} /\ m' = [m EXCEPT !.stage = "restore"]
SetFinalMTU == m.stage = "restore" /\ m' = [m EXCEPT !.stage = "done", !.link = m.mtu]
SetFinalMTUFails == m.stage = "restore" /\ m' = [m EXCEPT !.stage = "done", !.refused = TRUE]

MTUStep ==
    \/ SetTestMTU \/ SetTestMTUFails \/ EchoReturns \/ HopTooNarrow \/ NotPermitted \/ Blackhole \/ ICMPFails
    \/ SizesEnd \/ SizesRound \/ FindMSS \/ TestsEnd \/ TestsRound \/ Interrupted
    \/ ReplaceRoute \/ ReplaceFails \/ RoutesReplaced \/ SetFinalMTU \/ SetFinalMTUFails

-------------------------------------------------------------------------------
\* The TCP search had one size to begin with, which it returns without a test.
OneSize == m.rounds = 0 /\ m.lo = m.hi

(* A size that is found passes the path, whichever tests were lost and whatever   *)
(* a hop said of itself: nothing is returned on the word of another test, unless   *)
(* the search had only one size: what ICMP found is then 150 more than the server  *)
(* takes (tcp/multi.go pathMTUDiscover).                                     *)
FoundPasses == m.found > 0 /\ ~OneSize => m.found <= m.path /\ m.found <= Widest

(* Without losses it is the largest that passes, of those the server chosen takes *)
(* segments for.                                                            *)
FoundIsLargest == m.found > 0 /\ m.lost = 0 /\ ~OneSize => m.found = Min({m.path, Widest, m.top})

(* Four rounds are enough for every range there is: the tests of a round are never *)
(* further apart than the next rounds can tell.                                *)
FewRounds == m.rounds <= 4

(* Once it is over the interface has the MTU found, or the one it had before, and   *)
(* every route announces the segments that fit it, unless the kernel refused a     *)
(* call: the MTU of the tests never stays.                                     *)
LinkAndRoutesAgree ==
    m.stage = "done" /\ ~m.refused =>
        /\ m.link = IF m.found > 0 THEN m.found ELSE OriginalMTU
        /\ \A r \in Routes : m.advMSS[r] = AdvMSS(m.link)

(* Without losses the tests come up empty only if a hop announced far more than the *)
(* path takes: a path that answers is not given up on otherwise.                *)
GivenUpForAReason == m.failed = "noSize" /\ m.lost = 0 => m.icmp > m.path + 150
=============================================================================
