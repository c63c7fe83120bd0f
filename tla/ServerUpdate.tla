----------------------------- MODULE ServerUpdate -----------------------------
(***************************************************************************)
(* How the servers of a provider are found again and replace those in use     *)
(* (internal/updater, internal/provider/*/updater).  A source is what one fetch *)
(* meets: whether it can be reached, its entries, and the hosts that resolve. An *)
(* entry is what an API, a zip file or a page says of a host: its protocols,   *)
(* whether it has WireGuard, and its state: "fine", "skipped" for one that is   *)
(* left out with a warning (another file, no host, offline, unhealthy), or     *)
(* "bare" for one that is taken although its address or its key is not there.  *)
(***************************************************************************)
EXTENDS Providers

Openvpn(host, tcp, udp, addressed) ==
    [vpn |-> "openvpn", hostname |-> host, tcp |-> tcp, udp |-> udp, key |-> FALSE, addressed |-> addressed]
Wireguard(host, key, addressed) ==
    [vpn |-> "wireguard", hostname |-> host, tcp |-> FALSE, udp |-> FALSE, key |-> key, addressed |-> addressed]

Unreached == [result |-> "error", servers |-> {}]
NotEnough == [result |-> "not enough", servers |-> {}]

\* A bug: only counts that are all too small are.
Checked_Any(counts, min, servers) ==
    IF \A c \in counts : c < min THEN NotEnough ELSE [result |-> "found", servers |-> servers]

\* The servers, unless one of the counts looked at is too small.
Checked(counts, min, servers) ==
    IF \E c \in counts : c < min THEN NotEnough ELSE [result |-> "found", servers |-> servers]

Taken(src) == {e \in src.entries : e.state # "skipped"}
HostsOf(entries) == {e.host : e \in entries}
Has(entries, host, protocol) == \E e \in entries : e.host = host /\ e[protocol]
N(set) == Cardinality(set)

(* parallelResolverSettings: the hosts that may fail, in percent, the seconds a   *)
(* host and a pause take, and how many lookups without a new address and how many *)
(* failures in a row end a host.                                             *)
Resolving(ratio, duration, between, noNew, fails) ==
    [ratio |-> ratio, duration |-> duration, between |-> between, noNew |-> noNew, fails |-> fails]

CyberghostResolving == Resolving(100, 20, 1, 4, 10)
ExpressvpnResolving == Resolving(40, 1, 0, 1, 4)
FastestvpnResolving == Resolving(10, 3, 0, 1, 4)
GiganewsResolving == Resolving(10, 5, 1, 2, 2)
HidemyassResolving == Resolving(10, 15, 2, 2, 2)
IpvanishResolving == Resolving(10, 20, 1, 2, 2)
IvpnResolving == Resolving(10, 20, 1, 2, 2)
PrivatevpnResolving == Resolving(10, 6, 1, 2, 2)
PurevpnResolving == Resolving(10, 20, 1, 2, 2)
SlickvpnResolving == Resolving(10, 20, 1, 2, 2)
SurfsharkResolving == Resolving(10, 20, 1, 2, 2)
TorguardResolving == Resolving(10, 20, 1, 2, 2)
VPNSecureResolving == Resolving(10, 5, 0, 2, 3)
VPNUnlimitedResolving == Resolving(10, 20, 1, 2, 2)
VyprvpnResolving == Resolving(10, 5, 1, 2, 2)

\* The settings of the providers whose hosts are resolved.
ResolvingOf ==
    [cyberghost |-> CyberghostResolving, expressvpn |-> ExpressvpnResolving, fastestvpn |-> FastestvpnResolving,
     giganews |-> GiganewsResolving, hidemyass |-> HidemyassResolving, ipvanish |-> IpvanishResolving,
     ivpn |-> IvpnResolving, privatevpn |-> PrivatevpnResolving, purevpn |-> PurevpnResolving,
     slickvpn |-> SlickvpnResolving, surfshark |-> SurfsharkResolving, torguard |-> TorguardResolving,
     vpnsecure |-> VPNSecureResolving, vyprvpn |-> VyprvpnResolving]
    @@ ("vpn unlimited" :> VPNUnlimitedResolving)

(* Parallel.Resolve: hosts that resolve, out of those asked for.  Once as many      *)
(* failed as may, or one when none may, the others are cancelled, and any of them *)
(* may be missing; it never returns an error.                                  *)
MaxFails(hosts, ratio) == (ratio * N(hosts)) \div 100
Resolutions(hosts, failing, ratio) ==
    LET failed == N(failing \cap hosts) IN
    IF failed = 0 \/ failed < MaxFails(hosts, ratio) THEN {hosts \ failing} ELSE SUBSET (hosts \ failing)

\* A bug: an entry replaces the one before it.
HostServer_Last(entries, host) ==
    LET e == CHOOSE x \in entries : x.host = host IN Openvpn(host, e.tcp, e.udp, TRUE)

\* hostToServer: a host takes the protocols of each of its entries.
HostServer(entries, host) == Openvpn(host, Has(entries, host, "tcp"), Has(entries, host, "udp"), TRUE)

------------------------ (* The servers made of a host *) ----------------------

\* hostToServer of each provider: the server or the servers of a host of the entries.
GiganewsHost(entries, host) == HostServer(entries, host)
IpvanishHost(entries, host) == HostServer(entries, host)
PurevpnHost(entries, host) == HostServer(entries, host)
VyprvpnHost(entries, host) == HostServer(entries, host)

\* The addresses of a configuration file are those of a host that does not resolve.
TorguardHost(entries, host) == HostServer(entries, host)

\* A name of Private Internet Access has the addresses of both protocols.
PIAHost(entries, host) == HostServer(entries, host)

\* Each host that may be there takes the one protocol of its group.
CyberghostHost(entries, host) ==
    LET tcp == Has(entries, host, "tcp") IN Openvpn(host, tcp, ~tcp, TRUE)

\* Hosts known to take both.
PerfectPrivacyHost(city) == Openvpn(city, TRUE, TRUE, TRUE)
PrivatevpnHost(host) == Openvpn(host, TRUE, TRUE, TRUE)
VPNSecureHost(host) == Openvpn(host, TRUE, TRUE, TRUE)
VPNUnlimitedHost(host) == Openvpn(host, FALSE, TRUE, TRUE)
MullvadHost(host) == Wireguard(host, TRUE, TRUE)

\* Every host has WireGuard, and OpenVPN for the protocols it is listed under.
FastestvpnHost(entries, host) ==
    LET openvpn == HostServer(entries, host) IN
    {Wireguard(host, TRUE, TRUE)} \cup (IF openvpn.tcp \/ openvpn.udp THEN {openvpn} ELSE {})

\* An address has both; its key may be missing.
ProtonvpnHost(entry) == {Openvpn(entry.host, TRUE, TRUE, TRUE), Wireguard(entry.host, entry.state # "bare", TRUE)}

\* OpenVPN for the hosts of the API, the zip file and the list; WireGuard for those with a key.
SurfsharkHost(entries, host) ==
    {Openvpn(host, TRUE, TRUE, TRUE)}
    \cup (IF \E e \in entries : e.host = host /\ e.wg THEN {Wireguard(host, TRUE, TRUE)} ELSE {})

---------------------------- (* Each provider *) ------------------------------

\* Six servers of an entry, where ten are expected.
AirvpnServers(src, min) ==
    Checked({10 * N(src.entries)}, min,
        UNION {{Wireguard(<<h, k>>, TRUE, TRUE) : k \in 1..2} \cup {Openvpn(<<h, k>>, TRUE, TRUE, TRUE) : k \in 3..6} :
                  h \in HostsOf(Taken(src))})

\* Each host of the list takes one protocol.
CyberghostServers(src, min) ==
    LET found == HostsOf(src.entries) \cap src.resolved IN
    Checked({N(found)}, min, {CyberghostHost(src.entries, h) : h \in found})

ExpressvpnServers(src, min) ==
    LET found == HostsOf(src.entries) \cap src.resolved IN
    Checked({N(found)}, min, {Openvpn(h, FALSE, TRUE, TRUE) : h \in found})

\* A bug: the hosts are counted, not their servers.
FastestvpnServers_Hosts(src, min) ==
    LET found == HostsOf(src.entries) \cap src.resolved
    IN Checked({N(found)}, min, UNION {FastestvpnHost(src.entries, h) : h \in found})

FastestvpnServers(src, min) ==
    LET found == HostsOf(src.entries) \cap src.resolved
        servers == UNION {FastestvpnHost(src.entries, h) : h \in found}
    IN Checked({N(servers)}, min, servers)

\* A zip file of configurations: as many files, hosts and resolved hosts as needed.
ZipServers(src, min, server) ==
    LET hosts == HostsOf(Taken(src))
        found == hosts \cap src.resolved
    IN Checked({N(src.entries), N(hosts), N(found)}, min, {server[h] : h \in found})

GiganewsServers(src, min) == ZipServers(src, min, [h \in HostsOf(Taken(src)) |-> GiganewsHost(Taken(src), h)])
VyprvpnServers(src, min) == ZipServers(src, min, [h \in HostsOf(Taken(src)) |-> VyprvpnHost(Taken(src), h)])
IpvanishServers(src, min) == ZipServers(src, min, [h \in HostsOf(Taken(src)) |-> IpvanishHost(Taken(src), h)])

\* Each server is looked up by its first address too, which has to be allowed.
PurevpnServers(src, min) == ZipServers(src, min, [h \in HostsOf(Taken(src)) |-> PurevpnHost(Taken(src), h)])

HidemyassServers(src, min) ==
    LET hosts == HostsOf(src.entries)
        found == hosts \cap src.resolved
    IN Checked({N(hosts), N(found)}, min, {HostServer(src.entries, h) : h \in found})

\* Hosts that did not resolve stay, without an address.
IvpnServers(src, min) ==
    LET openvpn == {e.host : e \in {x \in src.entries : ~x.wg}}
        wireguard == {e.host : e \in {x \in src.entries : x.wg}}
        keyed == {e.host : e \in {x \in src.entries : x.wg /\ x.state # "bare"}}
        hosts == openvpn \cup wireguard
    IN Checked({N(hosts), N(hosts \cap src.resolved)}, min,
               {Openvpn(h, TRUE, TRUE, h \in src.resolved) : h \in openvpn}
               \cup {Wireguard(h, h \in keyed, h \in src.resolved) : h \in wireguard})

\* One entry with another type, or no address, ends it; inactive ones and bridges are skipped.
MullvadServers(src, min) ==
    IF \E e \in Taken(src) : e.state = "bare" THEN Unreached
    ELSE Checked({N(HostsOf(Taken(src)))}, min, {MullvadHost(h) : h \in HostsOf(Taken(src))})

\* A server without a key has no WireGuard; one whose addresses are not entries has none.
NordvpnServers(src, min) ==
    LET servers ==
            {Openvpn(e.host, e.tcp, e.udp, e.state # "bare") : e \in {x \in Taken(src) : x.tcp \/ x.udp}}
            \cup {Wireguard(e.host, TRUE, e.state # "bare") : e \in {x \in Taken(src) : x.wg}}
    IN Checked({N(servers)}, min, servers)

PerfectPrivacyServers(src, min) ==
    LET cities == HostsOf(Taken(src)) IN Checked({N(cities)}, min, {PerfectPrivacyHost(c) : c \in cities})

PrivadoServers(src, min) ==
    LET hosts == HostsOf(src.entries) IN Checked({N(hosts)}, min, {Openvpn(h, FALSE, TRUE, TRUE) : h \in hosts})

\* Offline regions are skipped; a name takes the protocols it is listed under.
PIAServers(src, min) ==
    LET names == HostsOf({e \in Taken(src) : e.tcp \/ e.udp}) IN
    Checked({N(names)}, min, {PIAHost(Taken(src), n) : n \in names})

\* A file without a host name has addresses: it is "bare".
PrivatevpnServers(src, min) ==
    LET without == {e \in Taken(src) : e.state = "bare"}
        hosts == HostsOf(Taken(src) \ without)
        found == hosts \cap src.resolved
    IN Checked({N(src.entries), N(without) + N(hosts), N(without) + N(found)}, min,
               {PrivatevpnHost(h) : h \in found \cup {<<"no host", e>> : e \in without}})

\* Physical servers are counted once and each is two servers.
ProtonvpnServers(src, min) ==
    LET servers == UNION {ProtonvpnHost(e) : e \in Taken(src)}
    IN IF ~src.credentials THEN [result |-> "no credentials", servers |-> {}]
       ELSE Checked({N(src.entries), 2 * N(HostsOf(Taken(src)))}, min, servers)

\* Hosts that did not resolve stay, without an address.
SlickvpnServers(src, min) ==
    LET hosts == HostsOf(src.entries) IN
    Checked({N(hosts \cap src.resolved)}, min, {Openvpn(h, TRUE, TRUE, h \in src.resolved) : h \in hosts})

\* Hosts of the API, then of the zip file, then of the list: the hosts are counted, not their servers.
SurfsharkServers(src, min) ==
    LET found == HostsOf(Taken(src)) \cap src.resolved IN
    Checked({N(found)}, min, UNION {SurfsharkHost(Taken(src), h) : h \in found})

\* Addresses of the file are those of a host that does not resolve.
TorguardServers(src, min) ==
    LET hosts == HostsOf(Taken(src)) IN
    Checked({N(hosts), N(hosts \cap src.resolved)}, min, {TorguardHost(Taken(src), h) : h \in hosts})

\* One page: hosts that are not up are skipped.
VPNSecureServers(src, min) ==
    LET hosts == HostsOf(Taken(src))
        found == hosts \cap src.resolved
    IN Checked({N(Taken(src)), N(found)}, min, {VPNSecureHost(h) : h \in found})

VPNUnlimitedServers(src, min) ==
    LET found == HostsOf(src.entries) \cap src.resolved IN
    Checked({N(found)}, min, {VPNUnlimitedHost(h) : h \in found})

\* A node with an address for WireGuard and no key, "bare", ends it.
WindscribeServers(src, min) ==
    LET keyless == {e \in src.entries : e.wg /\ e.state = "bare"}
        servers == {Openvpn(e.host, TRUE, TRUE, e.state # "bare") : e \in src.entries}
                   \cup {Wireguard(e.host, TRUE, TRUE) : e \in {x \in src.entries : x.wg}}
    IN IF keyless # {} THEN Unreached ELSE Checked({N(servers)}, min, servers)

FetchServers(provider, src, min) ==
    IF provider \notin {"cyberghost", "expressvpn", "protonvpn", "slickvpn", "vpn unlimited"} /\ ~src.reached
    THEN Unreached
    ELSE CASE provider = "airvpn" -> AirvpnServers(src, min)
           [] provider = "cyberghost" -> CyberghostServers(src, min)
           [] provider = "expressvpn" -> ExpressvpnServers(src, min)
           [] provider = "fastestvpn" -> FastestvpnServers(src, min)
           [] provider = "giganews" -> GiganewsServers(src, min)
           [] provider = "hidemyass" -> HidemyassServers(src, min)
           [] provider = "ipvanish" -> IpvanishServers(src, min)
           [] provider = "ivpn" -> IvpnServers(src, min)
           [] provider = "mullvad" -> MullvadServers(src, min)
           [] provider = "nordvpn" -> NordvpnServers(src, min)
           [] provider = "perfect privacy" -> PerfectPrivacyServers(src, min)
           [] provider = "privado" -> PrivadoServers(src, min)
           [] provider = "private internet access" -> PIAServers(src, min)
           [] provider = "privatevpn" -> PrivatevpnServers(src, min)
           [] provider = "protonvpn" -> ProtonvpnServers(src, min)
           [] provider = "purevpn" -> PurevpnServers(src, min)
           [] provider = "slickvpn" -> SlickvpnServers(src, min)
           [] provider = "surfshark" -> SurfsharkServers(src, min)
           [] provider = "torguard" -> TorguardServers(src, min)
           [] provider = "vpnsecure" -> VPNSecureServers(src, min)
           [] provider = "vpn unlimited" -> VPNUnlimitedServers(src, min)
           [] provider = "vyprvpn" -> VyprvpnServers(src, min)
           [] provider = "windscribe" -> WindscribeServers(src, min)
           [] OTHER -> Unreached

------------------------------- (* The update *) ------------------------------

HasMinimumInformation(s) ==
    /\ s.addressed
    /\ s.vpn = "wireguard" => ~(s.tcp \/ s.udp) /\ s.key
    /\ s.vpn = "openvpn" => s.tcp \/ s.udp

(* updateProvider: one server without the minimum refuses them all; the servers  *)
(* are set, with a new time, when they are not those in use.                  *)
MinServers(ratio, count) == (ratio * count) \div 100
UpdateProvider(provider, existing, src, ratio) ==
    LET fetched == FetchServers(provider, src, MinServers(ratio, N(existing))) IN
    IF fetched.result # "found" THEN [result |-> fetched.result, servers |-> existing]
    ELSE IF \E s \in fetched.servers : ~HasMinimumInformation(s) THEN [result |-> "error", servers |-> existing]
    ELSE [result |-> "updated", servers |-> fetched.servers]

\* A bug: the error of one of several ends the update.
UpdateServers_Stop(results, cancelled) ==
    LET stops == {i \in DOMAIN results : results[i] \notin {"updated", "no credentials"}} IN
    IF stops = {} THEN [tried |-> Len(results), error |-> FALSE]
    ELSE [tried |-> CHOOSE i \in stops : \A j \in stops : i <= j, error |-> TRUE]

(* UpdateServers: the results of its providers, in order; cancelled is the        *)
(* number of those reached before the program stops.  Missing credentials skip a *)
(* provider; the error of the only one is returned, those of several are not.   *)
UpdateServers(results, cancelled) ==
    LET Stops(i) == /\ results[i] \notin {"updated", "no credentials"}
                    /\ Len(results) = 1 \/ i > cancelled
        stops == {i \in DOMAIN results : Stops(i)}
    IN IF stops = {} THEN [tried |-> Len(results), error |-> FALSE]
       ELSE [tried |-> CHOOSE i \in stops : \A j \in stops : i <= j, error |-> TRUE]
=============================================================================
