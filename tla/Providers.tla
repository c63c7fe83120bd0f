------------------------------ MODULE Providers ------------------------------
(***************************************************************************)
(* How a server becomes a connection (internal/provider, internal/storage):    *)
(* the servers of a provider are filtered by the selection, the default port of *)
(* the provider and the protocol are added, one connection is picked, and the   *)
(* OpenVPN configuration is written for it.  A server is a record of its VPN,   *)
(* whether it takes TCP and UDP, its features, a place for each location, the   *)
(* kinds of its addresses and the name its certificate is for.               *)
(***************************************************************************)
EXTENDS VPNSettings

-------------------------- (* Filters of the servers *) ------------------------

Wants == [MultiHopOnly |-> "multihop", FreeOnly |-> "free", StreamOnly |-> "stream", OwnedOnly |-> "owned",
          PortForwardOnly |-> "port forward", SecureCoreOnly |-> "secure core", TorOnly |-> "tor"]

\* A server that is in none of the places asked for; its categories are a set.
ByPossibilities(places, possibilities) ==
    /\ possibilities # <<>>
    /\ \A place \in places, p \in Values(possibilities) : Folded(place) # Folded(p)

ByProtocol(server, s, sOpenVPN) ==
    IF s.VPN = {"wireguard"} THEN ~server.udp
    ELSE IF sOpenVPN.Protocol = {"tcp"} THEN ~server.tcp ELSE ~server.udp

\* A bug: servers are not filtered by protocol.
Filtered_AnyProtocol(server, s, sOpenVPN) ==
    \/ server.vpn # The(s.VPN)
    \/ \E f \in DOMAIN Wants : The(s[f]) /\ Wants[f] \notin server.features
    \/ \E f \in DOMAIN server.places : ByPossibilities(server.places[f], Given(s, f))

\* filterServer: PremiumOnly is not looked at.
Filtered(server, s, sOpenVPN) ==
    \/ server.vpn # The(s.VPN)
    \/ server.vpn # "wireguard" /\ ByProtocol(server, s, sOpenVPN)
    \/ \E f \in DOMAIN Wants : The(s[f]) /\ Wants[f] \notin server.features
    \/ \E f \in DOMAIN server.places : ByPossibilities(server.places[f], Given(s, f))

FilterServers(servers, s, sOpenVPN) == {server \in servers : ~Filtered(server, s, sOpenVPN)}

\* GetFilterChoices: the places of every server stored.
FilterChoices(servers) == [f \in Locations |-> UNION {server.places[f] : server \in {s \in servers : f \in DOMAIN s.places}}]

------------------------------- (* Connections *) ------------------------------

\* The default ports of a provider, 0 for none: OpenVPN TCP, UDP, WireGuard.
ConnectionDefaults(tcp, udp, wireguard) == [tcp |-> tcp, udp |-> udp, wireguard |-> wireguard]

AirvpnPorts == ConnectionDefaults(443, 1194, 1637)
CyberghostPorts == ConnectionDefaults(443, 443, 0)
ExpressvpnPorts == ConnectionDefaults(0, 1195, 0)
FastestvpnPorts == ConnectionDefaults(4443, 4443, 51820)
GiganewsPorts == ConnectionDefaults(0, 443, 0)
HidemyassPorts == ConnectionDefaults(8080, 553, 0)
IpvanishPorts == ConnectionDefaults(0, 443, 0)
IvpnPorts == ConnectionDefaults(443, 1194, 58237)
MullvadPorts == ConnectionDefaults(0, 0, 51820)
NordvpnPorts == ConnectionDefaults(443, 1194, 51820)
PerfectPrivacyPorts == ConnectionDefaults(443, 443, 0)
PrivadoPorts == ConnectionDefaults(1194, 1194, 0)
PIAPorts(preset) ==
    CASE preset = "normal" -> ConnectionDefaults(502, 1198, 0)
      [] preset = "strong" -> ConnectionDefaults(501, 1197, 0)
      [] OTHER -> ConnectionDefaults(0, 0, 0)
PrivatevpnPorts == ConnectionDefaults(443, 1194, 0)
ProtonvpnPorts == ConnectionDefaults(443, 1194, 51820)
PurevpnPorts == ConnectionDefaults(80, 53, 0)
SlickvpnPorts == ConnectionDefaults(443, 443, 0)
SurfsharkPorts == ConnectionDefaults(1443, 1194, 51820)
TorguardPorts == ConnectionDefaults(1912, 1912, 0)
VPNSecurePorts == ConnectionDefaults(110, 1282, 0)
VPNUnlimitedPorts == ConnectionDefaults(1197, 1197, 0)
VyprvpnPorts == ConnectionDefaults(0, 443, 0)
WindscribePorts == ConnectionDefaults(443, 1194, 1194)

DefaultPorts(provider, preset) ==
    CASE provider = "airvpn" -> AirvpnPorts           [] provider = "cyberghost" -> CyberghostPorts
      [] provider = "expressvpn" -> ExpressvpnPorts   [] provider = "fastestvpn" -> FastestvpnPorts
      [] provider = "giganews" -> GiganewsPorts       [] provider = "hidemyass" -> HidemyassPorts
      [] provider = "ipvanish" -> IpvanishPorts       [] provider = "ivpn" -> IvpnPorts
      [] provider = "mullvad" -> MullvadPorts         [] provider = "nordvpn" -> NordvpnPorts
      [] provider = "perfect privacy" -> PerfectPrivacyPorts
      [] provider = "privado" -> PrivadoPorts         [] provider = "private internet access" -> PIAPorts(preset)
      [] provider = "privatevpn" -> PrivatevpnPorts   [] provider = "protonvpn" -> ProtonvpnPorts
      [] provider = "purevpn" -> PurevpnPorts         [] provider = "slickvpn" -> SlickvpnPorts
      [] provider = "surfshark" -> SurfsharkPorts     [] provider = "torguard" -> TorguardPorts
      [] provider = "vpnsecure" -> VPNSecurePorts     [] provider = "vpn unlimited" -> VPNUnlimitedPorts
      [] provider = "vyprvpn" -> VyprvpnPorts         [] provider = "windscribe" -> WindscribePorts

\* 0 for a port that is not defined, at which the program panics.
GetPort(s, sOpenVPN, sWireguard, defaults) ==
    LET wireguard == s.VPN = {"wireguard"}
        custom == The(IF wireguard THEN sWireguard.EndpointPort ELSE sOpenVPN.CustomPort)
    IN IF custom > 0 THEN custom
       ELSE IF wireguard THEN defaults.wireguard
       ELSE IF sOpenVPN.Protocol = {"tcp"} THEN defaults.tcp ELSE defaults.udp

GetProtocol(s, sOpenVPN) == IF s.VPN = {"openvpn"} /\ sOpenVPN.Protocol = {"tcp"} THEN "tcp" ELSE "udp"

Failed == [result |-> "error"]
Panicked == [result |-> "panic"]
Connected(type, ip, port, protocol, hostname, server) ==
    [result |-> "connection", type |-> type, ip |-> ip, port |-> port, protocol |-> protocol,
     hostname |-> hostname, server |-> server]

\* pickConnection: an endpoint of WireGuard must be one found; one of OpenVPN replaces it.
PickConnection(connections, s, sOpenVPN, sWireguard) ==
    LET wireguard == s.VPN = {"wireguard"}
        target == The(IF s.VPN = {"openvpn"} THEN sOpenVPN.EndpointIP ELSE sWireguard.EndpointIP)
        found == {c \in connections : c.ip = target}
    IN CASE connections = {} -> {Failed}
         [] connections # {} /\ target = Off -> connections
         [] connections # {} /\ target # Off /\ wireguard -> IF found = {} THEN {Failed} ELSE found
         [] connections # {} /\ target # Off /\ ~wireguard -> {[c EXCEPT !.ip = target] : c \in connections}

\* utils.GetConnection, to one of the outcomes.
GetConnection(servers, s, sOpenVPN, sWireguard, defaults, ipv6, sixes) ==
    LET kept == FilterServers(servers, s, sOpenVPN)
        type == The(s.VPN)
        port == GetPort(s, sOpenVPN, sWireguard, defaults)
        Named(server) == IF type = "openvpn" /\ server.x509 # Unset THEN server.x509 ELSE server.hostname
    IN IF kept = {} THEN {Failed}
       ELSE IF port = 0 THEN {Panicked}
       ELSE PickConnection(
                UNION {{Connected(type, ip, port, GetProtocol(s, sOpenVPN), Named(server), server) :
                           ip \in {i \in server.ips : i \in sixes => ipv6}} : server \in kept},
                s, sOpenVPN, sWireguard)

------------------------ (* Custom OpenVPN configuration *) --------------------

(* A configuration file is a sequence of lines, each its words.  A word that no  *)
(* line of the program's own starts with stands for any other directive.      *)
TCPs == {"tcp", "tcp4", "tcp6", "tcp-client"}
UDPs == {"udp", "udp4", "udp6"}
ParseProto(word) == IF word \in TCPs THEN "tcp" ELSE IF word \in UDPs THEN "udp" ELSE Bad

NoPort == 65536
Nothing == [ip |-> Unset, port |-> 0, protocol |-> Unset]

\* extractDataFromLine: what a line says, Bad for what it may not say.
ExtractLine(line) ==
    CASE line[1] = "proto" /\ Len(line) > 1 ->
            [Nothing EXCEPT !.protocol = IF Len(line) = 2 THEN ParseProto(line[2]) ELSE Bad]
      [] line[1] = "remote" /\ Len(line) > 1 ->
            [ip |-> IF Len(line) <= 4 THEN line[2] ELSE Bad,
             port |-> IF Len(line) > 2 THEN line[3] ELSE 0,
             protocol |-> IF Len(line) > 3 THEN ParseProto(line[4]) ELSE Unset]
      [] line[1] = "port" /\ Len(line) > 1 -> [Nothing EXCEPT !.port = IF Len(line) = 2 THEN line[2] ELSE NoPort]
      [] OTHER -> Nothing

LineFails(d) == d.ip = Bad \/ d.protocol = Bad \/ d.port \notin 0..65535

\* A bug: the last value of the file is kept.
UpdateEmptyWith_Last(c, d) ==
    [ip |-> IF d.ip # Unset THEN d.ip ELSE c.ip, port |-> IF d.port # 0 THEN d.port ELSE c.port,
     protocol |-> IF d.protocol # Unset THEN d.protocol ELSE c.protocol]

UpdateEmptyWith(c, d) ==
    [ip |-> IF c.ip = Unset THEN d.ip ELSE c.ip, port |-> IF c.port = 0 THEN d.port ELSE c.port,
     protocol |-> IF c.protocol = Unset THEN d.protocol ELSE c.protocol]

\* extractDataFromLines: stops at the line after which address and protocol are known.
ExtractData(lines) ==
    LET After[n \in 0..Len(lines)] ==
            IF n = 0 THEN Nothing
            ELSE LET c == After[n - 1]  d == ExtractLine(lines[n]) IN
                 IF c.ip = Bad \/ (c.ip # Unset /\ c.protocol # Unset) THEN c
                 ELSE IF LineFails(d) THEN [Nothing EXCEPT !.ip = Bad]
                 ELSE UpdateEmptyWith(c, d)
        c == After[Len(lines)]
        protocol == IF c.protocol = Unset THEN "udp" ELSE c.protocol
    IN IF c.ip \in {Unset, Bad} THEN Failed
       ELSE [result |-> "data", ip |-> c.ip, protocol |-> protocol,
             port |-> IF c.port # 0 THEN c.port ELSE IF protocol = "tcp" THEN 443 ELSE 1194]

\* The connection of a custom provider; the file is the lines it holds.
CustomConnection(file, s, sOpenVPN, sWireguard) ==
    LET data == ExtractData(file)
        name == IF Given(s, "Names") = <<>> THEN Unset ELSE Given(s, "Names")[1]
        port == The(sOpenVPN.CustomPort)
    IN IF The(s.VPN) # "openvpn"
       THEN Connected("wireguard", The(sWireguard.EndpointIP), The(sWireguard.EndpointPort), "udp",
                      The(sWireguard.EndpointHost), name)
       ELSE IF data = Failed THEN Failed
       ELSE Connected("openvpn", data.ip, IF port > 0 THEN port ELSE data.port, data.protocol, Unset, name)

\* Directives the program writes itself, whatever the settings are.
Own == {"verb", "auth-user-pass", "user", "proto", "remote", "dev"}
OwnLines == {<<"mute-replay-warnings">>, <<"auth-nocache">>, <<"pull-filter", "ignore", "auth-token">>,
             <<"auth-retry", "nointeract">>, <<"suppress-timestamps">>, <<"persist-tun">>, <<"persist-key">>}
IPv6Lines == {<<"tun-ipv6">>, <<"pull-filter", "ignore", "route-ipv6">>, <<"pull-filter", "ignore", "ifconfig-ipv6">>}

\* A bug: the settings add a line beside that of the file.
Decided_Nothing(o) == {}

\* Directives of which a setting decides.
Decided(o) ==
    (IF Given(o, "Ciphers") # <<>> THEN {"cipher", "ncp-ciphers", "data-ciphers", "data-ciphers-fallback"} ELSE {})
    \cup (IF The(o.Auth) # Unset THEN {"auth"} ELSE {}) \cup (IF The(o.MSSFix) > 0 THEN {"mssfix"} ELSE {})

\* A bug: the servers of the file stay.
Replaced_NotRemote(line, o, ipv6) ==
    \/ line \in OwnLines \/ (~ipv6 /\ line \in IPv6Lines)
    \/ Len(line) > 1 /\ line[1] \in (Own \ {"remote"}) \cup Decided(o)

Replaced(line, o, ipv6) ==
    \/ line \in OwnLines \/ (~ipv6 /\ line \in IPv6Lines)
    \/ Len(line) > 1 /\ line[1] \in Own \cup Decided(o)

If(condition, lines) == IF condition THEN lines ELSE <<>>

\* CipherLines: the first cipher for old servers, all of them for the others.
CipherLines(ciphers) ==
    If(ciphers # <<>>, <<<<"data-ciphers-fallback", ciphers[1]>>, <<"data-ciphers", ciphers>>>>)

CustomConfig(file, c, o, ipv6) ==
    Selected(file, {line \in Values(file) : ~Replaced(line, o, ipv6)})
    \o <<<<"proto", c.protocol>>, <<"remote", c.ip, c.port>>, <<"dev", The(o.Interface)>>,
         <<"mute-replay-warnings">>, <<"auth-nocache">>, <<"pull-filter", "ignore", "auth-token">>,
         <<"auth-retry", "nointeract">>, <<"suppress-timestamps">>>>
    \o If(The(o.User) # Unset, <<<<"auth-user-pass", "file">>>>)
    \o <<<<"verb", The(o.Verbosity)>>>>
    \o CipherLines(Given(o, "Ciphers"))
    \o If(The(o.Auth) # Unset, <<<<"auth", The(o.Auth)>>>>)
    \o If(The(o.MSSFix) > 0, <<<<"mssfix", The(o.MSSFix)>>>>)
    \o If(~ipv6, <<<<"pull-filter", "ignore", "route-ipv6">>, <<"pull-filter", "ignore", "ifconfig-ipv6">>>>)
    \o If(The(o.ProcessUser) # "root", <<<<"user", The(o.ProcessUser)>>, <<"persist-tun">>, <<"persist-key">>>>)

---------------------- (* OpenVPN settings of the providers *) ------------------

NoSettings ==
    [Ping |-> 0, RemoteCertTLS |-> FALSE, Ciphers |-> <<>>, Auth |-> Unset, CAs |-> 0, Cert |-> FALSE, Key |-> FALSE,
     RSAKey |-> FALSE, TLSAuth |-> FALSE, TLSCrypt |-> FALSE, MssFix |-> 0, FastIO |-> FALSE,
     AuthToken |-> FALSE, Fragment |-> 0, SndBuf |-> 0, RcvBuf |-> 0, VerifyX509Name |-> Unset,
     VerifyX509Type |-> Unset, TLSCipher |-> Unset, TunMTU |-> 0, TunMTUExtra |-> 0, RenegDisabled |-> FALSE,
     RenegSec |-> 0, KeyDirection |-> Unset, SetEnv |-> <<>>, ExtraLines |-> <<>>, UDPLines |-> <<>>,
     UnderIPv4 |-> <<>>]

AirvpnSettings(ipv6) ==
    [RemoteCertTLS |-> TRUE, Auth |-> "sha512", CAs |-> 1, TLSCrypt |-> TRUE, MssFix |-> 1292,
     ExtraLines |-> <<<<"comp-lzo", "no">>, <<"push-peer-info">>>>,
     Ciphers |-> <<"256gcm", "256cbc", "192gcm", "192cbc", "128gcm", "128cbc", "chacha20">>,
     SetEnv |-> <<<<"setenv", "UV_IPV6", IF ipv6 THEN "yes" ELSE "no">>>>]
CyberghostSettings ==
    [RemoteCertTLS |-> TRUE, Ciphers |-> <<"256gcm", "256cbc", "128gcm">>, Auth |-> "sha256", MssFix |-> 1320,
     Ping |-> 10, CAs |-> 1]
ExpressvpnSettings ==
    [RemoteCertTLS |-> TRUE, Ciphers |-> <<"256gcm", "256cbc", "128gcm">>, Auth |-> "sha512", CAs |-> 2,
     Cert |-> TRUE, RSAKey |-> TRUE, TLSAuth |-> TRUE, MssFix |-> 1200, FastIO |-> TRUE, Fragment |-> 1300,
     SndBuf |-> 524288, RcvBuf |-> 524288, KeyDirection |-> "1", VerifyX509Type |-> "name-prefix",
     VerifyX509Name |-> "Server"]
FastestvpnSettings ==
    [Ciphers |-> <<"256cbc">>, Auth |-> "sha256", MssFix |-> 1450, TLSCipher |-> "dhe", AuthToken |-> TRUE,
     KeyDirection |-> "1", RenegDisabled |-> TRUE, CAs |-> 1, TLSAuth |-> TRUE,
     UDPLines |-> <<<<"tun-mtu", 1500>>, <<"tun-mtu-extra", 32>>, <<"ping", 15>>>>,
     ExtraLines |-> <<<<"comp-lzo">>>>]
GiganewsSettings ==
    [RemoteCertTLS |-> TRUE, Ciphers |-> <<"256cbc">>, Auth |-> "sha256", MssFix |-> 1320, Ping |-> 10, CAs |-> 1,
     TLSCipher |-> "ecdhe", ExtraLines |-> <<<<"comp-lzo">>>>]
HidemyassSettings ==
    [Ciphers |-> <<"256cbc">>, RemoteCertTLS |-> TRUE, CAs |-> 1, Cert |-> TRUE, RSAKey |-> TRUE, MssFix |-> 1320,
     Ping |-> 5]
IpvanishSettings ==
    [Ciphers |-> <<"256gcm", "256cbc">>, Auth |-> "sha256", VerifyX509Type |-> "name", TLSCipher |-> "dhe",
     CAs |-> 1, MssFix |-> 1320, ExtraLines |-> <<<<"comp-lzo">>>>]
IvpnSettings ==
    [Ciphers |-> <<"256cbc">>, MssFix |-> 1320, Ping |-> 5, RemoteCertTLS |-> TRUE,
     VerifyX509Type |-> "name-prefix", TLSCipher |-> "dhe", CAs |-> 1, TLSAuth |-> TRUE,
     ExtraLines |-> <<<<"key-direction", "1">>>>]
NordvpnSettings ==
    [Ciphers |-> <<"256cbc", "256gcm">>, Auth |-> "sha512", Ping |-> 15, RemoteCertTLS |-> TRUE, MssFix |-> 1450,
     CAs |-> 1, TLSAuth |-> TRUE, TunMTUExtra |-> 32, RenegDisabled |-> TRUE, KeyDirection |-> "1",
     UDPLines |-> <<<<"fast-io">>>>, ExtraLines |-> <<<<"comp-lzo", "no">>>>]
PerfectPrivacySettings ==
    [Ciphers |-> <<"256cbc", "256gcm">>, Auth |-> "sha512", MssFix |-> 1450, Ping |-> 5, CAs |-> 1, Cert |-> TRUE,
     Key |-> TRUE, TLSCrypt |-> TRUE, TLSCipher |-> "chacha20", TunMTU |-> 1500, TunMTUExtra |-> 32,
     RenegSec |-> 3600, KeyDirection |-> "1",
     UnderIPv4 |-> <<<<"redirect-gateway", "def1">>, <<"pull-filter", "ignore", "redirect-gateway def1 ipv6">>>>]
PrivadoSettings ==
    [Ciphers |-> <<"256cbc">>, Auth |-> "sha256", MssFix |-> 1320, Ping |-> 10, TLSCipher |-> "dhe",
     VerifyX509Type |-> "name", CAs |-> 1]
PIASettings(preset) ==
    [RemoteCertTLS |-> TRUE, RenegDisabled |-> TRUE, MssFix |-> 1320, CAs |-> 1,
     Ciphers |-> IF preset = "normal" THEN <<"128gcm">> ELSE <<"256gcm">>]
PrivatevpnSettings ==
    [RemoteCertTLS |-> TRUE, Ciphers |-> <<"128gcm">>, Auth |-> "sha256", CAs |-> 1, TLSAuth |-> TRUE,
     MssFix |-> 1320, UDPLines |-> <<<<"key-direction", "1">>>>]
ProtonvpnSettings ==
    [RemoteCertTLS |-> TRUE, Ciphers |-> <<"256gcm">>, Auth |-> "sha512", MssFix |-> 1450, TunMTUExtra |-> 32,
     RenegDisabled |-> TRUE, KeyDirection |-> "1", CAs |-> 1, TLSCrypt |-> TRUE, UDPLines |-> <<<<"fast-io">>>>]
PurevpnSettings ==
    [RemoteCertTLS |-> TRUE, Ciphers |-> <<"256gcm">>, KeyDirection |-> "1", CAs |-> 2, Cert |-> TRUE,
     RSAKey |-> TRUE, TLSAuth |-> TRUE]
SlickvpnSettings ==
    [RemoteCertTLS |-> TRUE, Ciphers |-> <<"256gcm", "256cbc">>, MssFix |-> 1320, Ping |-> 10, SndBuf |-> 393216,
     RcvBuf |-> 393216, CAs |-> 1, TLSCipher |-> "DEFAULT:@SECLEVEL=0", ExtraLines |-> <<<<"redirect-gateway">>>>]
SurfsharkSettings ==
    [RemoteCertTLS |-> TRUE, Ciphers |-> <<"256gcm">>, Auth |-> "sha512", RenegDisabled |-> TRUE,
     KeyDirection |-> "1", Ping |-> 15, MssFix |-> 1450, TunMTUExtra |-> 32, CAs |-> 1, TLSAuth |-> TRUE]
TorguardSettings ==
    [RemoteCertTLS |-> TRUE, Ciphers |-> <<"256gcm", "128gcm", "128cbc">>, Auth |-> "sha256", MssFix |-> 1320,
     TunMTUExtra |-> 32, KeyDirection |-> "1", CAs |-> 1, TLSAuth |-> TRUE]
VPNSecureSettings ==
    [RemoteCertTLS |-> TRUE, MssFix |-> 1320, Ping |-> 10, Ciphers |-> <<"256cbc", "128cbc">>, CAs |-> 1,
     ExtraLines |-> <<<<"comp-lzo">>, <<"float">>>>]
VPNUnlimitedSettings ==
    [RemoteCertTLS |-> TRUE, MssFix |-> 1320, Ping |-> 5, RenegDisabled |-> TRUE, Ciphers |-> <<"256cbc">>,
     Auth |-> "sha512", CAs |-> 2, ExtraLines |-> <<<<"route-metric", 1>>>>]
VyprvpnSettings ==
    [RemoteCertTLS |-> TRUE, Ciphers |-> <<"256cbc">>, Auth |-> "sha256", MssFix |-> 1320, Ping |-> 10, CAs |-> 1,
     TLSCipher |-> "ecdhe", ExtraLines |-> <<<<"comp-lzo">>>>]
WindscribeSettings ==
    [RemoteCertTLS |-> TRUE, Ciphers |-> <<"256gcm", "256cbc", "128gcm">>, Auth |-> "sha512", MssFix |-> 1320,
     Ping |-> 10, VerifyX509Type |-> "name", KeyDirection |-> "1", RenegDisabled |-> TRUE, CAs |-> 1,
     TLSAuth |-> TRUE]

\* The providers of NewProviders; Mullvad panics, and has no settings here.
ProviderSettings(provider, preset, ipv6) ==
    LET made ==
            CASE provider = "airvpn" -> AirvpnSettings(ipv6)     [] provider = "cyberghost" -> CyberghostSettings
              [] provider = "expressvpn" -> ExpressvpnSettings   [] provider = "fastestvpn" -> FastestvpnSettings
              [] provider = "giganews" -> GiganewsSettings       [] provider = "hidemyass" -> HidemyassSettings
              [] provider = "ipvanish" -> IpvanishSettings       [] provider = "ivpn" -> IvpnSettings
              [] provider = "nordvpn" -> NordvpnSettings         [] provider = "perfect privacy" -> PerfectPrivacySettings
              [] provider = "privado" -> PrivadoSettings
              [] provider = "private internet access" -> PIASettings(preset)
              [] provider = "privatevpn" -> PrivatevpnSettings   [] provider = "protonvpn" -> ProtonvpnSettings
              [] provider = "purevpn" -> PurevpnSettings         [] provider = "slickvpn" -> SlickvpnSettings
              [] provider = "surfshark" -> SurfsharkSettings     [] provider = "torguard" -> TorguardSettings
              [] provider = "vpnsecure" -> VPNSecureSettings     [] provider = "vpn unlimited" -> VPNUnlimitedSettings
              [] provider = "vyprvpn" -> VyprvpnSettings         [] provider = "windscribe" -> WindscribeSettings
    IN [f \in DOMAIN NoSettings |-> IF f \in DOMAIN made THEN made[f] ELSE NoSettings[f]]

Opt(name, value, none) == If(value # none, <<<<name, value>>>>)
Flag(name, on) == If(on, <<<<name>>>>)

FirstLabel(hostname) == <<"first label", hostname>>

\* A bug: a provider without a name of its own verifies none.
VerifiedName_Own(p, c) == p.VerifyX509Name

\* The hostname is what its first label and it are called.
VerifiedName(p, c) ==
    IF p.VerifyX509Name # Unset THEN p.VerifyX509Name
    ELSE IF p.VerifyX509Type = "name" THEN c.hostname ELSE FirstLabel(c.hostname)

\* The directives, in their order.
Directives(p, c, o, ipv6) ==
    <<<<"client">>, <<"nobind">>, <<"tls-exit">>, <<"auth-nocache">>, <<"mute-replay-warnings">>,
      <<"auth-retry", "nointeract">>, <<"suppress-timestamps">>, <<"dev", The(o.Interface)>>,
      <<"verb", The(o.Verbosity)>>, <<"proto", c.protocol>>, <<"remote", c.ip, c.port>>>>
    \o If(The(o.User) # Unset, <<<<"auth-user-pass", "file">>>>)
    \o If(~p.AuthToken, <<<<"pull-filter", "ignore", "auth-token">>>>)
    \o Opt("key-direction", p.KeyDirection, Unset) \o Opt("ping", p.Ping, 0)
    \o (IF p.RenegDisabled THEN <<<<"reneg-sec", 0>>>> ELSE Opt("reneg-sec", p.RenegSec, 0))
    \o Flag("remote-cert-tls", p.RemoteCertTLS)
    \o If(p.VerifyX509Type # Unset, <<<<"verify-x509-name", VerifiedName(p, c), p.VerifyX509Type>>>>)
    \o Opt("tls-cipher", p.TLSCipher, Unset) \o Flag("fast-io", p.FastIO)
    \o CipherLines(IF Given(o, "Ciphers") # <<>> THEN Given(o, "Ciphers") ELSE p.Ciphers)
    \o Opt("auth", IF The(o.Auth) # Unset THEN The(o.Auth) ELSE p.Auth, Unset)
    \o Opt("tun-mtu", p.TunMTU, 0) \o Opt("tun-mtu-extra", p.TunMTUExtra, 0)
    \o Opt("mssfix", IF The(o.MSSFix) > 0 THEN The(o.MSSFix) ELSE p.MssFix, 0)
    \o Opt("fragment", p.Fragment, 0) \o Opt("sndbuf", p.SndBuf, 0) \o Opt("rcvbuf", p.RcvBuf, 0)
    \o If(c.protocol = "udp", <<<<"explicit-exit-notify">>>> \o p.UDPLines)
    \o If(The(o.ProcessUser) # "root", <<<<"user", The(o.ProcessUser)>>, <<"persist-tun">>, <<"persist-key">>>>)
    \o If(~ipv6, <<<<"pull-filter", "ignore", "tun-ipv6">>, <<"pull-filter", "ignore", "route-ipv6">>,
                   <<"pull-filter", "ignore", "ifconfig-ipv6">>>> \o p.UnderIPv4)
    \o p.SetEnv

\* A certificate or a key between its tags.
Block(name, on) == Flag(name, on)
Blocks(p, o) ==
    Block("ca", p.CAs > 0) \o Block("cert", p.Cert) \o Block("key", p.Key) \o Block("key", p.RSAKey)
    \o Block("tls-auth", p.TLSAuth) \o Block("tls-crypt", p.TLSCrypt)
    \o If(The(o.EncryptedKey) # Unset, <<<<"askpass", "file">>>> \o Block("key", TRUE))
    \o Block("cert", The(o.Cert) # Unset) \o Block("key", The(o.Key) # Unset)

OpenVPNConfig(p, c, o, ipv6) == Directives(p, c, o, ipv6) \o Blocks(p, o) \o p.ExtraLines
=============================================================================
