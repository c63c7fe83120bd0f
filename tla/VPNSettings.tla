----------------------------- MODULE VPNSettings -----------------------------
(***************************************************************************)
(* The settings of the VPN (internal/configuration/settings): a record of     *)
(* structures, each read, completed, validated, copied and overridden as in    *)
(* Settings.  A value that does not parse is Bad; a location is the pair of its *)
(* name and of its case, "lower" when it comes from the environment.          *)
(***************************************************************************)
EXTENDS Settings, FiniteSets

Bad == "bad"
Off == "0.0.0.0"

AllWithCustom ==
    {"airvpn", "cyberghost", "expressvpn", "fastestvpn", "giganews", "hidemyass", "ipvanish", "ivpn",
     "mullvad", "nordvpn", "perfect privacy", "privado", "private internet access", "privatevpn",
     "protonvpn", "purevpn", "slickvpn", "surfshark", "torguard", "vpnsecure", "vpn unlimited",
     "vyprvpn", "windscribe", "custom"}

WireguardProviders ==
    {"airvpn", "custom", "fastestvpn", "ivpn", "mullvad", "nordvpn", "protonvpn", "surfshark", "windscribe"}

----------------------- (* The type and the provider *) -----------------------

VPNFields == {"Type", "UpCommand", "DownCommand"}
VPNKept == VPNFields
VPNDefaults == [Type |-> "openvpn", UpCommand |-> Unset, DownCommand |-> Unset]
VPNKeys == [Type |-> <<"VPN_TYPE">>, UpCommand |-> <<"VPN_UP_COMMAND">>, DownCommand |-> <<"VPN_DOWN_COMMAND">>]

ProviderFields == {"Name"}
ProviderKept == ProviderFields
ProviderDefaults == [Name |-> "private internet access"]

\* readVPNServiceProvider.
ReadProvider(env, type) ==
    LET named == First(env, <<"VPN_SERVICE_PROVIDER", "VPNSP">>) IN
    [Name |-> IF named # {} THEN {IF The(named) = "pia" THEN "private internet access" ELSE The(named)}
              ELSE IF type # {"wireguard"} /\ "OPENVPN_CUSTOM_CONFIG" \in DOMAIN env THEN {"custom"} ELSE {}]

\* The names a VPN type has, the old one of Private Internet Access included.
Names(type) ==
    CASE type = "amneziawg" -> {"custom"}
      [] type = "openvpn" -> (AllWithCustom \cup {"pia"}) \ {"mullvad"}
      [] type = "wireguard" -> WireguardProviders

--------------------------- (* Server selection *) ---------------------------

Locations == {"Countries", "Categories", "Regions", "Cities", "ISPs", "Names", "Hostnames"}
Filters == {"OwnedOnly", "FreeOnly", "PremiumOnly", "StreamOnly", "MultiHopOnly", "PortForwardOnly",
            "SecureCoreOnly", "TorOnly"}
SelectionFields == {"VPN", "Numbers"} \cup Locations \cup Filters
SelectionRequired == {"VPN"} \cup Filters
SelectionKept == SelectionFields

SelectionDefaults(provider, forwarding) ==
    [f \in {"VPN"} \cup Filters |->
        IF f = "VPN" THEN "openvpn"
        ELSE f = "PortForwardOnly" /\ forwarding /\ provider \in {"private internet access", "protonvpn"}]

SelectionKeys(provider) ==
    [Countries |-> IF provider = {"cyberghost"} THEN <<"SERVER_COUNTRIES", "COUNTRY", "REGION">>
                   ELSE <<"SERVER_COUNTRIES", "COUNTRY">>,
     Regions |-> <<"SERVER_REGIONS", "REGION">>, Cities |-> <<"SERVER_CITIES", "CITY">>, ISPs |-> <<"ISP">>,
     Hostnames |-> <<"SERVER_HOSTNAMES", "SERVER_HOSTNAME">>, Names |-> <<"SERVER_NAMES", "SERVER_NAME">>,
     Numbers |-> <<"SERVER_NUMBER">>, Categories |-> <<"SERVER_CATEGORIES">>,
     OwnedOnly |-> <<"OWNED_ONLY", "OWNED">>, FreeOnly |-> <<"FREE_ONLY">>, PremiumOnly |-> <<"PREMIUM_ONLY">>,
     MultiHopOnly |-> <<"MULTIHOP_ONLY">>, StreamOnly |-> <<"STREAM_ONLY">>,
     SecureCoreOnly |-> <<"SECURE_CORE_ONLY">>, TorOnly |-> <<"TOR_ONLY">>,
     PortForwardOnly |-> <<"PORT_FORWARD_ONLY">>]

ReadSelection(env, provider, type) ==
    LET s == Read(env, SelectionKeys(provider)) IN
    [f \in DOMAIN s \cup {"VPN"} |-> IF f = "VPN" THEN type ELSE s[f]]

Given(s, f) == IF s[f] = {} THEN <<>> ELSE The(s[f])
Folded(location) == location[1]

(* nordvpnRetroRegion: a region that is a country moves to the countries, one   *)
(* that is neither is left out.                                             *)
NordvpnRetro(s, choices) ==
    LET regions == Given(s, "Regions")
        moved == Selected(regions, choices.Countries \ choices.Regions)
    IN [s EXCEPT !.Regions = {Selected(regions, choices.Regions)},
                 !.Countries = IF moved = <<>> THEN @ ELSE {Given(s, "Countries") \o moved}]

\* dedupSlice, which keeps the first of each.
Deduped(q) ==
    LET firsts == {i \in DOMAIN q : \A j \in 1..(i - 1) : q[j] # q[i]} IN
    [i \in 1..Cardinality(firsts) |->
        q[CHOOSE k \in firsts : Cardinality({j \in firsts : j <= k}) = i]]

(* surfsharkRetroRegion: an old location gives way to its region, its country,   *)
(* its city and its host name.                                              *)
SurfsharkRetro(s, retro) ==
    LET regions == Given(s, "Regions")
        old == Selected(regions, DOMAIN retro)
        Grown(f) == Deduped(Given(s, f) \o [i \in DOMAIN old |-> retro[old[i]][f]])
        Or(f) == IF Grown(f) = <<>> THEN s[f] ELSE {Grown(f)}
        renamed == Deduped([i \in DOMAIN regions |->
                       IF regions[i] \in DOMAIN retro THEN retro[regions[i]].Regions ELSE regions[i]])
    IN [s EXCEPT !.Regions = IF renamed = <<>> THEN @ ELSE {renamed},
                 !.Countries = Or("Countries"), !.Cities = Or("Cities"), !.Hostnames = Or("Hostnames")]

\* atLeastOneIsOneOfCaseInsensitive: unknown values beside a known one are warned of.
AtLeastOneIsOneOf(values, choices) ==
    values # <<>> => \E v \in Values(values) : \E c \in choices : Folded(v) = Folded(c)

\* getLocationFilterChoices, then the old names of the provider.
WithoutOldNames(s, provider, choices, retro) ==
    CASE provider = "nordvpn" -> NordvpnRetro(s, choices)
      [] provider = "surfshark" -> SurfsharkRetro(s, retro)
      [] OTHER -> s

OldNamesValid(s, provider, choices, retro) ==
    provider = "surfshark" =>
        AtLeastOneIsOneOf(Given(s, "Regions"), choices.Regions \cup DOMAIN retro)

LocationsValid(s, provider, choices) ==
    \A f \in Locations :
        IF f = "Names" /\ provider = "custom" THEN Len(Given(s, f)) <= 1
        ELSE AtLeastOneIsOneOf(Given(s, f), choices[f])

TierValid(s, provider) ==
    /\ The(s.FreeOnly) => provider \in {"protonvpn", "vpn unlimited"}
    /\ The(s.PremiumOnly) => provider = "vpnsecure"
    /\ ~(The(s.FreeOnly) /\ The(s.PremiumOnly))

FeaturesValid(s, provider) ==
    /\ The(s.OwnedOnly) => provider = "mullvad"
    /\ ~(provider = "protonvpn" /\ The(s.FreeOnly) /\ The(s.PortForwardOnly))
    /\ The(s.StreamOnly) => provider \in {"protonvpn", "vpn unlimited"}
    /\ The(s.MultiHopOnly) => provider = "surfshark"
    /\ The(s.PortForwardOnly) => provider \in {"private internet access", "protonvpn"}
    /\ The(s.SecureCoreOnly) \/ The(s.TorOnly) => provider = "protonvpn"

OpenVPNSelectionFields == {"ConfFile", "Protocol", "EndpointIP", "CustomPort", "PIAEncPreset"}
OpenVPNSelectionRequired == {"ConfFile", "Protocol", "EndpointIP", "CustomPort"}
OpenVPNSelectionKept == OpenVPNSelectionFields
OpenVPNSelectionDefaults(provider) ==
    [ConfFile |-> Unset, Protocol |-> "udp", EndpointIP |-> Off, CustomPort |-> 0,
     PIAEncPreset |-> IF provider = "private internet access" THEN "strong" ELSE Unset]
OpenVPNSelectionKeys ==
    [ConfFile |-> <<"OPENVPN_CUSTOM_CONFIG">>, Protocol |-> <<"OPENVPN_PROTOCOL", "PROTOCOL">>,
     EndpointIP |-> <<"OPENVPN_ENDPOINT_IP", "OPENVPN_TARGET_IP", "VPN_ENDPOINT_IP">>,
     CustomPort |-> <<"OPENVPN_ENDPOINT_PORT", "PORT", "OPENVPN_PORT", "VPN_ENDPOINT_PORT">>,
     PIAEncPreset |-> <<"PRIVATE_INTERNET_ACCESS_OPENVPN_ENCRYPTION_PRESET", "ENCRYPTION", "PIA_ENCRYPTION">>]

\* The custom ports of the providers that restrict them, by protocol.
CustomPorts(provider, tcp) ==
    CASE provider = "airvpn" -> {53, 80, 443, 1194, 2018, 41185}
      [] provider = "ivpn" -> IF tcp THEN {80, 443, 1143} ELSE {53, 1194, 2049, 2050}
      [] provider = "mullvad" -> IF tcp THEN {80, 443, 1401} ELSE {53, 1400} \cup 1194..1197 \cup 1300..1303
      [] provider = "perfect privacy" -> {44, 443, 4433}
      [] provider = "privado" -> {443, 1194, 8080, 8443}
      [] provider = "private internet access" -> IF tcp THEN {80, 110, 443} ELSE {53, 1194, 1197, 1198, 8080, 9201}
      [] provider = "protonvpn" -> IF tcp THEN {443, 5995, 8443} ELSE {80, 443, 1194, 4569, 5060, 51820}
      [] provider = "slickvpn" -> {443, 8080, 8888}
      [] provider = "windscribe" -> IF tcp THEN {21, 22, 80, 123, 143, 443, 587, 1194, 3306, 8080, 54783}
                                    ELSE {53, 80, 123, 443, 1194, 54783}
      [] provider \in {"custom", "cyberghost", "hidemyass", "privatevpn", "torguard"} -> 1..65535
      [] OTHER -> {}

OpenVPNSelectionValid(s, provider) ==
    /\ The(s.ConfFile) # Bad
    /\ The(s.Protocol) \in {"udp", "tcp"}
    /\ The(s.Protocol) = "tcp" => provider \notin {"giganews", "ipvanish", "perfect privacy", "vyprvpn"}
    /\ The(s.CustomPort) \in {0} \cup CustomPorts(provider, The(s.Protocol) = "tcp")
    /\ provider = "private internet access" => The(s.PIAEncPreset) \in {"normal", "strong"}

WireguardSelectionFields == {"EndpointHost", "EndpointIP", "EndpointPort", "PublicKey"}
WireguardSelectionRequired == {"EndpointIP", "EndpointPort"}
WireguardSelectionKept == WireguardSelectionFields
WireguardSelectionDefaults == [EndpointHost |-> Unset, EndpointIP |-> Off, EndpointPort |-> 0]
WireguardSelectionKeys(type) ==
    [EndpointIP |-> <<type \o "_ENDPOINT_IP", "VPN_ENDPOINT_IP">>,
     EndpointHost |-> <<type \o "_ENDPOINT_HOST", "VPN_ENDPOINT_HOST">>,
     EndpointPort |-> <<type \o "_ENDPOINT_PORT", "VPN_ENDPOINT_PORT">>, PublicKey |-> <<type \o "_PUBLIC_KEY">>]

EndpointPorts(provider) ==
    CASE provider = "airvpn" -> {0, 1637, 47107}
      [] provider = "ivpn" -> {0, 2049, 2050, 53, 30587, 41893, 48574, 58237}
      [] provider = "windscribe" -> {0, 53, 80, 123, 443, 1194, 65142}
      [] provider = "mullvad" -> 0..65535
      [] provider = "custom" -> 1..65535
      [] OTHER -> {0}

\* An endpoint host is either Bad, for an address or a name with other characters, or fine.
WireguardSelectionValid(s, provider) ==
    /\ provider = "custom" =>
          IF The(s.EndpointHost) # Unset THEN The(s.EndpointHost) # Bad ELSE The(s.EndpointIP) # Off
    /\ The(s.EndpointPort) \in EndpointPorts(provider)
    /\ provider = "custom" => s.PublicKey # {}
    /\ s.PublicKey # {Bad}

SelectionValid(s, sOpenVPN, sWireguard, provider, choices) ==
    /\ The(s.VPN) \in {"amneziawg", "openvpn", "wireguard"}
    /\ LocationsValid(s, provider, choices)
    /\ TierValid(s, provider)
    /\ FeaturesValid(s, provider)
    /\ IF The(s.VPN) = "openvpn" THEN OpenVPNSelectionValid(sOpenVPN, provider)
       ELSE WireguardSelectionValid(sWireguard, provider)

------------------------ (* Port forwarding and PMTUD *) -----------------------

PortForwardingFields == {"Enabled", "Provider", "Filepath", "UpCommand", "DownCommand", "ListeningPorts",
                         "PortsCount", "Username", "Password"}
PortForwardingRequired == {"Enabled", "Provider", "Filepath", "UpCommand", "DownCommand", "ListeningPorts"}

\* Copy and OverrideWith leave out PortsCount.
PortForwardingKept == PortForwardingFields \ {"PortsCount"}
PortForwardingDefaults ==
    [Enabled |-> FALSE, Provider |-> Unset, Filepath |-> "/tmp/gluetun/forwarded_port", UpCommand |-> Unset,
     DownCommand |-> Unset, ListeningPorts |-> <<0>>, PortsCount |-> 1]
PortForwardingKeys ==
    [Enabled |-> <<"VPN_PORT_FORWARDING", "PORT_FORWARDING", "PRIVATE_INTERNET_ACCESS_VPN_PORT_FORWARDING">>,
     Provider |-> <<"VPN_PORT_FORWARDING_PROVIDER">>,
     Filepath |-> <<"VPN_PORT_FORWARDING_STATUS_FILE", "PORT_FORWARDING_STATUS_FILE",
                    "PRIVATE_INTERNET_ACCESS_VPN_PORT_FORWARDING_STATUS_FILE">>,
     UpCommand |-> <<"VPN_PORT_FORWARDING_UP_COMMAND">>, DownCommand |-> <<"VPN_PORT_FORWARDING_DOWN_COMMAND">>,
     ListeningPorts |-> <<"VPN_PORT_FORWARDING_LISTENING_PORTS", "VPN_PORT_FORWARDING_LISTENING_PORT">>,
     PortsCount |-> <<"VPN_PORT_FORWARDING_PORTS_COUNT">>]

ReadPortForwarding(env) ==
    Read(env, PortForwardingKeys)
    @@ [Username |-> First(env, <<"VPN_PORT_FORWARDING_USERNAME", "OPENVPN_USER", "USER">>),
        Password |-> First(env, <<"VPN_PORT_FORWARDING_PASSWORD", "OPENVPN_PASSWORD", "PASSWORD">>)]

Count(s) == IF s.PortsCount = {} THEN 0 ELSE The(s.PortsCount)

PortForwardingValid(s, provider) ==
    LET selected == IF The(s.Provider) = Unset THEN provider ELSE The(s.Provider) IN
    The(s.Enabled) =>
        /\ selected \in {"perfect privacy", "private internet access", "privatevpn", "protonvpn"}
        /\ Count(s) <= (IF selected = "protonvpn" THEN 4 ELSE 1)
        /\ selected = "private internet access" => s.Username # {} /\ s.Password # {}
        /\ The(s.ListeningPorts) # <<0>> =>
              Len(The(s.ListeningPorts)) = Count(s) /\ 0 \notin Values(The(s.ListeningPorts))

PMTUDFields == {"ICMPAddresses", "TCPAddresses"}
PMTUDRequired == PMTUDFields
PMTUDKept == PMTUDFields
PMTUDDefaults ==
    LET v4 == <<"1.1.1.1", "8.8.8.8">>
        v6 == <<"2606:4700:4700::1111", "2001:4860:4860::8888">>
        At(addresses, port) == [i \in DOMAIN addresses |-> <<addresses[i], port>>]
    IN [ICMPAddresses |-> v4, TCPAddresses |-> At(v4, 53) \o At(v4, 443) \o At(v6, 53) \o At(v6, 443)]
PMTUDKeys == [ICMPAddresses |-> <<"PMTUD_ICMP_ADDRESSES">>, TCPAddresses |-> <<"PMTUD_TCP_ADDRESSES">>]
PMTUDValid(s) == \A f \in PMTUDFields : Bad \notin Values(The(s[f]))

----------------------- (* OpenVPN, WireGuard, AmneziaWG *) --------------------

OpenVPNFields == {"Version", "User", "Password", "ConfFile", "Ciphers", "Auth", "Cert", "Key", "EncryptedKey",
    "KeyPassphrase", "PIAEncPreset", "MSSFix", "Interface", "ProcessUser", "Verbosity", "Flags"}
OpenVPNRequired == {"User", "Password", "ConfFile", "Auth", "Cert", "Key", "MSSFix", "Interface",
    "ProcessUser", "Verbosity"}
OpenVPNKept == OpenVPNFields
OpenVPNDefaults(provider) ==
    [f \in {"User", "ConfFile", "Auth", "Cert", "Key", "EncryptedKey", "KeyPassphrase"} |-> Unset]
    @@ [Version |-> "2.6", Password |-> IF provider = "mullvad" THEN "m" ELSE Unset,
        PIAEncPreset |-> IF provider = "private internet access" THEN "strong" ELSE Unset,
        MSSFix |-> 0, Interface |-> "tun0", ProcessUser |-> "root", Verbosity |-> 1]
OpenVPNKeys ==
    [Version |-> <<"OPENVPN_VERSION">>, User |-> <<"OPENVPN_USER", "USER">>,
     Password |-> <<"OPENVPN_PASSWORD", "PASSWORD">>, ConfFile |-> <<"OPENVPN_CUSTOM_CONFIG">>,
     Ciphers |-> <<"OPENVPN_CIPHERS", "OPENVPN_CIPHER">>, Auth |-> <<"OPENVPN_AUTH">>,
     Cert |-> <<"OPENVPN_CERT">>, Key |-> <<"OPENVPN_KEY">>, EncryptedKey |-> <<"OPENVPN_ENCRYPTED_KEY">>,
     KeyPassphrase |-> <<"OPENVPN_KEY_PASSPHRASE">>,
     PIAEncPreset |-> <<"PRIVATE_INTERNET_ACCESS_OPENVPN_ENCRYPTION_PRESET", "ENCRYPTION", "PIA_ENCRYPTION">>,
     MSSFix |-> <<"OPENVPN_MSSFIX">>, Interface |-> <<"VPN_INTERFACE", "OPENVPN_INTERFACE">>,
     Verbosity |-> <<"OPENVPN_VERBOSITY">>, Flags |-> <<"OPENVPN_FLAGS">>]

\* readOpenVPNProcessUser: the old key is a boolean.
ReadOpenVPN(env) ==
    Read(env, OpenVPNKeys)
    @@ [ProcessUser |-> IF "OPENVPN_ROOT" \in DOMAIN env
                        THEN {IF env["OPENVPN_ROOT"] THEN "root" ELSE "nonrootuser"}
                        ELSE First(env, <<"OPENVPN_PROCESS_USER">>)]

\* An IVPN account is a user "account", which has no password.
OpenVPNValid(s, provider) ==
    LET userRequired == provider \notin {"custom", "airvpn", "vpnsecure"} IN
    /\ The(s.Version) \in {"2.5", "2.6"}
    /\ userRequired => The(s.User) # Unset
    /\ userRequired /\ ~(provider = "ivpn" /\ The(s.User) = "account") => The(s.Password) # Unset
    /\ provider = "custom" => The(s.ConfFile) \notin {Unset, Bad}
    /\ provider \in {"airvpn", "cyberghost", "vpnsecure", "vpn unlimited"} => The(s.Cert) # Unset
    /\ provider \in {"airvpn", "cyberghost", "vpn unlimited"} => The(s.Key) # Unset
    /\ provider = "vpnsecure" => The(s.EncryptedKey) # Unset
    /\ \A f \in {"Cert", "Key", "EncryptedKey", "Interface"} : The(s[f]) # Bad
    /\ The(s.EncryptedKey) # Unset => The(s.KeyPassphrase) # Unset
    /\ The(s.MSSFix) <= 10000 /\ The(s.Verbosity) \in 0..6

WireguardFields == {"PrivateKey", "PreSharedKey", "Addresses", "AllowedIPs", "Interface",
                    "PersistentKeepaliveInterval", "MTU", "Implementation"}
WireguardRequired == {"PrivateKey", "PreSharedKey", "Interface", "MTU", "Implementation"}

\* A bug: the addresses are left out of the copy and of the override.
WireguardKept_NoAddresses == WireguardFields \ {"Addresses"}

WireguardKept == WireguardFields
WireguardDefaults(provider) ==
    [PrivateKey |-> Unset, PreSharedKey |-> Unset, AllowedIPs |-> <<"0.0.0.0/0", "::/0">>,
     PersistentKeepaliveInterval |-> 0, Interface |-> "wg0", MTU |-> 0, Implementation |-> "auto"]
    @@ (CASE provider = "nordvpn" -> [Addresses |-> <<"10.5.0.2/32">>]
          [] provider = "protonvpn" -> [Addresses |-> <<"10.2.0.2/32">>]
          [] OTHER -> <<>>)

WireguardKeys(type) ==
    [PrivateKey |-> <<type \o "_PRIVATE_KEY">>, PreSharedKey |-> <<type \o "_PRESHARED_KEY">>,
     Interface |-> <<"VPN_INTERFACE", type \o "_INTERFACE">>,
     Implementation |-> IF type = "AMNEZIAWG" THEN <<>> ELSE <<"WIREGUARD_IMPLEMENTATION">>,
     Addresses |-> <<type \o "_ADDRESSES", type \o "_ADDRESS">>, AllowedIPs |-> <<type \o "_ALLOWED_IPS">>,
     PersistentKeepaliveInterval |-> <<type \o "_PERSISTENT_KEEPALIVE_INTERVAL">>, MTU |-> <<type \o "_MTU">>]

WireguardValid(s, provider, ipv6, sixes) ==
    /\ The(s.PrivateKey) \notin {Unset, Bad}
    /\ provider = "airvpn" => The(s.PreSharedKey) # Unset
    /\ The(s.PreSharedKey) # Bad
    /\ Given(s, "Addresses") # <<>>
    /\ \A a \in Values(Given(s, "Addresses")) : a # Bad /\ (a \in sixes => ipv6)
    /\ The(s.AllowedIPs) # <<>> /\ Bad \notin Values(The(s.AllowedIPs))
    /\ The(s.Interface) # Bad

\* AmneziaWG looks at no implementation, and has one that is never read.
ImplementationValid(s) == The(s.Implementation) \in {"auto", "userspace", "kernelspace"}

AmneziaWgCounts == {"JunkPacketCount", "JunkPacketMin", "JunkPacketMax", "PaddingS1", "PaddingS2", "PaddingS3",
                    "PaddingS4"}
AmneziaWgHeaders == {"HeaderH1", "HeaderH2", "HeaderH3", "HeaderH4"}
AmneziaWgTexts == AmneziaWgHeaders
    \cup {"InitPacketI1", "InitPacketI2", "InitPacketI3", "InitPacketI4", "InitPacketI5"}
AmneziaWgFields == AmneziaWgCounts \cup AmneziaWgTexts
AmneziaWgKept == AmneziaWgFields
AmneziaWgDefaults == [f \in AmneziaWgCounts |-> 0] @@ [f \in AmneziaWgTexts |-> Unset]
AmneziaWgKeys ==
    [JunkPacketCount |-> <<"AMNEZIAWG_JC">>, JunkPacketMin |-> <<"AMNEZIAWG_JMIN">>,
     JunkPacketMax |-> <<"AMNEZIAWG_JMAX">>, PaddingS1 |-> <<"AMNEZIAWG_S1">>, PaddingS2 |-> <<"AMNEZIAWG_S2">>,
     PaddingS3 |-> <<"AMNEZIAWG_S3">>, PaddingS4 |-> <<"AMNEZIAWG_S4">>, HeaderH1 |-> <<"AMNEZIAWG_H1">>,
     HeaderH2 |-> <<"AMNEZIAWG_H2">>, HeaderH3 |-> <<"AMNEZIAWG_H3">>, HeaderH4 |-> <<"AMNEZIAWG_H4">>,
     InitPacketI1 |-> <<"AMNEZIAWG_I1">>, InitPacketI2 |-> <<"AMNEZIAWG_I2">>, InitPacketI3 |-> <<"AMNEZIAWG_I3">>,
     InitPacketI4 |-> <<"AMNEZIAWG_I4">>, InitPacketI5 |-> <<"AMNEZIAWG_I5">>]

\* The code looks at each junk bound beside the count; a header is a number or a range.
AmneziaWgValid(s) ==
    LET min == The(s.JunkPacketMin)  max == The(s.JunkPacketMax) IN
    /\ IF The(s.JunkPacketCount) = 0 THEN min = 0 /\ max = 0 ELSE 0 < min /\ min <= max
    /\ \A f \in AmneziaWgHeaders : The(s[f]) # Bad

------------------------------ (* All of them *) ------------------------------

Kept == [vpn |-> VPNKept, provider |-> ProviderKept, selection |-> SelectionKept,
    selectionOpenVPN |-> OpenVPNSelectionKept, selectionWireguard |-> WireguardSelectionKept,
    portForwarding |-> PortForwardingKept, openvpn |-> OpenVPNKept, wireguard |-> WireguardKept,
    amneziawg |-> AmneziaWgKept, amneziawgWireguard |-> WireguardKept, pmtud |-> PMTUDKept]

VPNStructs == [vpn |-> VPNFields, provider |-> ProviderFields, selection |-> SelectionFields,
    selectionOpenVPN |-> OpenVPNSelectionFields, selectionWireguard |-> WireguardSelectionFields,
    portForwarding |-> PortForwardingFields, openvpn |-> OpenVPNFields, wireguard |-> WireguardFields,
    amneziawg |-> AmneziaWgFields, amneziawgWireguard |-> WireguardFields, pmtud |-> PMTUDFields]

CopyVPN(v) == [p \in DOMAIN v |-> Copied(v[p], Kept[p])]
OverrideVPN(v, o) == [p \in DOMAIN v |-> Overridden(v[p], o[p], Kept[p])]

\* VPN.setDefaults: port forwarding before the selection, the name before the rest.
SetVPNDefaults(v) ==
    LET provider == WithDefaults(v.provider, ProviderDefaults)
        name == The(provider.Name)
        forwarding == WithDefaults(v.portForwarding, PortForwardingDefaults)
    IN [vpn |-> WithDefaults(v.vpn, VPNDefaults), provider |-> provider, portForwarding |-> forwarding,
        selection |-> WithDefaults(v.selection, SelectionDefaults(name, The(forwarding.Enabled))),
        selectionOpenVPN |-> WithDefaults(v.selectionOpenVPN, OpenVPNSelectionDefaults(name)),
        selectionWireguard |-> WithDefaults(v.selectionWireguard, WireguardSelectionDefaults),
        openvpn |-> WithDefaults(v.openvpn, OpenVPNDefaults(name)),
        wireguard |-> WithDefaults(v.wireguard, WireguardDefaults(name)),
        amneziawg |-> WithDefaults(v.amneziawg, AmneziaWgDefaults),
        amneziawgWireguard |-> [WithDefaults(v.amneziawgWireguard, WireguardDefaults(name))
                                EXCEPT !.Implementation = {"userspace"}],
        pmtud |-> WithDefaults(v.pmtud, PMTUDDefaults)]

\* The endpoint of the selection is read with the keys of the VPN type.
ReadVPN(env) ==
    LET vpn == Read(env, VPNKeys)
        provider == ReadProvider(env, vpn.Type)
    IN [vpn |-> vpn, provider |-> provider,
        selection |-> ReadSelection(env, provider.Name, vpn.Type),
        selectionOpenVPN |-> Read(env, OpenVPNSelectionKeys),
        selectionWireguard |->
            Read(env, WireguardSelectionKeys(IF vpn.Type = {"amneziawg"} THEN "AMNEZIAWG" ELSE "WIREGUARD")),
        portForwarding |-> ReadPortForwarding(env), openvpn |-> ReadOpenVPN(env),
        wireguard |-> Read(env, WireguardKeys("WIREGUARD")), amneziawg |-> Read(env, AmneziaWgKeys),
        amneziawgWireguard |-> Read(env, WireguardKeys("AMNEZIAWG")), pmtud |-> Read(env, PMTUDKeys)]

(* VPN.Validate: the settings, with the old names of locations replaced, and     *)
(* whether they are valid.  Only the VPN type that is used is looked at.        *)
Validate(v, choices, retro, ipv6, sixes) ==
    LET type == The(v.vpn.Type)
        name == The(v.provider.Name)
        selection == WithoutOldNames(v.selection, name, choices, retro)
    IN [settings |-> [v EXCEPT !.selection = selection],
        ok |-> /\ type \in {"amneziawg", "openvpn", "wireguard"}
               /\ name \in Names(type)
               /\ OldNamesValid(v.selection, name, choices, retro)
               /\ SelectionValid(selection, v.selectionOpenVPN, v.selectionWireguard, name, choices)
               /\ PortForwardingValid(v.portForwarding, name)
               /\ type = "openvpn" => OpenVPNValid(v.openvpn, name)
               /\ type = "wireguard" => WireguardValid(v.wireguard, name, ipv6, sixes)
                                        /\ ImplementationValid(v.wireguard)
               /\ type = "amneziawg" => WireguardValid(v.amneziawgWireguard, name, ipv6, sixes)
                                        /\ AmneziaWgValid(v.amneziawg)
               /\ PMTUDValid(v.pmtud)]

\* patchSettings of the control server: the copy of the settings, overridden and validated.
Patch(v, o, choices, retro, ipv6, sixes) ==
    Validate(OverrideVPN(CopyVPN(v), o), choices, retro, ipv6, sixes)
=============================================================================
