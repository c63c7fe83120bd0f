---------------------------- MODULE SettingsChecks ----------------------------
(***************************************************************************)
(* What the settings, the servers and the connections made of them promise: a *)
(* state is one input of the program (an environment, a partial update, a      *)
(* configuration file, a fetch of servers), and every input of the instance is *)
(* a state.                                                               *)
(***************************************************************************)
EXTENDS ServerUpdate

CONSTANTS
    Keys,       \* keys of the environment with a value, beside the credentials; two are there at most
    DNSKeyValues,   \* keys of the environment about DNS with a value; three are there at most
    Lines,      \* lines of configuration files
    MaxLines,   \* bound: how many lines a file has
    Hosts       \* hosts of the sources of servers

VARIABLE input

Unpicked == [kind |-> "none"]
NoRetro == <<>>
V6 == {"6::"}

------------------------------ (* Sources of servers *) ------------------------

Source(entries, resolved) ==
    [entries |-> entries, resolved |-> resolved, reached |-> TRUE, credentials |-> TRUE]

Protocols == {<<TRUE, FALSE, FALSE>>, <<FALSE, TRUE, FALSE>>, <<TRUE, TRUE, FALSE>>, <<FALSE, TRUE, TRUE>>}
Entries == {[host |-> h, tcp |-> p[1], udp |-> p[2], wg |-> p[3], state |-> st] :
               h \in Hosts, p \in Protocols, st \in {"fine", "skipped", "bare"}}

\* What a source lists: two entries, one or none.
Listings == {{e, d} : e, d \in Entries} \cup {{}}

\* A host has a name, which has a first label; none is called what stands for no name (PrivatevpnServers).
ASSUME HostsAssumption ==
    \A h \in Hosts : h # Unset /\ FirstLabel(h) # Unset /\ \A e \in Entries : h # <<"no host", e>>

\* The servers in use after a full update, as the selection of one sees them.
Full == Source({[host |-> h, tcp |-> TRUE, udp |-> TRUE, wg |-> w, state |-> "fine"] :
                   h \in Hosts, w \in BOOLEAN}, Hosts)
Stored(provider) ==
    {[vpn |-> s.vpn, tcp |-> s.tcp, udp |-> s.udp, features |-> {},
      places |-> [Countries |-> {<<s.hostname, "lower">>}], ips |-> {"4", "6::"},
      hostname |-> s.hostname, x509 |->
          IF provider \in {"ipvanish", "privado", "windscribe"} THEN "name" ELSE Unset] :
        s \in FetchServers(provider, Full, 0).servers}

Choices(provider) == IF provider = "custom" THEN [f \in Locations |-> {}] ELSE FilterChoices(Stored(provider))

\* Hosts that are resolved are those the resolver finds, some of them failing.
Resolved(provider, entries, failing) ==
    IF provider \in DOMAIN ResolvingOf THEN Resolutions(HostsOf(entries), failing, ResolvingOf[provider].ratio)
    ELSE {Hosts}

PickSource ==
    \E p \in AllWithCustom \ {"custom"}, entries \in Listings, failing \in SUBSET Hosts :
    \E resolved \in Resolved(p, entries, failing) :
        input' = [kind |-> "source", provider |-> p, src |-> Source(entries, resolved)]

\* Airvpn expects ten servers of an entry, and makes six.
CountsMore == {"airvpn"}

(* An update that succeeds has as many servers as the ratio asks of those in use: *)
(* a fetch that lost most of them must not replace them (updater/providers.go   *)
(* updateProvider, with the counts each provider makes of its own).            *)
NotFewer ==
    input.kind = "source" /\ input.provider \notin CountsMore =>
        \A used \in 0..5 :
            LET updated == UpdateProvider(input.provider, 1..used, input.src, 80) IN
            updated.result = "updated" => N(updated.servers) >= MinServers(80, used)

\* What is fetched a second time, with what the first fetch stored in use.
Refetched(provider, src) ==
    LET first == UpdateProvider(provider, {}, src, 80) IN
    IF first.result = "updated" THEN UpdateProvider(provider, first.servers, src, 80) ELSE first

\* Surfshark and Proton VPN count hosts, of two servers each; Torguard, those that resolve.
CountsLess == {"surfshark", "protonvpn", "torguard"}

(* Servers that have just been stored are accepted when they are fetched again: a *)
(* provider that has not changed goes on being updated.  Surfshark, Proton VPN and *)
(* Torguard do not keep this.                                              *)
SameServersAccepted ==
    input.kind = "source" /\ input.provider \notin CountsLess =>
        Refetched(input.provider, input.src).result # "not enough"

\* The providers whose sources say which protocols a host takes; two of them skip no entry.
Listed(provider, src) == IF provider \in {"fastestvpn", "hidemyass"} THEN src.entries ELSE Taken(src)
SayProtocols == {"fastestvpn", "giganews", "hidemyass", "ipvanish", "private internet access", "purevpn",
                 "torguard", "vyprvpn"}

(* A host that two files or two lists name, one for TCP and one for UDP, takes    *)
(* both and nothing more, whichever is read first (hosttoserver.go of each).     *)
ProtocolsKept ==
    input.kind = "source" /\ input.provider \in SayProtocols =>
        \A s \in FetchServers(input.provider, input.src, 0).servers :
            s.vpn = "openvpn" =>
                \A protocol \in {"tcp", "udp"} :
                    s[protocol] = Has(Listed(input.provider, input.src), s.hostname, protocol)

Outcomes == {"updated", "no credentials", "not enough", "error"}

PickResults ==
    \E n \in 1..3 : \E results \in [1..n -> Outcomes], cancelled \in 0..3 :
        input' = [kind |-> "results", results |-> results, cancelled |-> cancelled]

(* One provider that fails does not keep the others from being updated, unless     *)
(* the program is stopping, and its error is not one of the update (updater.go).  *)
EachTried ==
    input.kind = "results" /\ (Len(input.results) = 1 \/ input.cancelled = 3) =>
        LET done == UpdateServers(input.results, input.cancelled) IN
        /\ done.tried = Len(input.results)
        /\ done.error => Len(input.results) = 1

------------------------- (* From settings to a connection *) -------------------

\* The credentials every provider finds what it needs in.
Credentials ==
    [OPENVPN_USER |-> "u", OPENVPN_PASSWORD |-> "p", OPENVPN_CERT |-> "c", OPENVPN_KEY |-> "k",
     OPENVPN_ENCRYPTED_KEY |-> "e", OPENVPN_KEY_PASSPHRASE |-> "s", WIREGUARD_PRIVATE_KEY |-> "k",
     WIREGUARD_PRESHARED_KEY |-> "k", WIREGUARD_ADDRESSES |-> <<"10.0.0.1">>]

\* A partial update of the control server: one field of one structure.
Nothing_ == [p \in DOMAIN VPNStructs |-> [f \in VPNStructs[p] |-> {}]]
Setting(p, f, v) == [Nothing_ EXCEPT ![p] = [Nothing_[p] EXCEPT ![f] = {v}]]
Patches ==
    {Nothing_} \cup {Setting("provider", "Name", n) : n \in {"private internet access", "mullvad", "windscribe"}}
    \cup {Setting("vpn", "Type", v) : v \in {"openvpn", "wireguard"}}
    \cup {Setting("selection", "VPN", v) : v \in {"openvpn", "wireguard"}}
    \cup {Setting("selectionOpenVPN", "Protocol", v) : v \in {"udp", "tcp"}}
    \cup {Setting("selectionOpenVPN", "PIAEncPreset", v) : v \in {"normal", "none"}}

\* The environment of some keys with their values, unless it gives one of them twice.
Env(pairs) == [k \in {p[1] : p \in pairs} |-> (CHOOSE p \in pairs : p[1] = k)[2]]
Single(pairs) == \A p, q \in pairs : p[1] = q[1] => p = q

\* A partial update comes with one key at most.
PickEnv ==
    \E p \in AllWithCustom, type \in {"openvpn", "wireguard"}, k1, k2 \in Keys, patch \in Patches :
        LET env == Env({k1, k2}) @@ [VPN_SERVICE_PROVIDER |-> p, VPN_TYPE |-> type] @@ Credentials IN
        /\ Single({k1, k2})
        /\ k1 = k2 \/ patch = Nothing_
        /\ input' = [kind |-> "env", patch |-> patch, env |-> env,
                     started |-> Validate(SetVPNDefaults(ReadVPN(env)), Choices(p), NoRetro, TRUE, V6)]

\* The settings the program starts with, then those it has after the partial update.
Started == input.started
Choosing(o) == Choices(IF o.provider.Name = {} THEN The(Started.settings.provider.Name) ELSE The(o.provider.Name))
PatchedBy(o) == Patch(Started.settings, o, Choosing(o), NoRetro, TRUE, V6)
Patched == PatchedBy(input.patch)

Connections(v) ==
    LET provider == The(v.provider.Name) IN
    GetConnection(Stored(provider), v.selection, v.selectionOpenVPN, v.selectionWireguard,
                  DefaultPorts(provider, The(v.selectionOpenVPN.PIAEncPreset)), TRUE, V6)

(* Settings that were validated, at start or by a partial update, and servers that *)
(* an update stored make a connection or an error, never a panic for the port the *)
(* provider has no default for; and the server takes the protocol of the          *)
(* connection (provider/utils/connection.go, port.go, each connection.go).       *)
ConnectsOrErrs ==
    input.kind = "env" =>
        LET used == Started.ok /\ Patched.ok /\ The(Patched.settings.provider.Name) # "custom" IN
        used =>
            \A c \in Connections(Patched.settings) :
                /\ c.result # "panic"
                /\ c.result = "connection" /\ c.type = "openvpn" => c.server[c.protocol]

(* Validated settings are valid again and unchanged by a partial update that says  *)
(* nothing, which is what every PUT of the VPN settings relies on (vpn.go Copy,    *)
(* OverrideWith and Validate; server/vpn.go patchSettings).  With listening ports  *)
(* it does not hold: the count they are compared to is lost (portforward.go:127).  *)
RevalidatedSame ==
    input.kind = "env" =>
        LET again == PatchedBy(Nothing_) IN
        Started.ok /\ Started.settings.portForwarding.ListeningPorts = {<<0>>} =>
            again.ok /\ \A p \in DOMAIN again.settings :
                          \A f \in Kept[p] : again.settings[p][f] = Started.settings[p][f]

\* The lines of a configuration that start with a directive.
Of(config, directive) == Selected(config, {line \in Values(config) : line[1] = directive})

\* Directives OpenVPN takes one of.
OneOf == {"dev", "verb", "proto", "remote", "auth-user-pass", "user", "key-direction", "ping", "reneg-sec", "auth",
           "data-ciphers", "data-ciphers-fallback", "tls-cipher", "tun-mtu", "tun-mtu-extra", "mssfix", "fragment",
           "verify-x509-name", "ca", "tls-auth", "tls-crypt"}

\* Over TCP, PrivateVPN has a static key and no direction for it.
Undirected(provider, c) == provider = "privatevpn" /\ c.protocol = "tcp"

(* The configuration written for a connection has one line of each directive,      *)
(* names the server of the connection, checks the certificate for a name that is  *)
(* not empty, and says in which direction a static key is used, whatever settings *)
(* and provider it is made of (provider/utils/openvpn.go OpenVPNConfig).        *)
WellFormedConfig ==
    input.kind = "env" =>
        LET v == Started.settings  provider == The(v.provider.Name) IN
        Started.ok /\ provider # "custom" /\ The(v.vpn.Type) = "openvpn" =>
            \A c \in Connections(v), ipv6 \in BOOLEAN : c.result = "connection" =>
                LET made == ProviderSettings(provider, The(v.selectionOpenVPN.PIAEncPreset), ipv6)
                    config == OpenVPNConfig(made, c, v.openvpn, ipv6)
                IN /\ \A d \in OneOf : Len(Of(config, d)) <= 1
                   /\ Of(config, "remote") = <<<<"remote", c.ip, c.port>>>>
                   /\ \A line \in Values(Of(config, "verify-x509-name")) : line[2] # Unset
                   /\ Of(config, "tls-auth") # <<>> /\ ~Undirected(provider, c) =>
                         Len(Of(config, "key-direction")) = 1

------------------------ (* Custom configuration files *) ----------------------

\* OpenVPN refuses a file in which one of these has no argument.
WithArgument == {"remote", "proto", "dev", "auth", "mssfix", "data-ciphers", "cipher"}
ASSUME LinesAssumption ==
    \A line \in Lines :
        /\ line[1] \in WithArgument => Len(line) > 1
        /\ line[1] = "remote" => line[2] # Unset

\* The settings of a file, one of them or all.
CustomKeys == {<<"OPENVPN_AUTH", "sha256">>, <<"OPENVPN_MSSFIX", 1000>>, <<"OPENVPN_CIPHERS", <<"256gcm", "128gcm">>>>,
               <<"OPENVPN_PROCESS_USER", "nobody">>, <<"OPENVPN_ENDPOINT_PORT", 8000>>}

\* The keys that say a file is used.
FileKeys == {<<"VPN_SERVICE_PROVIDER", "custom">>, <<"VPN_TYPE", "openvpn">>, <<"OPENVPN_CUSTOM_CONFIG", "file">>}

PickFile ==
    \E n \in 1..MaxLines : \E file \in [1..n -> Lines], keys \in {{k} : k \in CustomKeys} \cup {{}, CustomKeys} :
        input' = [kind |-> "file", file |-> file, env |-> Env(keys \cup FileKeys)]

FileSettings == SetVPNDefaults(ReadVPN(input.env))
FileConnection == CustomConnection(input.file, FileSettings.selection, FileSettings.selectionOpenVPN,
                                   FileSettings.selectionWireguard)
FileConfig == CustomConfig(input.file, FileConnection, FileSettings.openvpn, FALSE)

(* The firewall lets one server through: the configuration made of a file has one  *)
(* remote and one protocol, those of the connection, and its interface is the one *)
(* of the settings, however many the file has (custom/openvpnconf.go).          *)
CustomOneServer ==
    input.kind = "file" /\ FileConnection.result = "connection" =>
        LET c == FileConnection IN
        /\ Of(FileConfig, "remote") = <<<<"remote", c.ip, c.port>>>>
        /\ Of(FileConfig, "proto") = <<<<"proto", c.protocol>>>>
        /\ Of(FileConfig, "dev") = <<<<"dev", The(FileSettings.openvpn.Interface)>>>>

(* Of a file with several servers the first is the one connected to, and a setting  *)
(* of the port is the port (openvpn/extract, custom/connection.go).               *)
FirstServer ==
    input.kind = "file" /\ FileConnection.result = "connection" =>
        LET remotes == Of(input.file, "remote")
            port == The(FileSettings.selectionOpenVPN.CustomPort)
        IN FileConnection.ip = remotes[1][2] /\ (port # 0 => FileConnection.port = port)

(* A setting wins over the line of the file it is for: it is the only one of its   *)
(* kind that stays (custom/openvpnconf.go modifyConfig).                       *)
SettingsWin ==
    input.kind = "file" /\ FileConnection.result = "connection" =>
        LET o == FileSettings.openvpn IN
        /\ The(o.Auth) # Unset => Of(FileConfig, "auth") = <<<<"auth", The(o.Auth)>>>>
        /\ The(o.MSSFix) > 0 => Of(FileConfig, "mssfix") = <<<<"mssfix", The(o.MSSFix)>>>>
        /\ Given(o, "Ciphers") # <<>> =>
              /\ Of(FileConfig, "data-ciphers") = <<<<"data-ciphers", Given(o, "Ciphers")>>>>
              /\ Of(FileConfig, "cipher") = <<>>

------------------------ (* The settings of everything else *) ------------------

\* For each structure: its fields and those it keeps when it is copied or overridden.
Struct(fields, kept) == [fields |-> fields, kept |-> kept]
Structs ==
    [DNS |-> Struct(DNSFields, DNSKept), Health |-> Struct(HealthFields, HealthKept),
     PublicIP |-> Struct(PublicIPFields, PublicIPKept), HTTPProxy |-> Struct(HTTPProxyFields, HTTPProxyKept),
     Shadowsocks |-> Struct(ShadowsocksFields, ShadowsocksKept),
     ControlServer |-> Struct(ControlServerFields, ControlServerKept),
     Pprof |-> Struct(PprofFields, PprofKept), Firewall |-> Struct(FirewallFields, FirewallKept),
     Updater |-> Struct(UpdaterFields, UpdaterKept), System |-> Struct(SystemFields, SystemKept),
     HTTPServer |-> Struct(DOMAIN HTTPServerDefaults \cup {"Handler", "Logger"}, HTTPServerKept),
     Log |-> Struct(DOMAIN LogKeys, LogKept),
     Storage |-> Struct(DOMAIN StorageKeys, StorageKept), Version |-> Struct(DOMAIN VersionKeys, VersionKept),
     IPv6 |-> Struct(DOMAIN IPv6Keys, IPv6Kept), BoringPoll |-> Struct(DOMAIN BoringPollKeys, BoringPollKept)]
    @@ [p \in DOMAIN VPNStructs |-> Struct(VPNStructs[p], Kept[p])]

PickUpdate ==
    \E name \in DOMAIN Structs : \E given \in SUBSET Structs[name].fields :
        /\ Cardinality(given) \in {0, 1, 2}
        /\ input' = [kind |-> "update", structure |-> name, given |-> given]

\* The field a partial update loses.
Lost(structure) == IF structure = "portForwarding" THEN {"PortsCount"} ELSE {}

Updated(name, given) ==
    LET fields == Structs[name].fields
        old == [f \in fields |-> {"old"}]
        new == [f \in fields |-> IF f \in given THEN {"new"} ELSE {}]
    IN Overridden(Copied(old, Structs[name].kept), new, Structs[name].kept)

(* A partial update takes every field it gives and keeps every other: a field left *)
(* out of one of the hand-written Copy and OverrideWith of a structure is lost.   *)
(* PortsCount is (settings/portforward.go:127).                                *)
UpdateTakesAndKeeps ==
    input.kind = "update" =>
        \A f \in Structs[input.structure].fields \ Lost(input.structure) :
            Updated(input.structure, input.given)[f] = {IF f \in input.given THEN "new" ELSE "old"}

PickDNS ==
    \E k1, k2, k3 \in DNSKeyValues :
        /\ Single({k1, k2, k3})
        /\ input' = [kind |-> "dns", env |-> Env({k1, k2, k3})]

DNSSettings == WithDefaults(ReadDNS(input.env), DNSDefaults)

(* A resolver of the user, given with an old key or with the new ones, is one the   *)
(* program asks: no other resolver learns the names (settings/dns.go,             *)
(* readUpstreamPlainAddresses; dns/settings.go).                              *)
OwnResolverAsked ==
    input.kind = "dns" /\ DNSValid(DNSSettings, V6) =>
        LET old == First(input.env, <<"DNS_ADDRESS">>) IN
        /\ old \notin {{}, {"127.0.0.1"}} => The(old) \in Values(Resolvers(DNSSettings))
        /\ The(DNSSettings.UpstreamType) = "plain" =>
              Values(Resolvers(DNSSettings)) = Values(The(DNSSettings.UpstreamPlainAddresses))

\* Sensible values, of the keys of now.
SectionKeys ==
    [DNS |-> {<<"DNS_UPSTREAM_RESOLVERS", <<"google">>>>, <<"DNS_CACHING", FALSE>>, <<"BLOCK_ADS", TRUE>>,
              <<"DNS_UPDATE_PERIOD", 3600>>, <<"DNS_UNBLOCK_HOSTNAMES", <<"a.com">>>>,
              <<"DNS_REBINDING_PROTECTION_EXEMPT_HOSTNAMES", <<"*.a.com">>>>},
     Health |-> {<<"HEALTH_SMALL_CHECK_TYPE", "dns">>, <<"HEALTH_ICMP_TARGET_IPS", <<"0.0.0.0">>>>,
                 <<"HEALTH_RESTART_VPN", FALSE>>},
     PublicIP |-> {<<"PUBLICIP_API", <<"ipinfo", "cloudflare">>>>, <<"PUBLICIP_API_TOKEN", <<"t">>>>,
                   <<"PUBLICIP_FILE", "/ip">>},
     HTTPProxy |-> {<<"HTTPPROXY", TRUE>>, <<"HTTPPROXY_USER", "me">>, <<"HTTPPROXY_STEALTH", TRUE>>},
     Shadowsocks |-> {<<"SHADOWSOCKS", TRUE>>, <<"SHADOWSOCKS_PASSWORD", "p">>},
     ControlServer |-> {<<"HTTP_CONTROL_SERVER_LOG", FALSE>>, <<"HTTP_CONTROL_SERVER_ADDRESS", ":80">>},
     Pprof |-> {<<"PPROF_ENABLED", TRUE>>, <<"PPROF_BLOCK_PROFILE_RATE", 1>>},
     Firewall |-> {<<"FIREWALL_INPUT_PORTS", <<80>>>>, <<"FIREWALL_IPTABLES_LOG_LEVEL", "debug">>},
     Updater |-> {<<"UPDATER_PERIOD", 3600>>, <<"UPDATER_VPN_SERVICE_PROVIDERS", <<"mullvad">>>>},
     System |-> {<<"PUID", 0>>, <<"TZ", "UTC">>}, Log |-> {<<"LOG_LEVEL", "debug">>},
     Storage |-> {<<"STORAGE_FILEPATH", "/s">>}, Version |-> {<<"VERSION_INFORMATION", FALSE>>},
     IPv6 |-> {<<"IPV6_CHECK_ADDRESSES", <<"6::">>>>}, BoringPoll |-> {<<"BORINGPOLL_GLUETUNCOM", TRUE>>}]

ReadSection(name, env) ==
    CASE name = "DNS" -> ReadDNS(env) [] name = "Health" -> Read(env, HealthKeys)
      [] name = "PublicIP" -> ReadPublicIP(env) [] name = "HTTPProxy" -> ReadHTTPProxy(env)
      [] name = "Shadowsocks" -> ReadShadowsocks(env) [] name = "ControlServer" -> Read(env, ControlServerKeys)
      [] name = "Pprof" -> Read(env, PprofKeys) [] name = "Firewall" -> ReadFirewall(env)
      [] name = "Updater" -> ReadUpdater(env) [] name = "System" -> Read(env, SystemKeys)
      [] name = "Log" -> Read(env, LogKeys) [] name = "Storage" -> Read(env, StorageKeys)
      [] name = "Version" -> Read(env, VersionKeys) [] name = "IPv6" -> Read(env, IPv6Keys)
      [] name = "BoringPoll" -> Read(env, BoringPollKeys)

SectionDefaults(name) ==
    CASE name = "DNS" -> DNSDefaults [] name = "Health" -> HealthDefaults [] name = "PublicIP" -> PublicIPDefaults
      [] name = "HTTPProxy" -> HTTPProxyDefaults [] name = "Shadowsocks" -> ShadowsocksDefaults
      [] name = "ControlServer" -> ControlServerDefaults [] name = "Pprof" -> PprofDefaults
      [] name = "Firewall" -> FirewallDefaults("debug") [] name = "Updater" -> UpdaterDefaults("mullvad")
      [] name = "System" -> SystemDefaults [] name = "Log" -> LogDefaults [] name = "Storage" -> StorageDefaults
      [] name = "Version" -> VersionDefaults [] name = "IPv6" -> IPv6Defaults [] name = "BoringPoll" -> BoringPollDefaults

SectionRequired ==
    [DNS |-> DNSRequired, Health |-> HealthRequired, PublicIP |-> PublicIPRequired, HTTPProxy |-> HTTPProxyRequired,
     Shadowsocks |-> ShadowsocksRequired, ControlServer |-> ControlServerRequired, Firewall |-> FirewallRequired,
     Updater |-> UpdaterRequired]
    @@ [name \in DOMAIN SectionKeys |-> DOMAIN SectionDefaults(name)]

\* What the library that checks the names of hosts refuses: its wildcard is taken off first.
Malformed == {"*.a.com"}
SectionValid(name, s) ==
    CASE name = "DNS" -> DNSValid(s, V6) /\ BlacklistValid(s, Malformed, [w \in {"*.a.com"} |-> "a.com"])
      [] name = "Health" -> HealthValid(s, Malformed) [] name = "PublicIP" -> PublicIPValid(s)
      [] name = "HTTPProxy" -> HTTPProxyValid(s, Malformed) [] name = "Firewall" -> FirewallValid(s)
      [] name = "Updater" -> UpdaterValid(s, AllWithCustom) [] OTHER -> TRUE

Loaded(name, env) == WithDefaults(ReadSection(name, env), SectionDefaults(name))

PickSection ==
    \E name \in DOMAIN SectionKeys : \E k1, k2, k3 \in SectionKeys[name] \cup {<<"none", 0>>} :
        input' = [kind |-> "section", name |-> name, env |-> Env({k1, k2, k3} \ {<<"none", 0>>})]

(* What a user may sensibly give for any part of the settings is accepted, beside the *)
(* defaults of everything else: the program starts (settings.go Validate).          *)
SensibleAccepted == input.kind = "section" => SectionValid(input.name, Loaded(input.name, input.env))

\* What the old keys of an environment stand for.
Retro == {
    <<"DNS", {<<"DOT_PROVIDERS", <<"quad9">>>>}, {<<"DNS_UPSTREAM_RESOLVERS", <<"quad9">>>>}>>,
    <<"DNS", {<<"DNS_PLAINTEXT_ADDRESS", "1.1.1.1">>},
             {<<"DNS_UPSTREAM_RESOLVER_TYPE", "plain">>, <<"DNS_UPSTREAM_PLAIN_ADDRESSES", <<"1.1.1.1">>>>}>>,
    <<"DNS", {<<"DOT_PRIVATE_ADDRESS", <<<<TRUE, "10.0.0.0/8">>, <<FALSE, "10.0.0.1">>>>>>},
             {<<"DNS_BLOCK_IPS", <<<<FALSE, "10.0.0.1">>>>>>, <<"DNS_BLOCK_IP_PREFIXES", <<<<TRUE, "10.0.0.0/8">>>>>>}>>,
    <<"Health", {<<"HEALTH_ADDRESS_TO_PING", <<"a:1">>>>}, {<<"HEALTH_TARGET_ADDRESSES", <<"a:1">>>>}>>,
    <<"PublicIP", {<<"PUBLICIP_PERIOD", 0>>}, {<<"PUBLICIP_ENABLED", FALSE>>}>>,
    <<"PublicIP", {<<"PUBLICIP_PERIOD", 12>>}, {<<"PUBLICIP_ENABLED", TRUE>>}>>,
    <<"PublicIP", {<<"IP_STATUS_FILE", "/x">>}, {<<"PUBLICIP_FILE", "/x">>}>>,
    <<"HTTPProxy", {<<"TINYPROXY_PORT", 80>>}, {<<"HTTPPROXY_LISTENING_ADDRESS", <<Unset, 80>>>>}>>,
    <<"HTTPProxy", {<<"PROXY_LOG", "notice">>}, {<<"HTTPPROXY_LOG", TRUE>>}>>,
    <<"HTTPProxy", {<<"TINYPROXY_LOG", "disabled">>}, {<<"HTTPPROXY_LOG", FALSE>>}>>,
    <<"Shadowsocks", {<<"SHADOWSOCKS_PORT", 80>>}, {<<"SHADOWSOCKS_LISTENING_ADDRESS", <<Unset, 80>>>>}>>,
    <<"Shadowsocks", {<<"SHADOWSOCKS_METHOD", "aes">>}, {<<"SHADOWSOCKS_CIPHER", "aes">>}>>,
    <<"Firewall", {<<"EXTRA_SUBNETS", <<"10.0.0.0/8">>>>}, {<<"FIREWALL_OUTBOUND_SUBNETS", <<"10.0.0.0/8">>>>}>>,
    <<"Updater", {<<"UPDATER_PROTONVPN_USERNAME", "me">>}, {<<"UPDATER_PROTONVPN_EMAIL", <<"me", "@protonmail.com">>>>}>>,
    <<"System", {<<"UID", 1>>}, {<<"PUID", 1>>}>>}

PickRetro ==
    \E retro \in Retro : \E k1, k2 \in SectionKeys[retro[1]] :
        LET given == {k \in {k1, k2} : k[1] \notin {new[1] : new \in retro[3]}} IN
        input' = [kind |-> "retro", name |-> retro[1], old |-> Env(retro[2] \cup given), new |-> Env(retro[3] \cup given)]

(* An environment written for an earlier version means what it meant: an old key is *)
(* read as the new keys that took its place (the RetroKeys and read functions of the *)
(* settings).                                                               *)
OldKeysStillWork == input.kind = "retro" => Loaded(input.name, input.old) = Loaded(input.name, input.new)

(* "It cannot be nil in the internal state": whatever the environment has, each     *)
(* field a structure requires is set once the defaults are.                     *)
CompleteAfterDefaults ==
    /\ input.kind \in {"env", "file"} =>
          LET v == SetVPNDefaults(ReadVPN(input.env))
              required == [selection |-> SelectionRequired, selectionOpenVPN |-> OpenVPNSelectionRequired,
                  selectionWireguard |-> WireguardSelectionRequired, portForwarding |-> PortForwardingRequired,
                  openvpn |-> OpenVPNRequired, wireguard |-> WireguardRequired, pmtud |-> PMTUDRequired,
                  amneziawgWireguard |-> WireguardRequired]
          IN \A p \in DOMAIN required : \A f \in required[p] : v[p][f] # {}
    /\ input.kind = "dns" => \A f \in DNSRequired : DNSSettings[f] # {}
    /\ input.kind = "section" => \A f \in SectionRequired[input.name] : Loaded(input.name, input.env)[f] # {}

----------------------------- (* Every input *) -------------------------------

Init == input = Unpicked

Next ==
    /\ input = Unpicked
    /\ PickSource \/ PickResults \/ PickEnv \/ PickFile \/ PickUpdate \/ PickDNS \/ PickSection \/ PickRetro

Spec == Init /\ [][Next]_input
=============================================================================
