------------------------------ MODULE Settings ------------------------------
(***************************************************************************)
(* The settings of gluetun but those of the VPN (internal/configuration): how *)
(* each structure is read from the environment, completed, validated, copied  *)
(* and overridden by a partial one.  A structure is a function from its fields *)
(* to sets: {} is a field left unset (nil, or the zero value), {v} one set to  *)
(* v.  A structure in another lends it its fields.                          *)
(***************************************************************************)
EXTENDS Naturals, Sequences, TLC

\* For each structure: its fields, those its comments require to be set once in
\* use, those copied and overridden, its defaults, and the keys each is read from.

\* A text that says nothing.
Unset == ""

Values(s) == {s[i] : i \in DOMAIN s}
The(field) == CHOOSE v \in field : TRUE

\* The elements of a sequence that are in a set, in their order.
Selected(q, set) ==
    LET After[n \in 0..Len(q)] ==
            IF n = 0 THEN <<>> ELSE IF q[n] \in set THEN Append(After[n - 1], q[n]) ELSE After[n - 1]
    IN After[Len(q)]

WithDefaults(s, d) == [f \in DOMAIN s |-> IF s[f] = {} /\ f \in DOMAIN d THEN {d[f]} ELSE s[f]]
Copied(s, kept) == [f \in DOMAIN s |-> IF f \in kept THEN s[f] ELSE {}]
Overridden(s, o, kept) == [f \in DOMAIN s |-> IF f \in kept /\ o[f] # {} THEN o[f] ELSE s[f]]
Read(env, keys) ==
    [f \in DOMAIN keys |-> {env[k] : k \in Values(keys[f]) \cap DOMAIN env}]

--------------------------------- (* DNS *) ----------------------------------

BlacklistFields == {"BlockMalicious", "BlockAds", "BlockSurveillance", "AllowedHosts",
    "AddBlockedHosts", "AddBlockedIPs", "AddBlockedIPPrefixes", "RebindingProtectionExemptHostnames"}
BlacklistKept == BlacklistFields
BlacklistDefaults == [BlockMalicious |-> TRUE, BlockAds |-> FALSE, BlockSurveillance |-> TRUE]
BlacklistKeys == [BlockMalicious |-> <<"BLOCK_MALICIOUS">>,
    BlockSurveillance |-> <<"BLOCK_SURVEILLANCE", "BLOCK_NSA">>, BlockAds |-> <<"BLOCK_ADS">>,
    AllowedHosts |-> <<"DNS_UNBLOCK_HOSTNAMES", "UNBLOCK">>, AddBlockedHosts |-> <<>>,
    RebindingProtectionExemptHostnames |-> <<"DNS_REBINDING_PROTECTION_EXEMPT_HOSTNAMES">>]

\* readDNSBlockedIPs and readDNSPrivateAddresses: an old key sorts its
\* addresses, as <<is a prefix, address>>, into the fields of two new ones.
ReadBlocked(env, prefix) ==
    LET new == IF prefix THEN "DNS_BLOCK_IP_PREFIXES" ELSE "DNS_BLOCK_IPS"
        old == "DOT_PRIVATE_ADDRESS"
        given == IF new \in DOMAIN env THEN env[new] ELSE <<>>
        added == IF old \in DOMAIN env THEN Selected(env[old], {a \in Values(env[old]) : a[1] = prefix}) ELSE <<>>
    IN IF given \o added = <<>> THEN {} ELSE {given \o added}

ReadBlacklist(env) ==
    Read(env, BlacklistKeys)
    @@ [AddBlockedIPs |-> ReadBlocked(env, FALSE), AddBlockedIPPrefixes |-> ReadBlocked(env, TRUE)]

\* The wildcard of an exempt host is taken off before it is matched.
BlacklistValid(s, malformed, parent) ==
    /\ \A f \in {"AllowedHosts", "AddBlockedHosts"} : \A hosts \in s[f] : Values(hosts) \cap malformed = {}
    /\ \A hosts \in s.RebindingProtectionExemptHostnames : \A h \in Values(hosts) :
          (IF h \in DOMAIN parent THEN parent[h] ELSE h) \notin malformed

DNSFields == {"UpstreamType", "UpdatePeriod", "Providers", "Caching", "IPv6",
              "UpstreamPlainAddresses"} \cup BlacklistFields
DNSRequired == {"UpstreamType", "UpdatePeriod", "Providers"}
\* A bug: the addresses of the user are left out.
DNSKept_NoAddresses == DNSFields \ {"UpstreamPlainAddresses"}

DNSKept == {"UpstreamType", "UpdatePeriod", "Providers", "Caching", "IPv6",
            "UpstreamPlainAddresses"} \cup BlacklistKept

\* A bug: the new field has no default.
DNSDefaults_NoPeriod == [UpstreamType |-> "dot", Providers |-> <<"cloudflare">>, IPv6 |-> FALSE,
    UpstreamPlainAddresses |-> <<>>]

DNSDefaults == [UpstreamType |-> "dot", UpdatePeriod |-> 86400, UpstreamPlainAddresses |-> <<>>,
    Providers |-> <<"cloudflare">>, Caching |-> TRUE, IPv6 |-> FALSE] @@ BlacklistDefaults
DNSKeys == [UpstreamType |-> <<"DNS_UPSTREAM_RESOLVER_TYPE">>, UpdatePeriod |-> <<"DNS_UPDATE_PERIOD">>,
    Providers |-> <<"DNS_UPSTREAM_RESOLVERS", "DOT_PROVIDERS">>, Caching |-> <<"DNS_CACHING", "DOT_CACHING">>,
    IPv6 |-> <<"DNS_UPSTREAM_IPV6", "DOT_IPV6">>,
    UpstreamPlainAddresses |-> <<"DNS_UPSTREAM_PLAIN_ADDRESSES">>]

\* A bug: the old address comes without the upstream type that uses it.
ReadDNS_KeepsType(env) ==
    LET d == Read(env, DNSKeys) @@ ReadBlacklist(env) IN
    IF "DNS_ADDRESS" \notin DOMAIN env \/ env["DNS_ADDRESS"] = "127.0.0.1" THEN d
    ELSE [d EXCEPT !.UpstreamPlainAddresses =
              {(IF @ = {} THEN <<>> ELSE The(@)) \o <<env["DNS_ADDRESS"]>>}]

\* readUpstreamPlainAddresses: the old key adds an address and forces the type.
ReadDNS(env) ==
    LET d == Read(env, DNSKeys) @@ ReadBlacklist(env)
        old == {"DNS_ADDRESS", "DNS_PLAINTEXT_ADDRESS"} \cap DOMAIN env
    IN IF \A k \in old : env[k] = "127.0.0.1" THEN d
       ELSE [d EXCEPT !.UpstreamType = {"plain"}, !.UpstreamPlainAddresses =
                 {(IF @ = {} THEN <<>> ELSE The(@)) \o <<env[CHOOSE k \in old : TRUE]>>}]

MinUpdatePeriod == 30
DNSValid(s, sixes) ==
    LET addresses == Values(The(s.UpstreamPlainAddresses)) IN
    /\ The(s.UpstreamType) \in {"dot", "doh", "plain"}
    /\ The(s.UpdatePeriod) = 0 \/ The(s.UpdatePeriod) >= MinUpdatePeriod
    /\ The(s.UpstreamType) = "plain" => \E a \in addresses : (a \in sixes) = The(s.IPv6)

(* buildServerSettings: the resolvers that are dialled, none of them unknown to  *)
(* buildProviders, which panics on one.                                      *)
Resolvers(s) ==
    IF The(s.UpstreamType) = "plain" /\ The(s.UpstreamPlainAddresses) # <<>>
    THEN The(s.UpstreamPlainAddresses) ELSE The(s.Providers)

----------------------- (* Health and public IP address *) ---------------------

HealthFields == {"ServerAddress", "TargetAddresses", "ICMPTargetIPs", "SmallCheckType", "RestartVPN"}
HealthRequired == {"ServerAddress", "TargetAddresses", "ICMPTargetIPs", "SmallCheckType"}
HealthKept == HealthFields
HealthDefaults == [ServerAddress |-> "127.0.0.1:9999", SmallCheckType |-> "icmp", RestartVPN |-> TRUE,
    TargetAddresses |-> <<"cloudflare.com:443", "github.com:443">>, ICMPTargetIPs |-> <<"1.1.1.1", "8.8.8.8">>]
HealthKeys == [ServerAddress |-> <<"HEALTH_SERVER_ADDRESS">>,
    TargetAddresses |-> <<"HEALTH_TARGET_ADDRESSES", "HEALTH_ADDRESS_TO_PING", "HEALTH_TARGET_ADDRESS">>,
    ICMPTargetIPs |-> <<"HEALTH_ICMP_TARGET_IPS", "HEALTH_ICMP_TARGET_IP">>,
    SmallCheckType |-> <<"HEALTH_SMALL_CHECK_TYPE">>, RestartVPN |-> <<"HEALTH_RESTART_VPN">>]

\* The VPN server stands for the unspecified address, which must then be alone.
HealthValid(s, malformed) ==
    /\ The(s.ServerAddress) \notin malformed
    /\ "0.0.0.0" \in Values(The(s.ICMPTargetIPs)) => Len(The(s.ICMPTargetIPs)) = 1
    /\ The(s.SmallCheckType) \in {"icmp", "dns"}

PublicIPFields == {"Enabled", "IPFilepath", "APIs"}
PublicIPRequired == {"Enabled", "IPFilepath", "APIs"}
PublicIPKept == PublicIPFields
PublicIPDefaults == [Enabled |-> TRUE, IPFilepath |-> "/tmp/gluetun/ip",
    APIs |-> <<<<"ipinfo", Unset>>, <<"cloudflare", Unset>>, <<"ifconfigco", Unset>>, <<"ip2location", Unset>>>>]

\* A bug: the old key, a period, is taken for the new one.
ReadEnabled_Reversed(env) ==
    IF "PUBLICIP_PERIOD" \in DOMAIN env THEN {env["PUBLICIP_PERIOD"] = 0}
    ELSE Read(env, [Enabled |-> <<"PUBLICIP_ENABLED">>]).Enabled

\* readPublicIPEnabled: the old key decides when it is there.
ReadEnabled(env) ==
    IF "PUBLICIP_PERIOD" \in DOMAIN env THEN {env["PUBLICIP_PERIOD"] # 0}
    ELSE Read(env, [Enabled |-> <<"PUBLICIP_ENABLED">>]).Enabled

\* A token goes to the service at its place, as long as there is one.
ReadPublicIP(env) ==
    LET names == IF "PUBLICIP_API" \in DOMAIN env THEN env["PUBLICIP_API"] ELSE <<>>
        tokens == IF "PUBLICIP_API_TOKEN" \in DOMAIN env THEN env["PUBLICIP_API_TOKEN"] ELSE <<>>
    IN Read(env, [IPFilepath |-> <<"PUBLICIP_FILE", "IP_STATUS_FILE">>])
       @@ [Enabled |-> ReadEnabled(env),
           APIs |-> IF names = <<>> THEN {}
                    ELSE {[i \in DOMAIN names |-> <<names[i], IF i \in DOMAIN tokens THEN tokens[i] ELSE Unset>>]}]

PublicIPValid(s) ==
    \A api \in Values(The(s.APIs)) :
        api[1] \in {"cloudflare", "ifconfigco", "ip2location", "ipinfo"}

------------------------------- (* Servers *) ---------------------------------

HTTPProxyFields == {"User", "Password", "ListeningAddress", "Enabled", "Stealth", "Log",
                    "ReadHeaderTimeout", "ReadTimeout"}
HTTPProxyRequired == {"User", "Password", "ListeningAddress", "Enabled", "Stealth", "Log"}
HTTPProxyKept == HTTPProxyFields
HTTPProxyDefaults == [User |-> Unset, Password |-> Unset, ListeningAddress |-> ":8888", Enabled |-> FALSE,
    Stealth |-> FALSE, Log |-> FALSE, ReadHeaderTimeout |-> 1, ReadTimeout |-> 3]
HTTPProxyKeys == [User |-> <<"HTTPPROXY_USER", "PROXY_USER", "TINYPROXY_USER">>,
    Password |-> <<"HTTPPROXY_PASSWORD", "PROXY_PASSWORD", "TINYPROXY_PASSWORD">>,
    Enabled |-> <<"HTTPPROXY", "PROXY", "TINYPROXY">>, Stealth |-> <<"HTTPPROXY_STEALTH">>,
    ReadHeaderTimeout |-> <<>>, ReadTimeout |-> <<>>]

\* The value of the first key there, if any.
First(env, keys) ==
    LET there == {i \in DOMAIN keys : keys[i] \in DOMAIN env} IN
    IF there = {} THEN {} ELSE {env[keys[CHOOSE i \in there : \A j \in there : i <= j]]}

\* readHTTProxyListeningAddress and readShadowsocksAddress: an old port is an
\* address on every interface.
ReadAddress(env, ports, address) ==
    IF First(env, ports) # {} THEN {<<Unset, The(First(env, ports))>>} ELSE First(env, <<address>>)

\* readHTTProxyLog: the old keys take other words.
ReadHTTPProxyLog(env) ==
    LET old == First(env, <<"PROXY_LOG", "TINYPROXY_LOG">>) IN
    IF old = {} THEN First(env, <<"HTTPPROXY_LOG">>)
    ELSE {The(old) \in {"on", "info", "connect", "notice"}}

ReadHTTPProxy(env) ==
    Read(env, HTTPProxyKeys)
    @@ [ListeningAddress |-> ReadAddress(env, <<"HTTPPROXY_PORT", "TINYPROXY_PORT", "PROXY_PORT">>,
                                         "HTTPPROXY_LISTENING_ADDRESS"),
        Log |-> ReadHTTPProxyLog(env)]

HTTPProxyValid(s, malformed) == The(s.ListeningAddress) \notin malformed

ShadowsocksFields == {"Enabled", "Address", "LogAddresses", "CipherName", "Password"}
ShadowsocksRequired == {"Enabled"}
ShadowsocksKept == ShadowsocksFields
ShadowsocksDefaults == [Enabled |-> FALSE]
ShadowsocksKeys == [Enabled |-> <<"SHADOWSOCKS">>, LogAddresses |-> <<"SHADOWSOCKS_LOG">>,
    CipherName |-> <<"SHADOWSOCKS_CIPHER", "SHADOWSOCKS_METHOD">>, Password |-> <<"SHADOWSOCKS_PASSWORD">>]
ReadShadowsocks(env) ==
    Read(env, ShadowsocksKeys)
    @@ [Address |-> ReadAddress(env, <<"SHADOWSOCKS_PORT">>, "SHADOWSOCKS_LISTENING_ADDRESS")]

ControlServerFields == {"Address", "Log", "AuthFilePath", "AuthDefaultRole"}
ControlServerRequired == {"Address", "Log", "AuthFilePath"}
ControlServerKept == ControlServerFields
ControlServerDefaults == [Address |-> ":8000", Log |-> TRUE, AuthFilePath |-> "/gluetun/auth/config.toml",
                          AuthDefaultRole |-> "{}"]
ControlServerKeys == [Log |-> <<"HTTP_CONTROL_SERVER_LOG">>, Address |-> <<"HTTP_CONTROL_SERVER_ADDRESS">>,
    AuthFilePath |-> <<"HTTP_CONTROL_SERVER_AUTH_CONFIG_FILEPATH">>,
    AuthDefaultRole |-> <<"HTTP_CONTROL_SERVER_AUTH_DEFAULT_ROLE">>]

PprofFields == {"Enabled", "BlockProfileRate", "MutexProfileRate", "Address", "ReadTimeout",
                "ReadHeaderTimeout", "ShutdownTimeout"}
PprofKept == PprofFields
PprofDefaults == [Enabled |-> FALSE, Address |-> "localhost:6060", ReadTimeout |-> 300,
                  ReadHeaderTimeout |-> 3, ShutdownTimeout |-> 3]
PprofKeys == [Enabled |-> <<"PPROF_ENABLED">>, BlockProfileRate |-> <<"PPROF_BLOCK_PROFILE_RATE">>,
    MutexProfileRate |-> <<"PPROF_MUTEX_PROFILE_RATE">>, Address |-> <<"PPROF_HTTP_SERVER_ADDRESS">>,
    ReadTimeout |-> <<>>, ReadHeaderTimeout |-> <<>>, ShutdownTimeout |-> <<>>]
HTTPServerDefaults == [Address |-> ":8000", ReadHeaderTimeout |-> 3, ReadTimeout |-> 3, ShutdownTimeout |-> 3]
HTTPServerKept == {"Address", "Handler", "Logger", "ReadHeaderTimeout", "ReadTimeout", "ShutdownTimeout"}

--------------------------- (* Firewall and the rest *) -------------------------

IptablesKept == {"LogLevel"}
FirewallFields == {"VPNInputPorts", "InputPorts", "OutboundSubnets", "Enabled"} \cup IptablesKept
FirewallRequired == {"Enabled", "LogLevel"}
FirewallKept == FirewallFields

\* A global level of debug is not that of iptables.
IptablesDefaults(level) == [LogLevel |-> IF level = "debug" THEN "info" ELSE level]
FirewallDefaults(level) == [Enabled |-> TRUE] @@ IptablesDefaults(level)
FirewallKeys == [VPNInputPorts |-> <<"FIREWALL_VPN_INPUT_PORTS">>, InputPorts |-> <<"FIREWALL_INPUT_PORTS">>,
    OutboundSubnets |-> <<"FIREWALL_OUTBOUND_SUBNETS", "EXTRA_SUBNETS">>,
    Enabled |-> <<"FIREWALL_ENABLED_DISABLING_IT_SHOOTS_YOU_IN_YOUR_FOOT">>]

\* The level set for FIREWALL_DEBUG is overwritten at once.
ReadFirewall(env) ==
    Read(env, FirewallKeys) @@ [LogLevel |-> First(env, <<"FIREWALL_IPTABLES_LOG_LEVEL">>)]
FirewallValid(s) ==
    /\ \A f \in {"VPNInputPorts", "InputPorts"} : \A ports \in s[f] : 0 \notin Values(ports)
    /\ \A subnets \in s.OutboundSubnets : "0.0.0.0" \notin Values(subnets)

UpdaterFields == {"Period", "MinRatio", "Providers", "ProtonEmail", "ProtonPassword"}
UpdaterRequired == {"Period", "ProtonEmail", "ProtonPassword"}
UpdaterKept == UpdaterFields
\* A bug: the ratio has no default.
UpdaterDefaults_NoRatio(provider) ==
    [Period |-> 0, MinRatio |-> 0, ProtonEmail |-> Unset, ProtonPassword |-> Unset]
UpdaterDefaults(provider) ==
    [Period |-> 0, MinRatio |-> 80, ProtonEmail |-> Unset, ProtonPassword |-> Unset]
    @@ (IF provider = "custom" THEN <<>> ELSE [Providers |-> <<provider>>])

\* An old name is the beginning of an address, the second half of a pair here.
ReadUpdater(env) ==
    LET s == Read(env, [Period |-> <<"UPDATER_PERIOD">>, MinRatio |-> <<"UPDATER_MIN_RATIO">>,
                        Providers |-> <<"UPDATER_VPN_SERVICE_PROVIDERS">>,
                        ProtonEmail |-> <<"UPDATER_PROTONVPN_EMAIL">>,
                        ProtonPassword |-> <<"UPDATER_PROTONVPN_PASSWORD">>])
    IN IF s.ProtonEmail = {} /\ "UPDATER_PROTONVPN_USERNAME" \in DOMAIN env
       THEN [s EXCEPT !.ProtonEmail = {<<env["UPDATER_PROTONVPN_USERNAME"], "@protonmail.com">>}] ELSE s

MinPeriod == 60
UpdaterValid(s, all) ==
    /\ ~(0 < The(s.Period) /\ The(s.Period) < MinPeriod)
    /\ The(s.MinRatio) \in 1..100
    /\ \A names \in s.Providers :
          /\ Values(names) \subseteq all
          /\ "protonvpn" \in Values(names) => (The(s.ProtonEmail) = Unset <=> The(s.ProtonPassword) = Unset)

SystemFields == {"PUID", "PGID", "Timezone"}
SystemKept == SystemFields
SystemDefaults == [PUID |-> 1000, PGID |-> 1000]
SystemKeys == [PUID |-> <<"PUID", "UID">>, PGID |-> <<"PGID", "GID">>, Timezone |-> <<"TZ">>]

LogKept == {"Level"}
LogDefaults == [Level |-> "info"]
LogKeys == [Level |-> <<"LOG_LEVEL">>]

StorageKept == {"Filepath"}
StorageDefaults == [Filepath |-> "/gluetun/servers.json"]
StorageKeys == [Filepath |-> <<"STORAGE_FILEPATH">>]

VersionKept == {"Enabled"}
VersionDefaults == [Enabled |-> TRUE]
VersionKeys == [Enabled |-> <<"VERSION_INFORMATION">>]

IPv6Kept == {"CheckAddresses"}
IPv6Defaults == [CheckAddresses |-> <<"[2001:4860:4860::8888]:53", "[2606:4700:4700::1111]:53">>]
IPv6Keys == [CheckAddresses |-> <<"IPV6_CHECK_ADDRESSES">>]

BoringPollKept == {"GluetunCom"}
BoringPollDefaults == [GluetunCom |-> FALSE]
BoringPollKeys == [GluetunCom |-> <<"BORINGPOLL_GLUETUNCOM">>]
=============================================================================
