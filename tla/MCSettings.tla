------------------------------ MODULE MCSettings ------------------------------
(* Small environments, files and sources of servers, for TLC. *)
EXTENDS SettingsChecks

CONSTANTS h1, h2, MaxRoles

VARIABLE c

C == INSTANCE ControlServer WITH
        RoleRoutes <- {<<"PUT", "/v1/openvpn/status">>, <<"GET", "/openvpn/actions/restart">>},
        RequestRoutes <- {<<"PUT", "/v1/openvpn/status">>, <<"GET", "/openvpn/actions/restart">>,
            <<"GET", "/v1/dns/status">>, <<"PUT", "/v1/dns/status">>, <<"PUT", "/v1/portforward">>,
            <<"GET", "/openvpn/settings">>, <<"GET", "/v1/openvpn/portforwarded">>,
            <<"POST", "/v1/vpn/status">>, <<"GET", "/v1">>}

Place == <<h1, "lower">>

SmallKeys ==
    {<<"OPENVPN_PROTOCOL", "tcp">>, <<"OPENVPN_ENDPOINT_PORT", 443>>, <<"OPENVPN_ENDPOINT_IP", "1.1.1.1">>,
     <<"WIREGUARD_ENDPOINT_PORT", 1637>>, <<"PIA_ENCRYPTION", "normal">>, <<"PIA_ENCRYPTION", "none">>,
     <<"FREE_ONLY", TRUE>>, <<"SERVER_COUNTRIES", <<Place>>>>, <<"VPN_PORT_FORWARDING", TRUE>>, <<"OPENVPN_AUTH", "sha1">>,
     <<"OPENVPN_MSSFIX", 1000>>, <<"OPENVPN_CIPHERS", <<"256gcm">>>>, <<"OPENVPN_PROCESS_USER", "nobody">>}

SmallDNSKeys ==
    {<<"DNS_ADDRESS", "127.0.0.1">>, <<"DNS_ADDRESS", "1.1.1.1">>, <<"DNS_UPSTREAM_RESOLVER_TYPE", "dot">>,
     <<"DNS_UPSTREAM_RESOLVER_TYPE", "plain">>, <<"DNS_UPSTREAM_PLAIN_ADDRESSES", <<"8.8.8.8">>>>,
     <<"DNS_UPSTREAM_PLAIN_ADDRESSES", <<"6::">>>>, <<"DNS_UPSTREAM_IPV6", TRUE>>,
     <<"DNS_UPSTREAM_RESOLVERS", <<"google">>>>}

SmallLines ==
    {<<"remote", "9.9.9.9", 443, "tcp">>, <<"remote", "8.8.8.8", 1195>>, <<"remote", "7.7.7.7">>, <<"proto", "tcp">>,
     <<"proto", "other">>, <<"port", 1300>>, <<"auth", "sha1">>, <<"cipher", "128cbc">>, <<"dev", "tun">>,
     <<"mssfix", 1500>>, <<"persist-tun">>, <<"tun-ipv6">>, <<"client">>}

\* An input of the settings, or a behaviour of the control server.
Server == [kind |-> "server"]

ASSUME C!ControlConstants

MCInit ==
    \/ Init /\ c = [at |-> "none"]
    \/ input = Server /\ C!ControlInit

MCNext ==
    \/ Next /\ UNCHANGED c
    \/ input = Server /\ C!ControlNext /\ UNCHANGED input

MCSpec == MCInit /\ [][MCNext]_<<input, c>>

(* An update of the servers loses none that the source has: counts that are too small    *)
(* are refused, the same servers are found equal, protocols of a host are merged, and each   *)
(* provider is tried (internal/updater, provider/*/updater).                             *)
ServersKept == NotFewer /\ SameServersAccepted /\ ProtocolsKept /\ EachTried

(* Settings that were validated connect or err, and the configuration that is written       *)
(* names one server: the first of a custom file, with the settings winning over its lines    *)
(* (internal/provider, openvpn/extract).                                                *)
ConnectsAsSet == ConnectsOrErrs /\ WellFormedConfig /\ CustomOneServer /\ FirstServer /\ SettingsWin

(* An environment is taken as it is meant, old keys included: what is required is set, what  *)
(* is sensible is accepted, also when it is validated again, a resolver of the user's own is  *)
(* the one asked, and a partial update neither loses nor ignores a field                     *)
(* (internal/configuration/settings).                                                    *)
SettingsAsMeant ==
    /\ CompleteAfterDefaults /\ RevalidatedSame /\ SensibleAccepted /\ OldKeysStillWork
    /\ OwnResolverAsked /\ UpdateTakesAndKeeps

(* A request is handled if and only if a role admits it, and what is asked of the loops is   *)
(* what it says (internal/server).                                                       *)
HandledIfAdmitted ==
    input = Server =>
        C!ControlTypeOK /\ C!OnlyAdmitted /\ C!AdmittedIsHandled /\ C!StartsWhatIsAsked
=============================================================================
