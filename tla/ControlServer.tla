---------------------------- MODULE ControlServer ----------------------------
(***************************************************************************)
(* The HTTP control server (internal/server): the roles of its settings, the    *)
(* lookup of the roles of a route, the authorization of a request, and what the  *)
(* handler of the route asks of the loops.                                   *)
(***************************************************************************)
EXTENDS Naturals, Sequences, SequencesExt

CONSTANTS
    RoleRoutes,     \* the routes that a role of the file may name
    RequestRoutes,  \* the routes that are requested
    MaxRoles        \* bound on the roles of the file

\* What the constants are assumed to be.
ControlConstants == MaxRoles \in Nat

VARIABLE c
(* at: "settings", "failed" when the server is not made, "serving", "handling" when    *)
(* a request was authorized, "answered"; roles, default: those of the file and of       *)
(* the environment; lookup: the checkers of each route; request; code: that of the answer;  *)
(* calls: what was asked of the loops; type: the VPN that the settings name after it.  *)

Get(path) == <<"GET", path>>
Put(path) == <<"PUT", path>>

ValidRoutes ==
    {Get(p) : p \in {"/openvpn/actions/restart", "/openvpn/portforwarded", "/openvpn/settings",
                     "/unbound/actions/restart", "/updater/restart", "/v1/version", "/v1/openvpn/portforwarded",
                     "/v1/openvpn/settings", "/v1/publicip/ip"}}
    \cup UNION {{Get(p), Put(p)} : p \in {"/v1/vpn/status", "/v1/vpn/settings", "/v1/openvpn/status", "/v1/dns/status",
                                          "/v1/updater/status", "/v1/portforward"}}
ValidPaths == {r[2] : r \in ValidRoutes}

\* The ways to authenticate, each with its secret, and what a request may carry.
Checkers == {<<"none", "">>, <<"apikey", "k1">>, <<"apikey", "k2">>, <<"basic", "b1">>}
Carried == Checkers
Incomplete == {<<"apikey", "">>, <<"unknown", "">>}
Unset == <<"", "">>
Defaults == {Unset, <<"none", "">>, <<"apikey", "k1">>} \cup Incomplete

Role(auth, routes) == [auth |-> auth, routes |-> routes]
Roles == {Role(a, rs) : a \in Checkers, rs \in (SUBSET RoleRoutes) \ {{}}} \cup
         {Role(a, RoleRoutes) : a \in Incomplete} \cup {Role(<<"none", "">>, {Get("/v1/nowhere")})}

\* A request: how it carries what it carries, and whether a slash ends its path.
Requests ==
    {[route |-> r, with |-> w, form |-> form, body |-> body] :
        r \in RequestRoutes, w \in Carried, form \in {"plain", "slash", "query"},
        body \in {"running", "stopped", "invalid"}}
NoRequest == [route |-> <<"", "">>, with |-> <<"", "">>, form |-> "plain", body |-> ""]
Meaningful(r) ==
    /\ r.form = "query" => r.with = <<"apikey", "k1">>
    /\ r.form = "slash" \/ (r.route[1] = "PUT" /\ r.body # "running") => r.with = <<"none", "">>
    /\ r.route[1] # "PUT" => r.body = "invalid"

ControlTypeOK ==
    /\ c.at \in {"settings", "failed", "serving", "handling", "answered"}
    /\ c.lookup \in [ValidRoutes -> Seq(Checkers)]
    /\ \A r \in ValidRoutes : \A i, j \in 1..Len(c.lookup[r]) : c.lookup[r][i] = c.lookup[r][j] => i = j
    /\ c.code \in {0, 200, 301, 308, 400, 401, 404, 405}
    /\ c.code # 0 <=> c.at = "answered"

ControlInit ==
    \E roles \in SeqOf(Roles, MaxRoles), default \in Defaults :
        c = [at |-> "settings", roles |-> roles, default |-> default, type |-> "", request |-> NoRequest,
             lookup |-> [r \in ValidRoutes |-> <<>>], code |-> 0, calls |-> <<>>]

--------------------------- (* setupAuthMiddleware *) ------------------------

Valid(role) == role.auth \in Checkers /\ role.routes \subseteq ValidRoutes

Named == UNION {role.routes : role \in Range(c.roles)}

\* A bug: the default role is added to every route.
DefaultRoutes_All == ValidRoutes

\* The routes that no role of the file names.
DefaultRoutes == ValidRoutes \ Named

\* SetDefaultRole
WithDefault ==
    IF c.default = Unset \/ DefaultRoutes = {} THEN c.roles
    ELSE Append(c.roles, Role(c.default, DefaultRoutes))

\* A bug: of the checkers of one kind only the first is kept.
SameChecker_Kind(a, b) == a[1] = b[1]

\* A bug: no checker equals another.
SameChecker_Never(a, b) == FALSE

SameChecker(a, b) == a = b

(* settingsToLookupMap: the roles in order, each adding its checker to the route, unless  *)
(* one that equals it is there already.                                          *)
Adds(seq, role, route) ==
    IF route \in role.routes /\ ~\E i \in 1..Len(seq) : SameChecker(seq[i], role.auth)
    THEN Append(seq, role.auth) ELSE seq
Checking(roles, route) ==
    LET After[n \in 0..Len(roles)] == IF n = 0 THEN <<>> ELSE Adds(After[n - 1], roles[n], route) IN After
LookupOf(roles, route) == Checking(roles, route)[Len(roles)]

SetUp ==
    /\ c.at = "settings"
    /\ IF c.default \notin Incomplete /\ \A role \in Range(c.roles) : Valid(role)
       THEN c' = [c EXCEPT !.at = "serving", !.lookup = [r \in ValidRoutes |-> LookupOf(WithDefault, r)]]
       ELSE c' = [c EXCEPT !.at = "failed"]

------------------------------- (* authHandler *) ----------------------------

Answers(code) == c' = [c EXCEPT !.at = "answered", !.code = code]

Admits(checker, request) == checker = <<"none", "">> \/ checker = request.with

\* The path of a request that ends with a slash is no route.
Authorize ==
    /\ c.at = "serving"
    /\ \E request \in Requests :
          /\ Meaningful(request)
          /\ LET to == request.route
                 code == IF to[2] \notin ValidPaths \/ request.form = "slash" THEN 404
                         ELSE IF to \notin ValidRoutes THEN 405
                         ELSE IF \E i \in 1..Len(c.lookup[to]) : Admits(c.lookup[to][i], request) THEN 0
                         ELSE 401
             IN c' = [c EXCEPT !.request = request, !.code = code, !.at = IF code = 0 THEN "handling" ELSE "answered"]

------------------------------- (* The handlers *) ---------------------------

\* What is asked of the loops: the operation, and the status of an ApplyStatus.
Asks(op, what) == <<op, what>>
Does(code, calls) == c' = [c EXCEPT !.at = "answered", !.code = code, !.calls = calls]
Handling(route) == c.at = "handling" /\ c.request.route = route

(* The request URI is looked at with its query: only the handler of /v1/portforward,    *)
(* which does not look further, knows it.                                          *)
Unknown == c.request.form = "query" /\ c.request.route[2] # "/v1/portforward"

NotFound == c.at = "handling" /\ Unknown /\ Answers(400)

\* The unversioned API stops a loop and starts it again.
RestartedBy ==
    [p \in {"/openvpn/actions/restart", "/unbound/actions/restart", "/updater/restart"} |->
        CASE p = "/openvpn/actions/restart" -> "vpn" [] p = "/unbound/actions/restart" -> "dns" [] OTHER -> "updater"]

Restart ==
    \E path \in DOMAIN RestartedBy :
        /\ Handling(Get(path)) /\ ~Unknown
        /\ Does(200, <<Asks(RestartedBy[path], "stopped"), Asks(RestartedBy[path], "running")>>)

Redirect ==
    /\ c.at = "handling" /\ ~Unknown
    /\ \/ \E path \in {"/openvpn/portforwarded", "/openvpn/settings"} : Handling(Get(path)) /\ Answers(308)
       \/ Handling(Get("/v1/openvpn/portforwarded")) /\ Answers(301)

Shows ==
    \E path \in {"/v1/version", "/v1/vpn/status", "/v1/vpn/settings", "/v1/openvpn/status", "/v1/openvpn/settings",
                 "/v1/dns/status", "/v1/updater/status", "/v1/publicip/ip", "/v1/portforward"} :
        Handling(Get(path)) /\ ~Unknown /\ Answers(200)

StatusOf == [p \in {"/v1/vpn/status", "/v1/dns/status", "/v1/updater/status"} |->
                CASE p = "/v1/vpn/status" -> "vpn" [] p = "/v1/dns/status" -> "dns" [] OTHER -> "updater"]

\* setStatus: a body that is no status of the two is refused.
SetStatus ==
    \E path \in DOMAIN StatusOf :
        /\ Handling(Put(path)) /\ ~Unknown
        /\ IF c.request.body = "invalid" THEN Answers(400) ELSE Does(200, <<Asks(StatusOf[path], c.request.body)>>)

\* A bug: WireGuard is started in the place of OpenVPN.
SetOpenVPNStatus_AnyType ==
    /\ Handling(Put("/v1/openvpn/status")) /\ ~Unknown
    /\ IF c.request.body = "invalid" THEN Answers(400)
       ELSE \E type \in {"openvpn", "wireguard"} :
                c' = [c EXCEPT !.at = "answered", !.code = 200, !.type = type, !.calls = <<Asks("vpn", c.request.body)>>]

(* OpenVPN is started in the place of WireGuard by new settings; a stop stops the VPN,    *)
(* whatever its type.                                                              *)
SetOpenVPNStatus ==
    /\ Handling(Put("/v1/openvpn/status")) /\ ~Unknown
    /\ IF c.request.body = "invalid" THEN Answers(400)
       ELSE \E type \in {"openvpn", "wireguard"} :
                c' = [c EXCEPT !.at = "answered", !.code = 200,
                               !.type = IF c.request.body = "running" THEN "openvpn" ELSE type,
                               !.calls = IF c.request.body = "running" /\ type # "openvpn"
                                         THEN <<Asks("vpn settings", "")>> ELSE <<Asks("vpn", c.request.body)>>]

\* patchSettings and setPortForwarded.
Change ==
    \E path \in {"/v1/vpn/settings", "/v1/portforward"} :
        /\ Handling(Put(path)) /\ ~Unknown
        /\ IF c.request.body = "invalid" THEN Answers(400)
           ELSE Does(200, <<Asks(IF path = "/v1/portforward" THEN "ports" ELSE "vpn settings", "")>>)

ControlNext ==
    SetUp \/ Authorize \/ NotFound \/ Restart \/ Redirect \/ Shows \/ SetStatus \/ SetOpenVPNStatus \/ Change

ControlSpec == ControlInit /\ [][ControlNext]_c

------------------------------- (* Properties *) -----------------------------

\* The roles that hold for a route: those of the file that name it, or else the default one.
RolesFor(route) ==
    {role.auth : role \in {r \in Range(c.roles) : route \in r.routes}} \cup
    (IF route \notin Named /\ c.default # Unset THEN {c.default} ELSE {})

(* Something is asked of a loop only by a request that a role for its route admits; the     *)
(* default role counts only for a route that no role of the file names                   *)
(* (auth/settings.go SetDefaultRole, lookup.go, middleware.go).                          *)
OnlyAdmitted ==
    c.calls # <<>> => \E checker \in RolesFor(c.request.route) : checker \in {<<"none", "">>, c.request.with}

(* A request for a route, in its plain form and with what one of its roles asks for, is      *)
(* handled, whatever other roles the route has (auth/lookup.go, middleware.go).          *)
AdmittedIsHandled ==
    c.at = "answered" /\ c.request.form = "plain" /\ c.code = 401 =>
        RolesFor(c.request.route) \cap {<<"none", "">>, c.request.with} = {}

(* A request that starts OpenVPN makes it the VPN of the settings, and one that asks for     *)
(* a restart never leaves a loop stopped or untouched: it asks for a stop and then a start    *)
(* (server/openvpn.go setStatus, handlerv0.go).                                         *)
StartsWhatIsAsked ==
    c.at = "answered" /\ c.code = 200 =>
        /\ c.request.route = Put("/v1/openvpn/status") /\ c.request.body = "running" => c.type = "openvpn"
        /\ c.request.route[2] \in DOMAIN RestartedBy => Len(c.calls) = 2 /\ c.calls[2][2] = "running"
=============================================================================
