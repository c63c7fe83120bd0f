--------------------------- MODULE Settings_proofs ---------------------------
(***************************************************************************)
(* What the settings runs check, for every value of the constants.           *)
(*                                                                         *)
(* The control server first: for any number of roles in the file and any     *)
(* keys, a request is handled exactly if a role of its route admits it.       *)
(* settingsToLookupMap is a loop over the roles, so that what it collects is   *)
(* shown by counting up to the number of the roles.                         *)
(***************************************************************************)
EXTENDS MCSettings, FiniteSetTheorems, WellFoundedInduction, NaturalsInduction, TLAPS

\* A set of numbers that is not empty has a least one.
LEMMA LeastOfSome ==
    ASSUME NEW T, T \subseteq Nat, T # {}
    PROVE  \E n \in T : \A m \in T : n <= m
<1>1. IsWellFoundedOn(OpToRel(<, Nat), Nat)
    BY NatLessThanWellFounded
<1>2. \E n \in T : \A m \in T : ~ (<<m, n>> \in OpToRel(<, Nat))
    BY <1>1, WFMin, Zenon
<1>3. PICK n \in T : \A m \in T : ~ (<<m, n>> \in OpToRel(<, Nat))
    BY <1>2
<1>4. \A m \in T : ~(m < n)
    BY <1>3 DEF OpToRel
<1>. QED BY <1>4

\* A set of numbers that has zero and the next of each has them all.
LEMMA CountingUp ==
    ASSUME NEW S, 0 \in S, \A n \in Nat : n \in S => n + 1 \in S
    PROVE  \A n \in Nat : n \in S
<1>. SUFFICES ASSUME Nat \ S # {} PROVE FALSE
    OBVIOUS
<1>1. PICK n \in Nat \ S : \A m \in Nat \ S : n <= m
    <2>. DEFINE T == Nat \ S
    <2>1. T \subseteq Nat /\ T # {}
        OBVIOUS
    <2>. HIDE DEF T
    <2>2. \E n \in T : \A m \in T : n <= m
        BY <2>1, LeastOfSome
    <2>. QED BY <2>2 DEF T
<1>2. n # 0 /\ n - 1 \in Nat /\ n - 1 \notin Nat \ S
    BY <1>1
<1>. QED BY <1>1, <1>2

\* The function adds the roles to the checkers of a route, one by one, up to the nth role.
ChecksTo(f, roles, n, route) ==
    f = [k \in 0..n |-> IF k = 0 THEN <<>> ELSE C!Adds(f[k - 1], roles[k], route)]

\* There is a function that adds the roles to the checkers of a route, one by one.
LEMMA CheckingExists ==
    ASSUME NEW roles, Len(roles) \in Nat, NEW route
    PROVE  \A n \in Nat : \E f : ChecksTo(f, roles, n, route)
<1>. DEFINE S == {n \in Nat : \E f : ChecksTo(f, roles, n, route)}
<1>1. 0 \in S
    <2>. DEFINE f == [k \in 0..0 |-> <<>>]
    <2>1. f = [k \in 0..0 |-> IF k = 0 THEN <<>> ELSE C!Adds(f[k - 1], roles[k], route)]
        OBVIOUS
    <2>. QED BY <2>1 DEF ChecksTo
<1>2. ASSUME NEW n \in Nat, n \in S PROVE n + 1 \in S
    <2>1. PICK f : f = [k \in 0..n |-> IF k = 0 THEN <<>> ELSE C!Adds(f[k - 1], roles[k], route)]
        BY <1>2 DEF ChecksTo
    <2>. DEFINE g == [k \in 0..(n + 1) |-> IF k <= n THEN f[k] ELSE C!Adds(f[n], roles[n + 1], route)]
    <2>2. ASSUME NEW k \in 0..(n + 1)
          PROVE  g[k] = IF k = 0 THEN <<>> ELSE C!Adds(g[k - 1], roles[k], route)
        <3>1. CASE k = 0
            BY <3>1, <2>1
        <3>2. CASE k \in 1..n
            <4>1. k \in 0..n /\ k - 1 \in 0..n /\ k - 1 \in 0..(n + 1) /\ k # 0
                BY <3>2
            <4>2. f[k] = C!Adds(f[k - 1], roles[k], route)
                BY <4>1, <2>1
            <4>3. g[k] = f[k] /\ g[k - 1] = f[k - 1]
                BY <4>1
            <4>. QED BY <4>1, <4>2, <4>3
        <3>3. CASE k = n + 1
            BY <3>3
        <3>. QED BY <3>1, <3>2, <3>3
    <2>3. g = [k \in 0..(n + 1) |-> IF k = 0 THEN <<>> ELSE C!Adds(g[k - 1], roles[k], route)]
        BY <2>2
    <2>. HIDE DEF g
    <2>4. \E h : ChecksTo(h, roles, n + 1, route)
        BY <2>3 DEF ChecksTo
    <2>5. n + 1 \in Nat
        OBVIOUS
    <2>. QED BY <2>4, <2>5
<1>3. \A n \in Nat : n \in S
    <2>. HIDE DEF S
    <2>. QED BY <1>1, <1>2, CountingUp
<1>. QED BY <1>3

\* Checking is that function.
LEMMA CheckingStep ==
    ASSUME NEW roles, Len(roles) \in Nat, NEW route
    PROVE  LET f == C!Checking(roles, route) IN
           f = [k \in 0..Len(roles) |-> IF k = 0 THEN <<>> ELSE C!Adds(f[k - 1], roles[k], route)]
<1>. DEFINE Is(f) == ChecksTo(f, roles, Len(roles), route)
<1>1. \E f : Is(f)
    BY CheckingExists
<1>2. C!Checking(roles, route) = CHOOSE f : Is(f)
    BY DEF C!Checking, ChecksTo
<1>. HIDE DEF Is
<1>3. Is(CHOOSE f : Is(f))
    BY <1>1
<1>. QED BY <1>2, <1>3 DEF Is, ChecksTo

\* What a role of the file or the default one is made of.
Auths == C!Checkers \cup C!Incomplete \cup {C!Unset}
AnyRole == [auth : Auths, routes : SUBSET (C!ValidRoutes \cup {C!Get("/v1/nowhere")})]

\* The checkers of a sequence for a route: those of its first roles that name the route, each once.
Collected(seq, roles, n, route) ==
    /\ seq \in Seq(Auths)
    /\ \A i, j \in 1..Len(seq) : seq[i] = seq[j] => i = j
    /\ \A i \in 1..Len(seq) : \E k \in 1..n : route \in roles[k].routes /\ seq[i] = roles[k].auth
    /\ \A k \in 1..n : route \in roles[k].routes => \E i \in 1..Len(seq) : seq[i] = roles[k].auth

\* One more role adds its checker, if it names the route and no role before it has the same.
LEMMA AddsCollects ==
    ASSUME NEW roles \in Seq(AnyRole), NEW route, NEW n \in 1..Len(roles), NEW seq,
           Collected(seq, roles, n - 1, route)
    PROVE  Collected(C!Adds(seq, roles[n], route), roles, n, route)
<1>. DEFINE role == roles[n]
<1>1. role \in AnyRole /\ role.auth \in Auths
    <2>1. role \in AnyRole
        OBVIOUS
    <2>. QED BY <2>1 DEF AnyRole
<1>2. seq \in Seq(Auths) /\ Len(seq) \in Nat
    BY DEF Collected
<1>3. \A k \in 1..n : k = n \/ k \in 1..(n - 1)
    OBVIOUS
<1>4. CASE route \in role.routes /\ ~\E i \in 1..Len(seq) : seq[i] = role.auth
    <2>. DEFINE more == Append(seq, role.auth)
    <2>1. C!Adds(seq, roles[n], route) = more
        BY <1>4 DEF C!Adds, C!SameChecker
    <2>2. more \in Seq(Auths) /\ Len(more) = Len(seq) + 1
          /\ (\A i \in 1..Len(seq) : more[i] = seq[i]) /\ more[Len(seq) + 1] = role.auth
        BY <1>1, <1>2
    <2>. HIDE DEF more
    <2>3. \A i \in 1..Len(more) : i \in 1..Len(seq) \/ i = Len(seq) + 1
        BY <2>2, <1>2
    <2>4. \A i, j \in 1..Len(more) : more[i] = more[j] => i = j
        BY <2>2, <2>3, <1>4 DEF Collected
    <2>5. \A i \in 1..Len(more) : \E k \in 1..n : route \in roles[k].routes /\ more[i] = roles[k].auth
        BY <2>2, <2>3, <1>4 DEF Collected
    <2>6. ASSUME NEW k \in 1..n, route \in roles[k].routes
          PROVE  \E i \in 1..Len(more) : more[i] = roles[k].auth
        <3>1. CASE k = n
            BY <3>1, <2>2, <1>2
        <3>2. CASE k \in 1..(n - 1)
            <4>1. PICK i \in 1..Len(seq) : seq[i] = roles[k].auth
                BY <3>2, <2>6 DEF Collected
            <4>2. i \in 1..Len(more) /\ more[i] = roles[k].auth
                BY <4>1, <2>2, <1>2
            <4>. QED BY <4>2
        <3>. QED BY <3>1, <3>2, <1>3
    <2>. QED BY <2>1, <2>2, <2>4, <2>5, <2>6 DEF Collected
<1>5. CASE ~(route \in role.routes /\ ~\E i \in 1..Len(seq) : seq[i] = role.auth)
    <2>1. C!Adds(seq, roles[n], route) = seq
        BY <1>5 DEF C!Adds, C!SameChecker
    <2>2. \A i \in 1..Len(seq) : \E k \in 1..n : route \in roles[k].routes /\ seq[i] = roles[k].auth
        BY <1>2 DEF Collected
    <2>3. \A k \in 1..n : route \in roles[k].routes => \E i \in 1..Len(seq) : seq[i] = roles[k].auth
        BY <1>5, <1>3 DEF Collected
    <2>4. seq \in Seq(Auths) /\ \A i, j \in 1..Len(seq) : seq[i] = seq[j] => i = j
        BY DEF Collected
    <2>. QED BY <2>1, <2>2, <2>3, <2>4 DEF Collected
<1>. QED BY <1>4, <1>5

\* settingsToLookupMap collects the checkers of the roles that name the route.
LEMMA LookupCollects ==
    ASSUME NEW roles \in Seq(AnyRole), NEW route
    PROVE  Collected(C!LookupOf(roles, route), roles, Len(roles), route)
<1>. DEFINE f == C!Checking(roles, route)
            S == {n \in Nat : n <= Len(roles) => Collected(f[n], roles, n, route)}
<1>1. Len(roles) \in Nat
    OBVIOUS
<1>2. \A k \in 0..Len(roles) : f[k] = IF k = 0 THEN <<>> ELSE C!Adds(f[k - 1], roles[k], route)
    <2>1. f = [k \in 0..Len(roles) |-> IF k = 0 THEN <<>> ELSE C!Adds(f[k - 1], roles[k], route)]
        BY <1>1, CheckingStep
    <2>. HIDE DEF f
    <2>. QED BY <2>1
<1>. HIDE DEF f
<1>3. 0 \in S
    <2>1. f[0] = <<>>
        BY <1>1, <1>2
    <2>2. <<>> \in Seq(Auths) /\ 1..Len(<<>>) = {} /\ 1..0 = {}
        OBVIOUS
    <2>3. Collected(<<>>, roles, 0, route)
        BY <2>2 DEF Collected
    <2>. QED BY <2>1, <2>3
<1>4. ASSUME NEW n \in Nat, n \in S PROVE n + 1 \in S
    <2>1. ASSUME n + 1 <= Len(roles)
          PROVE  Collected(f[n + 1], roles, n + 1, route)
        <3>1. n + 1 \in 1..Len(roles) /\ n + 1 \in 0..Len(roles) /\ (n + 1) - 1 = n /\ n <= Len(roles)
            BY <1>1, <2>1
        <3>2. Collected(f[n], roles, (n + 1) - 1, route)
            BY <1>4, <3>1
        <3>3. Collected(C!Adds(f[n], roles[n + 1], route), roles, n + 1, route)
            BY <3>1, <3>2, AddsCollects
        <3>4. f[n + 1] = C!Adds(f[n], roles[n + 1], route)
            BY <1>2, <3>1
        <3>. QED BY <3>3, <3>4
    <2>. QED BY <2>1
<1>5. Len(roles) \in S
    <2>. HIDE DEF S
    <2>. QED BY <1>1, <1>3, <1>4, CountingUp
<1>. QED BY <1>1, <1>5 DEF C!LookupOf, f

\* Where the server is, the codes it answers with, what it calls, and its state.
Kinds == {"settings", "failed", "serving", "handling", "answered"}
Codes == {0, 200, 301, 308, 400, 401, 404, 405}
Call == {"vpn", "dns", "updater", "vpn settings", "ports"} \X {"", "running", "stopped"}

ServerType ==
    c \in [at : Kinds, roles : Seq(AnyRole), default : C!Defaults, type : {"", "openvpn", "wireguard"},
           request : C!Requests \cup {C!NoRequest}, lookup : [C!ValidRoutes -> Seq(C!Checkers)], code : Codes,
           calls : Seq(Call)]

\* A sequence holds each of a set, once.
Holds(seq, set) ==
    /\ \A i, j \in 1..Len(seq) : seq[i] = seq[j] => i = j
    /\ \A i \in 1..Len(seq) : seq[i] \in set
    /\ \A x \in set : \E i \in 1..Len(seq) : seq[i] = x

\* The roles that hold for a route, of a file and with a default.
RolesOf(roles, default, route) ==
    {role.auth : role \in {r \in C!Range(roles) : route \in r.routes}} \cup
    (IF route \notin UNION {role.routes : role \in C!Range(roles)} /\ default # C!Unset THEN {default} ELSE {})

\* A role that holds for the route of the request admits it.
Admitted ==
    \E checker \in RolesOf(c.roles, c.default, c.request.route) : checker \in {<<"none", "">>, c.request.with}

\* The inductive invariant of the server.
ServerInv ==
    /\ ServerType
    /\ c.code # 0 <=> c.at = "answered"
    /\ \A r \in C!ValidRoutes : \A i, j \in 1..Len(c.lookup[r]) : c.lookup[r][i] = c.lookup[r][j] => i = j
    /\ c.at \in {"serving", "handling", "answered"} => \A r \in C!ValidRoutes : Holds(c.lookup[r], RolesOf(c.roles, c.default, r))
    /\ c.at # "answered" => c.calls = <<>>
    /\ c.at = "handling" => Admitted
    /\ C!OnlyAdmitted
    /\ C!AdmittedIsHandled
    /\ C!StartsWhatIsAsked

\* The roles of the file and the default one are roles.
LEMMA DefaultIsRole ==
    ASSUME ServerType
    PROVE  C!WithDefault \in Seq(AnyRole)
<1>1. c.roles \in Seq(AnyRole) /\ c.default \in Auths
    BY DEF ServerType, C!Defaults, Auths, C!Checkers, C!Incomplete, C!Unset
<1>2. C!DefaultRoutes \subseteq C!ValidRoutes
    BY DEF C!DefaultRoutes
<1>3. C!Role(c.default, C!DefaultRoutes) \in AnyRole
    BY <1>1, <1>2 DEF C!Role, AnyRole
<1>. QED BY <1>1, <1>3 DEF C!WithDefault

\* The lookup of a valid file holds the roles that hold for a route, each once.
LEMMA LookupHolds ==
    ASSUME ServerType, c.default \notin C!Incomplete, \A role \in C!Range(c.roles) : C!Valid(role),
           NEW r \in C!ValidRoutes
    PROVE  /\ C!LookupOf(C!WithDefault, r) \in Seq(C!Checkers)
           /\ Holds(C!LookupOf(C!WithDefault, r), C!RolesFor(r))
<1>. DEFINE roles == C!WithDefault
            seq == C!LookupOf(roles, r)
            extra == ~(c.default = C!Unset \/ C!DefaultRoutes = {})
<1>1. roles \in Seq(AnyRole) /\ c.roles \in Seq(AnyRole) /\ Len(c.roles) \in Nat
    <2>1. c.roles \in Seq(AnyRole)
        BY DEF ServerType
    <2>. QED BY <2>1, DefaultIsRole
<1>. HIDE DEF roles
<1>2. Collected(seq, roles, Len(roles), r)
    BY <1>1, LookupCollects
<1>. HIDE DEF seq
<1>3. \A k \in 1..Len(c.roles) : c.roles[k] \in C!Range(c.roles) /\ C!Valid(c.roles[k]) /\ c.roles[k].auth \in C!Checkers
    BY <1>1 DEF C!Range, C!Valid
<1>4. CASE ~extra
    <2>1. roles = c.roles
        BY <1>4 DEF roles, C!WithDefault
    <2>2. ASSUME NEW x PROVE x \in C!RolesFor(r) <=> \E k \in 1..Len(roles) : r \in roles[k].routes /\ x = roles[k].auth
        <3>1. (r \notin C!Named /\ c.default # C!Unset) => FALSE
            BY <1>4 DEF C!DefaultRoutes
        <3>2. x \in C!RolesFor(r) <=> \E role \in C!Range(c.roles) : r \in role.routes /\ x = role.auth
            BY <3>1 DEF C!RolesFor
        <3>. QED BY <3>2, <2>1, <1>1 DEF C!Range
    <2>3. \A k \in 1..Len(roles) : roles[k].auth \in C!Checkers
        BY <2>1, <1>3
    <2>4. \A i \in 1..Len(seq) : seq[i] \in C!RolesFor(r) /\ seq[i] \in C!Checkers
        BY <2>2, <2>3, <1>2 DEF Collected
    <2>5. \A x \in C!RolesFor(r) : \E i \in 1..Len(seq) : seq[i] = x
        BY <2>2, <1>2 DEF Collected
    <2>6. seq \in Seq(C!Checkers)
        BY <2>4, <1>2 DEF Collected
    <2>. QED BY <2>4, <2>5, <2>6, <1>2 DEF Collected, Holds, seq, roles
<1>5. CASE extra
    <2>. DEFINE last == C!Role(c.default, C!DefaultRoutes)
    <2>0. last.auth = c.default /\ last.routes = C!DefaultRoutes
        BY DEF C!Role
    <2>a. roles = Append(c.roles, last)
        BY <1>5 DEF roles, C!WithDefault
    <2>. HIDE DEF last
    <2>1. /\ Len(roles) = Len(c.roles) + 1 /\ (\A k \in 1..Len(c.roles) : roles[k] = c.roles[k])
          /\ roles[Len(c.roles) + 1] = last
        BY <2>a, <1>1
    <2>2. ASSUME NEW x PROVE x \in C!RolesFor(r) <=> \E k \in 1..Len(roles) : r \in roles[k].routes /\ x = roles[k].auth
        <3>1. r \in last.routes /\ x = last.auth <=> r \notin C!Named /\ c.default # C!Unset /\ x = c.default
            BY <1>5, <2>0 DEF C!DefaultRoutes
        <3>2. (\E role \in C!Range(c.roles) : r \in role.routes /\ x = role.auth)
              <=> \E k \in 1..Len(c.roles) : r \in roles[k].routes /\ x = roles[k].auth
            BY <1>1, <2>1 DEF C!Range
        <3>3. x \in C!RolesFor(r) <=> (\E role \in C!Range(c.roles) : r \in role.routes /\ x = role.auth)
                                      \/ (r \notin C!Named /\ c.default # C!Unset /\ x = c.default)
            BY DEF C!RolesFor
        <3>4. \A k \in 1..Len(roles) : k \in 1..Len(c.roles) \/ k = Len(roles)
            BY <2>1, <1>1
        <3>5. Len(roles) \in 1..Len(roles) /\ roles[Len(roles)] = last /\ 1..Len(c.roles) \subseteq 1..Len(roles)
            BY <2>1, <1>1
        <3>. QED BY <3>1, <3>2, <3>3, <3>4, <3>5
    <2>b. c.default \in C!Checkers
        BY <1>5 DEF ServerType, C!Defaults, C!Checkers, C!Unset
    <2>3. \A k \in 1..Len(roles) : roles[k].auth \in C!Checkers
        BY <2>0, <2>1, <2>b, <1>1, <1>3
    <2>4. \A i \in 1..Len(seq) : seq[i] \in C!RolesFor(r) /\ seq[i] \in C!Checkers
        BY <2>2, <2>3, <1>2 DEF Collected
    <2>5. \A x \in C!RolesFor(r) : \E i \in 1..Len(seq) : seq[i] = x
        BY <2>2, <1>2 DEF Collected
    <2>6. seq \in Seq(C!Checkers)
        BY <2>4, <1>2 DEF Collected
    <2>. QED BY <2>4, <2>5, <2>6, <1>2 DEF Collected, Holds, seq, roles
<1>. QED BY <1>4, <1>5

\* What the answer to a request that is handled leaves alone.
Answered ==
    /\ ServerType' /\ c'.at = "answered" /\ c'.code \in Codes \ {0, 401}
    /\ c'.roles = c.roles /\ c'.default = c.default /\ c'.lookup = c.lookup /\ c'.request = c.request

\* RolesFor, with the state as its arguments.
LEMMA RolesForIs ==
    \A r : C!RolesFor(r) = RolesOf(c.roles, c.default, r)
BY DEF C!RolesFor, C!Named, RolesOf

\* OnlyAdmitted in a state and in the next, by Admitted.
LEMMA OnlyAdmittedIs ==
    /\ C!OnlyAdmitted <=> (c.calls # <<>> => Admitted)
    /\ C!OnlyAdmitted' <=> (c'.calls # <<>> => Admitted')
<1>1. C!OnlyAdmitted <=> (c.calls # <<>> => Admitted)
    BY DEF C!OnlyAdmitted, C!RolesFor, C!Named, RolesOf, Admitted
<1>2. C!OnlyAdmitted' <=> (c'.calls # <<>> => Admitted')
    BY DEF C!OnlyAdmitted, C!RolesFor, C!Named, RolesOf, Admitted
<1>. QED BY <1>1, <1>2

\* AdmittedIsHandled in the next state, by Admitted.
LEMMA HandledIs ==
    C!AdmittedIsHandled' <=>
        (c'.at = "answered" /\ c'.request.form = "plain" /\ c'.code = 401 => ~Admitted')
<1>. DEFINE them == RolesOf(c'.roles, c'.default, c'.request.route)
            these == {<<"none", "">>, c'.request.with}
<1>1. C!AdmittedIsHandled' <=>
          (c'.at = "answered" /\ c'.request.form = "plain" /\ c'.code = 401 => them \cap these = {})
    BY DEF C!AdmittedIsHandled, C!RolesFor, C!Named, RolesOf
<1>2. Admitted' <=> \E checker \in them : checker \in these
    BY DEF Admitted
<1>. HIDE DEF them, these
<1>3. (\E checker \in them : checker \in these) <=> them \cap these # {}
    OBVIOUS
<1>. QED BY <1>1, <1>2, <1>3

\* AdmittedIsHandled in a state, by Admitted.
LEMMA HandledNow ==
    C!AdmittedIsHandled <=>
        (c.at = "answered" /\ c.request.form = "plain" /\ c.code = 401 => ~Admitted)
<1>. DEFINE them == RolesOf(c.roles, c.default, c.request.route)
            these == {<<"none", "">>, c.request.with}
<1>1. C!AdmittedIsHandled <=>
          (c.at = "answered" /\ c.request.form = "plain" /\ c.code = 401 => them \cap these = {})
    BY DEF C!AdmittedIsHandled, C!RolesFor, C!Named, RolesOf
<1>2. Admitted <=> \E checker \in them : checker \in these
    BY DEF Admitted
<1>. HIDE DEF them, these
<1>3. (\E checker \in them : checker \in these) <=> them \cap these # {}
    OBVIOUS
<1>. QED BY <1>1, <1>2, <1>3

\* An answer to a request that is handled keeps the invariant if what it calls is what was asked.
LEMMA AnswerKeeps ==
    ASSUME ServerInv, c.at = "handling", Answered, C!StartsWhatIsAsked'
    PROVE  ServerInv'
<1>2. ServerType' /\ (c'.code # 0 <=> c'.at = "answered")
    BY DEF Answered
<1>3. \A r \in C!ValidRoutes : \A i, j \in 1..Len(c'.lookup[r]) : c'.lookup[r][i] = c'.lookup[r][j] => i = j
    BY DEF Answered, ServerInv
<1>4. \A r \in C!ValidRoutes : Holds(c'.lookup[r], RolesOf(c'.roles, c'.default, r))
    BY DEF Answered, ServerInv
<1>5. c'.at # "answered" => c'.calls = <<>>
    BY DEF Answered
<1>6. Admitted'
    BY DEF Answered, ServerInv, Admitted
<1>7. C!OnlyAdmitted'
    BY <1>6, OnlyAdmittedIs
<1>8. C!AdmittedIsHandled'
    BY HandledIs DEF Answered
<1>9. (c'.at = "handling" => Admitted')
    BY DEF Answered
<1>. QED BY <1>2, <1>3, <1>4, <1>5, <1>7, <1>8, <1>9 DEF ServerInv

\* Setting up the server gives each route its roles.
LEMMA SetUpKeeps ==
    ASSUME ServerInv, C!SetUp
    PROVE  ServerInv'
<1>. DEFINE new == [r \in C!ValidRoutes |-> C!LookupOf(C!WithDefault, r)]
            fine == c.default \notin C!Incomplete /\ \A role \in C!Range(c.roles) : C!Valid(role)
<1>1. ServerType /\ c.at = "settings" /\ c.calls = <<>> /\ c.code = 0
    BY DEF ServerInv, C!SetUp
<1>2. CASE ~fine
    <2>1. c' = [c EXCEPT !.at = "failed"]
        BY <1>2 DEF C!SetUp
    <2>2. ServerType'
        BY <1>1, <2>1 DEF ServerType, Kinds
    <2>3. c'.at = "failed" /\ c'.calls = <<>> /\ c'.code = 0 /\ c'.lookup = c.lookup
        BY <1>1, <2>1 DEF ServerType
    <2>4. C!OnlyAdmitted' /\ C!AdmittedIsHandled' /\ C!StartsWhatIsAsked'
        BY <2>3, OnlyAdmittedIs, HandledIs DEF C!StartsWhatIsAsked
    <2>. QED BY <2>2, <2>3, <2>4 DEF ServerInv
<1>3. CASE fine
    <2>1. c' = [c EXCEPT !.at = "serving", !.lookup = new]
        BY <1>3 DEF C!SetUp
    <2>2. \A r \in C!ValidRoutes : new[r] \in Seq(C!Checkers) /\ Holds(new[r], C!RolesFor(r))
        BY <1>1, <1>3, LookupHolds
    <2>a. new \in [C!ValidRoutes -> Seq(C!Checkers)]
        BY <2>2
    <2>. HIDE DEF new
    <2>3. ServerType'
        BY <1>1, <2>1, <2>a DEF ServerType, Kinds
    <2>4. c'.at = "serving" /\ c'.calls = <<>> /\ c'.code = 0 /\ c'.lookup = new /\ c'.roles = c.roles /\ c'.default = c.default
        BY <1>1, <2>1 DEF ServerType
    <2>5. C!OnlyAdmitted' /\ C!AdmittedIsHandled' /\ C!StartsWhatIsAsked'
        BY <2>4, OnlyAdmittedIs, HandledIs DEF C!StartsWhatIsAsked
    <2>6. \A r \in C!ValidRoutes : Holds(c'.lookup[r], RolesOf(c'.roles, c'.default, r))
        BY <2>2, <2>4, RolesForIs
    <2>7. \A r \in C!ValidRoutes : \A i, j \in 1..Len(c'.lookup[r]) : c'.lookup[r][i] = c'.lookup[r][j] => i = j
        BY <2>6 DEF Holds
    <2>. QED BY <2>3, <2>4, <2>5, <2>6, <2>7 DEF ServerInv
<1>. QED BY <1>2, <1>3

\* What the middleware lets through is admitted, and it refuses only what is not.
LEMMA AuthorizeKeeps ==
    ASSUME ServerInv, C!Authorize
    PROVE  ServerInv'
<1>1. ServerType /\ c.at = "serving" /\ c.calls = <<>> /\ c.code = 0
    BY DEF ServerInv, C!Authorize
<1>2. PICK request \in C!Requests :
          LET to == request.route
              code == IF to[2] \notin C!ValidPaths \/ request.form = "slash" THEN 404
                      ELSE IF to \notin C!ValidRoutes THEN 405
                      ELSE IF \E i \in 1..Len(c.lookup[to]) : C!Admits(c.lookup[to][i], request) THEN 0
                      ELSE 401
          IN c' = [c EXCEPT !.request = request, !.code = code, !.at = IF code = 0 THEN "handling" ELSE "answered"]
    BY DEF C!Authorize
<1>. DEFINE to == request.route
            admits == \E i \in 1..Len(c.lookup[to]) : C!Admits(c.lookup[to][i], request)
            code == IF to[2] \notin C!ValidPaths \/ request.form = "slash" THEN 404
                    ELSE IF to \notin C!ValidRoutes THEN 405
                    ELSE IF admits THEN 0
                    ELSE 401
<1>3. c' = [c EXCEPT !.request = request, !.code = code, !.at = IF code = 0 THEN "handling" ELSE "answered"]
    BY <1>2
<1>4. code \in {0, 401, 404, 405} /\ (code \in {0, 401} => to \in C!ValidRoutes) /\ (code = 0 => admits) /\ (code = 401 => ~admits)
    OBVIOUS
<1>. HIDE DEF code, admits
<1>5. ServerType'
    <2>1. code \in Codes /\ (IF code = 0 THEN "handling" ELSE "answered") \in Kinds
        BY <1>4 DEF Codes, Kinds
    <2>. QED BY <1>1, <1>3, <2>1, ZenonT(60) DEF ServerType
<1>6. /\ c'.request = request /\ c'.code = code /\ c'.at = (IF code = 0 THEN "handling" ELSE "answered")
      /\ c'.calls = <<>> /\ c'.lookup = c.lookup /\ c'.roles = c.roles /\ c'.default = c.default
    BY <1>1, <1>3 DEF ServerType
<1>8. \A r \in C!ValidRoutes : Holds(c.lookup[r], RolesOf(c.roles, c.default, r))
    BY <1>1 DEF ServerInv
<1>9. Admitted' <=> \E checker \in RolesOf(c.roles, c.default, to) : checker \in {<<"none", "">>, request.with}
    BY <1>6 DEF Admitted
<1>10. code \in {0, 401} => (admits <=> Admitted')
    <2>1. \A i : C!Admits(c.lookup[to][i], request) <=> c.lookup[to][i] \in {<<"none", "">>, request.with}
        BY DEF C!Admits
    <2>2. code \in {0, 401} => Holds(c.lookup[to], RolesOf(c.roles, c.default, to))
        BY <1>4, <1>8
    <2>. DEFINE seq == c.lookup[to]
                set == RolesOf(c.roles, c.default, to)
                wanted == {<<"none", "">>, request.with}
    <2>3. admits <=> \E i \in 1..Len(seq) : seq[i] \in wanted
        BY <2>1 DEF admits
    <2>. HIDE DEF seq, set, wanted
    <2>4. Holds(seq, set) => ((\E i \in 1..Len(seq) : seq[i] \in wanted) <=> \E checker \in set : checker \in wanted)
        BY DEF Holds
    <2>. QED BY <1>9, <2>2, <2>3, <2>4 DEF seq, set, wanted
<1>11. C!AdmittedIsHandled' /\ C!OnlyAdmitted'
    BY <1>4, <1>6, <1>10, HandledIs, OnlyAdmittedIs
<1>12. C!StartsWhatIsAsked'
    BY <1>4, <1>6 DEF C!StartsWhatIsAsked
<1>13. c'.code # 0 <=> c'.at = "answered"
    BY <1>4, <1>6
<1>14. \A r \in C!ValidRoutes : \A i, j \in 1..Len(c'.lookup[r]) : c'.lookup[r][i] = c'.lookup[r][j] => i = j
    BY <1>6 DEF ServerInv
<1>15. \A r \in C!ValidRoutes : Holds(c'.lookup[r], RolesOf(c'.roles, c'.default, r))
    BY <1>6, <1>8
<1>16. (c'.at # "answered" => c'.calls = <<>>) /\ (c'.at = "handling" => Admitted')
    BY <1>4, <1>6, <1>10
<1>. QED BY <1>5, <1>6, <1>11, <1>12, <1>13, <1>14, <1>15, <1>16 DEF ServerInv

\* The routes that a role of a file names here.
NamedRoutes == {<<"PUT", "/v1/openvpn/status">>, <<"GET", "/openvpn/actions/restart">>}

\* The roles a file may have: those that are valid, those that cannot be, and one of no route there is.
Fit == {C!Role(a, rs) : a \in C!Checkers, rs \in (SUBSET NamedRoutes) \ {{}}}
Unfit == {C!Role(a, NamedRoutes) : a \in C!Incomplete}
Nowhere == C!Role(<<"none", "">>, {C!Get("/v1/nowhere")})

\* The roles of a file, by their kinds.
LEMMA RolesAre ==
    C!Roles = Fit \cup Unfit \cup {Nowhere}
BY DEF C!Roles, Fit, Unfit, Nowhere, NamedRoutes

\* Each of them is a role.
LEMMA RolesTyped ==
    ASSUME NEW role, role \in C!Roles
    PROVE  role \in AnyRole
<1>a. \A x \in Fit : \E a \in C!Checkers, rs \in SUBSET NamedRoutes : x = C!Role(a, rs)
    BY DEF Fit
<1>b. \A x \in Unfit : \E a \in C!Incomplete : x = C!Role(a, NamedRoutes)
    BY DEF Unfit
<1>1. \/ \E a \in C!Checkers, rs \in SUBSET NamedRoutes : role = C!Role(a, rs)
      \/ \E a \in C!Incomplete : role = C!Role(a, NamedRoutes)
      \/ role = Nowhere
    BY <1>a, <1>b, RolesAre
<1>2. NamedRoutes \subseteq C!ValidRoutes
    BY DEF NamedRoutes, C!ValidRoutes, C!Get, C!Put
<1>3. Nowhere \in AnyRole
    BY DEF Nowhere, C!Role, AnyRole, Auths, C!Checkers
<1>4. ASSUME NEW a \in C!Checkers \cup C!Incomplete, NEW rs \in SUBSET NamedRoutes
      PROVE  C!Role(a, rs) \in AnyRole
    BY <1>2 DEF C!Role, AnyRole, Auths
<1>. QED BY <1>1, <1>3, <1>4

\* The body of one of a set of requests.
LEMMA BodyCases ==
    ASSUME NEW routes, NEW carried, NEW forms, NEW bodies, NEW request,
           request \in {[route |-> r, with |-> w, form |-> form, body |-> body] :
                           r \in routes, w \in carried, form \in forms, body \in bodies}
    PROVE  request.body \in bodies
BY SMT

\* The bodies there are.
LEMMA BodiesAre ==
    ASSUME NEW request, request \in C!Requests \/ request = C!NoRequest
    PROVE  request.body \in {"", "running", "stopped", "invalid"}
<1>1. CASE request \in C!Requests
    <2>. DEFINE routes == {<<"PUT", "/v1/openvpn/status">>, <<"GET", "/openvpn/actions/restart">>,
                           <<"GET", "/v1/dns/status">>, <<"PUT", "/v1/dns/status">>, <<"PUT", "/v1/portforward">>,
                           <<"GET", "/openvpn/settings">>, <<"GET", "/v1/openvpn/portforwarded">>,
                           <<"POST", "/v1/vpn/status">>, <<"GET", "/v1">>}
    <2>1. request \in {[route |-> r, with |-> w, form |-> form, body |-> body] :
                          r \in routes, w \in C!Carried, form \in {"plain", "slash", "query"},
                          body \in {"running", "stopped", "invalid"}}
        BY <1>1 DEF C!Requests
    <2>. HIDE DEF routes
    <2>2. request.body \in {"running", "stopped", "invalid"}
        BY <2>1, BodyCases
    <2>. QED BY <2>2
<1>2. CASE request = C!NoRequest
    BY <1>2 DEF C!NoRequest
<1>. QED BY <1>1, <1>2

\* One call is a sequence of calls.
LEMMA OneCall ==
    ASSUME NEW call \in Call
    PROVE  <<call>> \in Seq(Call)
OBVIOUS

\* What Answers does.
LEMMA AnswersTyped ==
    ASSUME ServerType, NEW code \in Codes \ {0, 401}, c.at = "handling",
           C!Answers(code)
    PROVE  Answered /\ c'.code = code
<1>1. c' = [c EXCEPT !.at = "answered", !.code = code]
    BY DEF C!Answers
<1>2. ServerType'
    BY <1>1, ZenonT(60) DEF ServerType, Kinds
<1>. QED BY <1>1, <1>2 DEF Answered, ServerType

\* What Does does.
LEMMA DoesTyped ==
    ASSUME ServerType, NEW code \in Codes \ {0, 401}, NEW calls \in Seq(Call), c.at = "handling",
           C!Does(code, calls)
    PROVE  Answered /\ c'.code = code /\ c'.calls = calls
<1>1. c' = [c EXCEPT !.at = "answered", !.code = code, !.calls = calls]
    BY DEF C!Does
<1>2. ServerType'
    BY <1>1, ZenonT(60) DEF ServerType, Kinds
<1>. QED BY <1>1, <1>2 DEF Answered, ServerType

\* Every handler calls only what the request asks for.
LEMMA HandlerKeeps ==
    ASSUME ServerInv, C!NotFound \/ C!Redirect \/ C!Shows \/ C!Restart \/ C!SetStatus \/ C!SetOpenVPNStatus \/ C!Change
    PROVE  ServerInv'
<1>1. c.at = "handling"
    BY DEF C!NotFound, C!Redirect, C!Shows, C!Restart, C!SetStatus, C!SetOpenVPNStatus, C!Change, C!Handling
<1>2. ServerType
    BY DEF ServerInv
<1>. SUFFICES Answered /\ C!StartsWhatIsAsked'
    BY <1>1, AnswerKeeps
<1>b. c.request.body \in {"", "running", "stopped", "invalid"}
    <2>1. c.request \in C!Requests \/ c.request = C!NoRequest
        BY <1>2 DEF ServerType
    <2>. QED BY <2>1, BodiesAre
<1>3. CASE C!NotFound
    <2>1. Answered /\ c'.code = 400
        BY <1>1, <1>2, <1>3, AnswersTyped DEF C!NotFound, Codes
    <2>. QED BY <2>1 DEF C!StartsWhatIsAsked
<1>4. CASE C!Redirect
    <2>1. Answered /\ c'.code \in {301, 308}
        BY <1>1, <1>2, <1>4, AnswersTyped DEF C!Redirect, Codes
    <2>. QED BY <2>1 DEF C!StartsWhatIsAsked
<1>5. CASE C!Shows
    <2>1. Answered /\ c'.code = 200
        BY <1>1, <1>2, <1>5, AnswersTyped DEF C!Shows, Codes
    <2>2. c'.request.route[1] = "GET" /\ c'.request.route[2] \notin DOMAIN C!RestartedBy
        BY <1>5, <2>1 DEF C!Shows, C!Handling, C!Get, Answered, C!RestartedBy
    <2>. QED BY <2>1, <2>2 DEF C!StartsWhatIsAsked, C!Put
<1>6. CASE C!Restart
    <2>1. PICK path \in DOMAIN C!RestartedBy :
              /\ C!Handling(C!Get(path))
              /\ C!Does(200, <<C!Asks(C!RestartedBy[path], "stopped"), C!Asks(C!RestartedBy[path], "running")>>)
        BY <1>6 DEF C!Restart
    <2>. DEFINE loop == C!RestartedBy[path]
                calls == <<C!Asks(loop, "stopped"), C!Asks(loop, "running")>>
    <2>2. loop \in {"vpn", "dns", "updater"}
        BY DEF C!RestartedBy
    <2>. HIDE DEF loop
    <2>3. calls \in Seq(Call) /\ Len(calls) = 2 /\ calls[2][2] = "running"
        <3>1. C!Asks(loop, "stopped") \in Call /\ C!Asks(loop, "running") \in Call
            BY <2>2 DEF C!Asks, Call
        <3>2. C!Asks(loop, "running")[2] = "running"
            BY DEF C!Asks
        <3>. QED BY <3>1, <3>2
    <2>4. C!Does(200, calls)
        BY <2>1 DEF loop
    <2>. HIDE DEF calls
    <2>5. Answered /\ c'.calls = calls
        BY <1>1, <1>2, <2>3, <2>4, DoesTyped DEF Codes
    <2>6. c'.request.route[1] = "GET"
        BY <2>1, <2>5 DEF C!Handling, C!Get, Answered
    <2>. QED BY <2>3, <2>5, <2>6 DEF C!StartsWhatIsAsked, C!Put
<1>7. CASE C!SetStatus
    <2>1. PICK path \in DOMAIN C!StatusOf :
              /\ C!Handling(C!Put(path))
              /\ IF c.request.body = "invalid" THEN C!Answers(400)
                 ELSE C!Does(200, <<C!Asks(C!StatusOf[path], c.request.body)>>)
        BY <1>7 DEF C!SetStatus
    <2>2. path \in {"/v1/vpn/status", "/v1/dns/status", "/v1/updater/status"}
        BY DEF C!StatusOf
    <2>3. CASE c.request.body = "invalid"
        <3>1. Answered /\ c'.code = 400
            BY <1>1, <1>2, <2>1, <2>3, AnswersTyped DEF Codes
        <3>. QED BY <3>1 DEF C!StartsWhatIsAsked
    <2>4. CASE c.request.body # "invalid"
        <3>1. C!StatusOf[path] \in {"vpn", "dns", "updater"}
            BY DEF C!StatusOf
        <3>2. <<C!Asks(C!StatusOf[path], c.request.body)>> \in Seq(Call)
            <4>1. C!Asks(C!StatusOf[path], c.request.body) \in Call
                BY <1>b, <2>4, <3>1 DEF C!Asks, Call
            <4>. QED BY <4>1
        <3>3. Answered
            <4>. DEFINE calls == <<C!Asks(C!StatusOf[path], c.request.body)>>
            <4>1. C!Does(200, calls) /\ 200 \in Codes \ {0, 401} /\ calls \in Seq(Call)
                BY <2>1, <2>4, <3>2 DEF Codes
            <4>. HIDE DEF calls
            <4>. QED BY <1>1, <1>2, <4>1, DoesTyped
        <3>4. c'.request.route[2] = path /\ c'.request.route # C!Put("/v1/openvpn/status")
            BY <2>1, <2>2, <3>3 DEF C!Handling, C!Put, Answered
        <3>5. path \notin DOMAIN C!RestartedBy
            BY <2>2 DEF C!RestartedBy
        <3>. QED BY <3>3, <3>4, <3>5 DEF C!StartsWhatIsAsked
    <2>. QED BY <2>3, <2>4
<1>8. CASE C!SetOpenVPNStatus
    <2>1. c.request.route = C!Put("/v1/openvpn/status") /\ (c.request.body = "invalid" => C!Answers(400))
        BY <1>8 DEF C!SetOpenVPNStatus, C!Handling
    <2>2. c.request.route[2] \notin DOMAIN C!RestartedBy
        BY <2>1 DEF C!Put, C!RestartedBy
    <2>3. CASE c.request.body = "invalid"
        <3>1. Answered /\ c'.code = 400
            BY <1>1, <1>2, <2>1, <2>3, AnswersTyped DEF Codes
        <3>. QED BY <3>1 DEF C!StartsWhatIsAsked
    <2>4. CASE c.request.body # "invalid"
        <3>1. PICK type \in {"openvpn", "wireguard"} :
                  c' = [c EXCEPT !.at = "answered", !.code = 200,
                                 !.type = IF c.request.body = "running" THEN "openvpn" ELSE type,
                                 !.calls = IF c.request.body = "running" /\ type # "openvpn"
                                           THEN <<C!Asks("vpn settings", "")>> ELSE <<C!Asks("vpn", c.request.body)>>]
            BY <1>8, <2>4 DEF C!SetOpenVPNStatus
        <3>. DEFINE made == IF c.request.body = "running" THEN "openvpn" ELSE type
                    calls == IF c.request.body = "running" /\ type # "openvpn"
                             THEN <<C!Asks("vpn settings", "")>> ELSE <<C!Asks("vpn", c.request.body)>>
        <3>2. made \in {"openvpn", "wireguard"} /\ (c.request.body = "running" => made = "openvpn")
            OBVIOUS
        <3>3. calls \in Seq(Call)
            <4>1. C!Asks("vpn settings", "") \in Call /\ C!Asks("vpn", c.request.body) \in Call
                BY <1>b, <2>4 DEF C!Asks, Call
            <4>2. <<C!Asks("vpn settings", "")>> \in Seq(Call) /\ <<C!Asks("vpn", c.request.body)>> \in Seq(Call)
                BY <4>1, OneCall
            <4>. QED BY <4>2
        <3>4. c' = [c EXCEPT !.at = "answered", !.code = 200, !.type = made, !.calls = calls]
            BY <3>1
        <3>. HIDE DEF made, calls
        <3>5. ServerType'
            <4>1. 200 \in Codes /\ "answered" \in Kinds /\ made \in {"", "openvpn", "wireguard"}
                BY <3>2, ZenonT(30) DEF Codes, Kinds
            <4>2. c' = [at |-> "answered", roles |-> c.roles, default |-> c.default, type |-> made,
                        request |-> c.request, lookup |-> c.lookup, code |-> 200, calls |-> calls]
                BY <1>2, <3>4 DEF ServerType
            <4>3. /\ c.roles \in Seq(AnyRole) /\ c.default \in C!Defaults
                  /\ c.request \in C!Requests \cup {C!NoRequest} /\ c.lookup \in [C!ValidRoutes -> Seq(C!Checkers)]
                BY <1>2 DEF ServerType
            <4>. QED BY <3>3, <4>1, <4>2, <4>3, Zenon DEF ServerType
        <3>6. Answered /\ c'.type = made
            <4>1. c'.at = "answered" /\ c'.code = 200 /\ c'.type = made /\ c'.roles = c.roles
                  /\ c'.default = c.default /\ c'.lookup = c.lookup /\ c'.request = c.request
                BY <1>2, <3>4 DEF ServerType
            <4>2. 200 \in Codes \ {0, 401}
                BY DEF Codes
            <4>. QED BY <3>5, <4>1, <4>2 DEF Answered
        <3>. QED BY <2>2, <3>2, <3>6 DEF C!StartsWhatIsAsked, Answered
    <2>. QED BY <2>3, <2>4
<1>9. CASE C!Change
    <2>1. PICK path \in {"/v1/vpn/settings", "/v1/portforward"} :
              /\ C!Handling(C!Put(path))
              /\ IF c.request.body = "invalid" THEN C!Answers(400)
                 ELSE C!Does(200, <<C!Asks(IF path = "/v1/portforward" THEN "ports" ELSE "vpn settings", "")>>)
        BY <1>9, ZenonT(30) DEF C!Change
    <2>2. Answered
        <3>1. CASE c.request.body = "invalid"
            BY <1>1, <1>2, <2>1, <3>1, AnswersTyped DEF Codes
        <3>2. CASE c.request.body # "invalid"
            <4>. DEFINE calls == <<C!Asks(IF path = "/v1/portforward" THEN "ports" ELSE "vpn settings", "")>>
            <4>1. C!Asks(IF path = "/v1/portforward" THEN "ports" ELSE "vpn settings", "") \in Call
                BY DEF C!Asks, Call
            <4>2. calls \in Seq(Call)
                BY <4>1, OneCall
            <4>3. C!Does(200, calls)
                BY <2>1, <3>2
            <4>4. 200 \in Codes \ {0, 401}
                BY DEF Codes
            <4>. HIDE DEF calls
            <4>. QED BY <1>1, <1>2, <4>2, <4>3, <4>4, DoesTyped
        <3>. QED BY <3>1, <3>2
    <2>3. c'.request.route = C!Put(path)
        BY <2>1, <2>2 DEF C!Handling, Answered
    <2>4. c'.request.route[2] \notin DOMAIN C!RestartedBy /\ c'.request.route # C!Put("/v1/openvpn/status")
        BY <2>3 DEF C!Put, C!RestartedBy
    <2>. QED BY <2>2, <2>4 DEF C!StartsWhatIsAsked
<1>. QED BY <1>3, <1>4, <1>5, <1>6, <1>7, <1>8, <1>9

\* The invariant holds of any file at the start.
LEMMA ServerStarts ==
    ASSUME C!ControlInit
    PROVE  ServerInv
<1>1. PICK roles \in C!SeqOf(C!Roles, MaxRoles), default \in C!Defaults :
          c = [at |-> "settings", roles |-> roles, default |-> default, type |-> "", request |-> C!NoRequest,
               lookup |-> [r \in C!ValidRoutes |-> <<>>], code |-> 0, calls |-> <<>>]
    BY DEF C!ControlInit
<1>2. roles \in Seq(AnyRole)
    <2>1. C!Roles \subseteq AnyRole
        <3>. SUFFICES ASSUME NEW role \in C!Roles PROVE role \in AnyRole
            OBVIOUS
        <3>. QED BY RolesTyped
    <2>2. PICK m \in 0..MaxRoles : roles \in [1..m -> C!Roles]
        BY DEF C!SeqOf
    <2>. QED BY <2>1, <2>2
<1>3. ServerType
    <2>1. [r \in C!ValidRoutes |-> <<>>] \in [C!ValidRoutes -> Seq(C!Checkers)] /\ <<>> \in Seq(Call)
        OBVIOUS
    <2>2. "settings" \in Kinds /\ 0 \in Codes /\ "" \in {"", "openvpn", "wireguard"}
        BY DEF Kinds, Codes
    <2>. QED BY <1>1, <1>2, <2>1, <2>2 DEF ServerType
<1>4. c.at = "settings" /\ c.calls = <<>> /\ c.code = 0 /\ c.lookup = [r \in C!ValidRoutes |-> <<>>]
    BY <1>1
<1>. QED BY <1>3, <1>4, OnlyAdmittedIs DEF ServerInv, C!AdmittedIsHandled, C!StartsWhatIsAsked

\* The other inputs are not the server.
LEMMA PicksNoServer ==
    ASSUME Next
    PROVE  input # Server /\ input' # Server
<1>1. input = Unpicked
    BY DEF Next
<1>2. input # Server
    BY <1>1 DEF Unpicked, Server
<1>3. input'.kind # "server"
    <2>1. CASE PickSource
        BY <2>1 DEF PickSource
    <2>2. CASE PickResults
        BY <2>2 DEF PickResults
    <2>3. CASE PickEnv
        BY <2>3 DEF PickEnv
    <2>4. CASE PickFile
        BY <2>4 DEF PickFile
    <2>5. CASE PickUpdate
        BY <2>5 DEF PickUpdate
    <2>6. CASE PickDNS
        BY <2>6 DEF PickDNS
    <2>7. CASE PickSection
        BY <2>7 DEF PickSection
    <2>8. CASE PickRetro
        BY <2>8 DEF PickRetro
    <2>. QED BY <2>1, <2>2, <2>3, <2>4, <2>5, <2>6, <2>7, <2>8 DEF Next
<1>4. Server.kind = "server"
    BY DEF Server
<1>. QED BY <1>2, <1>3, <1>4

\* The invariant of the server holds when the server is what is picked.
ServerIInv == input = Server => ServerInv

\* Every step keeps the invariant of the server.
LEMMA ServerStep ==
    ASSUME ServerIInv, [MCNext]_<<input, c>>
    PROVE  ServerIInv'
<1>1. CASE Next /\ UNCHANGED c
    BY <1>1, PicksNoServer DEF ServerIInv
<1>2. CASE input = Server /\ C!ControlNext /\ UNCHANGED input
    <2>1. ServerInv
        BY <1>2 DEF ServerIInv
    <2>2. ServerInv'
        BY <1>2, <2>1, SetUpKeeps, AuthorizeKeeps, HandlerKeeps DEF C!ControlNext
    <2>. QED BY <2>2 DEF ServerIInv
<1>3. CASE UNCHANGED <<input, c>>
    <2>1. input' = input /\ c' = c
        BY <1>3
    <2>2. ServerInv => ServerInv'
        <3>1. ServerType => ServerType'
            BY <2>1 DEF ServerType
        <3>2. Admitted => Admitted'
            BY <2>1 DEF Admitted
        <3>3. C!OnlyAdmitted => C!OnlyAdmitted'
            BY <2>1, <3>2, OnlyAdmittedIs
        <3>4. C!AdmittedIsHandled => C!AdmittedIsHandled'
            BY <2>1, <3>2, HandledNow, HandledIs DEF Admitted
        <3>5. C!StartsWhatIsAsked => C!StartsWhatIsAsked'
            BY <2>1 DEF C!StartsWhatIsAsked
        <3>. QED BY <2>1, <3>1, <3>2, <3>3, <3>4, <3>5 DEF ServerInv
    <2>. QED BY <2>1, <2>2 DEF ServerIInv
<1>. QED BY <1>1, <1>2, <1>3 DEF MCNext

\* Whatever the roles of the file, their number and their keys: a request is handled
\* exactly if a role of its route admits it, and what it calls is what it asks for
\* (HandledIfAdmitted).
THEOREM Handled == MCSpec => []HandledIfAdmitted
<1>1. MCInit => ServerIInv
    <2>1. ASSUME Init, input = Server PROVE FALSE
        BY <2>1 DEF Init, Unpicked, Server
    <2>2. ASSUME C!ControlInit PROVE ServerInv
        BY <2>2, ServerStarts
    <2>. QED BY <2>1, <2>2 DEF MCInit, ServerIInv
<1>2. ServerIInv /\ [MCNext]_<<input, c>> => ServerIInv'
    BY ServerStep
<1>3. ServerIInv => HandledIfAdmitted
    <2>1. ASSUME ServerInv PROVE C!ControlTypeOK
        <3>1. ServerType /\ c.at \in Kinds /\ c.code \in Codes /\ c.lookup \in [C!ValidRoutes -> Seq(C!Checkers)]
            BY <2>1 DEF ServerInv, ServerType
        <3>. QED BY <2>1, <3>1 DEF ServerInv, C!ControlTypeOK, Kinds, Codes
    <2>2. ASSUME ServerInv PROVE C!OnlyAdmitted /\ C!AdmittedIsHandled /\ C!StartsWhatIsAsked
        BY <2>2 DEF ServerInv
    <2>. QED BY <2>1, <2>2 DEF ServerIInv, HandledIfAdmitted
<1>. QED BY <1>1, <1>2, <1>3, PTL DEF MCSpec

(***************************************************************************)
(* An update of the servers loses none that the source has.                  *)
(*                                                                         *)
(* Each provider looks at counts of its own before it takes what it fetched.   *)
(* What has to be known of them is in Sound: one of them is not more than the   *)
(* servers that are made, so that enough by the counts is enough servers, and   *)
(* none is less than what is asked for the servers themselves.               *)
(***************************************************************************)

\* What a function makes of a finite set is not more.
LEMMA MadeOf ==
    ASSUME NEW S, IsFiniteSet(S), NEW T, NEW f, \A t \in T : \E x \in S : t = f[x]
    PROVE  IsFiniteSet(T) /\ N(T) \in Nat /\ N(S) \in Nat /\ N(T) <= N(S)
<1>. DEFINE g == [x \in S |-> f[x]]
            R == {f[x] : x \in S}
<1>1. g \in Surjection(S, R)
    BY DEF Surjection
<1>. HIDE DEF g
<1>2. IsFiniteSet(R) /\ N(R) <= N(S)
    BY <1>1, FS_Surjection DEF N
<1>3. T \in SUBSET R
    OBVIOUS
<1>. HIDE DEF R
<1>4. IsFiniteSet(T) /\ N(T) <= N(R)
    BY <1>2, <1>3, FS_Subset DEF N
<1>5. N(T) \in Nat /\ N(R) \in Nat /\ N(S) \in Nat
    BY <1>2, <1>4, FS_CardinalityType DEF N
<1>. QED BY <1>2, <1>4, <1>5

\* Names that servers have are not more than the servers.
LEMMA NamesOf ==
    ASSUME NEW servers, IsFiniteSet(servers), NEW names, \A n \in names : \E s \in servers : n = s.hostname
    PROVE  N(names) \in Nat /\ N(servers) \in Nat /\ N(names) <= N(servers)
<1>. DEFINE f == [s \in servers |-> s.hostname]
<1>1. \A n \in names : \E s \in servers : n = f[s]
    OBVIOUS
<1>. HIDE DEF f
<1>. QED BY <1>1, MadeOf

\* A part of a finite set is not more.
LEMMA PartOf ==
    ASSUME NEW S, IsFiniteSet(S), NEW T, T \subseteq S
    PROVE  IsFiniteSet(T) /\ N(T) \in Nat /\ N(S) \in Nat /\ N(T) <= N(S)
BY FS_Subset, FS_CardinalityType DEF N

\* The numbers from 1.
LEMMA UpTo ==
    ASSUME NEW n \in Nat
    PROVE  IsFiniteSet(1..n) /\ N(1..n) = n
<1>1. IsFiniteSet(1..n) /\ Cardinality(1..n) = IF 1 > n THEN 0 ELSE n - 1 + 1
    BY FS_Interval
<1>. QED BY <1>1 DEF N

\* Entries name no more hosts than there are of them.
LEMMA HostsAre ==
    ASSUME NEW entries, IsFiniteSet(entries)
    PROVE  /\ IsFiniteSet(HostsOf(entries)) /\ N(HostsOf(entries)) \in Nat /\ N(entries) \in Nat
           /\ N(HostsOf(entries)) <= N(entries)
<1>. DEFINE f == [e \in entries |-> e.host]
<1>1. \A h \in HostsOf(entries) : \E e \in entries : h = f[e]
    BY DEF HostsOf
<1>. HIDE DEF f
<1>. QED BY <1>1, MadeOf

\* The ratio never asks for more than there are.
LEMMA RatioBelow ==
    ASSUME NEW n \in Nat, NEW k \in Nat, n <= k
    PROVE  MinServers(80, n) <= k
BY DEF MinServers

\* Counts and servers of a fetch that replaces no servers by fewer, and finds its own again.
Keeps(servers, counts) == \E k \in counts : k <= N(servers)
Finds(servers, counts) ==
    (\A s \in servers : HasMinimumInformation(s)) => \A k \in counts : MinServers(80, N(servers)) <= k
Sound(provider, servers, counts) ==
    /\ IsFiniteSet(servers)
    /\ counts \subseteq Nat
    /\ provider \notin CountsMore => Keeps(servers, counts)
    /\ provider \notin CountsLess => Finds(servers, counts)

\* A source that is there.
IsSource(src) == src.reached /\ src.credentials /\ IsFiniteSet(src.entries)

\* What is fetched of each provider.
LEMMA FetchIs ==
    ASSUME NEW src, IsSource(src), NEW min
    PROVE  /\ FetchServers("airvpn", src, min) = AirvpnServers(src, min)
           /\ FetchServers("cyberghost", src, min) = CyberghostServers(src, min)
           /\ FetchServers("expressvpn", src, min) = ExpressvpnServers(src, min)
           /\ FetchServers("fastestvpn", src, min) = FastestvpnServers(src, min)
           /\ FetchServers("giganews", src, min) = GiganewsServers(src, min)
           /\ FetchServers("hidemyass", src, min) = HidemyassServers(src, min)
           /\ FetchServers("ipvanish", src, min) = IpvanishServers(src, min)
           /\ FetchServers("ivpn", src, min) = IvpnServers(src, min)
           /\ FetchServers("mullvad", src, min) = MullvadServers(src, min)
           /\ FetchServers("nordvpn", src, min) = NordvpnServers(src, min)
           /\ FetchServers("perfect privacy", src, min) = PerfectPrivacyServers(src, min)
           /\ FetchServers("privado", src, min) = PrivadoServers(src, min)
           /\ FetchServers("private internet access", src, min) = PIAServers(src, min)
           /\ FetchServers("privatevpn", src, min) = PrivatevpnServers(src, min)
           /\ FetchServers("protonvpn", src, min) = ProtonvpnServers(src, min)
           /\ FetchServers("purevpn", src, min) = PurevpnServers(src, min)
           /\ FetchServers("slickvpn", src, min) = SlickvpnServers(src, min)
           /\ FetchServers("surfshark", src, min) = SurfsharkServers(src, min)
           /\ FetchServers("torguard", src, min) = TorguardServers(src, min)
           /\ FetchServers("vpnsecure", src, min) = VPNSecureServers(src, min)
           /\ FetchServers("vpn unlimited", src, min) = VPNUnlimitedServers(src, min)
           /\ FetchServers("vyprvpn", src, min) = VyprvpnServers(src, min)
           /\ FetchServers("windscribe", src, min) = WindscribeServers(src, min)
BY DEF FetchServers, IsSource

\* Each provider either makes nothing of the source or looks at the same counts whatever is asked for.
Fetches(provider, src) ==
    \/ \A min : FetchServers(provider, src, min) = Unreached
    \/ \E servers, counts :
          Sound(provider, servers, counts) /\ \A min : FetchServers(provider, src, min) = Checked(counts, min, servers)

\* The counts there are, each of a part of the one before.
LEMMA SourceCounts ==
    ASSUME NEW src, IsSource(src)
    PROVE  /\ IsFiniteSet(src.entries) /\ IsFiniteSet(Taken(src)) /\ IsFiniteSet(HostsOf(src.entries))
           /\ IsFiniteSet(HostsOf(Taken(src)))
           /\ N(src.entries) \in Nat /\ N(Taken(src)) \in Nat /\ N(HostsOf(src.entries)) \in Nat
           /\ N(HostsOf(Taken(src))) \in Nat
           /\ N(Taken(src)) <= N(src.entries) /\ N(HostsOf(src.entries)) <= N(src.entries)
           /\ N(HostsOf(Taken(src))) <= N(Taken(src))
           /\ \A part : part \subseteq src.entries =>
                  IsFiniteSet(part) /\ N(part) \in Nat /\ IsFiniteSet(HostsOf(part)) /\ N(HostsOf(part)) \in Nat
                  /\ N(HostsOf(part)) <= N(part) /\ N(part) <= N(src.entries)
<1>1. IsFiniteSet(src.entries)
    BY DEF IsSource
<1>2. \A part : part \subseteq src.entries => IsFiniteSet(part) /\ N(part) \in Nat /\ N(part) <= N(src.entries)
    BY <1>1, PartOf
<1>3. \A part : part \subseteq src.entries =>
          IsFiniteSet(HostsOf(part)) /\ N(HostsOf(part)) \in Nat /\ N(HostsOf(part)) <= N(part)
    BY <1>2, HostsAre
<1>4. Taken(src) \subseteq src.entries
    BY DEF Taken
<1>. QED BY <1>1, <1>2, <1>3, <1>4

\* Those of some hosts that resolve.
LEMMA Resolve ==
    ASSUME NEW hosts, IsFiniteSet(hosts), NEW resolved
    PROVE  /\ IsFiniteSet(hosts \cap resolved) /\ N(hosts \cap resolved) \in Nat
           /\ N(hosts \cap resolved) <= N(hosts)
BY PartOf

\* One server of each host.
LEMMA OneEach ==
    ASSUME NEW hosts, IsFiniteSet(hosts), NEW servers, NEW g, \A s \in servers : \E h \in hosts : s = g[h],
           \A h \in hosts : g[h] \in servers /\ g[h].hostname = h
    PROVE  IsFiniteSet(servers) /\ N(servers) \in Nat /\ N(servers) = N(hosts)
<1>1. IsFiniteSet(servers) /\ N(servers) \in Nat /\ N(hosts) \in Nat /\ N(servers) <= N(hosts)
    BY MadeOf
<1>2. \A h \in hosts : \E s \in servers : h = s.hostname
    OBVIOUS
<1>3. N(hosts) <= N(servers)
    BY <1>1, <1>2, NamesOf
<1>. QED BY <1>1, <1>3

\* Counts that are no smaller than the servers, one of them their number.
LEMMA CountsOfEach ==
    ASSUME NEW servers, IsFiniteSet(servers), NEW counts, counts \subseteq Nat, N(servers) \in counts,
           \A k \in counts : N(servers) <= k, NEW provider
    PROVE  Sound(provider, servers, counts)
<1>1. N(servers) \in Nat
    OBVIOUS
<1>2. \A k \in counts : MinServers(80, N(servers)) <= k
    BY <1>1, RatioBelow
<1>. QED BY <1>1, <1>2 DEF Sound, Keeps, Finds

\* Hosts that have a server each, and counts that are no smaller.
LEMMA EachSound ==
    ASSUME NEW hosts, IsFiniteSet(hosts), NEW servers, NEW g, \A s \in servers : \E h \in hosts : s = g[h],
           \A h \in hosts : g[h] \in servers /\ g[h].hostname = h,
           NEW counts, counts \subseteq Nat, N(hosts) \in counts, \A k \in counts : N(hosts) <= k, NEW provider
    PROVE  Sound(provider, servers, counts)
<1>1. IsFiniteSet(servers) /\ N(servers) = N(hosts)
    BY OneEach
<1>. QED BY <1>1, CountsOfEach

\* A zip file of configurations.
LEMMA ZipSound ==
    ASSUME NEW src, IsSource(src), NEW server, \A h \in HostsOf(Taken(src)) : server[h].hostname = h, NEW provider,
           \A min : FetchServers(provider, src, min) = ZipServers(src, min, server)
    PROVE  Fetches(provider, src)
<1>. DEFINE hosts == HostsOf(Taken(src))
            found == hosts \cap src.resolved
            servers == {server[h] : h \in found}
            counts == {N(src.entries), N(hosts), N(found)}
<1>1. IsFiniteSet(found) /\ counts \subseteq Nat /\ N(found) \in counts /\ \A k \in counts : N(found) <= k
    BY SourceCounts, Resolve
<1>2. \A min : FetchServers(provider, src, min) = Checked(counts, min, servers)
    BY DEF ZipServers
<1>3. \A h \in found : server[h].hostname = h
    OBVIOUS
<1>. HIDE DEF found, counts
<1>4. Sound(provider, servers, counts)
    <2>1. (\A s \in servers : \E h \in found : s = server[h]) /\ \A h \in found : server[h] \in servers
        OBVIOUS
    <2>. HIDE DEF servers
    <2>. QED BY <1>1, <1>3, <2>1, EachSound
<1>. HIDE DEF servers
<1>. QED BY <1>2, <1>4 DEF Fetches

\* cyberghost: one server of each host.
LEMMA CyberghostSound ==
    ASSUME NEW src, IsSource(src)
    PROVE  Fetches("cyberghost", src)
<1>. DEFINE found == HostsOf(src.entries) \cap src.resolved
            servers == {CyberghostHost(src.entries, h) : h \in found}
            counts == {N(found)}
<1>1. IsFiniteSet(found) /\ counts \subseteq Nat /\ N(found) \in counts /\ \A k \in counts : N(found) <= k
    BY SourceCounts, Resolve
<1>2. \A min : FetchServers("cyberghost", src, min) = Checked(counts, min, servers)
    BY FetchIs DEF CyberghostServers
<1>. DEFINE g == [h \in found |-> CyberghostHost(src.entries, h)]
<1>. HIDE DEF found, counts
<1>3. Sound("cyberghost", servers, counts)
    <2>1. (\A s \in servers : \E h \in found : s = g[h]) /\ \A h \in found : g[h] \in servers /\ g[h].hostname = h
        BY DEF CyberghostHost, Openvpn
    <2>. HIDE DEF g, servers
    <2>. QED BY <1>1, <2>1, EachSound
<1>. HIDE DEF servers
<1>. QED BY <1>2, <1>3 DEF Fetches

\* expressvpn: one server of each host.
LEMMA ExpressvpnSound ==
    ASSUME NEW src, IsSource(src)
    PROVE  Fetches("expressvpn", src)
<1>. DEFINE found == HostsOf(src.entries) \cap src.resolved
            servers == {Openvpn(h, FALSE, TRUE, TRUE) : h \in found}
            counts == {N(found)}
<1>1. IsFiniteSet(found) /\ counts \subseteq Nat /\ N(found) \in counts /\ \A k \in counts : N(found) <= k
    BY SourceCounts, Resolve
<1>2. \A min : FetchServers("expressvpn", src, min) = Checked(counts, min, servers)
    BY FetchIs DEF ExpressvpnServers
<1>. DEFINE g == [h \in found |-> Openvpn(h, FALSE, TRUE, TRUE)]
<1>. HIDE DEF found, counts
<1>3. Sound("expressvpn", servers, counts)
    <2>1. (\A s \in servers : \E h \in found : s = g[h]) /\ \A h \in found : g[h] \in servers /\ g[h].hostname = h
        BY DEF Openvpn
    <2>. HIDE DEF g, servers
    <2>. QED BY <1>1, <2>1, EachSound
<1>. HIDE DEF servers
<1>. QED BY <1>2, <1>3 DEF Fetches

\* vpn unlimited: one server of each host.
LEMMA VPNUnlimitedSound ==
    ASSUME NEW src, IsSource(src)
    PROVE  Fetches("vpn unlimited", src)
<1>. DEFINE found == HostsOf(src.entries) \cap src.resolved
            servers == {VPNUnlimitedHost(h) : h \in found}
            counts == {N(found)}
<1>1. IsFiniteSet(found) /\ counts \subseteq Nat /\ N(found) \in counts /\ \A k \in counts : N(found) <= k
    BY SourceCounts, Resolve
<1>2. \A min : FetchServers("vpn unlimited", src, min) = Checked(counts, min, servers)
    BY FetchIs DEF VPNUnlimitedServers
<1>. DEFINE g == [h \in found |-> VPNUnlimitedHost(h)]
<1>. HIDE DEF found, counts
<1>3. Sound("vpn unlimited", servers, counts)
    <2>1. (\A s \in servers : \E h \in found : s = g[h]) /\ \A h \in found : g[h] \in servers /\ g[h].hostname = h
        BY DEF VPNUnlimitedHost, Openvpn
    <2>. HIDE DEF g, servers
    <2>. QED BY <1>1, <2>1, EachSound
<1>. HIDE DEF servers
<1>. QED BY <1>2, <1>3 DEF Fetches

\* privado: one server of each host.
LEMMA PrivadoSound ==
    ASSUME NEW src, IsSource(src)
    PROVE  Fetches("privado", src)
<1>. DEFINE found == HostsOf(src.entries)
            servers == {Openvpn(h, FALSE, TRUE, TRUE) : h \in found}
            counts == {N(found)}
<1>1. IsFiniteSet(found) /\ counts \subseteq Nat /\ N(found) \in counts /\ \A k \in counts : N(found) <= k
    BY SourceCounts, Resolve
<1>2. \A min : FetchServers("privado", src, min) = Checked(counts, min, servers)
    BY FetchIs DEF PrivadoServers
<1>. DEFINE g == [h \in found |-> Openvpn(h, FALSE, TRUE, TRUE)]
<1>. HIDE DEF found, counts
<1>3. Sound("privado", servers, counts)
    <2>1. (\A s \in servers : \E h \in found : s = g[h]) /\ \A h \in found : g[h] \in servers /\ g[h].hostname = h
        BY DEF Openvpn
    <2>. HIDE DEF g, servers
    <2>. QED BY <1>1, <2>1, EachSound
<1>. HIDE DEF servers
<1>. QED BY <1>2, <1>3 DEF Fetches

\* perfect privacy: one server of each host.
LEMMA PerfectPrivacySound ==
    ASSUME NEW src, IsSource(src)
    PROVE  Fetches("perfect privacy", src)
<1>. DEFINE found == HostsOf(Taken(src))
            servers == {PerfectPrivacyHost(h) : h \in found}
            counts == {N(found)}
<1>1. IsFiniteSet(found) /\ counts \subseteq Nat /\ N(found) \in counts /\ \A k \in counts : N(found) <= k
    BY SourceCounts, Resolve
<1>2. \A min : FetchServers("perfect privacy", src, min) = Checked(counts, min, servers)
    BY FetchIs DEF PerfectPrivacyServers
<1>. DEFINE g == [h \in found |-> PerfectPrivacyHost(h)]
<1>. HIDE DEF found, counts
<1>3. Sound("perfect privacy", servers, counts)
    <2>1. (\A s \in servers : \E h \in found : s = g[h]) /\ \A h \in found : g[h] \in servers /\ g[h].hostname = h
        BY DEF PerfectPrivacyHost, Openvpn
    <2>. HIDE DEF g, servers
    <2>. QED BY <1>1, <2>1, EachSound
<1>. HIDE DEF servers
<1>. QED BY <1>2, <1>3 DEF Fetches

\* private internet access: one server of each host.
LEMMA PIASound ==
    ASSUME NEW src, IsSource(src)
    PROVE  Fetches("private internet access", src)
<1>. DEFINE found == HostsOf({e \in Taken(src) : e.tcp \/ e.udp})
            servers == {PIAHost(Taken(src), h) : h \in found}
            counts == {N(found)}
<1>1. IsFiniteSet(found) /\ counts \subseteq Nat /\ N(found) \in counts /\ \A k \in counts : N(found) <= k
    <2>1. {e \in Taken(src) : e.tcp \/ e.udp} \subseteq src.entries
        BY DEF Taken
    <2>. QED BY <2>1, SourceCounts
<1>2. \A min : FetchServers("private internet access", src, min) = Checked(counts, min, servers)
    BY FetchIs DEF PIAServers
<1>. DEFINE g == [h \in found |-> PIAHost(Taken(src), h)]
<1>. HIDE DEF found, counts
<1>3. Sound("private internet access", servers, counts)
    <2>1. (\A s \in servers : \E h \in found : s = g[h]) /\ \A h \in found : g[h] \in servers /\ g[h].hostname = h
        BY DEF PIAHost, HostServer, Openvpn
    <2>. HIDE DEF g, servers
    <2>. QED BY <1>1, <2>1, EachSound
<1>. HIDE DEF servers
<1>. QED BY <1>2, <1>3 DEF Fetches

\* hidemyass: one server of each host.
LEMMA HidemyassSound ==
    ASSUME NEW src, IsSource(src)
    PROVE  Fetches("hidemyass", src)
<1>. DEFINE found == HostsOf(src.entries) \cap src.resolved
            servers == {HostServer(src.entries, h) : h \in found}
            counts == {N(HostsOf(src.entries)), N(found)}
<1>1. IsFiniteSet(found) /\ counts \subseteq Nat /\ N(found) \in counts /\ \A k \in counts : N(found) <= k
    BY SourceCounts, Resolve
<1>2. \A min : FetchServers("hidemyass", src, min) = Checked(counts, min, servers)
    BY FetchIs DEF HidemyassServers
<1>. DEFINE g == [h \in found |-> HostServer(src.entries, h)]
<1>. HIDE DEF found, counts
<1>3. Sound("hidemyass", servers, counts)
    <2>1. (\A s \in servers : \E h \in found : s = g[h]) /\ \A h \in found : g[h] \in servers /\ g[h].hostname = h
        BY DEF HostServer, Openvpn
    <2>. HIDE DEF g, servers
    <2>. QED BY <1>1, <2>1, EachSound
<1>. HIDE DEF servers
<1>. QED BY <1>2, <1>3 DEF Fetches

\* vpnsecure: one server of each host.
LEMMA VPNSecureSound ==
    ASSUME NEW src, IsSource(src)
    PROVE  Fetches("vpnsecure", src)
<1>. DEFINE found == HostsOf(Taken(src)) \cap src.resolved
            servers == {VPNSecureHost(h) : h \in found}
            counts == {N(Taken(src)), N(found)}
<1>1. IsFiniteSet(found) /\ counts \subseteq Nat /\ N(found) \in counts /\ \A k \in counts : N(found) <= k
    BY SourceCounts, Resolve
<1>2. \A min : FetchServers("vpnsecure", src, min) = Checked(counts, min, servers)
    BY FetchIs DEF VPNSecureServers
<1>. DEFINE g == [h \in found |-> VPNSecureHost(h)]
<1>. HIDE DEF found, counts
<1>3. Sound("vpnsecure", servers, counts)
    <2>1. (\A s \in servers : \E h \in found : s = g[h]) /\ \A h \in found : g[h] \in servers /\ g[h].hostname = h
        BY DEF VPNSecureHost, Openvpn
    <2>. HIDE DEF g, servers
    <2>. QED BY <1>1, <2>1, EachSound
<1>. HIDE DEF servers
<1>. QED BY <1>2, <1>3 DEF Fetches

\* mullvad: one server of each host.
LEMMA MullvadSound ==
    ASSUME NEW src, IsSource(src)
    PROVE  Fetches("mullvad", src)
<1>. DEFINE found == HostsOf(Taken(src))
            servers == {MullvadHost(h) : h \in found}
            counts == {N(found)}
<1>1. IsFiniteSet(found) /\ counts \subseteq Nat /\ N(found) \in counts /\ \A k \in counts : N(found) <= k
    BY SourceCounts, Resolve
<1>2. (\E e \in Taken(src) : e.state = "bare") \/ \A min : FetchServers("mullvad", src, min) = Checked(counts, min, servers)
    BY FetchIs DEF MullvadServers
<1>. DEFINE g == [h \in found |-> MullvadHost(h)]
<1>. HIDE DEF found, counts
<1>3. Sound("mullvad", servers, counts)
    <2>1. (\A s \in servers : \E h \in found : s = g[h]) /\ \A h \in found : g[h] \in servers /\ g[h].hostname = h
        BY DEF MullvadHost, Wireguard
    <2>. HIDE DEF g, servers
    <2>. QED BY <1>1, <2>1, EachSound
<1>4. CASE \E e \in Taken(src) : e.state = "bare"
    BY <1>4, FetchIs DEF MullvadServers, Fetches
<1>. QED BY <1>2, <1>3, <1>4 DEF Fetches

\* giganews: one server of each host.
LEMMA GiganewsSound ==
    ASSUME NEW src, IsSource(src)
    PROVE  Fetches("giganews", src)
<1>. DEFINE server == [h \in HostsOf(Taken(src)) |-> GiganewsHost(Taken(src), h)]
<1>1. \A h \in HostsOf(Taken(src)) : server[h].hostname = h
    BY DEF GiganewsHost, HostServer, Openvpn
<1>2. \A min : FetchServers("giganews", src, min) = ZipServers(src, min, server)
    BY FetchIs DEF GiganewsServers
<1>. HIDE DEF server
<1>. QED BY <1>1, <1>2, ZipSound

\* vyprvpn: one server of each host.
LEMMA VyprvpnSound ==
    ASSUME NEW src, IsSource(src)
    PROVE  Fetches("vyprvpn", src)
<1>. DEFINE server == [h \in HostsOf(Taken(src)) |-> VyprvpnHost(Taken(src), h)]
<1>1. \A h \in HostsOf(Taken(src)) : server[h].hostname = h
    BY DEF VyprvpnHost, HostServer, Openvpn
<1>2. \A min : FetchServers("vyprvpn", src, min) = ZipServers(src, min, server)
    BY FetchIs DEF VyprvpnServers
<1>. HIDE DEF server
<1>. QED BY <1>1, <1>2, ZipSound

\* ipvanish: one server of each host.
LEMMA IpvanishSound ==
    ASSUME NEW src, IsSource(src)
    PROVE  Fetches("ipvanish", src)
<1>. DEFINE server == [h \in HostsOf(Taken(src)) |-> IpvanishHost(Taken(src), h)]
<1>1. \A h \in HostsOf(Taken(src)) : server[h].hostname = h
    BY DEF IpvanishHost, HostServer, Openvpn
<1>2. \A min : FetchServers("ipvanish", src, min) = ZipServers(src, min, server)
    BY FetchIs DEF IpvanishServers
<1>. HIDE DEF server
<1>. QED BY <1>1, <1>2, ZipSound

\* purevpn: one server of each host.
LEMMA PurevpnSound ==
    ASSUME NEW src, IsSource(src)
    PROVE  Fetches("purevpn", src)
<1>. DEFINE server == [h \in HostsOf(Taken(src)) |-> PurevpnHost(Taken(src), h)]
<1>1. \A h \in HostsOf(Taken(src)) : server[h].hostname = h
    BY DEF PurevpnHost, HostServer, Openvpn
<1>2. \A min : FetchServers("purevpn", src, min) = ZipServers(src, min, server)
    BY FetchIs DEF PurevpnServers
<1>. HIDE DEF server
<1>. QED BY <1>1, <1>2, ZipSound

\* airvpn: ten servers of an entry are expected, and six made.
LEMMA AirvpnSound ==
    ASSUME NEW src, IsSource(src)
    PROVE  Fetches("airvpn", src)
<1>. DEFINE hosts == HostsOf(Taken(src))
            Six(h) == {Wireguard(<<h, k>>, TRUE, TRUE) : k \in 1..2} \cup {Openvpn(<<h, k>>, TRUE, TRUE, TRUE) : k \in 3..6}
            servers == UNION {Six(h) : h \in hosts}
            counts == {10 * N(src.entries)}
<1>1. \A min : FetchServers("airvpn", src, min) = Checked(counts, min, servers)
    BY FetchIs DEF AirvpnServers
<1>2. IsFiniteSet(hosts) /\ N(hosts) \in Nat /\ N(src.entries) \in Nat /\ N(hosts) <= N(src.entries)
    BY SourceCounts
<1>3. IsFiniteSet(servers) /\ N(servers) \in Nat /\ N(servers) <= 6 * N(hosts)
    <2>. DEFINE f == [x \in hosts \X (1..6) |-> IF x[2] <= 2 THEN Wireguard(x, TRUE, TRUE) ELSE Openvpn(x, TRUE, TRUE, TRUE)]
    <2>1. IsFiniteSet(1..6) /\ N(1..6) = 6
        BY UpTo
    <2>2. IsFiniteSet(hosts \X (1..6)) /\ N(hosts \X (1..6)) = N(hosts) * 6
        BY <1>2, <2>1, FS_Product DEF N
    <2>3. ASSUME NEW s \in servers PROVE \E x \in hosts \X (1..6) : s = f[x]
        <3>1. PICK h \in hosts : s \in Six(h)
            OBVIOUS
        <3>2. CASE \E k \in 1..2 : s = Wireguard(<<h, k>>, TRUE, TRUE)
            <4>1. PICK k \in 1..2 : s = Wireguard(<<h, k>>, TRUE, TRUE)
                BY <3>2
            <4>2. <<h, k>> \in hosts \X (1..6) /\ <<h, k>>[2] = k /\ k <= 2
                OBVIOUS
            <4>3. f[<<h, k>>] = s
                BY <4>1, <4>2
            <4>. QED BY <4>2, <4>3
        <3>3. CASE \E k \in 3..6 : s = Openvpn(<<h, k>>, TRUE, TRUE, TRUE)
            <4>1. PICK k \in 3..6 : s = Openvpn(<<h, k>>, TRUE, TRUE, TRUE)
                BY <3>3
            <4>2. <<h, k>> \in hosts \X (1..6) /\ <<h, k>>[2] = k /\ ~(k <= 2)
                OBVIOUS
            <4>3. f[<<h, k>>] = s
                BY <4>1, <4>2
            <4>. QED BY <4>2, <4>3
        <3>. QED BY <3>1, <3>2, <3>3
    <2>. HIDE DEF hosts, servers, f
    <2>4. IsFiniteSet(servers) /\ N(servers) \in Nat /\ N(servers) <= N(hosts) * 6
        BY <2>2, <2>3, MadeOf
    <2>. QED BY <1>2, <2>4
<1>. HIDE DEF hosts, servers
<1>4. MinServers(80, N(servers)) <= 10 * N(src.entries)
    <2>1. N(servers) <= 10 * N(src.entries) /\ 10 * N(src.entries) \in Nat
        BY <1>2, <1>3
    <2>. QED BY <1>3, <2>1, RatioBelow
<1>5. Sound("airvpn", servers, counts)
    BY <1>2, <1>3, <1>4 DEF Sound, Finds, CountsMore
<1>. QED BY <1>1, <1>5 DEF Fetches

\* The servers are what is counted.
LEMMA CountedSound ==
    ASSUME NEW servers, IsFiniteSet(servers), NEW provider
    PROVE  Sound(provider, servers, {N(servers)})
<1>1. N(servers) \in Nat
    BY FS_CardinalityType DEF N
<1>. QED BY <1>1, CountsOfEach

\* fastestvpn: a host is one server or two.
LEMMA FastestvpnSound ==
    ASSUME NEW src, IsSource(src)
    PROVE  Fetches("fastestvpn", src)
<1>. DEFINE found == HostsOf(src.entries) \cap src.resolved
            servers == UNION {FastestvpnHost(src.entries, h) : h \in found}
<1>1. \A min : FetchServers("fastestvpn", src, min) = Checked({N(servers)}, min, servers)
    BY FetchIs DEF FastestvpnServers
<1>2. IsFiniteSet(found)
    BY SourceCounts, Resolve
<1>3. IsFiniteSet(servers)
    <2>. DEFINE f == [h \in found |-> FastestvpnHost(src.entries, h)]
                sets == {FastestvpnHost(src.entries, h) : h \in found}
    <2>1. \A set \in sets : \E h \in found : set = f[h]
        OBVIOUS
    <2>2. \A set \in sets : IsFiniteSet(set)
        <3>1. ASSUME NEW a, NEW b PROVE IsFiniteSet({a} \cup {b}) /\ IsFiniteSet({a} \cup {})
            BY FS_Singleton, FS_EmptySet, FS_Union
        <3>2. \A h : IsFiniteSet(FastestvpnHost(src.entries, h))
            BY <3>1 DEF FastestvpnHost
        <3>. QED BY <3>2
    <2>. HIDE DEF f, found, sets
    <2>3. IsFiniteSet(sets)
        BY <1>2, <2>1, MadeOf
    <2>4. IsFiniteSet(UNION sets)
        BY <2>2, <2>3, FS_UNION
    <2>. QED BY <2>4 DEF sets
<1>. HIDE DEF servers
<1>4. Sound("fastestvpn", servers, {N(servers)})
    BY <1>3, CountedSound
<1>. QED BY <1>1, <1>4 DEF Fetches

\* nordvpn: an entry is a server of each kind it has.
LEMMA NordvpnSound ==
    ASSUME NEW src, IsSource(src)
    PROVE  Fetches("nordvpn", src)
<1>. DEFINE either == {e \in Taken(src) : e.tcp \/ e.udp}
            keyed == {e \in Taken(src) : e.wg}
            openvpn == {Openvpn(e.host, e.tcp, e.udp, e.state # "bare") : e \in either}
            wireguard == {Wireguard(e.host, TRUE, e.state # "bare") : e \in keyed}
            servers == openvpn \cup wireguard
<1>1. \A min : FetchServers("nordvpn", src, min) = Checked({N(servers)}, min, servers)
    BY FetchIs DEF NordvpnServers
<1>2. IsFiniteSet(either) /\ IsFiniteSet(keyed)
    <2>1. either \subseteq src.entries /\ keyed \subseteq src.entries
        BY DEF Taken
    <2>. HIDE DEF either, keyed
    <2>. QED BY <2>1, SourceCounts
<1>. HIDE DEF either, keyed
<1>3. IsFiniteSet(openvpn)
    <2>. DEFINE f == [e \in either |-> Openvpn(e.host, e.tcp, e.udp, e.state # "bare")]
    <2>1. \A s \in openvpn : \E e \in either : s = f[e]
        OBVIOUS
    <2>. HIDE DEF f, openvpn
    <2>. QED BY <1>2, <2>1, MadeOf
<1>4. IsFiniteSet(wireguard)
    <2>. DEFINE f == [e \in keyed |-> Wireguard(e.host, TRUE, e.state # "bare")]
    <2>1. \A s \in wireguard : \E e \in keyed : s = f[e]
        OBVIOUS
    <2>. HIDE DEF f, wireguard
    <2>. QED BY <1>2, <2>1, MadeOf
<1>. HIDE DEF openvpn, wireguard
<1>5. IsFiniteSet(servers)
    BY <1>3, <1>4, FS_Union
<1>. HIDE DEF servers
<1>6. Sound("nordvpn", servers, {N(servers)})
    BY <1>5, CountedSound
<1>. QED BY <1>1, <1>6 DEF Fetches

\* windscribe: a node is a server of each kind it has; one without a key ends it.
LEMMA WindscribeSound ==
    ASSUME NEW src, IsSource(src)
    PROVE  Fetches("windscribe", src)
<1>. DEFINE keyless == {e \in src.entries : e.wg /\ e.state = "bare"}
            keyed == {e \in src.entries : e.wg}
            openvpn == {Openvpn(e.host, TRUE, TRUE, e.state # "bare") : e \in src.entries}
            wireguard == {Wireguard(e.host, TRUE, TRUE) : e \in keyed}
            servers == openvpn \cup wireguard
<1>0. CASE keyless # {}
    <2>1. \A min : FetchServers("windscribe", src, min) = Unreached
        BY <1>0, FetchIs DEF WindscribeServers
    <2>. QED BY <2>1 DEF Fetches
<1>1. ASSUME keyless = {} PROVE \A min : FetchServers("windscribe", src, min) = Checked({N(servers)}, min, servers)
    BY <1>1, FetchIs DEF WindscribeServers
<1>2. IsFiniteSet(src.entries) /\ IsFiniteSet(keyed)
    <2>1. keyed \subseteq src.entries
        OBVIOUS
    <2>. HIDE DEF keyed
    <2>. QED BY <2>1, SourceCounts
<1>. HIDE DEF keyed, keyless
<1>3. IsFiniteSet(openvpn)
    <2>. DEFINE f == [e \in src.entries |-> Openvpn(e.host, TRUE, TRUE, e.state # "bare")]
    <2>1. \A s \in openvpn : \E e \in src.entries : s = f[e]
        OBVIOUS
    <2>. HIDE DEF f, openvpn
    <2>. QED BY <1>2, <2>1, MadeOf
<1>4. IsFiniteSet(wireguard)
    <2>. DEFINE f == [e \in keyed |-> Wireguard(e.host, TRUE, TRUE)]
    <2>1. \A s \in wireguard : \E e \in keyed : s = f[e]
        OBVIOUS
    <2>. HIDE DEF f, wireguard
    <2>. QED BY <1>2, <2>1, MadeOf
<1>. HIDE DEF openvpn, wireguard
<1>5. IsFiniteSet(servers)
    BY <1>3, <1>4, FS_Union
<1>. HIDE DEF servers
<1>6. Sound("windscribe", servers, {N(servers)})
    BY <1>5, CountedSound
<1>. QED BY <1>0, <1>1, <1>6 DEF Fetches

\* torguard: the hosts and those that resolve are counted, and all are servers.
LEMMA TorguardSound ==
    ASSUME NEW src, IsSource(src)
    PROVE  Fetches("torguard", src)
<1>. DEFINE hosts == HostsOf(Taken(src))
            servers == {TorguardHost(Taken(src), h) : h \in hosts}
            counts == {N(hosts), N(hosts \cap src.resolved)}
            g == [h \in hosts |-> TorguardHost(Taken(src), h)]
<1>1. \A min : FetchServers("torguard", src, min) = Checked(counts, min, servers)
    BY FetchIs DEF TorguardServers
<1>2. IsFiniteSet(hosts) /\ counts \subseteq Nat /\ N(hosts) \in counts
    BY SourceCounts, Resolve
<1>3. (\A s \in servers : \E h \in hosts : s = g[h]) /\ \A h \in hosts : g[h] \in servers /\ g[h].hostname = h
    BY DEF TorguardHost, HostServer, Openvpn
<1>. HIDE DEF hosts, counts, servers, g
<1>4. IsFiniteSet(servers) /\ N(servers) = N(hosts) /\ N(servers) \in Nat
    BY <1>2, <1>3, OneEach
<1>5. Sound("torguard", servers, counts)
    BY <1>2, <1>4 DEF Sound, Keeps, CountsLess
<1>. QED BY <1>1, <1>5 DEF Fetches

\* A server with the minimum has an address.
LEMMA HasAddress ==
    ASSUME NEW h, NEW key, NEW addressed \in BOOLEAN
    PROVE  /\ HasMinimumInformation(Openvpn(h, TRUE, TRUE, addressed)) => addressed
           /\ HasMinimumInformation(Wireguard(h, key, addressed)) => addressed
<1>1. Openvpn(h, TRUE, TRUE, addressed).addressed = addressed /\ Wireguard(h, key, addressed).addressed = addressed
    BY DEF Openvpn, Wireguard
<1>. QED BY <1>1 DEF HasMinimumInformation

\* slickvpn: hosts that did not resolve stay, and refuse the update then.
LEMMA SlickvpnSound ==
    ASSUME NEW src, IsSource(src)
    PROVE  Fetches("slickvpn", src)
<1>. DEFINE hosts == HostsOf(src.entries)
            servers == {Openvpn(h, TRUE, TRUE, h \in src.resolved) : h \in hosts}
            counts == {N(hosts \cap src.resolved)}
            g == [h \in hosts |-> Openvpn(h, TRUE, TRUE, h \in src.resolved)]
<1>1. \A min : FetchServers("slickvpn", src, min) = Checked(counts, min, servers)
    BY FetchIs DEF SlickvpnServers
<1>2. IsFiniteSet(hosts) /\ counts \subseteq Nat /\ N(hosts \cap src.resolved) <= N(hosts) /\ N(hosts) \in Nat
    BY SourceCounts, Resolve
<1>3. (\A s \in servers : \E h \in hosts : s = g[h]) /\ \A h \in hosts : g[h] \in servers /\ g[h].hostname = h
    BY DEF Openvpn
<1>4. ASSUME \A s \in servers : HasMinimumInformation(s)
      PROVE  hosts \cap src.resolved = hosts
    <2>. SUFFICES ASSUME NEW h \in hosts PROVE h \in src.resolved
        OBVIOUS
    <2>1. (h \in src.resolved) \in BOOLEAN
        OBVIOUS
    <2>2. HasMinimumInformation(Openvpn(h, TRUE, TRUE, h \in src.resolved))
        BY <1>4
    <2>. QED BY <2>1, <2>2, HasAddress
<1>. HIDE DEF hosts, servers, g
<1>5. IsFiniteSet(servers) /\ N(servers) = N(hosts) /\ N(servers) \in Nat
    BY <1>2, <1>3, OneEach
<1>6. Keeps(servers, counts)
    BY <1>2, <1>5 DEF Keeps
<1>7. Finds(servers, counts)
    <2>1. N(servers) \in Nat /\ MinServers(80, N(servers)) <= N(hosts)
        BY <1>2, <1>5, RatioBelow
    <2>. QED BY <1>4, <1>5, <2>1 DEF Finds
<1>8. Sound("slickvpn", servers, counts)
    BY <1>2, <1>5, <1>6, <1>7 DEF Sound
<1>. HIDE DEF counts
<1>. QED BY <1>1, <1>8 DEF Fetches

\* Two sets together are not more than both.
LEMMA Together ==
    ASSUME NEW S, IsFiniteSet(S), NEW T, IsFiniteSet(T)
    PROVE  IsFiniteSet(S \cup T) /\ N(S \cup T) \in Nat /\ N(S) \in Nat /\ N(T) \in Nat /\ N(S \cup T) <= N(S) + N(T)
<1>1. IsFiniteSet(S \cup T) /\ N(S \cup T) = N(S) + N(T) - N(S \cap T)
    BY FS_Union DEF N
<1>2. N(S \cap T) \in Nat /\ N(S \cup T) \in Nat /\ N(S) \in Nat /\ N(T) \in Nat
    BY <1>1, PartOf
<1>3. \A x, y, z \in Nat : x + y - z <= x + y
    OBVIOUS
<1>. QED BY <1>1, <1>2, <1>3

\* ivpn: each host has a server of each kind it is listed under, and none of two refuses the same again.
LEMMA IvpnSound ==
    ASSUME NEW src, IsSource(src), N(src.entries) <= 2
    PROVE  Fetches("ivpn", src)
<1>. DEFINE plain == {x \in src.entries : ~x.wg}
            wg == {x \in src.entries : x.wg}
            openvpn == {e.host : e \in plain}
            wireguard == {e.host : e \in wg}
            keyed == {e.host : e \in {x \in src.entries : x.wg /\ x.state # "bare"}}
            hosts == openvpn \cup wireguard
            S == {Openvpn(h, TRUE, TRUE, h \in src.resolved) : h \in openvpn}
            T == {Wireguard(h, h \in keyed, h \in src.resolved) : h \in wireguard}
            servers == S \cup T
            counts == {N(hosts), N(hosts \cap src.resolved)}
<1>1. \A min : FetchServers("ivpn", src, min) = Checked(counts, min, servers)
    BY FetchIs DEF IvpnServers
<1>2. IsFiniteSet(plain) /\ IsFiniteSet(wg) /\ N(plain) + N(wg) = N(src.entries) /\ N(plain) \in Nat /\ N(wg) \in Nat
    <2>1. plain \subseteq src.entries /\ wg = src.entries \ plain /\ plain = src.entries \cap plain
        OBVIOUS
    <2>2. IsFiniteSet(src.entries) /\ N(src.entries) \in Nat
        BY SourceCounts
    <2>. HIDE DEF plain, wg
    <2>3. N(wg) = N(src.entries) - N(plain)
        <3>. DEFINE entries == src.entries
        <3>1. wg = entries \ plain /\ plain = entries \cap plain /\ IsFiniteSet(entries)
            BY <2>1, <2>2
        <3>. HIDE DEF entries
        <3>2. Cardinality(entries \ plain) = Cardinality(entries) - Cardinality(entries \cap plain)
            BY <3>1, FS_Difference
        <3>. QED BY <3>1, <3>2 DEF N, entries
    <2>4. IsFiniteSet(plain) /\ N(plain) \in Nat /\ IsFiniteSet(wg) /\ N(wg) \in Nat
        BY <2>1, <2>2, PartOf
    <2>. QED BY <2>2, <2>3, <2>4
<1>3. /\ IsFiniteSet(openvpn) /\ N(openvpn) \in Nat /\ N(openvpn) <= N(plain)
      /\ IsFiniteSet(wireguard) /\ N(wireguard) \in Nat /\ N(wireguard) <= N(wg)
    BY <1>2, HostsAre DEF HostsOf
<1>4. IsFiniteSet(servers) /\ N(servers) \in Nat /\ N(servers) <= N(openvpn) + N(wireguard)
    <2>. DEFINE f == [h \in openvpn |-> Openvpn(h, TRUE, TRUE, h \in src.resolved)]
                g == [h \in wireguard |-> Wireguard(h, h \in keyed, h \in src.resolved)]
    <2>1. (\A s \in S : \E h \in openvpn : s = f[h]) /\ \A t \in T : \E h \in wireguard : t = g[h]
        <3>. HIDE DEF openvpn, wireguard, keyed
        <3>. QED OBVIOUS
    <2>. HIDE DEF f, g, openvpn, wireguard, keyed, S, T
    <2>2. IsFiniteSet(openvpn) /\ IsFiniteSet(wireguard)
        BY <1>3
    <2>3. IsFiniteSet(S) /\ N(S) \in Nat /\ N(S) <= N(openvpn)
        BY <2>1, <2>2, MadeOf
    <2>4. IsFiniteSet(T) /\ N(T) \in Nat /\ N(T) <= N(wireguard)
        BY <2>1, <2>2, MadeOf
    <2>5. IsFiniteSet(S \cup T) /\ N(S \cup T) \in Nat /\ N(S \cup T) <= N(S) + N(T)
        BY <2>3, <2>4, Together
    <2>. QED BY <1>3, <2>3, <2>4, <2>5
<1>5. IsFiniteSet(hosts) /\ N(hosts) \in Nat /\ counts \subseteq Nat /\ N(hosts) \in counts
    <2>. HIDE DEF openvpn, wireguard
    <2>1. IsFiniteSet(hosts)
        BY <1>3, FS_Union
    <2>. HIDE DEF hosts
    <2>. QED BY <2>1, PartOf, Resolve
<1>6. N(hosts) <= N(servers)
    <2>. HIDE DEF openvpn, wireguard, keyed
    <2>1. ASSUME NEW h \in hosts PROVE \E s \in servers : h = s.hostname
        <3>1. CASE h \in openvpn
            <4>1. Openvpn(h, TRUE, TRUE, h \in src.resolved) \in servers
                BY <3>1
            <4>2. Openvpn(h, TRUE, TRUE, h \in src.resolved).hostname = h
                BY DEF Openvpn
            <4>. QED BY <4>1, <4>2
        <3>2. CASE h \in wireguard
            <4>1. Wireguard(h, h \in keyed, h \in src.resolved) \in servers
                BY <3>2
            <4>2. Wireguard(h, h \in keyed, h \in src.resolved).hostname = h
                BY DEF Wireguard
            <4>. QED BY <4>1, <4>2
        <3>. QED BY <3>1, <3>2
    <2>. HIDE DEF hosts, servers
    <2>. QED BY <1>4, <2>1, NamesOf
<1>7. ASSUME \A s \in servers : HasMinimumInformation(s)
      PROVE  hosts \cap src.resolved = hosts
    <2>. HIDE DEF openvpn, wireguard, keyed
    <2>. SUFFICES ASSUME NEW h \in hosts PROVE h \in src.resolved
        OBVIOUS
    <2>1. (h \in src.resolved) \in BOOLEAN
        OBVIOUS
    <2>2. CASE h \in openvpn
        <3>1. HasMinimumInformation(Openvpn(h, TRUE, TRUE, h \in src.resolved))
            BY <1>7, <2>2
        <3>. QED BY <2>1, <3>1, HasAddress
    <2>3. CASE h \in wireguard
        <3>1. HasMinimumInformation(Wireguard(h, h \in keyed, h \in src.resolved))
            BY <1>7, <2>3
        <3>. QED BY <2>1, <3>1, HasAddress
    <2>. QED BY <2>2, <2>3
<1>8. MinServers(80, N(servers)) <= N(hosts)
    <2>1. N(servers) <= 2
        BY <1>2, <1>3, <1>4
    <2>2. CASE hosts = {}
        <3>1. servers = {}
            BY <2>2
        <3>2. N(servers) = 0
            BY <3>1, FS_EmptySet DEF N
        <3>. HIDE DEF servers, hosts
        <3>. QED BY <1>5, <3>2, RatioBelow
    <2>3. CASE hosts # {}
        <3>. HIDE DEF servers, hosts
        <3>1. N(hosts) # 0
            BY <1>5, <2>3, FS_EmptySet DEF N
        <3>. QED BY <1>4, <1>5, <2>1, <3>1 DEF MinServers
    <2>. QED BY <2>2, <2>3
<1>. HIDE DEF servers, hosts
<1>9. Keeps(servers, counts)
    BY <1>5, <1>6 DEF Keeps
<1>10. Finds(servers, counts)
    BY <1>7, <1>8 DEF Finds
<1>11. Sound("ivpn", servers, counts)
    BY <1>4, <1>5, <1>9, <1>10 DEF Sound
<1>. HIDE DEF counts
<1>. QED BY <1>1, <1>11 DEF Fetches

\* No more than two, once or twice.
LEMMA OneOrTwo ==
    ASSUME NEW a, NEW b
    PROVE  IsFiniteSet({a, b}) /\ IsFiniteSet({a} \cup {b}) /\ IsFiniteSet({a} \cup {})
<1>1. IsFiniteSet({a} \cup {b}) /\ IsFiniteSet({a} \cup {})
    BY FS_Singleton, FS_EmptySet, FS_Union
<1>2. {a, b} = {a} \cup {b}
    OBVIOUS
<1>. QED BY <1>1, <1>2

\* surfshark: a host is one server or two, and the hosts are counted.
LEMMA SurfsharkSound ==
    ASSUME NEW src, IsSource(src)
    PROVE  Fetches("surfshark", src)
<1>. DEFINE found == HostsOf(Taken(src)) \cap src.resolved
            sets == {SurfsharkHost(Taken(src), h) : h \in found}
            servers == UNION sets
            counts == {N(found)}
<1>1. \A min : FetchServers("surfshark", src, min) = Checked(counts, min, servers)
    BY FetchIs DEF SurfsharkServers
<1>2. IsFiniteSet(found) /\ counts \subseteq Nat
    BY SourceCounts, Resolve
<1>3. IsFiniteSet(servers)
    <2>. DEFINE f == [h \in found |-> SurfsharkHost(Taken(src), h)]
    <2>1. \A set \in sets : \E h \in found : set = f[h]
        OBVIOUS
    <2>2. \A set \in sets : IsFiniteSet(set)
        <3>1. \A h : IsFiniteSet(SurfsharkHost(Taken(src), h))
            BY OneOrTwo DEF SurfsharkHost
        <3>. QED BY <3>1
    <2>. HIDE DEF f, found, sets
    <2>3. IsFiniteSet(sets)
        BY <1>2, <2>1, MadeOf
    <2>. QED BY <2>2, <2>3, FS_UNION
<1>4. ASSUME NEW h \in found PROVE \E s \in servers : h = s.hostname
    <2>. DEFINE s == Openvpn(h, TRUE, TRUE, TRUE)
    <2>1. s \in SurfsharkHost(Taken(src), h)
        BY DEF SurfsharkHost
    <2>2. s \in servers
        BY <2>1
    <2>3. s.hostname = h
        BY DEF Openvpn
    <2>. QED BY <2>2, <2>3
<1>. HIDE DEF found, servers
<1>5. Keeps(servers, counts)
    BY <1>3, <1>4, NamesOf DEF Keeps
<1>6. Sound("surfshark", servers, counts)
    BY <1>2, <1>3, <1>5 DEF Sound, CountsLess
<1>. HIDE DEF counts
<1>. QED BY <1>1, <1>6 DEF Fetches

\* protonvpn: an address is two servers, and counted as two.
LEMMA ProtonvpnSound ==
    ASSUME NEW src, IsSource(src)
    PROVE  Fetches("protonvpn", src)
<1>. DEFINE hosts == HostsOf(Taken(src))
            sets == {ProtonvpnHost(e) : e \in Taken(src)}
            servers == UNION sets
            counts == {N(src.entries), 2 * N(hosts)}
<1>1. \A min : FetchServers("protonvpn", src, min) = Checked(counts, min, servers)
    BY FetchIs DEF ProtonvpnServers, IsSource
<1>2. IsFiniteSet(Taken(src)) /\ IsFiniteSet(hosts) /\ N(hosts) \in Nat /\ counts \subseteq Nat
    BY SourceCounts
<1>3. IsFiniteSet(servers)
    <2>. DEFINE f == [e \in Taken(src) |-> ProtonvpnHost(e)]
    <2>1. \A set \in sets : \E e \in Taken(src) : set = f[e]
        OBVIOUS
    <2>2. \A set \in sets : IsFiniteSet(set)
        <3>1. \A e : IsFiniteSet(ProtonvpnHost(e))
            BY OneOrTwo DEF ProtonvpnHost
        <3>. QED BY <3>1
    <2>. HIDE DEF f, sets
    <2>3. IsFiniteSet(sets)
        BY <1>2, <2>1, MadeOf
    <2>. QED BY <2>2, <2>3, FS_UNION
<1>4. 2 * N(hosts) <= N(servers)
    <2>. DEFINE f == [s \in servers |-> <<s.hostname, IF s.vpn = "openvpn" THEN 1 ELSE 2>>]
                pairs == hosts \X (1..2)
    <2>1. ASSUME NEW h \in hosts, NEW k \in 1..2 PROVE \E s \in servers : <<h, k>> = f[s]
        <3>1. PICK e \in Taken(src) : h = e.host
            BY DEF HostsOf
        <3>2. ProtonvpnHost(e) \subseteq servers
            OBVIOUS
        <3>3. CASE k = 1
            <4>. DEFINE s == Openvpn(e.host, TRUE, TRUE, TRUE)
            <4>1. s \in servers
                BY <3>2 DEF ProtonvpnHost
            <4>2. s.hostname = h /\ s.vpn = "openvpn"
                BY <3>1 DEF Openvpn
            <4>. HIDE DEF s, servers
            <4>. QED BY <3>3, <4>1, <4>2
        <3>4. CASE k = 2
            <4>. DEFINE s == Wireguard(e.host, e.state # "bare", TRUE)
            <4>1. s \in servers
                BY <3>2 DEF ProtonvpnHost
            <4>2. s.hostname = h /\ s.vpn # "openvpn"
                BY <3>1 DEF Wireguard
            <4>. HIDE DEF s, servers
            <4>. QED BY <3>4, <4>1, <4>2
        <3>5. k = 1 \/ k = 2
            OBVIOUS
        <3>. QED BY <3>3, <3>4, <3>5
    <2>. HIDE DEF f, servers, hosts
    <2>2. \A p \in pairs : \E s \in servers : p = f[s]
        BY <2>1
    <2>3. IsFiniteSet(1..2) /\ N(1..2) = 2
        BY UpTo
    <2>4. N(pairs) = N(hosts) * 2
        BY <1>2, <2>3, FS_Product DEF N
    <2>. HIDE DEF pairs
    <2>5. N(pairs) <= N(servers)
        BY <1>3, <2>2, MadeOf
    <2>. QED BY <1>2, <2>4, <2>5
<1>. HIDE DEF servers, hosts
<1>5. Keeps(servers, counts)
    BY <1>4 DEF Keeps
<1>6. Sound("protonvpn", servers, counts)
    BY <1>2, <1>3, <1>5 DEF Sound, CountsLess
<1>. HIDE DEF counts
<1>. QED BY <1>1, <1>6 DEF Fetches

\* No host has the name that a file without one is given.
OwnNames(src) == \A e, d \in src.entries : e.host # <<"no host", d>>

\* privatevpn: a file without a host name is a server of its own.
LEMMA PrivatevpnSound ==
    ASSUME NEW src, IsSource(src), OwnNames(src)
    PROVE  Fetches("privatevpn", src)
<1>. DEFINE without == {e \in Taken(src) : e.state = "bare"}
            hosts == HostsOf(Taken(src) \ without)
            found == hosts \cap src.resolved
            own == {<<"no host", e>> : e \in without}
            names == found \cup own
            servers == {PrivatevpnHost(h) : h \in names}
            counts == {N(src.entries), N(without) + N(hosts), N(without) + N(found)}
<1>1. \A min : FetchServers("privatevpn", src, min) = Checked(counts, min, servers)
    BY FetchIs DEF PrivatevpnServers
<1>2. found \cap own = {}
    BY DEF HostsOf, Taken, OwnNames
<1>3. /\ IsFiniteSet(without) /\ N(without) \in Nat /\ IsFiniteSet(hosts) /\ N(hosts) \in Nat
      /\ N(src.entries) \in Nat /\ N(without) + N(hosts) <= N(src.entries)
    <2>. DEFINE taken == Taken(src)
    <2>1. IsFiniteSet(taken) /\ N(taken) \in Nat /\ N(src.entries) \in Nat /\ N(taken) <= N(src.entries)
        BY SourceCounts
    <2>2. without \subseteq taken /\ without = taken \cap without
        OBVIOUS
    <2>. HIDE DEF without, taken
    <2>3. IsFiniteSet(without) /\ N(without) \in Nat /\ IsFiniteSet(taken \ without)
        BY <2>1, <2>2, PartOf
    <2>4. N(taken \ without) = N(taken) - N(without)
        <3>1. Cardinality(taken \ without) = Cardinality(taken) - Cardinality(taken \cap without)
            BY <2>1, FS_Difference
        <3>. QED BY <2>2, <3>1 DEF N
    <2>5. IsFiniteSet(hosts) /\ N(hosts) \in Nat /\ N(hosts) <= N(taken \ without)
        BY <2>3, HostsAre DEF taken
    <2>6. \A a, b, x, y \in Nat : a <= x - y /\ x <= b => y + a <= b
        OBVIOUS
    <2>. HIDE DEF hosts
    <2>7. N(without) + N(hosts) <= N(src.entries)
        BY <2>1, <2>3, <2>4, <2>5, <2>6
    <2>. QED BY <2>1, <2>3, <2>5, <2>7
<1>4. IsFiniteSet(own) /\ N(own) \in Nat /\ N(own) = N(without)
    <2>. DEFINE f == [e \in without |-> <<"no host", e>>]
                g == [p \in own |-> p[2]]
    <2>1. \A p \in own : \E e \in without : p = f[e]
        OBVIOUS
    <2>2. \A e \in without : \E p \in own : e = g[p]
        <3>. SUFFICES ASSUME NEW e \in without PROVE \E p \in own : e = g[p]
            OBVIOUS
        <3>1. <<"no host", e>> \in own
            OBVIOUS
        <3>2. g[<<"no host", e>>] = e
            BY <3>1
        <3>. QED BY <3>1, <3>2
    <2>3. IsFiniteSet(without) /\ N(without) \in Nat
        BY <1>3
    <2>. HIDE DEF f, g, own, without
    <2>4. IsFiniteSet(own) /\ N(own) \in Nat /\ N(own) <= N(without)
        BY <2>1, <2>3, MadeOf
    <2>5. N(without) <= N(own)
        BY <2>2, <2>4, MadeOf
    <2>. QED BY <2>3, <2>4, <2>5
<1>. HIDE DEF without, own, hosts
<1>5. IsFiniteSet(found) /\ N(found) \in Nat /\ N(found) <= N(hosts)
    BY <1>3, Resolve
<1>. HIDE DEF found
<1>6. IsFiniteSet(names) /\ N(names) = N(found) + N(own)
    <2>1. IsFiniteSet(names) /\ N(names) = N(found) + N(own) - N(found \cap own)
        BY <1>4, <1>5, FS_Union DEF N
    <2>2. N(found \cap own) = 0
        BY <1>2, FS_EmptySet DEF N
    <2>3. \A x, y \in Nat : x + y - 0 = x + y
        OBVIOUS
    <2>. HIDE DEF names
    <2>. QED BY <1>4, <1>5, <2>1, <2>2, <2>3
<1>7. counts \subseteq Nat /\ N(names) \in counts /\ \A k \in counts : N(names) <= k
    <2>1. \A a, b, x, y \in Nat :
              b <= a /\ x + a <= y => b + x \in {y, x + a, x + b} /\ \A k \in {y, x + a, x + b} : k \in Nat /\ b + x <= k
        OBVIOUS
    <2>2. N(names) = N(found) + N(without)
        BY <1>4, <1>6
    <2>. HIDE DEF names
    <2>3. \A k \in counts : k \in Nat /\ N(names) <= k
        BY <1>3, <1>5, <2>1, <2>2
    <2>4. N(names) \in counts
        BY <1>3, <1>5, <2>1, <2>2
    <2>. QED BY <2>3, <2>4
<1>. HIDE DEF names, counts
<1>8. Sound("privatevpn", servers, counts)
    <2>. DEFINE g == [h \in names |-> PrivatevpnHost(h)]
    <2>1. (\A s \in servers : \E h \in names : s = g[h]) /\ \A h \in names : g[h] \in servers /\ g[h].hostname = h
        BY DEF PrivatevpnHost, Openvpn
    <2>. HIDE DEF g, servers
    <2>. QED BY <1>6, <1>7, <2>1, EachSound
<1>. HIDE DEF servers
<1>. QED BY <1>1, <1>8 DEF Fetches

\* A server of entries takes the protocols they list for its host.
Takes(s, entries) == \A protocol \in {"tcp", "udp"} : s[protocol] = Has(entries, s.hostname, protocol)

\* hostToServer takes the protocols of the entries.
LEMMA HostServerTakes ==
    ASSUME NEW entries, NEW h
    PROVE  Takes(HostServer(entries, h), entries)
<1>. DEFINE s == HostServer(entries, h)
<1>1. s.hostname = h /\ s["tcp"] = Has(entries, h, "tcp") /\ s["udp"] = Has(entries, h, "udp")
    BY DEF HostServer, Openvpn
<1>. HIDE DEF s
<1>. QED BY <1>1 DEF Takes, s

\* What Checked gives is among the servers.
LEMMA CheckedAre ==
    ASSUME NEW counts, NEW min, NEW servers, NEW s \in Checked(counts, min, servers).servers
    PROVE  s \in servers
BY DEF Checked, NotEnough

\* A server of a zip file of configurations takes those of its entries.
LEMMA ZipTakes ==
    ASSUME NEW src, NEW min, NEW server, \A h \in HostsOf(Taken(src)) : server[h] = HostServer(Taken(src), h),
           NEW s \in ZipServers(src, min, server).servers
    PROVE  Takes(s, Taken(src))
<1>. DEFINE hosts == HostsOf(Taken(src))
            found == hosts \cap src.resolved
            servers == {server[h] : h \in found}
            counts == {N(src.entries), N(hosts), N(found)}
<1>1. s \in Checked(counts, min, servers).servers
    BY DEF ZipServers
<1>2. s \in servers
    <2>. HIDE DEF servers, counts
    <2>. QED BY <1>1, CheckedAre
<1>3. PICK h \in hosts : s = HostServer(Taken(src), h)
    BY <1>2
<1>. QED BY <1>3, HostServerTakes

\* So does one of each of these providers.
LEMMA GiganewsTakes ==
    ASSUME NEW src, NEW s \in GiganewsServers(src, 0).servers
    PROVE  Takes(s, Taken(src))
<1>. DEFINE server == [h \in HostsOf(Taken(src)) |-> GiganewsHost(Taken(src), h)]
<1>1. \A h \in HostsOf(Taken(src)) : server[h] = HostServer(Taken(src), h)
    BY DEF GiganewsHost
<1>2. s \in ZipServers(src, 0, server).servers
    BY DEF GiganewsServers
<1>. HIDE DEF server
<1>. QED BY <1>1, <1>2, ZipTakes

\* Vyprvpn.
LEMMA VyprvpnTakes ==
    ASSUME NEW src, NEW s \in VyprvpnServers(src, 0).servers
    PROVE  Takes(s, Taken(src))
<1>. DEFINE server == [h \in HostsOf(Taken(src)) |-> VyprvpnHost(Taken(src), h)]
<1>1. \A h \in HostsOf(Taken(src)) : server[h] = HostServer(Taken(src), h)
    BY DEF VyprvpnHost
<1>2. s \in ZipServers(src, 0, server).servers
    BY DEF VyprvpnServers
<1>. HIDE DEF server
<1>. QED BY <1>1, <1>2, ZipTakes

\* Ipvanish.
LEMMA IpvanishTakes ==
    ASSUME NEW src, NEW s \in IpvanishServers(src, 0).servers
    PROVE  Takes(s, Taken(src))
<1>. DEFINE server == [h \in HostsOf(Taken(src)) |-> IpvanishHost(Taken(src), h)]
<1>1. \A h \in HostsOf(Taken(src)) : server[h] = HostServer(Taken(src), h)
    BY DEF IpvanishHost
<1>2. s \in ZipServers(src, 0, server).servers
    BY DEF IpvanishServers
<1>. HIDE DEF server
<1>. QED BY <1>1, <1>2, ZipTakes

\* Purevpn.
LEMMA PurevpnTakes ==
    ASSUME NEW src, NEW s \in PurevpnServers(src, 0).servers
    PROVE  Takes(s, Taken(src))
<1>. DEFINE server == [h \in HostsOf(Taken(src)) |-> PurevpnHost(Taken(src), h)]
<1>1. \A h \in HostsOf(Taken(src)) : server[h] = HostServer(Taken(src), h)
    BY DEF PurevpnHost
<1>2. s \in ZipServers(src, 0, server).servers
    BY DEF PurevpnServers
<1>. HIDE DEF server
<1>. QED BY <1>1, <1>2, ZipTakes

\* HideMyAss: from two lists.
LEMMA HidemyassTakes ==
    ASSUME NEW src, NEW s \in HidemyassServers(src, 0).servers
    PROVE  Takes(s, src.entries)
<1>. DEFINE found == HostsOf(src.entries) \cap src.resolved
            servers == {HostServer(src.entries, h) : h \in found}
            counts == {N(HostsOf(src.entries)), N(found)}
<1>1. s \in Checked(counts, 0, servers).servers
    BY DEF HidemyassServers
<1>2. s \in servers
    <2>. HIDE DEF servers, counts
    <2>. QED BY <1>1, CheckedAre
<1>. HIDE DEF found
<1>3. PICK h \in found : s = HostServer(src.entries, h)
    BY <1>2
<1>. QED BY <1>3, HostServerTakes

\* Private Internet Access: by the names of the regions.
LEMMA PIATakes ==
    ASSUME NEW src, NEW s \in PIAServers(src, 0).servers
    PROVE  Takes(s, Taken(src))
<1>. DEFINE found == HostsOf({e \in Taken(src) : e.tcp \/ e.udp})
            servers == {PIAHost(Taken(src), h) : h \in found}
            counts == {N(found)}
<1>1. s \in Checked(counts, 0, servers).servers
    BY DEF PIAServers
<1>2. s \in servers
    <2>. HIDE DEF servers, counts
    <2>. QED BY <1>1, CheckedAre
<1>. HIDE DEF found
<1>3. PICK h \in found : s = HostServer(Taken(src), h)
    BY <1>2 DEF PIAHost
<1>. QED BY <1>3, HostServerTakes

\* Torguard.
LEMMA TorguardTakes ==
    ASSUME NEW src, NEW s \in TorguardServers(src, 0).servers
    PROVE  Takes(s, Taken(src))
<1>. DEFINE found == HostsOf(Taken(src))
            servers == {TorguardHost(Taken(src), h) : h \in found}
            counts == {N(found), N(found \cap src.resolved)}
<1>1. s \in Checked(counts, 0, servers).servers
    BY DEF TorguardServers
<1>2. s \in servers
    <2>. HIDE DEF servers, counts
    <2>. QED BY <1>1, CheckedAre
<1>. HIDE DEF found
<1>3. PICK h \in found : s = HostServer(Taken(src), h)
    BY <1>2 DEF TorguardHost
<1>. QED BY <1>3, HostServerTakes

\* FastestVPN: of the OpenVPN server of a host.
LEMMA FastestvpnTakes ==
    ASSUME NEW src, NEW s \in FastestvpnServers(src, 0).servers, s.vpn = "openvpn"
    PROVE  Takes(s, src.entries)
<1>. DEFINE found == HostsOf(src.entries) \cap src.resolved
            servers == UNION {FastestvpnHost(src.entries, h) : h \in found}
<1>1. s \in Checked({N(servers)}, 0, servers).servers
    BY DEF FastestvpnServers
<1>2. s \in servers
    <2>. HIDE DEF servers
    <2>. QED BY <1>1, CheckedAre
<1>. HIDE DEF found
<1>3. PICK h \in found : s \in FastestvpnHost(src.entries, h)
    BY <1>2
<1>4. Wireguard(h, TRUE, TRUE).vpn # "openvpn"
    BY DEF Wireguard
<1>5. s = HostServer(src.entries, h)
    BY <1>3, <1>4 DEF FastestvpnHost
<1>. QED BY <1>5, HostServerTakes

\* ProtocolsKept of any source, of each provider.
LEMMA ProtocolsOf ==
    ASSUME NEW src, IsSource(src), NEW provider \in SayProtocols, NEW s \in FetchServers(provider, src, 0).servers,
           s.vpn = "openvpn"
    PROVE  Takes(s, Listed(provider, src))
<1>1. CASE provider = "fastestvpn"
    BY <1>1, FetchIs, FastestvpnTakes DEF Listed
<1>2. CASE provider = "giganews"
    BY <1>2, FetchIs, GiganewsTakes DEF Listed
<1>3. CASE provider = "hidemyass"
    BY <1>3, FetchIs, HidemyassTakes DEF Listed
<1>4. CASE provider = "ipvanish"
    BY <1>4, FetchIs, IpvanishTakes DEF Listed
<1>5. CASE provider = "private internet access"
    BY <1>5, FetchIs, PIATakes DEF Listed
<1>6. CASE provider = "purevpn"
    BY <1>6, FetchIs, PurevpnTakes DEF Listed
<1>7. CASE provider = "torguard"
    BY <1>7, FetchIs, TorguardTakes DEF Listed
<1>8. CASE provider = "vyprvpn"
    BY <1>8, FetchIs, VyprvpnTakes DEF Listed
<1>. QED BY <1>1, <1>2, <1>3, <1>4, <1>5, <1>6, <1>7, <1>8 DEF SayProtocols

\* Every provider, then, and any source.
LEMMA FetchesOf ==
    ASSUME NEW src, IsSource(src), OwnNames(src), NEW provider \in AllWithCustom \ {"custom"},
           provider = "ivpn" => N(src.entries) <= 2
    PROVE  Fetches(provider, src)
<1>1. CASE provider = "airvpn"
    BY <1>1, AirvpnSound
<1>2. CASE provider = "cyberghost"
    BY <1>2, CyberghostSound
<1>3. CASE provider = "expressvpn"
    BY <1>3, ExpressvpnSound
<1>4. CASE provider = "fastestvpn"
    BY <1>4, FastestvpnSound
<1>5. CASE provider = "giganews"
    BY <1>5, GiganewsSound
<1>6. CASE provider = "hidemyass"
    BY <1>6, HidemyassSound
<1>7. CASE provider = "ipvanish"
    BY <1>7, IpvanishSound
<1>8. CASE provider = "ivpn"
    BY <1>8, IvpnSound
<1>9. CASE provider = "mullvad"
    BY <1>9, MullvadSound
<1>10. CASE provider = "nordvpn"
    BY <1>10, NordvpnSound
<1>11. CASE provider = "perfect privacy"
    BY <1>11, PerfectPrivacySound
<1>12. CASE provider = "privado"
    BY <1>12, PrivadoSound
<1>13. CASE provider = "private internet access"
    BY <1>13, PIASound
<1>14. CASE provider = "privatevpn"
    BY <1>14, PrivatevpnSound
<1>15. CASE provider = "protonvpn"
    BY <1>15, ProtonvpnSound
<1>16. CASE provider = "purevpn"
    BY <1>16, PurevpnSound
<1>17. CASE provider = "slickvpn"
    BY <1>17, SlickvpnSound
<1>18. CASE provider = "surfshark"
    BY <1>18, SurfsharkSound
<1>19. CASE provider = "torguard"
    BY <1>19, TorguardSound
<1>20. CASE provider = "vpnsecure"
    BY <1>20, VPNSecureSound
<1>21. CASE provider = "vpn unlimited"
    BY <1>21, VPNUnlimitedSound
<1>22. CASE provider = "vyprvpn"
    BY <1>22, VyprvpnSound
<1>23. CASE provider = "windscribe"
    BY <1>23, WindscribeSound
<1>. QED BY <1>1, <1>2, <1>3, <1>4, <1>5, <1>6, <1>7, <1>8, <1>9, <1>10, <1>11, <1>12, <1>13, <1>14, <1>15, <1>16, <1>17, <1>18, <1>19, <1>20, <1>21, <1>22, <1>23 DEF AllWithCustom

\* UpdateProvider, with what is fetched given.
LEMMA UpdateIs ==
    ASSUME NEW src, NEW provider, NEW existing, NEW min, MinServers(80, N(existing)) = min, NEW fetched,
           FetchServers(provider, src, min) = fetched
    PROVE  UpdateProvider(provider, existing, src, 80) =
               IF fetched.result # "found" THEN [result |-> fetched.result, servers |-> existing]
               ELSE IF \E s \in fetched.servers : ~HasMinimumInformation(s) THEN [result |-> "error", servers |-> existing]
               ELSE [result |-> "updated", servers |-> fetched.servers]
BY DEF UpdateProvider

\* An update of a provider that succeeds has enough servers.
LEMMA NotFewerOf ==
    ASSUME NEW src, NEW provider, Fetches(provider, src), provider \notin CountsMore, NEW used \in Nat,
           UpdateProvider(provider, 1..used, src, 80).result = "updated"
    PROVE  N(UpdateProvider(provider, 1..used, src, 80).servers) >= MinServers(80, used)
<1>. DEFINE min == MinServers(80, used)
            fetched == FetchServers(provider, src, min)
<1>1. MinServers(80, N(1..used)) = min /\ min \in Nat
    BY UpTo DEF MinServers
<1>. DEFINE update == UpdateProvider(provider, 1..used, src, 80)
<1>a. update = IF fetched.result # "found" THEN [result |-> fetched.result, servers |-> 1..used]
               ELSE IF \E s \in fetched.servers : ~HasMinimumInformation(s) THEN [result |-> "error", servers |-> 1..used]
               ELSE [result |-> "updated", servers |-> fetched.servers]
    BY <1>1, UpdateIs
<1>b. fetched = Unreached \/ \E servers, counts : Sound(provider, servers, counts) /\ fetched = Checked(counts, min, servers)
    BY DEF Fetches
<1>. HIDE DEF min, fetched, update
<1>c. fetched.result \in {"found", "error", "not enough"}
    <2>1. \A counts, least, servers : Checked(counts, least, servers).result \in {"found", "not enough"}
        BY DEF Checked, NotEnough
    <2>2. Unreached.result = "error"
        BY DEF Unreached
    <2>. QED BY <1>b, <2>1, <2>2
<1>2. fetched.result = "found" /\ update.servers = fetched.servers
    <2>1. update.result = "updated"
        BY DEF update
    <2>. QED BY <1>a, <1>c, <2>1
<1>3. PICK servers, counts : Sound(provider, servers, counts) /\ fetched = Checked(counts, min, servers)
    BY <1>b, <1>2 DEF Unreached
<1>4. fetched.servers = servers /\ \A k \in counts : ~(k < min)
    BY <1>2, <1>3 DEF Checked, NotEnough
<1>5. PICK k \in counts : k \in Nat /\ k <= N(servers)
    BY <1>3 DEF Sound, Keeps
<1>6. N(servers) \in Nat
    BY <1>3, PartOf DEF Sound
<1>. QED BY <1>1, <1>2, <1>4, <1>5, <1>6 DEF min, update

\* The servers of an update that succeeded are enough when they are fetched again.
LEMMA SameAccepted ==
    ASSUME NEW src, NEW provider, Fetches(provider, src), provider \notin CountsLess
    PROVE  Refetched(provider, src).result # "not enough"
<1>. DEFINE first == UpdateProvider(provider, {}, src, 80)
            again == UpdateProvider(provider, first.servers, src, 80)
<1>1. CASE \A min : FetchServers(provider, src, min) = Unreached
    <2>1. MinServers(80, N({})) = 0
        BY FS_EmptySet DEF N, MinServers
    <2>2. first.result = "error"
        BY <1>1, <2>1, UpdateIs DEF Unreached
    <2>. QED BY <2>2 DEF Refetched
<1>2. CASE \E servers, counts :
              Sound(provider, servers, counts) /\ \A min : FetchServers(provider, src, min) = Checked(counts, min, servers)
    <2>1. PICK servers, counts :
              Sound(provider, servers, counts) /\ \A min : FetchServers(provider, src, min) = Checked(counts, min, servers)
        BY <1>2
    <2>2. MinServers(80, N({})) = 0
        BY FS_EmptySet DEF N, MinServers
    <2>3. FetchServers(provider, src, 0) = [result |-> "found", servers |-> servers]
        <3>1. \A k \in counts : ~(k < 0)
            BY <2>1 DEF Sound
        <3>. QED BY <2>1, <3>1 DEF Checked
    <2>4. CASE \E s \in servers : ~HasMinimumInformation(s)
        <3>1. first.result = "error"
            BY <2>2, <2>3, <2>4 DEF UpdateProvider
        <3>. QED BY <3>1 DEF Refetched
    <2>5. CASE \A s \in servers : HasMinimumInformation(s)
        <3>1. first.result = "updated" /\ first.servers = servers
            BY <2>2, <2>3, <2>5 DEF UpdateProvider
        <3>2. \A k \in counts : ~(k < MinServers(80, N(servers)))
            <4>1. N(servers) \in Nat
                BY <2>1, PartOf DEF Sound
            <4>2. \A k \in counts : k \in Nat /\ MinServers(80, N(servers)) <= k
                BY <2>1, <2>5 DEF Sound, Finds
            <4>3. MinServers(80, N(servers)) \in Nat
                BY <4>1 DEF MinServers
            <4>. QED BY <4>2, <4>3
        <3>3. FetchServers(provider, src, MinServers(80, N(servers))) = [result |-> "found", servers |-> servers]
            BY <2>1, <3>2 DEF Checked
        <3>4. again.result = "updated"
            BY <2>5, <3>1, <3>3 DEF UpdateProvider
        <3>. QED BY <3>1, <3>4 DEF Refetched
    <2>. QED BY <2>4, <2>5
<1>. QED BY <1>1, <1>2 DEF Fetches

\* A fetch of any provider but IVPN, from a source of any size: no fewer servers than the
\* ratio asks of those in use, however many they are, and those it stored are found again
\* (updateProvider and the FetchServers of each provider).
THEOREM AnySource ==
    ASSUME NEW src, IsSource(src), OwnNames(src), NEW provider \in AllWithCustom \ {"custom", "ivpn"}
    PROVE  /\ provider \notin CountsMore =>
                  \A used \in Nat :
                      LET updated == UpdateProvider(provider, 1..used, src, 80) IN
                      updated.result = "updated" => N(updated.servers) >= MinServers(80, used)
           /\ provider \notin CountsLess => Refetched(provider, src).result # "not enough"
<1>1. Fetches(provider, src)
    BY FetchesOf
<1>2. ASSUME provider \notin CountsMore, NEW used \in Nat, UpdateProvider(provider, 1..used, src, 80).result = "updated"
      PROVE  N(UpdateProvider(provider, 1..used, src, 80).servers) >= MinServers(80, used)
    BY <1>1, <1>2, NotFewerOf
<1>3. ASSUME provider \notin CountsLess PROVE Refetched(provider, src).result # "not enough"
    BY <1>1, <1>3, SameAccepted
<1>. QED BY <1>2, <1>3

\* Every provider is tried.
LEMMA TriedOf ==
    ASSUME NEW n \in 1..3, NEW results \in [1..n -> Outcomes], NEW cancelled \in 0..3, Len(results) = 1 \/ cancelled = 3
    PROVE  LET done == UpdateServers(results, cancelled) IN
           done.tried = Len(results) /\ (done.error => Len(results) = 1)
<1>. DEFINE Stops(i) == /\ results[i] \notin {"updated", "no credentials"}
                        /\ Len(results) = 1 \/ i > cancelled
            stops == {i \in DOMAIN results : Stops(i)}
            first == CHOOSE i \in stops : \A j \in stops : i <= j
<1>1. Len(results) = n /\ DOMAIN results = 1..n
    OBVIOUS
<1>2. UpdateServers(results, cancelled) =
          IF stops = {} THEN [tried |-> Len(results), error |-> FALSE] ELSE [tried |-> first, error |-> TRUE]
    BY DEF UpdateServers
<1>3. CASE stops = {}
    <2>1. UpdateServers(results, cancelled) = [tried |-> Len(results), error |-> FALSE]
        BY <1>2, <1>3
    <2>. QED BY <2>1
<1>4. CASE stops # {}
    <2>1. n = 1
        <3>1. PICK i \in 1..n : Len(results) = 1 \/ i > cancelled
            BY <1>1, <1>4
        <3>. QED BY <1>1, <3>1
    <2>2. stops = {1}
        <3>1. stops \subseteq {1}
            <4>1. stops \subseteq DOMAIN results
                OBVIOUS
            <4>. HIDE DEF stops
            <4>. QED BY <1>1, <2>1, <4>1
        <3>. HIDE DEF stops
        <3>. QED BY <1>4, <3>1
    <2>3. first = 1
        <3>. HIDE DEF stops
        <3>. QED BY <2>2
    <2>. HIDE DEF stops, first
    <2>. QED BY <1>1, <1>2, <1>4, <2>1, <2>3
<1>. QED BY <1>3, <1>4

\* The host of one of a set of entries.
LEMMA HostOf ==
    ASSUME NEW hosts, NEW protocols, NEW states, NEW e,
           e \in {[host |-> h, tcp |-> p[1], udp |-> p[2], wg |-> p[3], state |-> st] :
                     h \in hosts, p \in protocols, st \in states}
    PROVE  e.host \in hosts
BY SMT

\* One of a set of pairs, or nothing.
LEMMA PairOf ==
    ASSUME NEW set, NEW entries \in {{e, d} : e, d \in set} \cup {{}}
    PROVE  entries = {} \/ \E e \in set, d \in set : entries = {e, d}
OBVIOUS

\* The entries a source lists.
LEMMA ListingsAre ==
    ASSUME NEW entries \in Listings
    PROVE  entries = {} \/ \E e \in Entries, d \in Entries : entries = {e, d}
BY PairOf DEF Listings

\* Each source that is picked is one.
LEMMA SourcesAre ==
    ASSUME NEW entries \in Listings, NEW resolved
    PROVE  /\ IsSource(Source(entries, resolved)) /\ OwnNames(Source(entries, resolved))
           /\ N(Source(entries, resolved).entries) <= 2
<1>1. IsFiniteSet(entries) /\ N(entries) <= 2
    <2>1. CASE entries = {}
        BY <2>1, FS_EmptySet DEF N
    <2>2. CASE entries # {}
        <3>1. PICK a \in Entries, b \in Entries : entries = {a, b}
            BY <2>2, ListingsAre
        <3>2. entries = {a} \cup {b}
            BY <3>1
        <3>3. IsFiniteSet({a}) /\ IsFiniteSet({b}) /\ N({a}) = 1 /\ N({b}) = 1
            BY FS_Singleton DEF N
        <3>. QED BY <3>2, <3>3, Together
    <2>. QED BY <2>1, <2>2
<1>2. entries \subseteq Entries
    BY ListingsAre
<1>3. \A e \in Entries : e.host \in Hosts
    BY HostOf DEF Entries
<1>4. \A e, d \in entries : e.host # <<"no host", d>>
    BY <1>2, <1>3, HostsAssumption, Zenon
<1>. DEFINE src == Source(entries, resolved)
<1>5. src.entries = entries /\ src.reached = TRUE /\ src.credentials = TRUE
    BY DEF Source
<1>. HIDE DEF src
<1>6. IsSource(src)
    BY <1>1, <1>5 DEF IsSource
<1>7. OwnNames(src)
    BY <1>4, <1>5, Zenon DEF OwnNames
<1>. QED BY <1>1, <1>5, <1>6, <1>7 DEF src

\* The servers of a source that is picked are kept.
LEMMA KeptOf ==
    ASSUME PickSource
    PROVE  ServersKept'
<1>1. PICK provider \in AllWithCustom \ {"custom"}, entries \in Listings,
           failing \in SUBSET Hosts :
           \E resolved \in Resolved(provider, entries, failing) :
               input' = [kind |-> "source", provider |-> provider, src |-> Source(entries, resolved)]
    BY DEF PickSource
<1>2. PICK resolved : input' = [kind |-> "source", provider |-> provider, src |-> Source(entries, resolved)]
    BY <1>1
<1>. DEFINE src == Source(entries, resolved)
<1>3. IsSource(src) /\ OwnNames(src) /\ N(src.entries) <= 2
    BY SourcesAre
<1>. HIDE DEF src
<1>4. input'.kind = "source" /\ input'.provider = provider /\ input'.src = src
    BY <1>2 DEF src
<1>5. Fetches(provider, src)
    BY <1>3, FetchesOf
<1>6. NotFewer'
    <2>1. ASSUME provider \notin CountsMore, NEW used \in 0..5,
                 UpdateProvider(provider, 1..used, src, 80).result = "updated"
          PROVE  N(UpdateProvider(provider, 1..used, src, 80).servers) >= MinServers(80, used)
        BY <1>5, <2>1, NotFewerOf
    <2>. QED BY <1>4, <2>1, Zenon DEF NotFewer
<1>7. SameServersAccepted'
    <2>1. ASSUME provider \notin CountsLess PROVE Refetched(provider, src).result # "not enough"
        BY <1>5, <2>1, SameAccepted, Zenon
    <2>. QED BY <1>4, <2>1, Zenon DEF SameServersAccepted
<1>8. ProtocolsKept'
    <2>1. ASSUME provider \in SayProtocols, NEW s \in FetchServers(provider, src, 0).servers, s.vpn = "openvpn"
          PROVE  \A protocol \in {"tcp", "udp"} : s[protocol] = Has(Listed(provider, src), s.hostname, protocol)
        BY <1>3, <2>1, ProtocolsOf DEF Takes
    <2>. QED BY <1>4, <2>1 DEF ProtocolsKept
<1>9. EachTried'
    BY <1>4 DEF EachTried
<1>. QED BY <1>6, <1>7, <1>8, <1>9 DEF ServersKept

\* Each provider is tried whatever the results of the others.
LEMMA TriedOfResults ==
    ASSUME PickResults
    PROVE  ServersKept'
<1>1. PICK n \in 1..3 : \E results \in [1..n -> Outcomes], cancelled \in 0..3 :
          input' = [kind |-> "results", results |-> results, cancelled |-> cancelled]
    BY DEF PickResults
<1>2. PICK results \in [1..n -> Outcomes], cancelled \in 0..3 :
          input' = [kind |-> "results", results |-> results, cancelled |-> cancelled]
    BY <1>1
<1>3. input'.kind = "results" /\ input'.results = results /\ input'.cancelled = cancelled
    BY <1>2
<1>4. ASSUME Len(results) = 1 \/ cancelled = 3
      PROVE  LET done == UpdateServers(results, cancelled) IN
             done.tried = Len(results) /\ (done.error => Len(results) = 1)
    BY <1>4, TriedOf
<1>5. EachTried'
    BY <1>3, <1>4 DEF EachTried
<1>6. NotFewer' /\ SameServersAccepted' /\ ProtocolsKept'
    BY <1>3 DEF NotFewer, SameServersAccepted, ProtocolsKept
<1>. QED BY <1>5, <1>6 DEF ServersKept

\* An input of another kind has no servers.
LEMMA OtherKinds ==
    /\ input.kind \notin {"source", "results"} => ServersKept
    /\ input'.kind \notin {"source", "results"} => ServersKept'
<1>1. input.kind \notin {"source", "results"} => ServersKept
    BY DEF ServersKept, NotFewer, SameServersAccepted, ProtocolsKept, EachTried
<1>2. input'.kind \notin {"source", "results"} => ServersKept'
    BY DEF ServersKept, NotFewer, SameServersAccepted, ProtocolsKept, EachTried
<1>. QED BY <1>1, <1>2

\* The same input keeps its servers.
LEMMA KeptSame ==
    ASSUME ServersKept, UNCHANGED input
    PROVE  ServersKept'
<1>1. NotFewer'
    BY DEF ServersKept, NotFewer
<1>2. SameServersAccepted'
    BY DEF ServersKept, SameServersAccepted
<1>3. ProtocolsKept'
    BY DEF ServersKept, ProtocolsKept
<1>4. EachTried'
    BY DEF ServersKept, EachTried
<1>. QED BY <1>1, <1>2, <1>3, <1>4 DEF ServersKept

\* Whatever the hosts and their entries: an update that succeeds has as many servers as the
\* ratio asks, finds those it stored again, keeps the protocols of a host, and a provider that
\* fails does not keep the others from being tried (ServersKept).
THEOREM NoServersLost == MCSpec => []ServersKept
<1>1. MCInit => ServersKept
    <2>1. MCInit => input.kind \notin {"source", "results"}
        BY DEF MCInit, Init, Unpicked, Server
    <2>. QED BY <2>1, OtherKinds
<1>2. ServersKept /\ [MCNext]_<<input, c>> => ServersKept'
    <2>. SUFFICES ASSUME ServersKept, [MCNext]_<<input, c>> PROVE ServersKept'
        OBVIOUS
    <2>1. CASE PickSource
        BY <2>1, KeptOf
    <2>2. CASE PickResults
        BY <2>2, TriedOfResults
    <2>3. CASE PickEnv \/ PickFile \/ PickUpdate \/ PickDNS \/ PickSection \/ PickRetro
        <3>1. input'.kind \notin {"source", "results"}
            <4>1. CASE PickEnv
                BY <4>1 DEF PickEnv
            <4>2. CASE PickFile
                BY <4>2 DEF PickFile
            <4>3. CASE PickUpdate
                BY <4>3 DEF PickUpdate
            <4>4. CASE PickDNS
                BY <4>4 DEF PickDNS
            <4>5. CASE PickSection
                BY <4>5 DEF PickSection
            <4>6. CASE PickRetro
                BY <4>6 DEF PickRetro
            <4>. QED BY <2>3, <4>1, <4>2, <4>3, <4>4, <4>5, <4>6
        <3>. QED BY <3>1, OtherKinds
    <2>4. CASE UNCHANGED input
        BY <2>4, KeptSame
    <2>. QED BY <2>1, <2>2, <2>3, <2>4 DEF MCNext, Next
<1>. QED BY <1>1, <1>2, PTL DEF MCSpec

(***************************************************************************)
(* Settings that were validated connect or err, and the configuration      *)
(* that is written names one server.                                       *)
(*                                                                         *)
(* The lines of a custom file first. Selected is a loop over the lines,    *)
(* and Whole says of a sequence of lines which directives it has and that  *)
(* each is there once: joining two sequences that share none keeps it.     *)
(***************************************************************************)

\* A function selects from the first n elements of a sequence, one by one.
SelectsTo(f, q, set, n) ==
    f = [k \in 0..n |-> IF k = 0 THEN <<>> ELSE IF q[k] \in set THEN Append(f[k - 1], q[k]) ELSE f[k - 1]]

\* There is one for every number of elements.
LEMMA SelectingExists ==
    ASSUME NEW q, NEW set
    PROVE  \A n \in Nat : \E f : SelectsTo(f, q, set, n)
<1>. DEFINE S == {n \in Nat : \E f : SelectsTo(f, q, set, n)}
            Next_(before, k) == IF q[k] \in set THEN Append(before, q[k]) ELSE before
<1>1. 0 \in S
    <2>. DEFINE f == [k \in 0..0 |-> <<>>]
    <2>1. SelectsTo(f, q, set, 0)
        BY DEF SelectsTo
    <2>. QED BY <2>1
<1>2. ASSUME NEW n \in Nat, n \in S PROVE n + 1 \in S
    <2>1. PICK f : f = [k \in 0..n |-> IF k = 0 THEN <<>> ELSE Next_(f[k - 1], k)]
        BY <1>2 DEF SelectsTo
    <2>. DEFINE g == [k \in 0..(n + 1) |-> IF k <= n THEN f[k] ELSE Next_(f[n], n + 1)]
    <2>. HIDE DEF Next_
    <2>2. ASSUME NEW k \in 0..(n + 1)
          PROVE  g[k] = IF k = 0 THEN <<>> ELSE Next_(g[k - 1], k)
        <3>1. CASE k = 0
            BY <3>1, <2>1
        <3>2. CASE k \in 1..n
            <4>1. k \in 0..n /\ k - 1 \in 0..n /\ k - 1 \in 0..(n + 1) /\ k # 0
                BY <3>2
            <4>2. f[k] = Next_(f[k - 1], k)
                BY <4>1, <2>1
            <4>3. g[k] = f[k] /\ g[k - 1] = f[k - 1]
                BY <4>1
            <4>. QED BY <4>1, <4>2, <4>3
        <3>3. CASE k = n + 1
            <4>1. g[k] = Next_(f[n], n + 1) /\ g[k - 1] = f[n] /\ k # 0
                BY <3>3
            <4>. QED BY <4>1, <3>3
        <3>. QED BY <3>1, <3>2, <3>3
    <2>3. g = [k \in 0..(n + 1) |-> g[k]]
        OBVIOUS
    <2>. HIDE DEF g
    <2>4. g = [k \in 0..(n + 1) |-> IF k = 0 THEN <<>> ELSE Next_(g[k - 1], k)]
        BY <2>2, <2>3
    <2>5. SelectsTo(g, q, set, n + 1)
        BY <2>4 DEF SelectsTo, Next_
    <2>. QED BY <2>5
<1>3. \A n \in Nat : n \in S
    <2>. HIDE DEF S
    <2>. QED BY <1>1, <1>2, CountingUp
<1>. QED BY <1>3

\* Selected is what such a function gives.
LEMMA SelectedIs ==
    ASSUME NEW q, Len(q) \in Nat, NEW set
    PROVE  \E f : SelectsTo(f, q, set, Len(q)) /\ Selected(q, set) = f[Len(q)]
<1>. DEFINE Is(f) == SelectsTo(f, q, set, Len(q))
<1>1. \E f : Is(f)
    BY SelectingExists
<1>2. Selected(q, set) = (CHOOSE f : Is(f))[Len(q)]
    BY DEF Selected, SelectsTo
<1>. HIDE DEF Is
<1>3. Is(CHOOSE f : Is(f))
    BY <1>1
<1>. QED BY <1>2, <1>3 DEF Is

\* What is selected is of the sequence and in the set, the first of them first.
Selection(result, q, set, n) ==
    /\ result \in Seq(Values(q))
    /\ \A i \in 1..Len(result) : result[i] \in set
    /\ (\A k \in 1..n : q[k] \notin set) => result = <<>>
    /\ \A m \in 1..n :
          /\ q[m] \in set
          /\ \A k \in 1..n : k < m => q[k] \notin set
          => /\ Len(result) >= 1 /\ result[1] = q[m]
             /\ (\A k \in 1..n : k # m => q[k] \notin set) => result = <<q[m]>>

\* One element more of the sequence keeps what is selected of it.
LEMMA SelectionGrows ==
    ASSUME NEW q, q \in Seq(Values(q)), NEW set, NEW n \in 1..Len(q), NEW before, Selection(before, q, set, n - 1)
    PROVE  Selection(IF q[n] \in set THEN Append(before, q[n]) ELSE before, q, set, n)
<1>. DEFINE line == q[n]
<1>1. line \in Values(q) /\ before \in Seq(Values(q)) /\ Len(before) \in Nat
    BY DEF Selection
<1>2. \A k \in 1..n : k = n \/ k \in 1..(n - 1)
    OBVIOUS
<1>3. CASE q[n] \in set
    <2>. DEFINE more == Append(before, line)
    <2>1. more \in Seq(Values(q)) /\ Len(more) = Len(before) + 1
          /\ (\A i \in 1..Len(before) : more[i] = before[i]) /\ more[Len(before) + 1] = line
        BY <1>1
    <2>2. before = <<>> => more = <<line>>
        OBVIOUS
    <2>. HIDE DEF more
    <2>3. \A i \in 1..Len(more) : i \in 1..Len(before) \/ i = Len(before) + 1
        BY <2>1, <1>1
    <2>4. \A i \in 1..Len(more) : more[i] \in set
        BY <2>1, <2>3, <1>3 DEF Selection
    <2>5. ~ \A k \in 1..n : q[k] \notin set
        BY <1>3
    <2>6. ASSUME NEW m \in 1..n, q[m] \in set, \A k \in 1..n : k < m => q[k] \notin set
          PROVE  /\ Len(more) >= 1 /\ more[1] = q[m]
                 /\ (\A k \in 1..n : k # m => q[k] \notin set) => more = <<q[m]>>
        <3>1. CASE m = n
            <4>1. \A k \in 1..(n - 1) : q[k] \notin set
                BY <2>6, <3>1
            <4>2. before = <<>>
                BY <4>1 DEF Selection
            <4>3. Len(before) = 0
                BY <4>2
            <4>. QED BY <2>1, <2>2, <3>1, <4>2, <4>3
        <3>2. CASE m \in 1..(n - 1)
            <4>1. \A k \in 1..(n - 1) : k < m => q[k] \notin set
                BY <2>6
            <4>2. Len(before) >= 1 /\ before[1] = q[m]
                BY <2>6, <3>2, <4>1 DEF Selection
            <4>3. ~ \A k \in 1..n : k # m => q[k] \notin set
                BY <1>3, <3>2
            <4>4. Len(more) >= 1 /\ more[1] = before[1]
                BY <1>1, <2>1, <4>2
            <4>. QED BY <4>2, <4>3, <4>4
        <3>. QED BY <3>1, <3>2, <1>2
    <2>7. Selection(more, q, set, n)
        BY <2>1, <2>4, <2>5, <2>6 DEF Selection
    <2>. QED BY <2>7, <1>3 DEF more
<1>4. CASE q[n] \notin set
    <2>1. (\A k \in 1..n : q[k] \notin set) => before = <<>>
        BY DEF Selection
    <2>2. ASSUME NEW m \in 1..n, q[m] \in set, \A k \in 1..n : k < m => q[k] \notin set
          PROVE  /\ Len(before) >= 1 /\ before[1] = q[m]
                 /\ (\A k \in 1..n : k # m => q[k] \notin set) => before = <<q[m]>>
        <3>1. m \in 1..(n - 1)
            BY <2>2, <1>4, <1>2
        <3>2. \A k \in 1..(n - 1) : k \in 1..n
            OBVIOUS
        <3>. QED BY <2>2, <3>1, <3>2 DEF Selection
    <2>3. \A i \in 1..Len(before) : before[i] \in set
        BY DEF Selection
    <2>4. Selection(before, q, set, n)
        BY <1>1, <2>1, <2>2, <2>3 DEF Selection
    <2>. QED BY <2>4, <1>4
<1>. QED BY <1>3, <1>4

\* Selected takes what is in the set, in order, and nothing else.
LEMMA SelectedFrom ==
    ASSUME NEW q, q \in Seq(Values(q)), NEW set
    PROVE  Selection(Selected(q, set), q, set, Len(q))
<1>. DEFINE Grown(before, n) == IF q[n] \in set THEN Append(before, q[n]) ELSE before
<1>1. Len(q) \in Nat
    OBVIOUS
<1>2. PICK f : SelectsTo(f, q, set, Len(q)) /\ Selected(q, set) = f[Len(q)]
    BY <1>1, SelectedIs
<1>3. \A k \in 0..Len(q) : f[k] = IF k = 0 THEN <<>> ELSE Grown(f[k - 1], k)
    BY <1>2 DEF SelectsTo
<1>. DEFINE S == {n \in Nat : n <= Len(q) => Selection(f[n], q, set, n)}
<1>. HIDE DEF Grown
<1>4. 0 \in S
    <2>1. f[0] = <<>>
        BY <1>1, <1>3
    <2>2. <<>> \in Seq(Values(q)) /\ 1..Len(<<>>) = {} /\ 1..0 = {}
        OBVIOUS
    <2>3. Selection(<<>>, q, set, 0)
        BY <2>2 DEF Selection
    <2>. QED BY <2>1, <2>3
<1>5. ASSUME NEW n \in Nat, n \in S PROVE n + 1 \in S
    <2>1. ASSUME n + 1 <= Len(q)
          PROVE  Selection(f[n + 1], q, set, n + 1)
        <3>1. n + 1 \in 1..Len(q) /\ n + 1 \in 0..Len(q) /\ (n + 1) - 1 = n /\ n <= Len(q)
            BY <1>1, <2>1
        <3>2. Selection(f[n], q, set, (n + 1) - 1)
            BY <1>5, <3>1
        <3>3. Selection(Grown(f[n], n + 1), q, set, n + 1)
            BY <3>1, <3>2, SelectionGrows DEF Grown
        <3>4. f[n + 1] = Grown(f[n], n + 1)
            BY <1>3, <3>1
        <3>. QED BY <3>3, <3>4
    <2>. QED BY <2>1
<1>6. Len(q) \in S
    <2>. HIDE DEF S
    <2>. QED BY <1>1, <1>4, <1>5, CountingUp
<1>. QED BY <1>1, <1>2, <1>6

\* Of the directives of a set, a sequence of lines has only those of heads, and one line of each at most.
Whole(q, set, heads) ==
    /\ q \in Seq(Values(q))
    /\ \A i \in 1..Len(q) : q[i][1] \in set => q[i][1] \in heads
    /\ \A i, j \in 1..Len(q) : q[i][1] = q[j][1] /\ q[i][1] \in set => i = j

\* The lines of two sequences, one after the other.
LEMMA ValuesJoined ==
    ASSUME NEW a, NEW b, a \in Seq(Values(a)), b \in Seq(Values(b))
    PROVE  /\ Values(a \o b) = Values(a) \cup Values(b)
           /\ a \o b \in Seq(Values(a \o b))
           /\ Len(a \o b) = Len(a) + Len(b)
           /\ \A i \in 1..Len(a) : (a \o b)[i] = a[i]
           /\ \A i \in 1..Len(b) : (a \o b)[Len(a) + i] = b[i]
<1>. DEFINE All == Values(a) \cup Values(b)  q == a \o b
<1>1. a \in Seq(All) /\ b \in Seq(All) /\ Len(a) \in Nat /\ Len(b) \in Nat
    OBVIOUS
<1>2. q \in Seq(All) /\ Len(q) = Len(a) + Len(b) /\ DOMAIN q = 1..Len(q)
      /\ DOMAIN a = 1..Len(a) /\ DOMAIN b = 1..Len(b)
    <2>. HIDE DEF All
    <2>. QED BY <1>1
<1>3. /\ \A i \in 1..Len(a) : q[i] = a[i]
      /\ \A i \in 1..Len(b) : q[Len(a) + i] = b[i]
    <2>. HIDE DEF All
    <2>. QED BY <1>1
<1>. HIDE DEF q
<1>4. ASSUME NEW i \in 1..Len(q) PROVE q[i] \in All
    BY <1>2
<1>5. ASSUME NEW x \in Values(a) PROVE x \in Values(q)
    <2>1. PICK i \in 1..Len(a) : x = a[i]
        BY <1>2 DEF Values
    <2>2. i \in 1..Len(q) /\ q[i] = x
        BY <1>1, <1>2, <1>3, <2>1
    <2>. QED BY <1>2, <2>2 DEF Values
<1>6. ASSUME NEW x \in Values(b) PROVE x \in Values(q)
    <2>1. PICK i \in 1..Len(b) : x = b[i]
        BY <1>2 DEF Values
    <2>2. Len(a) + i \in 1..Len(q) /\ q[Len(a) + i] = x
        BY <1>1, <1>2, <1>3, <2>1
    <2>. QED BY <1>2, <2>2 DEF Values
<1>7. Values(q) = All
    <2>1. ASSUME NEW x \in Values(q) PROVE x \in All
        BY <1>2, <1>4 DEF Values
    <2>. QED BY <2>1, <1>5, <1>6
<1>8. q \in Seq(Values(q))
    BY <1>2, <1>7
<1>. QED BY <1>2, <1>3, <1>7, <1>8 DEF q

\* Two sequences of lines, joined, have the lines of both.
LEMMA Joins ==
    ASSUME NEW a, NEW b, NEW set, NEW left, NEW right, Whole(a, set, left), Whole(b, set, right), left \cap right = {}
    PROVE  Whole(a \o b, set, left \cup right)
<1>. DEFINE q == a \o b
<1>1. a \in Seq(Values(a)) /\ b \in Seq(Values(b)) /\ Len(a) \in Nat /\ Len(b) \in Nat
    BY DEF Whole
<1>2. /\ q \in Seq(Values(q)) /\ Len(q) = Len(a) + Len(b)
      /\ \A i \in 1..Len(a) : q[i] = a[i]
      /\ \A i \in 1..Len(b) : q[Len(a) + i] = b[i]
    BY <1>1, ValuesJoined
<1>. HIDE DEF q
<1>3. \A i \in 1..Len(q) : i \in 1..Len(a) \/ (i - Len(a) \in 1..Len(b) /\ Len(a) + (i - Len(a)) = i)
    BY <1>1, <1>2
<1>4. \A i \in 1..Len(a) : q[i][1] \in set => q[i][1] \in left
    BY <1>2 DEF Whole
<1>5. \A i \in 1..Len(q) : i - Len(a) \in 1..Len(b) /\ q[i][1] \in set => q[i][1] \in right
    <2>. SUFFICES ASSUME NEW i \in 1..Len(q), i - Len(a) \in 1..Len(b), q[i][1] \in set PROVE q[i][1] \in right
        OBVIOUS
    <2>1. Len(a) + (i - Len(a)) = i
        BY <1>1
    <2>2. q[i] = b[i - Len(a)]
        BY <1>2, <2>1
    <2>. QED BY <2>2 DEF Whole
<1>6. \A i \in 1..Len(q) : q[i][1] \in set => q[i][1] \in left \cup right
    BY <1>3, <1>4, <1>5
<1>7. ASSUME NEW i \in 1..Len(q), NEW j \in 1..Len(q), q[i][1] = q[j][1], q[i][1] \in set PROVE i = j
    <2>1. CASE i \in 1..Len(a) /\ j \in 1..Len(a)
        BY <2>1, <1>2, <1>7 DEF Whole
    <2>2. CASE i - Len(a) \in 1..Len(b) /\ j - Len(a) \in 1..Len(b)
        <3>1. q[i] = b[i - Len(a)] /\ q[j] = b[j - Len(a)]
            <4>1. q[Len(a) + (i - Len(a))] = b[i - Len(a)] /\ q[Len(a) + (j - Len(a))] = b[j - Len(a)]
                BY <1>2, <2>2
            <4>. QED BY <4>1, <1>1
        <3>2. i - Len(a) = j - Len(a)
            BY <2>2, <3>1, <1>7 DEF Whole
        <3>. QED BY <3>2, <1>1
    <2>3. CASE i \in 1..Len(a) /\ j - Len(a) \in 1..Len(b)
        BY <2>3, <1>4, <1>5, <1>7
    <2>4. CASE i - Len(a) \in 1..Len(b) /\ j \in 1..Len(a)
        BY <2>4, <1>4, <1>5, <1>7
    <2>. QED BY <1>3, <2>1, <2>2, <2>3, <2>4
<1>8. Whole(q, set, left \cup right)
    BY <1>2, <1>6, <1>7 DEF Whole
<1>. QED BY <1>8 DEF q

\* No line is one of each at most.
LEMMA NoLine ==
    ASSUME NEW set
    PROVE  Whole(<<>>, set, {})
BY DEF Whole

\* So is one line.
LEMMA OneLine ==
    ASSUME NEW line, NEW set
    PROVE  Whole(<<line>>, set, {line[1]})
<1>. DEFINE q == <<line>>
<1>1. Len(q) = 1 /\ q[1] = line /\ DOMAIN q = 1..1
    OBVIOUS
<1>2. Values(q) = {line}
    BY <1>1 DEF Values
<1>3. q \in Seq({line})
    OBVIOUS
<1>. HIDE DEF q
<1>4. Whole(q, set, {line[1]})
    BY <1>1, <1>2, <1>3 DEF Whole
<1>. QED BY <1>4 DEF q

\* More directives may be said to be there.
LEMMA MoreHeads ==
    ASSUME NEW q, NEW set, NEW heads, NEW more, Whole(q, set, heads), heads \cap set \subseteq more
    PROVE  Whole(q, set, more)
BY DEF Whole

\* A directive that is not there.
LEMMA OfNone ==
    ASSUME NEW q, NEW set, NEW heads, Whole(q, set, heads), NEW d \in set, d \notin heads
    PROVE  Of(q, d) = <<>>
<1>. DEFINE lines == {line \in Values(q) : line[1] = d}
<1>1. q \in Seq(Values(q))
    BY DEF Whole
<1>2. \A k \in 1..Len(q) : q[k] \notin lines
    BY DEF Whole
<1>3. Of(q, d) = Selected(q, lines)
    BY DEF Of
<1>. HIDE DEF lines
<1>. QED BY <1>1, <1>2, <1>3, SelectedFrom DEF Selection

\* A directive that is there has the line it has.
LEMMA OfOnly ==
    ASSUME NEW q, NEW set, NEW heads, Whole(q, set, heads), NEW line \in Values(q), line[1] \in set
    PROVE  Of(q, line[1]) = <<line>>
<1>. DEFINE lines == {l \in Values(q) : l[1] = line[1]}
<1>1. q \in Seq(Values(q)) /\ DOMAIN q = 1..Len(q)
    BY DEF Whole
<1>2. PICK m \in 1..Len(q) : q[m] = line
    BY <1>1 DEF Values
<1>3. \A k \in 1..Len(q) : q[k] \in lines <=> k = m
    BY <1>1, <1>2 DEF Whole
<1>4. Of(q, line[1]) = Selected(q, lines)
    BY DEF Of
<1>. HIDE DEF lines
<1>5. Selected(q, lines) = <<q[m]>>
    BY <1>1, <1>3, SelectedFrom DEF Selection
<1>. QED BY <1>2, <1>4, <1>5

\* There is one line of each at most.
LEMMA OfAtMost ==
    ASSUME NEW q, NEW set, NEW heads, Whole(q, set, heads), NEW d \in set
    PROVE  Len(Of(q, d)) <= 1 /\ (d \in heads \/ Of(q, d) = <<>>)
<1>1. CASE \E line \in Values(q) : line[1] = d
    <2>1. PICK line \in Values(q) : line[1] = d
        BY <1>1
    <2>2. Of(q, d) = <<line>>
        BY <2>1, OfOnly
    <2>3. q \in Seq(Values(q)) /\ DOMAIN q = 1..Len(q)
        BY DEF Whole
    <2>4. d \in heads
        BY <2>1, <2>3 DEF Whole, Values
    <2>. QED BY <2>2, <2>4
<1>2. CASE ~ \E line \in Values(q) : line[1] = d
    <2>1. q \in Seq(Values(q)) /\ DOMAIN q = 1..Len(q)
        BY DEF Whole
    <2>2. Whole(q, set, heads \ {d})
        BY <1>2, <2>1 DEF Whole, Values
    <2>3. Of(q, d) = <<>>
        BY <2>2, OfNone
    <2>. QED BY <2>3
<1>. QED BY <1>1, <1>2

\* Lines of other directives.
LEMMA OtherLines ==
    ASSUME NEW q, q \in Seq(Values(q)), NEW set, \A i \in 1..Len(q) : q[i][1] \notin set
    PROVE  Whole(q, set, {})
BY DEF Whole

\* Two lines of different directives.
LEMMA TwoLines ==
    ASSUME NEW a, NEW b, NEW set, a[1] # b[1] \/ a[1] \notin set
    PROVE  /\ Whole(<<a, b>>, set, {a[1], b[1]})
           /\ a \in Values(<<a, b>>) /\ b \in Values(<<a, b>>)
<1>. DEFINE q == <<a, b>>
<1>1. Len(q) = 2 /\ q[1] = a /\ q[2] = b /\ DOMAIN q = 1..2
    OBVIOUS
<1>2. q \in Seq({a, b})
    OBVIOUS
<1>. HIDE DEF q
<1>3. Values(q) = {a, b}
    BY <1>1 DEF Values
<1>4. \A i \in 1..Len(q) : i = 1 \/ i = 2
    BY <1>1
<1>5. Whole(q, set, {a[1], b[1]})
    BY <1>1, <1>2, <1>3, <1>4 DEF Whole
<1>. QED BY <1>3, <1>5 DEF q

\* Three lines of different directives.
LEMMA ThreeLines ==
    ASSUME NEW a, NEW b, NEW d, NEW set, a[1] # b[1], a[1] # d[1], b[1] # d[1]
    PROVE  Whole(<<a, b, d>>, set, {a[1], b[1], d[1]})
<1>. DEFINE q == <<a, b, d>>
<1>1. Len(q) = 3 /\ q[1] = a /\ q[2] = b /\ q[3] = d /\ DOMAIN q = 1..3
    OBVIOUS
<1>2. q \in Seq({a, b, d})
    OBVIOUS
<1>. HIDE DEF q
<1>3. Values(q) = {a, b, d}
    <2>1. 1..3 = {1, 2, 3}
        OBVIOUS
    <2>. QED BY <1>1, <2>1 DEF Values
<1>4. \A i \in 1..Len(q) : i = 1 \/ i = 2 \/ i = 3
    BY <1>1
<1>5. Whole(q, set, {a[1], b[1], d[1]})
    BY <1>1, <1>2, <1>3, <1>4 DEF Whole
<1>. QED BY <1>5 DEF q

\* The lines that every file gets.
LEMMA FirstLines ==
    ASSUME NEW conn, NEW o, NEW set, "pull-filter" \notin set
    PROVE  LET q == <<<<"proto", conn.protocol>>, <<"remote", conn.ip, conn.port>>, <<"dev", The(o.Interface)>>,
                      <<"mute-replay-warnings">>, <<"auth-nocache">>, <<"pull-filter", "ignore", "auth-token">>,
                      <<"auth-retry", "nointeract">>, <<"suppress-timestamps">>>>
           IN  /\ Whole(q, set, {"proto", "remote", "dev", "mute-replay-warnings", "auth-nocache", "auth-retry",
                                 "suppress-timestamps"})
               /\ <<"proto", conn.protocol>> \in Values(q) /\ <<"remote", conn.ip, conn.port>> \in Values(q)
               /\ <<"dev", The(o.Interface)>> \in Values(q)
<1>. DEFINE proto == <<"proto", conn.protocol>>  remote == <<"remote", conn.ip, conn.port>>
            dev == <<"dev", The(o.Interface)>>  mute == <<"mute-replay-warnings">>
            cache == <<"auth-nocache">>  pull == <<"pull-filter", "ignore", "auth-token">>
            retry == <<"auth-retry", "nointeract">>  times == <<"suppress-timestamps">>
            q == <<proto, remote, dev, mute, cache, pull, retry, times>>
<1>1. /\ proto[1] = "proto" /\ remote[1] = "remote" /\ dev[1] = "dev" /\ mute[1] = "mute-replay-warnings"
      /\ cache[1] = "auth-nocache" /\ pull[1] = "pull-filter" /\ retry[1] = "auth-retry"
      /\ times[1] = "suppress-timestamps"
    OBVIOUS
<1>. HIDE DEF proto, remote, dev, mute, cache, pull, retry, times
<1>2. /\ Len(q) = 8 /\ q[1] = proto /\ q[2] = remote /\ q[3] = dev /\ q[4] = mute /\ q[5] = cache /\ q[6] = pull
      /\ q[7] = retry /\ q[8] = times /\ DOMAIN q = 1..8
    OBVIOUS
<1>3. q \in Seq({proto, remote, dev, mute, cache, pull, retry, times})
    OBVIOUS
<1>. HIDE DEF q
<1>4. \A i \in 1..8 : i = 1 \/ i = 2 \/ i = 3 \/ i = 4 \/ i = 5 \/ i = 6 \/ i = 7 \/ i = 8
    OBVIOUS
<1>5. /\ proto \in Values(q) /\ remote \in Values(q) /\ dev \in Values(q) /\ mute \in Values(q)
      /\ cache \in Values(q) /\ pull \in Values(q) /\ retry \in Values(q) /\ times \in Values(q)
    BY <1>2 DEF Values
<1>6. q \in Seq(Values(q))
    BY <1>3, <1>5
<1>7. \A i \in 1..8 : q[i][1] \in set => q[i][1] \in {"proto", "remote", "dev", "mute-replay-warnings",
                                 "auth-nocache", "auth-retry", "suppress-timestamps"}
    BY <1>1, <1>2, <1>4
<1>8. \A i, j \in 1..8 : q[i][1] = q[j][1] => i = j
    BY <1>1, <1>2, <1>4
<1>9. Whole(q, set, {"proto", "remote", "dev", "mute-replay-warnings", "auth-nocache", "auth-retry",
                     "suppress-timestamps"})
    BY <1>2, <1>6, <1>7, <1>8 DEF Whole
<1>. QED BY <1>5, <1>9 DEF q, proto, remote, dev, mute, cache, pull, retry, times

\* What a configuration made of a file holds: the lines of the connection, then those of the settings.
Holding(config, conn, o, set) ==
    /\ \E heads : Whole(config, set, heads) /\ "cipher" \notin heads
    /\ <<"proto", conn.protocol>> \in Values(config) /\ <<"remote", conn.ip, conn.port>> \in Values(config)
    /\ <<"dev", The(o.Interface)>> \in Values(config)
    /\ The(o.Auth) # Unset => <<"auth", The(o.Auth)>> \in Values(config)
    /\ The(o.MSSFix) > 0 => <<"mssfix", The(o.MSSFix)>> \in Values(config)
    /\ Given(o, "Ciphers") # <<>> => <<"data-ciphers", Given(o, "Ciphers")>> \in Values(config)

\* The lines of the ciphers name none of the server.
LEMMA CipherLinesAre ==
    ASSUME NEW ciphers, NEW set
    PROVE  /\ Whole(CipherLines(ciphers), set, {"data-ciphers-fallback", "data-ciphers"})
           /\ ciphers # <<>> => <<"data-ciphers", ciphers>> \in Values(CipherLines(ciphers))
<1>. DEFINE a == <<"data-ciphers-fallback", ciphers[1]>>  b == <<"data-ciphers", ciphers>>
<1>1. a[1] = "data-ciphers-fallback" /\ b[1] = "data-ciphers"
    OBVIOUS
<1>2. CipherLines(ciphers) = IF ciphers # <<>> THEN <<a, b>> ELSE <<>>
    BY DEF CipherLines, If
<1>. HIDE DEF a, b
<1>3. Whole(<<a, b>>, set, {"data-ciphers-fallback", "data-ciphers"}) /\ b \in Values(<<a, b>>)
    BY <1>1, TwoLines
<1>4. Whole(<<>>, set, {"data-ciphers-fallback", "data-ciphers"})
    BY NoLine DEF Whole
<1>5. CASE ciphers # <<>>
    BY <1>2, <1>3, <1>5 DEF b
<1>6. CASE ciphers = <<>>
    BY <1>2, <1>4, <1>6
<1>. QED BY <1>5, <1>6

\* A line that is there when a condition holds.
LEMMA LineIf ==
    ASSUME NEW line, NEW condition, NEW q, q = IF condition THEN <<line>> ELSE <<>>, NEW set
    PROVE  Whole(q, set, {line[1]}) /\ (condition => line \in Values(q))
<1>1. CASE condition
    <2>1. q = <<line>>
        BY <1>1
    <2>2. Whole(<<line>>, set, {line[1]})
        BY OneLine
    <2>3. line \in Values(<<line>>)
        BY DEF Values
    <2>. QED BY <2>1, <2>2, <2>3
<1>2. CASE ~ condition
    <2>1. Whole(<<>>, set, {line[1]})
        BY NoLine DEF Whole
    <2>. QED BY <1>2, <2>1
<1>. QED BY <1>1, <1>2

\* The lines of a user OpenVPN runs as.
LEMMA UserLines ==
    ASSUME NEW user, NEW set
    PROVE  Whole(If(user # "root", <<<<"user", user>>, <<"persist-tun">>, <<"persist-key">>>>), set,
                 {"user", "persist-tun", "persist-key"})
<1>. DEFINE a == <<"user", user>>  b == <<"persist-tun">>  d == <<"persist-key">>
            q == If(user # "root", <<a, b, d>>)
<1>1. a[1] = "user" /\ b[1] = "persist-tun" /\ d[1] = "persist-key"
    OBVIOUS
<1>2. q = IF user # "root" THEN <<a, b, d>> ELSE <<>>
    BY DEF If
<1>. HIDE DEF a, b, d, q
<1>3. Whole(<<a, b, d>>, set, {"user", "persist-tun", "persist-key"})
    BY <1>1, ThreeLines
<1>4. Whole(<<>>, set, {"user", "persist-tun", "persist-key"})
    BY NoLine DEF Whole
<1>5. Whole(q, set, {"user", "persist-tun", "persist-key"})
    BY <1>2, <1>3, <1>4
<1>. QED BY <1>5 DEF q, a, b, d

\* A custom configuration has one line of each directive the settings decide, theirs.
LEMMA CustomLines ==
    ASSUME NEW file, file \in Seq(Lines), NEW conn, NEW o, NEW ipv6 \in BOOLEAN
    PROVE  Holding(CustomConfig(file, conn, o, ipv6), conn, o, ({"remote", "proto", "dev"} \cup Decided(o)) \cap WithArgument)
<1>. DEFINE set == ({"remote", "proto", "dev"} \cup Decided(o)) \cap WithArgument
            kept == {line \in Values(file) : ~Replaced(line, o, ipv6)}
            ofFile == Selected(file, kept)
            always == <<<<"proto", conn.protocol>>, <<"remote", conn.ip, conn.port>>, <<"dev", The(o.Interface)>>,
                      <<"mute-replay-warnings">>, <<"auth-nocache">>, <<"pull-filter", "ignore", "auth-token">>,
                      <<"auth-retry", "nointeract">>, <<"suppress-timestamps">>>>
            login == If(The(o.User) # Unset, <<<<"auth-user-pass", "file">>>>)
            verb == <<<<"verb", The(o.Verbosity)>>>>
            ciphers == CipherLines(Given(o, "Ciphers"))
            auth == If(The(o.Auth) # Unset, <<<<"auth", The(o.Auth)>>>>)
            mssfix == If(The(o.MSSFix) > 0, <<<<"mssfix", The(o.MSSFix)>>>>)
            six == If(~ipv6, <<<<"pull-filter", "ignore", "route-ipv6">>, <<"pull-filter", "ignore", "ifconfig-ipv6">>>>)
            user == If(The(o.ProcessUser) # "root", <<<<"user", The(o.ProcessUser)>>, <<"persist-tun">>, <<"persist-key">>>>)
            Always == {"proto", "remote", "dev", "mute-replay-warnings", "auth-nocache", "auth-retry",
                       "suppress-timestamps"}
<1>1. CustomConfig(file, conn, o, ipv6)
      = ofFile \o always \o login \o verb \o ciphers \o auth \o mssfix \o six \o user
    BY DEF CustomConfig
<1>2. set \subseteq WithArgument /\ "pull-filter" \notin set
    BY DEF WithArgument
<1>3. Whole(ofFile, set, {})
    <2>1. file \in Seq(Values(file))
        BY DEF Values
    <2>2. /\ ofFile \in Seq(Values(file))
          /\ \A i \in 1..Len(ofFile) : ofFile[i] \in kept
        BY <2>1, SelectedFrom DEF Selection
    <2>3. ASSUME NEW line \in kept PROVE line[1] \notin set
        <3>1. line \in Lines /\ ~Replaced(line, o, ipv6)
            BY <2>1 DEF Values
        <3>2. ASSUME line[1] \in set PROVE FALSE
            <4>1. Len(line) > 1
                BY <1>2, <3>1, <3>2, LinesAssumption
            <4>2. line[1] \in Own \cup Decided(o)
                BY <3>2 DEF Own
            <4>. QED BY <3>1, <4>1, <4>2 DEF Replaced
        <3>. QED BY <3>2
    <2>. HIDE DEF kept, ofFile, set
    <2>3a. \A i \in 1..Len(ofFile) : ofFile[i][1] \notin set
        BY <2>2, <2>3
    <2>4. ofFile \in Seq(Values(ofFile))
        BY <2>2 DEF Values
    <2>. QED BY <2>3a, <2>4, OtherLines
<1>4. Whole(always, set, Always) /\ <<"proto", conn.protocol>> \in Values(always)
      /\ <<"remote", conn.ip, conn.port>> \in Values(always) /\ <<"dev", The(o.Interface)>> \in Values(always)
    <2>. HIDE DEF set
    <2>. QED BY <1>2, FirstLines
<1>5. Whole(login, set, {"auth-user-pass"})
    <2>1. <<"auth-user-pass", "file">>[1] = "auth-user-pass"
        OBVIOUS
    <2>2. login = IF The(o.User) # Unset THEN <<<<"auth-user-pass", "file">>>> ELSE <<>>
        BY DEF If
    <2>. HIDE DEF login, set
    <2>. QED BY <2>1, <2>2, LineIf
<1>6. Whole(verb, set, {"verb"})
    <2>1. <<"verb", The(o.Verbosity)>>[1] = "verb"
        OBVIOUS
    <2>. HIDE DEF set
    <2>. QED BY <2>1, OneLine
<1>7. Whole(ciphers, set, {"data-ciphers-fallback", "data-ciphers"})
      /\ (Given(o, "Ciphers") # <<>> => <<"data-ciphers", Given(o, "Ciphers")>> \in Values(ciphers))
    <2>. HIDE DEF set
    <2>. QED BY CipherLinesAre
<1>8. Whole(auth, set, {"auth"}) /\ (The(o.Auth) # Unset => <<"auth", The(o.Auth)>> \in Values(auth))
    <2>1. <<"auth", The(o.Auth)>>[1] = "auth"
        OBVIOUS
    <2>2. auth = IF The(o.Auth) # Unset THEN <<<<"auth", The(o.Auth)>>>> ELSE <<>>
        BY DEF If
    <2>. HIDE DEF auth, set
    <2>. QED BY <2>1, <2>2, LineIf
<1>9. Whole(mssfix, set, {"mssfix"}) /\ (The(o.MSSFix) > 0 => <<"mssfix", The(o.MSSFix)>> \in Values(mssfix))
    <2>1. <<"mssfix", The(o.MSSFix)>>[1] = "mssfix"
        OBVIOUS
    <2>2. mssfix = IF The(o.MSSFix) > 0 THEN <<<<"mssfix", The(o.MSSFix)>>>> ELSE <<>>
        BY DEF If
    <2>. HIDE DEF mssfix, set
    <2>. QED BY <2>1, <2>2, LineIf
<1>10. Whole(six, set, {})
    <2>. DEFINE a == <<"pull-filter", "ignore", "route-ipv6">>  b == <<"pull-filter", "ignore", "ifconfig-ipv6">>
    <2>1. a[1] = "pull-filter" /\ b[1] = "pull-filter"
        OBVIOUS
    <2>2. six = IF ~ipv6 THEN <<a, b>> ELSE <<>>
        BY DEF If
    <2>. HIDE DEF a, b, six, set
    <2>3. Whole(<<a, b>>, set, {"pull-filter"})
        BY <1>2, <2>1, TwoLines
    <2>4. Whole(<<a, b>>, set, {})
        BY <1>2, <2>3, MoreHeads
    <2>. QED BY <2>2, <2>4, NoLine
<1>11. Whole(user, set, {"user", "persist-tun", "persist-key"})
    <2>. HIDE DEF set
    <2>. QED BY UserLines
<1>. HIDE DEF set, ofFile, always, login, verb, ciphers, auth, mssfix, six, user
<1>. DEFINE q2 == ofFile \o always  q3 == q2 \o login  q4 == q3 \o verb  q5 == q4 \o ciphers  q6 == q5 \o auth
            q7 == q6 \o mssfix  q8 == q7 \o six  q9 == q8 \o user
            H3 == Always \cup {"auth-user-pass"}  H4 == H3 \cup {"verb"}
            H5 == H4 \cup {"data-ciphers-fallback", "data-ciphers"}  H6 == H5 \cup {"auth"}  H7 == H6 \cup {"mssfix"}
            H9 == H7 \cup {"user", "persist-tun", "persist-key"}
<1>12. {} \cup Always = Always /\ {} \cap Always = {}
    OBVIOUS
<1>13. Whole(q2, set, Always)
    <2>. HIDE DEF Always
    <2>. QED BY <1>3, <1>4, <1>12, Joins
<1>14. Whole(q3, set, H3)
    <2>1. Always \cap {"auth-user-pass"} = {}
        OBVIOUS
    <2>. HIDE DEF Always, q2
    <2>. QED BY <1>13, <1>5, <2>1, Joins
<1>15. Whole(q4, set, H4)
    <2>1. H3 \cap {"verb"} = {}
        OBVIOUS
    <2>. HIDE DEF H3, q3
    <2>. QED BY <1>14, <1>6, <2>1, Joins
<1>16. Whole(q5, set, H5)
    <2>1. H4 \cap {"data-ciphers-fallback", "data-ciphers"} = {}
        OBVIOUS
    <2>. HIDE DEF H4, q4
    <2>. QED BY <1>15, <1>7, <2>1, Joins
<1>17. Whole(q6, set, H6)
    <2>1. H5 \cap {"auth"} = {}
        OBVIOUS
    <2>. HIDE DEF H5, q5
    <2>. QED BY <1>16, <1>8, <2>1, Joins
<1>18. Whole(q7, set, H7)
    <2>1. H6 \cap {"mssfix"} = {}
        OBVIOUS
    <2>. HIDE DEF H6, q6
    <2>. QED BY <1>17, <1>9, <2>1, Joins
<1>19. Whole(q8, set, H7)
    <2>1. H7 \cap {} = {} /\ H7 \cup {} = H7
        OBVIOUS
    <2>. HIDE DEF H7, q7
    <2>. QED BY <1>18, <1>10, <2>1, Joins
<1>20. Whole(q9, set, H9)
    <2>1. H7 \cap {"user", "persist-tun", "persist-key"} = {}
        OBVIOUS
    <2>. HIDE DEF H7, q8
    <2>. QED BY <1>19, <1>11, <2>1, Joins
<1>21. "cipher" \notin H9
    OBVIOUS
<1>22. /\ Values(always) \subseteq Values(q9) /\ Values(ciphers) \subseteq Values(q9)
       /\ Values(auth) \subseteq Values(q9) /\ Values(mssfix) \subseteq Values(q9)
    <2>1. Values(q2) = Values(ofFile) \cup Values(always)
        BY <1>3, <1>4, ValuesJoined DEF Whole
    <2>. HIDE DEF q2, H3, H4, H5, H6, H7, H9, Always
    <2>2. Values(q3) = Values(q2) \cup Values(login)
        BY <1>13, <1>5, ValuesJoined DEF Whole
    <2>. HIDE DEF q3
    <2>3. Values(q4) = Values(q3) \cup Values(verb)
        BY <1>14, <1>6, ValuesJoined DEF Whole
    <2>. HIDE DEF q4
    <2>4. Values(q5) = Values(q4) \cup Values(ciphers)
        BY <1>15, <1>7, ValuesJoined DEF Whole
    <2>. HIDE DEF q5
    <2>5. Values(q6) = Values(q5) \cup Values(auth)
        BY <1>16, <1>8, ValuesJoined DEF Whole
    <2>. HIDE DEF q6
    <2>6. Values(q7) = Values(q6) \cup Values(mssfix)
        BY <1>17, <1>9, ValuesJoined DEF Whole
    <2>. HIDE DEF q7
    <2>7. Values(q8) = Values(q7) \cup Values(six)
        BY <1>18, <1>10, ValuesJoined DEF Whole
    <2>. HIDE DEF q8
    <2>8. Values(q9) = Values(q8) \cup Values(user)
        BY <1>19, <1>11, ValuesJoined DEF Whole
    <2>. HIDE DEF q9
    <2>. QED BY <2>1, <2>2, <2>3, <2>4, <2>5, <2>6, <2>7, <2>8
<1>23. CustomConfig(file, conn, o, ipv6) = q9
    BY <1>1
<1>. HIDE DEF q9, H9
<1>24. Holding(q9, conn, o, set)
    BY <1>4, <1>7, <1>8, <1>9, <1>20, <1>21, <1>22 DEF Holding
<1>. QED BY <1>23, <1>24 DEF set

\* What a line adds to what those before it said.
Learns(conn, line) ==
    LET d == ExtractLine(line) IN
    IF conn.ip = Bad \/ (conn.ip # Unset /\ conn.protocol # Unset) THEN conn
    ELSE IF LineFails(d) THEN [Nothing EXCEPT !.ip = Bad]
    ELSE UpdateEmptyWith(conn, d)

\* A function reads the first n lines of a file, one by one.
LearnsTo(f, lines, n) == f = [k \in 0..n |-> IF k = 0 THEN Nothing ELSE Learns(f[k - 1], lines[k])]

\* There is one for every number of lines.
LEMMA LearningExists ==
    ASSUME NEW lines
    PROVE  \A n \in Nat : \E f : LearnsTo(f, lines, n)
<1>. DEFINE S == {n \in Nat : \E f : LearnsTo(f, lines, n)}
<1>1. 0 \in S
    <2>. DEFINE f == [k \in 0..0 |-> Nothing]
    <2>1. LearnsTo(f, lines, 0)
        BY DEF LearnsTo
    <2>. QED BY <2>1
<1>2. ASSUME NEW n \in Nat, n \in S PROVE n + 1 \in S
    <2>1. PICK f : LearnsTo(f, lines, n)
        BY <1>2
    <2>. DEFINE g == [k \in 0..(n + 1) |-> IF k <= n THEN f[k] ELSE Learns(f[n], lines[n + 1])]
    <2>2. ASSUME NEW k \in 0..(n + 1)
          PROVE  g[k] = IF k = 0 THEN Nothing ELSE Learns(g[k - 1], lines[k])
        <3>1. CASE k = 0
            BY <3>1, <2>1 DEF LearnsTo
        <3>2. CASE k \in 1..n
            <4>1. k \in 0..n /\ k - 1 \in 0..n /\ k - 1 \in 0..(n + 1) /\ k # 0
                BY <3>2
            <4>2. f[k] = Learns(f[k - 1], lines[k])
                BY <4>1, <2>1 DEF LearnsTo
            <4>3. g[k] = f[k] /\ g[k - 1] = f[k - 1]
                BY <4>1
            <4>. QED BY <4>1, <4>2, <4>3
        <3>3. CASE k = n + 1
            <4>1. g[k] = Learns(f[n], lines[n + 1]) /\ g[k - 1] = f[n] /\ k # 0
                BY <3>3
            <4>. QED BY <4>1, <3>3
        <3>. QED BY <3>1, <3>2, <3>3
    <2>3. g = [k \in 0..(n + 1) |-> g[k]]
        OBVIOUS
    <2>. HIDE DEF g
    <2>4. LearnsTo(g, lines, n + 1)
        BY <2>2, <2>3 DEF LearnsTo
    <2>. QED BY <2>4
<1>3. \A n \in Nat : n \in S
    <2>. HIDE DEF S
    <2>. QED BY <1>1, <1>2, CountingUp
<1>. QED BY <1>3

\* What the whole file says.
Said(conn) ==
    LET protocol == IF conn.protocol = Unset THEN "udp" ELSE conn.protocol IN
    IF conn.ip \in {Unset, Bad} THEN Failed
    ELSE [result |-> "data", ip |-> conn.ip, protocol |-> protocol,
          port |-> IF conn.port # 0 THEN conn.port ELSE IF protocol = "tcp" THEN 443 ELSE 1194]

\* ExtractData learns from the lines in turn, then takes the defaults.
LEMMA ExtractedIs ==
    ASSUME NEW lines, Len(lines) \in Nat
    PROVE  \E f : LearnsTo(f, lines, Len(lines)) /\ ExtractData(lines) = Said(f[Len(lines)])
<1>. DEFINE Is(f) == f = [n \in 0..Len(lines) |->
                    IF n = 0 THEN Nothing
                    ELSE LET conn == f[n - 1]  d == ExtractLine(lines[n]) IN
                         IF conn.ip = Bad \/ (conn.ip # Unset /\ conn.protocol # Unset) THEN conn
                         ELSE IF LineFails(d) THEN [Nothing EXCEPT !.ip = Bad]
                         ELSE UpdateEmptyWith(conn, d)]
<1>1. \E f : Is(f)
    BY LearningExists DEF LearnsTo, Learns
<1>2. ExtractData(lines) = Said((CHOOSE f : Is(f))[Len(lines)])
    BY DEF ExtractData, Said
<1>. HIDE DEF Is
<1>3. Is(CHOOSE f : Is(f))
    BY <1>1
<1>4. LearnsTo(CHOOSE f : Is(f), lines, Len(lines))
    BY <1>3 DEF Is, LearnsTo, Learns
<1>. QED BY <1>2, <1>4

\* The first of the first n lines that names a server gives the address, unless the file fails.
FirstRemote(conn, lines, n) ==
    \/ conn.ip = Bad
    \/ conn.ip = Unset /\ \A k \in 1..n : lines[k][1] # "remote"
    \/ \E m \in 1..n : /\ lines[m][1] = "remote" /\ conn.ip = lines[m][2] /\ conn.ip # Unset
                       /\ \A k \in 1..n : k < m => lines[k][1] # "remote"

\* A line with an address that is not one fails.
LEMMA NoServer ==
    ASSUME NEW said, said.ip = Bad
    PROVE  LineFails(said)
<1>1. said.ip = Bad \/ said.protocol = Bad \/ said.port \notin 0..65535
    OBVIOUS
<1>. QED BY <1>1 DEF LineFails

\* A line says a server exactly if it is a remote.
LEMMA LineSays ==
    ASSUME NEW line \in Lines, ~ LineFails(ExtractLine(line))
    PROVE  ExtractLine(line).ip = IF line[1] = "remote" THEN line[2] ELSE Unset
<1>1. line[1] = "remote" => Len(line) > 1
    BY LinesAssumption DEF WithArgument
<1>2. CASE line[1] = "remote"
    <2>1. ExtractLine(line).ip = IF Len(line) <= 4 THEN line[2] ELSE Bad
        BY <1>1, <1>2 DEF ExtractLine
    <2>. DEFINE d == ExtractLine(line)
    <2>2. d.ip # Bad
        <3>1. ~ LineFails(d)
            OBVIOUS
        <3>. HIDE DEF d
        <3>. QED BY <3>1, NoServer
    <2>. QED BY <1>2, <2>1, <2>2
<1>3. CASE line[1] # "remote"
    <2>1. \A p : [Nothing EXCEPT !.protocol = p].ip = Unset /\ [Nothing EXCEPT !.port = p].ip = Unset
        BY DEF Nothing
    <2>2. Nothing.ip = Unset
        BY DEF Nothing
    <2>. QED BY <1>3, <2>1, <2>2 DEF ExtractLine
<1>. QED BY <1>2, <1>3

\* The next line keeps the first remote there was.
LEMMA RemoteKept ==
    ASSUME NEW lines \in Seq(Lines), NEW n \in 1..Len(lines), NEW conn, FirstRemote(conn, lines, n - 1)
    PROVE  FirstRemote(Learns(conn, lines[n]), lines, n)
<1>. DEFINE line == lines[n]  d == ExtractLine(line)
<1>1. line \in Lines /\ (line[1] = "remote" => line[2] # Unset)
    BY LinesAssumption
<1>2. \A k \in 1..n : k = n \/ k \in 1..(n - 1)
    OBVIOUS
<1>3. CASE conn.ip = Bad
    BY <1>3 DEF FirstRemote, Learns
<1>4. CASE conn.ip # Bad /\ conn.ip # Unset
    <2>1. PICK m \in 1..(n - 1) : lines[m][1] = "remote" /\ conn.ip = lines[m][2]
                                 /\ \A k \in 1..(n - 1) : k < m => lines[k][1] # "remote"
        BY <1>4 DEF FirstRemote
    <2>2. Learns(conn, line).ip \in {conn.ip, Bad}
        BY <1>4 DEF Learns, UpdateEmptyWith, Nothing
    <2>3. m \in 1..n /\ \A k \in 1..n : k < m => lines[k][1] # "remote"
        BY <2>1
    <2>. QED BY <1>4, <2>1, <2>2, <2>3 DEF FirstRemote
<1>5. CASE conn.ip = Unset /\ conn.ip # Bad
    <2>1. ASSUME NEW m \in 1..(n - 1), lines[m][1] = "remote" PROVE lines[m][2] # Unset
        <3>1. lines[m] \in Lines
            OBVIOUS
        <3>. QED BY <2>1, <3>1, LinesAssumption
    <2>2. \A k \in 1..(n - 1) : lines[k][1] # "remote"
        BY <1>5, <2>1 DEF FirstRemote
    <2>3. CASE LineFails(d)
        <3>1. Learns(conn, line).ip = Bad
            BY <1>5, <2>3 DEF Learns, Nothing
        <3>. QED BY <3>1 DEF FirstRemote
    <2>4. CASE ~ LineFails(d)
        <3>1. Learns(conn, line).ip = IF line[1] = "remote" THEN line[2] ELSE Unset
            BY <1>1, <1>5, <2>4, LineSays DEF Learns, UpdateEmptyWith
        <3>. QED BY <1>1, <1>2, <2>2, <3>1 DEF FirstRemote
    <2>. QED BY <2>3, <2>4
<1>. QED BY <1>3, <1>4, <1>5

\* The connection of a file is to its first server.
LEMMA ExtractedFirst ==
    ASSUME NEW lines \in Seq(Lines), ExtractData(lines) # Failed
    PROVE  \E m \in 1..Len(lines) :
               /\ lines[m][1] = "remote" /\ ExtractData(lines).ip = lines[m][2]
               /\ \A k \in 1..Len(lines) : k < m => lines[k][1] # "remote"
<1>1. Len(lines) \in Nat
    OBVIOUS
<1>2. PICK f : LearnsTo(f, lines, Len(lines)) /\ ExtractData(lines) = Said(f[Len(lines)])
    BY <1>1, ExtractedIs
<1>3. \A k \in 0..Len(lines) : f[k] = IF k = 0 THEN Nothing ELSE Learns(f[k - 1], lines[k])
    BY <1>2 DEF LearnsTo
<1>. DEFINE S == {n \in Nat : n <= Len(lines) => FirstRemote(f[n], lines, n)}
<1>4. 0 \in S
    <2>1. f[0] = Nothing
        BY <1>1, <1>3
    <2>2. FirstRemote(Nothing, lines, 0)
        BY DEF FirstRemote, Nothing
    <2>. QED BY <2>1, <2>2
<1>5. ASSUME NEW n \in Nat, n \in S PROVE n + 1 \in S
    <2>1. ASSUME n + 1 <= Len(lines)
          PROVE  FirstRemote(f[n + 1], lines, n + 1)
        <3>1. n + 1 \in 1..Len(lines) /\ n + 1 \in 0..Len(lines) /\ (n + 1) - 1 = n /\ n <= Len(lines)
            BY <1>1, <2>1
        <3>2. FirstRemote(f[n], lines, (n + 1) - 1)
            BY <1>5, <3>1
        <3>3. FirstRemote(Learns(f[n], lines[n + 1]), lines, n + 1)
            BY <3>1, <3>2, RemoteKept
        <3>4. f[n + 1] = Learns(f[n], lines[n + 1])
            BY <1>3, <3>1
        <3>. QED BY <3>3, <3>4
    <2>. QED BY <2>1
<1>6. FirstRemote(f[Len(lines)], lines, Len(lines))
    <2>1. Len(lines) \in S
        <3>. HIDE DEF S
        <3>. QED BY <1>1, <1>4, <1>5, CountingUp
    <2>. QED BY <1>1, <2>1
<1>. DEFINE conn == f[Len(lines)]
<1>7. ExtractData(lines) = Said(conn)
    BY <1>2
<1>. HIDE DEF conn
<1>8. conn.ip # Unset /\ conn.ip # Bad /\ Said(conn).ip = conn.ip
    BY <1>7 DEF Said
<1>. QED BY <1>6, <1>7, <1>8 DEF FirstRemote, conn

\* The first element selected is the first of the sequence that is to be.
LEMMA FirstSelected ==
    ASSUME NEW q, q \in Seq(Values(q)), NEW set, NEW m \in 1..Len(q), q[m] \in set,
           \A k \in 1..Len(q) : k < m => q[k] \notin set
    PROVE  Selected(q, set)[1] = q[m]
BY SelectedFrom DEF Selection

\* What the settings of a file are read and completed to.
LEMMA FileSettingsAre ==
    ASSUME NEW keys \in SUBSET CustomKeys, NEW env, env = Env(keys \cup FileKeys)
    PROVE  LET v == SetVPNDefaults(ReadVPN(env)) IN
           The(v.selection.VPN) = "openvpn" /\ The(v.selectionOpenVPN.CustomPort) \in Nat
<1>. DEFINE all_ == keys \cup FileKeys
            port == "OPENVPN_ENDPOINT_PORT"
            Named == {"OPENVPN_AUTH", "OPENVPN_MSSFIX", "OPENVPN_CIPHERS", "OPENVPN_PROCESS_USER", port,
                      "VPN_SERVICE_PROVIDER", "VPN_TYPE", "OPENVPN_CUSTOM_CONFIG"}
<1>1. \A p \in all_ : /\ p[1] \in Named
                      /\ p[1] = port => p[2] = 8000
                      /\ p[1] = "VPN_TYPE" => p[2] = "openvpn"
    BY DEF CustomKeys, FileKeys
<1>2. \E p \in all_ : p[1] = "VPN_TYPE"
    <2>1. <<"VPN_TYPE", "openvpn">>[1] = "VPN_TYPE"
        OBVIOUS
    <2>. QED BY <2>1 DEF FileKeys
<1>. HIDE DEF all_
<1>3. DOMAIN env = {p[1] : p \in all_} /\ \A k \in DOMAIN env : env[k] = (CHOOSE p \in all_ : p[1] = k)[2]
    BY DEF Env, all_
<1>4. ASSUME NEW k \in DOMAIN env PROVE \E p \in all_ : p[1] = k /\ env[k] = p[2]
    <2>1. \E p \in all_ : p[1] = k
        BY <1>3
    <2>. DEFINE q == CHOOSE p \in all_ : p[1] = k
    <2>2. q \in all_ /\ q[1] = k
        BY <2>1
    <2>. QED BY <1>3, <2>2
<1>7. "VPN_TYPE" \in DOMAIN env /\ env["VPN_TYPE"] = "openvpn"
    <2>1. "VPN_TYPE" \in DOMAIN env
        BY <1>2, <1>3
    <2>2. PICK p \in all_ : p[1] = "VPN_TYPE" /\ env["VPN_TYPE"] = p[2]
        BY <2>1, <1>4
    <2>. QED BY <2>1, <2>2, <1>1
<1>9. /\ "PORT" \notin DOMAIN env /\ "OPENVPN_PORT" \notin DOMAIN env /\ "VPN_ENDPOINT_PORT" \notin DOMAIN env
      /\ port \in DOMAIN env => env[port] = 8000
    <2>1. DOMAIN env \subseteq Named
        BY <1>1, <1>3
    <2>2. port \in DOMAIN env => env[port] = 8000
        BY <1>1, <1>4
    <2>. QED BY <2>1, <2>2
<1>. DEFINE v == SetVPNDefaults(ReadVPN(env))
<1>10. The(v.selection.VPN) = "openvpn"
    <2>1. Read(env, VPNKeys).Type = {env[k] : k \in Values(<<"VPN_TYPE">>) \cap DOMAIN env}
        BY DEF Read, VPNKeys
    <2>2. Values(<<"VPN_TYPE">>) = {"VPN_TYPE"}
        BY DEF Values
    <2>3. Read(env, VPNKeys).Type = {"openvpn"}
        BY <1>7, <2>1, <2>2
    <2>. DEFINE read == ReadVPN(env)  type == Read(env, VPNKeys).Type
    <2>4. read.selection = ReadSelection(env, ReadProvider(env, type).Name, type)
        BY DEF ReadVPN
    <2>. HIDE DEF type
    <2>5. "VPN" \in DOMAIN read.selection /\ read.selection["VPN"] = type
        BY <2>4 DEF ReadSelection
    <2>. DEFINE provider == WithDefaults(read.provider, ProviderDefaults)
                forwarding == WithDefaults(read.portForwarding, PortForwardingDefaults)
                defaults == SelectionDefaults(The(provider.Name), The(forwarding.Enabled))
    <2>6. v.selection = WithDefaults(read.selection, defaults)
        BY DEF SetVPNDefaults
    <2>. HIDE DEF read, provider, forwarding, defaults, v
    <2>7. v.selection["VPN"] = {"openvpn"}
        BY <2>3, <2>5, <2>6 DEF WithDefaults, type
    <2>. QED BY <2>7 DEF The
<1>11. The(v.selectionOpenVPN.CustomPort) \in Nat
    <2>. DEFINE read == ReadVPN(env)
                defaults == OpenVPNSelectionDefaults(The(WithDefaults(read.provider, ProviderDefaults).Name))
                all == Values(OpenVPNSelectionKeys["CustomPort"])
    <2>1. "CustomPort" \in DOMAIN read.selectionOpenVPN
          /\ read.selectionOpenVPN["CustomPort"] = {env[k] : k \in all \cap DOMAIN env}
        <3>1. "CustomPort" \in DOMAIN OpenVPNSelectionKeys
            BY DEF OpenVPNSelectionKeys
        <3>2. read.selectionOpenVPN = Read(env, OpenVPNSelectionKeys)
            BY DEF ReadVPN
        <3>. HIDE DEF read
        <3>. QED BY <3>1, <3>2 DEF Read
    <2>2. all = {port, "PORT", "OPENVPN_PORT", "VPN_ENDPOINT_PORT"}
        <3>. DEFINE q == <<port, "PORT", "OPENVPN_PORT", "VPN_ENDPOINT_PORT">>
        <3>1. OpenVPNSelectionKeys["CustomPort"] = q
            BY DEF OpenVPNSelectionKeys
        <3>2. DOMAIN q = {1, 2, 3, 4} /\ q[1] = port /\ q[2] = "PORT" /\ q[3] = "OPENVPN_PORT" /\ q[4] = "VPN_ENDPOINT_PORT"
            OBVIOUS
        <3>. HIDE DEF q
        <3>3. all = {q[i] : i \in {1, 2, 3, 4}}
            BY <3>1, <3>2 DEF Values
        <3>. QED BY <3>2, <3>3
    <2>3. "CustomPort" \in DOMAIN defaults /\ defaults["CustomPort"] = 0
        BY DEF OpenVPNSelectionDefaults
    <2>4. v.selectionOpenVPN = WithDefaults(read.selectionOpenVPN, defaults)
        BY DEF SetVPNDefaults
    <2>. HIDE DEF read, defaults, all, v, port
    <2>5. all \cap DOMAIN env \subseteq {port}
        BY <1>9, <2>2
    <2>6. v.selectionOpenVPN["CustomPort"] \in {{0}, {8000}}
        <3>1. CASE port \in DOMAIN env
            <4>1. read.selectionOpenVPN["CustomPort"] = {8000}
                BY <1>9, <2>1, <2>2, <2>5, <3>1
            <4>. QED BY <2>1, <2>4, <4>1 DEF WithDefaults
        <3>2. CASE port \notin DOMAIN env
            <4>1. read.selectionOpenVPN["CustomPort"] = {}
                BY <2>1, <2>5, <3>2
            <4>. QED BY <2>1, <2>3, <2>4, <4>1 DEF WithDefaults
        <3>. QED BY <3>1, <3>2
    <2>. QED BY <2>6 DEF The
<1>. QED BY <1>10, <1>11

\* One line of each kind: those of the connection and of the settings.
HasOnly(config, conn, o) ==
    /\ Of(config, "remote") = <<<<"remote", conn.ip, conn.port>>>>
    /\ Of(config, "proto") = <<<<"proto", conn.protocol>>>>
    /\ Of(config, "dev") = <<<<"dev", The(o.Interface)>>>>
    /\ The(o.Auth) # Unset => Of(config, "auth") = <<<<"auth", The(o.Auth)>>>>
    /\ The(o.MSSFix) > 0 => Of(config, "mssfix") = <<<<"mssfix", The(o.MSSFix)>>>>
    /\ Given(o, "Ciphers") # <<>> =>
          /\ Of(config, "data-ciphers") = <<<<"data-ciphers", Given(o, "Ciphers")>>>>
          /\ Of(config, "cipher") = <<>>

\* The configuration of a file has the lines the settings decide, and the server of the connection.
LEMMA FileConfigHas ==
    ASSUME NEW file \in Seq(Lines), NEW conn, NEW o
    PROVE  HasOnly(CustomConfig(file, conn, o, FALSE), conn, o)
<1>. DEFINE config == CustomConfig(file, conn, o, FALSE)
<1>. DEFINE set == ({"remote", "proto", "dev"} \cup Decided(o)) \cap WithArgument
            remote == <<"remote", conn.ip, conn.port>>  proto == <<"proto", conn.protocol>>
            dev == <<"dev", The(o.Interface)>>  auth == <<"auth", The(o.Auth)>>
            mssfix == <<"mssfix", The(o.MSSFix)>>  ciphers == <<"data-ciphers", Given(o, "Ciphers")>>
<1>1. FALSE \in BOOLEAN
    OBVIOUS
<1>2. Holding(config, conn, o, set)
    BY <1>1, CustomLines
<1>. HIDE DEF config
<1>3. /\ "remote" \in set /\ "proto" \in set /\ "dev" \in set
      /\ The(o.Auth) # Unset => "auth" \in set
      /\ The(o.MSSFix) > 0 => "mssfix" \in set
      /\ Given(o, "Ciphers") # <<>> => "data-ciphers" \in set /\ "cipher" \in set
    BY DEF WithArgument, Decided
<1>4. /\ remote[1] = "remote" /\ proto[1] = "proto" /\ dev[1] = "dev" /\ auth[1] = "auth" /\ mssfix[1] = "mssfix"
      /\ ciphers[1] = "data-ciphers"
    OBVIOUS
<1>5. /\ remote \in Values(config) /\ proto \in Values(config) /\ dev \in Values(config)
      /\ The(o.Auth) # Unset => auth \in Values(config)
      /\ The(o.MSSFix) > 0 => mssfix \in Values(config)
      /\ Given(o, "Ciphers") # <<>> => ciphers \in Values(config)
    BY <1>2 DEF Holding
<1>6. PICK heads : Whole(config, set, heads) /\ "cipher" \notin heads
    BY <1>2 DEF Holding
<1>. HIDE DEF set, remote, proto, dev, auth, mssfix, ciphers
<1>7. \A line \in Values(config) : line[1] \in set => Of(config, line[1]) = <<line>>
    BY <1>6, OfOnly
<1>8. Of(config, "remote") = <<remote>> /\ Of(config, "proto") = <<proto>> /\ Of(config, "dev") = <<dev>>
    BY <1>3, <1>4, <1>5, <1>7
<1>9. /\ The(o.Auth) # Unset => Of(config, "auth") = <<auth>>
      /\ The(o.MSSFix) > 0 => Of(config, "mssfix") = <<mssfix>>
    BY <1>3, <1>4, <1>5, <1>7
<1>10. ASSUME Given(o, "Ciphers") # <<>>
       PROVE  Of(config, "data-ciphers") = <<ciphers>> /\ Of(config, "cipher") = <<>>
    <2>1. Of(config, "data-ciphers") = <<ciphers>>
        BY <1>10, <1>3, <1>4, <1>5, <1>7
    <2>2. Of(config, "cipher") = <<>>
        BY <1>10, <1>3, <1>6, OfNone
    <2>. QED BY <2>1, <2>2
<1>11. HasOnly(config, conn, o)
    BY <1>8, <1>9, <1>10 DEF HasOnly, remote, proto, dev, auth, mssfix, ciphers
<1>. QED BY <1>11 DEF config

\* The connection of a file is to its first server, on the port that is set.
LEMMA FileConnectsTo ==
    ASSUME NEW file \in Seq(Lines), NEW s, The(s.VPN) = "openvpn", NEW so, The(so.CustomPort) \in Nat, NEW sw,
           NEW conn, conn = CustomConnection(file, s, so, sw), conn.result = "connection"
    PROVE  /\ conn.ip = Of(file, "remote")[1][2]
           /\ The(so.CustomPort) # 0 => conn.port = The(so.CustomPort)
<1>. DEFINE data == ExtractData(file)  port == The(so.CustomPort)
            name == IF Given(s, "Names") = <<>> THEN Unset ELSE Given(s, "Names")[1]
<1>1. conn = IF data = Failed THEN Failed
             ELSE Connected("openvpn", data.ip, IF port > 0 THEN port ELSE data.port, data.protocol, Unset, name)
    BY DEF CustomConnection
<1>2. Failed.result = "error"
    BY DEF Failed
<1>3. data # Failed
    BY <1>1, <1>2
<1>. HIDE DEF name, data, port
<1>4. conn.ip = data.ip /\ conn.port = IF port > 0 THEN port ELSE data.port
    BY <1>1, <1>3 DEF Connected
<1>5. port # 0 => port > 0
    BY DEF port
<1>6. PICK m \in 1..Len(file) : /\ file[m][1] = "remote" /\ data.ip = file[m][2]
                              /\ \A k \in 1..Len(file) : k < m => file[k][1] # "remote"
    BY <1>3, ExtractedFirst DEF data
<1>. DEFINE set == {line \in Values(file) : line[1] = "remote"}
<1>7. file \in Seq(Values(file)) /\ \A k \in 1..Len(file) : file[k] \in set <=> file[k][1] = "remote"
    BY DEF Values
<1>. HIDE DEF set
<1>8. Selected(file, set)[1] = file[m]
    BY <1>6, <1>7, FirstSelected
<1>9. Of(file, "remote") = Selected(file, set)
    BY DEF Of, set
<1>. QED BY <1>4, <1>5, <1>6, <1>8, <1>9 DEF port

\* What a file is given as.
LEMMA PickedFile ==
    ASSUME PickFile
    PROVE  \E file \in Seq(Lines), keys \in SUBSET CustomKeys :
               input'.kind = "file" /\ input'.file = file /\ input'.env = Env(keys \cup FileKeys)
<1>1. PICK n \in 1..MaxLines : \E file \in [1..n -> Lines], keys \in {{k} : k \in CustomKeys} \cup {{}, CustomKeys} :
          input' = [kind |-> "file", file |-> file, env |-> Env(keys \cup FileKeys)]
    BY DEF PickFile
<1>2. PICK file \in [1..n -> Lines], keys \in {{k} : k \in CustomKeys} \cup {{}, CustomKeys} :
          input' = [kind |-> "file", file |-> file, env |-> Env(keys \cup FileKeys)]
    BY <1>1
<1>3. file \in Seq(Lines)
    OBVIOUS
<1>4. keys \in SUBSET CustomKeys
    OBVIOUS
<1>. QED BY <1>2, <1>3, <1>4

FilesConnect == CustomOneServer /\ FirstServer /\ SettingsWin

\* A custom file connects to its first server, with the settings winning over its lines.
LEMMA FileKept ==
    ASSUME PickFile
    PROVE  FilesConnect'
<1>1. PICK file \in Seq(Lines), keys \in SUBSET CustomKeys :
          input'.kind = "file" /\ input'.file = file /\ input'.env = Env(keys \cup FileKeys)
    BY PickedFile
<1>. DEFINE v == SetVPNDefaults(ReadVPN(Env(keys \cup FileKeys)))
            conn == CustomConnection(file, v.selection, v.selectionOpenVPN, v.selectionWireguard)
            o == v.openvpn
            config == CustomConfig(file, conn, o, FALSE)
<1>2. The(v.selection.VPN) = "openvpn" /\ The(v.selectionOpenVPN.CustomPort) \in Nat
    BY <1>1, FileSettingsAre
<1>3. FileSettings' = v /\ FileConnection' = conn /\ FileConfig' = config
    BY <1>1 DEF FileSettings, FileConnection, FileConfig
<1>. HIDE DEF v
<1>4. HasOnly(config, conn, o)
    <2>. HIDE DEF conn, o
    <2>. QED BY FileConfigHas, Zenon
<1>5. conn.result = "connection" =>
          /\ conn.ip = Of(file, "remote")[1][2]
          /\ The(v.selectionOpenVPN.CustomPort) # 0 => conn.port = The(v.selectionOpenVPN.CustomPort)
    BY <1>2, FileConnectsTo
<1>. HIDE DEF conn, config, o
<1>6. CustomOneServer'
    BY <1>3, <1>4 DEF CustomOneServer, HasOnly, o
<1>7. FirstServer'
    BY <1>1, <1>3, <1>5 DEF FirstServer
<1>8. SettingsWin'
    BY <1>3, <1>4 DEF SettingsWin, HasOnly, o
<1>. QED BY <1>6, <1>7, <1>8 DEF FilesConnect

(***************************************************************************)
(* The connections of the settings. What the updater stores decides what   *)
(* there is to connect to (KindOf), and what is valid decides the filter   *)
(* and the port: the two have to agree for a connection to be made         *)
(* without a port of zero.                                                 *)
(***************************************************************************)

\* What every server of a provider is, of a source.
KindOf(provider, src, s) ==
    /\ s.vpn \in {"openvpn", "wireguard"}
    /\ s.vpn = "wireguard" => provider \in WireguardProviders
    /\ s.vpn = "openvpn" => provider # "mullvad"
    /\ provider = "expressvpn" => ~ s.tcp
    /\ provider = "ivpn" => s.hostname \in HostsOf(src.entries)

\* Servers that are checked are those that were fetched.
LEMMA CheckedIs ==
    ASSUME NEW counts, NEW min, NEW servers
    PROVE  Checked(counts, min, servers).servers \subseteq servers
BY DEF Checked, NotEnough

\* A server of an archive is made of a host of the entries that are taken.
LEMMA ZipIs ==
    ASSUME NEW src, NEW min, NEW server, NEW s \in ZipServers(src, min, server).servers
    PROVE  \E h \in HostsOf(Taken(src)) : s = server[h]
<1>. DEFINE hosts == HostsOf(Taken(src))  found == hosts \cap src.resolved
            counts == {N(src.entries), N(hosts), N(found)}
<1>1. s \in Checked(counts, min, {server[h] : h \in found}).servers
    BY DEF ZipServers
<1>. HIDE DEF counts
<1>2. s \in {server[h] : h \in found}
    BY <1>1, CheckedIs
<1>. QED BY <1>2

\* Providers that only have servers of OpenVPN.
LEMMA OpenvpnOnly ==
    ASSUME NEW src, NEW min
    PROVE  /\ \A s \in CyberghostServers(src, min).servers : s.vpn = "openvpn"
           /\ \A s \in ExpressvpnServers(src, min).servers : s.vpn = "openvpn" /\ ~ s.tcp
           /\ \A s \in HidemyassServers(src, min).servers : s.vpn = "openvpn"
           /\ \A s \in PerfectPrivacyServers(src, min).servers : s.vpn = "openvpn"
           /\ \A s \in PrivadoServers(src, min).servers : s.vpn = "openvpn"
           /\ \A s \in PIAServers(src, min).servers : s.vpn = "openvpn"
           /\ \A s \in PrivatevpnServers(src, min).servers : s.vpn = "openvpn"
           /\ \A s \in SlickvpnServers(src, min).servers : s.vpn = "openvpn"
           /\ \A s \in TorguardServers(src, min).servers : s.vpn = "openvpn"
           /\ \A s \in VPNSecureServers(src, min).servers : s.vpn = "openvpn"
           /\ \A s \in VPNUnlimitedServers(src, min).servers : s.vpn = "openvpn"
<1>1. \A s \in CyberghostServers(src, min).servers : s.vpn = "openvpn"
    BY DEF CyberghostServers, CyberghostHost, Checked, NotEnough, Openvpn, Wireguard
<1>2. \A s \in ExpressvpnServers(src, min).servers : s.vpn = "openvpn" /\ ~ s.tcp
    BY DEF ExpressvpnServers, Checked, NotEnough, Openvpn, Wireguard
<1>3. \A s \in HidemyassServers(src, min).servers : s.vpn = "openvpn"
    BY DEF HidemyassServers, HostServer, Checked, NotEnough, Openvpn, Wireguard
<1>4. \A s \in PerfectPrivacyServers(src, min).servers : s.vpn = "openvpn"
    BY DEF PerfectPrivacyServers, PerfectPrivacyHost, Checked, NotEnough, Openvpn, Wireguard
<1>5. \A s \in PrivadoServers(src, min).servers : s.vpn = "openvpn"
    BY DEF PrivadoServers, Checked, NotEnough, Openvpn, Wireguard
<1>6. \A s \in PIAServers(src, min).servers : s.vpn = "openvpn"
    BY DEF PIAServers, PIAHost, HostServer, Checked, NotEnough, Openvpn, Wireguard
<1>7. \A s \in PrivatevpnServers(src, min).servers : s.vpn = "openvpn"
    <2>. DEFINE without == {e \in Taken(src) : e.state = "bare"}
                hosts == HostsOf(Taken(src) \ without)
                found == hosts \cap src.resolved
                all == found \cup {<<"no host", e>> : e \in without}
                counts == {N(src.entries), N(without) + N(hosts), N(without) + N(found)}
    <2>1. PrivatevpnServers(src, min) = Checked(counts, min, {PrivatevpnHost(h) : h \in all})
        BY DEF PrivatevpnServers
    <2>. HIDE DEF all, counts
    <2>2. PrivatevpnServers(src, min).servers \subseteq {PrivatevpnHost(h) : h \in all}
        BY <2>1, CheckedIs
    <2>. QED BY <2>2 DEF PrivatevpnHost, Openvpn
<1>8. \A s \in SlickvpnServers(src, min).servers : s.vpn = "openvpn"
    BY DEF SlickvpnServers, Checked, NotEnough, Openvpn, Wireguard
<1>9. \A s \in TorguardServers(src, min).servers : s.vpn = "openvpn"
    BY DEF TorguardServers, TorguardHost, HostServer, Checked, NotEnough, Openvpn, Wireguard
<1>10. \A s \in VPNSecureServers(src, min).servers : s.vpn = "openvpn"
    BY DEF VPNSecureServers, VPNSecureHost, Checked, NotEnough, Openvpn, Wireguard
<1>11. \A s \in VPNUnlimitedServers(src, min).servers : s.vpn = "openvpn"
    BY DEF VPNUnlimitedServers, VPNUnlimitedHost, Checked, NotEnough, Openvpn, Wireguard
<1>. QED BY <1>1, <1>2, <1>3, <1>4, <1>5, <1>6, <1>7, <1>8, <1>9, <1>10, <1>11

\* The providers with an archive have servers of OpenVPN, made of its hosts.
LEMMA ZipOnly ==
    ASSUME NEW src, NEW min
    PROVE  /\ \A s \in GiganewsServers(src, min).servers : s.vpn = "openvpn"
           /\ \A s \in IpvanishServers(src, min).servers : s.vpn = "openvpn"
           /\ \A s \in PurevpnServers(src, min).servers : s.vpn = "openvpn"
           /\ \A s \in VyprvpnServers(src, min).servers : s.vpn = "openvpn"
<1>. DEFINE hosts == HostsOf(Taken(src))
<1>1. \A s \in GiganewsServers(src, min).servers : s.vpn = "openvpn"
    BY ZipIs DEF GiganewsServers, GiganewsHost, HostServer, Openvpn
<1>2. \A s \in IpvanishServers(src, min).servers : s.vpn = "openvpn"
    BY ZipIs DEF IpvanishServers, IpvanishHost, HostServer, Openvpn
<1>3. \A s \in PurevpnServers(src, min).servers : s.vpn = "openvpn"
    BY ZipIs DEF PurevpnServers, PurevpnHost, HostServer, Openvpn
<1>4. \A s \in VyprvpnServers(src, min).servers : s.vpn = "openvpn"
    BY ZipIs DEF VyprvpnServers, VyprvpnHost, HostServer, Openvpn
<1>. QED BY <1>1, <1>2, <1>3, <1>4

\* Providers that have servers of WireGuard.
LEMMA BothKinds ==
    ASSUME NEW src, NEW min
    PROVE  /\ \A s \in AirvpnServers(src, min).servers : s.vpn \in {"openvpn", "wireguard"}
           /\ \A s \in FastestvpnServers(src, min).servers : s.vpn \in {"openvpn", "wireguard"}
           /\ \A s \in IvpnServers(src, min).servers :
                  s.vpn \in {"openvpn", "wireguard"} /\ s.hostname \in HostsOf(src.entries)
           /\ \A s \in MullvadServers(src, min).servers : s.vpn = "wireguard"
           /\ \A s \in NordvpnServers(src, min).servers : s.vpn \in {"openvpn", "wireguard"}
           /\ \A s \in ProtonvpnServers(src, min).servers : s.vpn \in {"openvpn", "wireguard"}
           /\ \A s \in SurfsharkServers(src, min).servers : s.vpn \in {"openvpn", "wireguard"}
           /\ \A s \in WindscribeServers(src, min).servers : s.vpn \in {"openvpn", "wireguard"}
<1>1. \A s \in AirvpnServers(src, min).servers : s.vpn \in {"openvpn", "wireguard"}
    BY DEF AirvpnServers, Checked, NotEnough, Openvpn, Wireguard
<1>2. \A s \in FastestvpnServers(src, min).servers : s.vpn \in {"openvpn", "wireguard"}
    BY DEF FastestvpnServers, FastestvpnHost, HostServer, Checked, NotEnough, Openvpn, Wireguard
<1>3. \A s \in IvpnServers(src, min).servers :
          s.vpn \in {"openvpn", "wireguard"} /\ s.hostname \in HostsOf(src.entries)
    BY DEF IvpnServers, HostsOf, Checked, NotEnough, Openvpn, Wireguard
<1>4. \A s \in MullvadServers(src, min).servers : s.vpn = "wireguard"
    BY DEF MullvadServers, MullvadHost, Unreached, Checked, NotEnough, Openvpn, Wireguard
<1>5. \A s \in NordvpnServers(src, min).servers : s.vpn \in {"openvpn", "wireguard"}
    BY DEF NordvpnServers, Checked, NotEnough, Openvpn, Wireguard
<1>6. \A s \in ProtonvpnServers(src, min).servers : s.vpn \in {"openvpn", "wireguard"}
    BY DEF ProtonvpnServers, ProtonvpnHost, Checked, NotEnough, Openvpn, Wireguard
<1>7. \A s \in SurfsharkServers(src, min).servers : s.vpn \in {"openvpn", "wireguard"}
    BY DEF SurfsharkServers, SurfsharkHost, Checked, NotEnough, Openvpn, Wireguard
<1>8. \A s \in WindscribeServers(src, min).servers : s.vpn \in {"openvpn", "wireguard"}
    BY DEF WindscribeServers, Unreached, Checked, NotEnough, Openvpn, Wireguard
<1>. QED BY <1>1, <1>2, <1>3, <1>4, <1>5, <1>6, <1>7, <1>8

\* The servers each provider has.
LEMMA FetchFrom ==
    ASSUME NEW src, src.reached, NEW min
    PROVE  /\ FetchServers("airvpn", src, min) = AirvpnServers(src, min)
           /\ FetchServers("cyberghost", src, min) = CyberghostServers(src, min)
           /\ FetchServers("expressvpn", src, min) = ExpressvpnServers(src, min)
           /\ FetchServers("fastestvpn", src, min) = FastestvpnServers(src, min)
           /\ FetchServers("giganews", src, min) = GiganewsServers(src, min)
           /\ FetchServers("hidemyass", src, min) = HidemyassServers(src, min)
           /\ FetchServers("ipvanish", src, min) = IpvanishServers(src, min)
           /\ FetchServers("ivpn", src, min) = IvpnServers(src, min)
           /\ FetchServers("mullvad", src, min) = MullvadServers(src, min)
           /\ FetchServers("nordvpn", src, min) = NordvpnServers(src, min)
           /\ FetchServers("perfect privacy", src, min) = PerfectPrivacyServers(src, min)
           /\ FetchServers("privado", src, min) = PrivadoServers(src, min)
           /\ FetchServers("private internet access", src, min) = PIAServers(src, min)
           /\ FetchServers("privatevpn", src, min) = PrivatevpnServers(src, min)
           /\ FetchServers("protonvpn", src, min) = ProtonvpnServers(src, min)
           /\ FetchServers("purevpn", src, min) = PurevpnServers(src, min)
           /\ FetchServers("slickvpn", src, min) = SlickvpnServers(src, min)
           /\ FetchServers("surfshark", src, min) = SurfsharkServers(src, min)
           /\ FetchServers("torguard", src, min) = TorguardServers(src, min)
           /\ FetchServers("vpnsecure", src, min) = VPNSecureServers(src, min)
           /\ FetchServers("vpn unlimited", src, min) = VPNUnlimitedServers(src, min)
           /\ FetchServers("vyprvpn", src, min) = VyprvpnServers(src, min)
           /\ FetchServers("windscribe", src, min) = WindscribeServers(src, min)
BY DEF FetchServers

\* A server that is fetched is of a VPN and a protocol its provider has.
LEMMA FetchedKinds ==
    ASSUME NEW provider \in AllWithCustom \ {"custom"}, NEW src, src.reached, NEW min,
           NEW s \in FetchServers(provider, src, min).servers
    PROVE  KindOf(provider, src, s)
<1>1. CASE provider = "airvpn"
    <2>1. s \in AirvpnServers(src, min).servers
        BY <1>1, FetchFrom
    <2>. QED BY <1>1, <2>1, BothKinds DEF KindOf, WireguardProviders
<1>2. CASE provider = "cyberghost"
    <2>1. s \in CyberghostServers(src, min).servers
        BY <1>2, FetchFrom
    <2>. QED BY <1>2, <2>1, OpenvpnOnly DEF KindOf, WireguardProviders
<1>3. CASE provider = "expressvpn"
    <2>1. s \in ExpressvpnServers(src, min).servers
        BY <1>3, FetchFrom
    <2>. QED BY <1>3, <2>1, OpenvpnOnly DEF KindOf, WireguardProviders
<1>4. CASE provider = "fastestvpn"
    <2>1. s \in FastestvpnServers(src, min).servers
        BY <1>4, FetchFrom
    <2>. QED BY <1>4, <2>1, BothKinds DEF KindOf, WireguardProviders
<1>5. CASE provider = "giganews"
    <2>1. s \in GiganewsServers(src, min).servers
        BY <1>5, FetchFrom
    <2>. QED BY <1>5, <2>1, ZipOnly DEF KindOf, WireguardProviders
<1>6. CASE provider = "hidemyass"
    <2>1. s \in HidemyassServers(src, min).servers
        BY <1>6, FetchFrom
    <2>. QED BY <1>6, <2>1, OpenvpnOnly DEF KindOf, WireguardProviders
<1>7. CASE provider = "ipvanish"
    <2>1. s \in IpvanishServers(src, min).servers
        BY <1>7, FetchFrom
    <2>. QED BY <1>7, <2>1, ZipOnly DEF KindOf, WireguardProviders
<1>8. CASE provider = "ivpn"
    <2>1. s \in IvpnServers(src, min).servers
        BY <1>8, FetchFrom
    <2>. QED BY <1>8, <2>1, BothKinds DEF KindOf, WireguardProviders
<1>9. CASE provider = "mullvad"
    <2>1. s \in MullvadServers(src, min).servers
        BY <1>9, FetchFrom
    <2>. QED BY <1>9, <2>1, BothKinds DEF KindOf, WireguardProviders
<1>10. CASE provider = "nordvpn"
    <2>1. s \in NordvpnServers(src, min).servers
        BY <1>10, FetchFrom
    <2>. QED BY <1>10, <2>1, BothKinds DEF KindOf, WireguardProviders
<1>11. CASE provider = "perfect privacy"
    <2>1. s \in PerfectPrivacyServers(src, min).servers
        BY <1>11, FetchFrom
    <2>. QED BY <1>11, <2>1, OpenvpnOnly DEF KindOf, WireguardProviders
<1>12. CASE provider = "privado"
    <2>1. s \in PrivadoServers(src, min).servers
        BY <1>12, FetchFrom
    <2>. QED BY <1>12, <2>1, OpenvpnOnly DEF KindOf, WireguardProviders
<1>13. CASE provider = "private internet access"
    <2>1. s \in PIAServers(src, min).servers
        BY <1>13, FetchFrom
    <2>. QED BY <1>13, <2>1, OpenvpnOnly DEF KindOf, WireguardProviders
<1>14. CASE provider = "privatevpn"
    <2>1. s \in PrivatevpnServers(src, min).servers
        BY <1>14, FetchFrom
    <2>. QED BY <1>14, <2>1, OpenvpnOnly DEF KindOf, WireguardProviders
<1>15. CASE provider = "protonvpn"
    <2>1. s \in ProtonvpnServers(src, min).servers
        BY <1>15, FetchFrom
    <2>. QED BY <1>15, <2>1, BothKinds DEF KindOf, WireguardProviders
<1>16. CASE provider = "purevpn"
    <2>1. s \in PurevpnServers(src, min).servers
        BY <1>16, FetchFrom
    <2>. QED BY <1>16, <2>1, ZipOnly DEF KindOf, WireguardProviders
<1>17. CASE provider = "slickvpn"
    <2>1. s \in SlickvpnServers(src, min).servers
        BY <1>17, FetchFrom
    <2>. QED BY <1>17, <2>1, OpenvpnOnly DEF KindOf, WireguardProviders
<1>18. CASE provider = "surfshark"
    <2>1. s \in SurfsharkServers(src, min).servers
        BY <1>18, FetchFrom
    <2>. QED BY <1>18, <2>1, BothKinds DEF KindOf, WireguardProviders
<1>19. CASE provider = "torguard"
    <2>1. s \in TorguardServers(src, min).servers
        BY <1>19, FetchFrom
    <2>. QED BY <1>19, <2>1, OpenvpnOnly DEF KindOf, WireguardProviders
<1>20. CASE provider = "vpnsecure"
    <2>1. s \in VPNSecureServers(src, min).servers
        BY <1>20, FetchFrom
    <2>. QED BY <1>20, <2>1, OpenvpnOnly DEF KindOf, WireguardProviders
<1>21. CASE provider = "vpn unlimited"
    <2>1. s \in VPNUnlimitedServers(src, min).servers
        BY <1>21, FetchFrom
    <2>. QED BY <1>21, <2>1, OpenvpnOnly DEF KindOf, WireguardProviders
<1>22. CASE provider = "vyprvpn"
    <2>1. s \in VyprvpnServers(src, min).servers
        BY <1>22, FetchFrom
    <2>. QED BY <1>22, <2>1, ZipOnly DEF KindOf, WireguardProviders
<1>23. CASE provider = "windscribe"
    <2>1. s \in WindscribeServers(src, min).servers
        BY <1>23, FetchFrom
    <2>. QED BY <1>23, <2>1, BothKinds DEF KindOf, WireguardProviders
<1>. QED BY <1>1, <1>2, <1>3, <1>4, <1>5, <1>6, <1>7, <1>8, <1>9, <1>10, <1>11, <1>12, <1>13, <1>14, <1>15,
            <1>16, <1>17, <1>18, <1>19, <1>20, <1>21, <1>22, <1>23 DEF AllWithCustom

\* A connection to one of the servers that are kept.
ConnectedTo(conn, server, s, so) ==
    /\ conn.result = "connection" /\ conn.type = The(s.VPN) /\ conn.protocol = GetProtocol(s, so)
    /\ conn.server = server
    /\ conn.hostname = IF The(s.VPN) = "openvpn" /\ server.x509 # Unset THEN server.x509 ELSE server.hostname

\* The connection that is picked is one of those given, at the address the user asks for.
LEMMA PickedFrom ==
    ASSUME NEW all, NEW s, NEW so, NEW sw, NEW conn \in PickConnection(all, s, so, sw)
    PROVE  conn = Failed \/ conn \in all \/ \E other \in all : \E ip : conn = [other EXCEPT !.ip = ip]
<1>. DEFINE target == The(IF s.VPN = {"openvpn"} THEN so.EndpointIP ELSE sw.EndpointIP)
            found == {k \in all : k.ip = target}
<1>1. PickConnection(all, s, so, sw)
      = CASE all = {} -> {Failed}
          [] all # {} /\ target = Off -> all
          [] all # {} /\ target # Off /\ s.VPN = {"wireguard"} -> IF found = {} THEN {Failed} ELSE found
          [] all # {} /\ target # Off /\ ~(s.VPN = {"wireguard"}) -> {[k EXCEPT !.ip = target] : k \in all}
    BY DEF PickConnection
<1>. HIDE DEF target
<1>2. CASE all = {} \/ target = Off \/ s.VPN = {"wireguard"}
    BY <1>1, <1>2
<1>3. CASE all # {} /\ target # Off /\ ~(s.VPN = {"wireguard"})
    <2>1. PickConnection(all, s, so, sw) = {[k EXCEPT !.ip = target] : k \in all}
        BY <1>1, <1>3
    <2>. QED BY <2>1
<1>. QED BY <1>2, <1>3

\* GetConnection errs, panics for a port of zero, or connects to a server the filter keeps.
LEMMA ConnectionIs ==
    ASSUME NEW servers, NEW s, NEW so, NEW sw, NEW defaults, NEW ipv6, NEW sixes,
           NEW conn \in GetConnection(servers, s, so, sw, defaults, ipv6, sixes)
    PROVE  \/ conn = Failed
           \/ conn = Panicked /\ FilterServers(servers, s, so) # {} /\ GetPort(s, so, sw, defaults) = 0
           \/ \E server \in FilterServers(servers, s, so) : ConnectedTo(conn, server, s, so)
<1>. DEFINE kept == FilterServers(servers, s, so)
            type == The(s.VPN)
            port == GetPort(s, so, sw, defaults)
            Named(server) == IF type = "openvpn" /\ server.x509 # Unset THEN server.x509 ELSE server.hostname
            Of_(server) == {Connected(type, ip, port, GetProtocol(s, so), Named(server), server) :
                               ip \in {i \in server.ips : i \in sixes => ipv6}}
            all == UNION {Of_(server) : server \in kept}
<1>1. GetConnection(servers, s, so, sw, defaults, ipv6, sixes)
      = IF kept = {} THEN {Failed} ELSE IF port = 0 THEN {Panicked} ELSE PickConnection(all, s, so, sw)
    BY DEF GetConnection
<1>2. ASSUME NEW k \in all
      PROVE  \E server \in kept : \E ip : k = Connected(type, ip, port, GetProtocol(s, so), Named(server), server)
    <2>1. PICK server \in kept : k \in Of_(server)
        OBVIOUS
    <2>. QED BY <2>1
<1>. HIDE DEF kept, port, all
<1>3. ASSUME NEW k \in all PROVE \E server \in kept : ConnectedTo(k, server, s, so)
    <2>1. PICK server \in kept : \E i : k = Connected(type, i, port, GetProtocol(s, so), Named(server), server)
        BY <1>2
    <2>2. PICK i : k = Connected(type, i, port, GetProtocol(s, so), Named(server), server)
        BY <2>1
    <2>. QED BY <2>2 DEF Connected, ConnectedTo
<1>4. ASSUME NEW k \in all, NEW ip PROVE \E server \in kept : ConnectedTo([k EXCEPT !.ip = ip], server, s, so)
    <2>1. PICK server \in kept : \E i : k = Connected(type, i, port, GetProtocol(s, so), Named(server), server)
        BY <1>2
    <2>2. PICK i : k = Connected(type, i, port, GetProtocol(s, so), Named(server), server)
        BY <2>1
    <2>. QED BY <2>2 DEF Connected, ConnectedTo
<1>5. CASE kept = {} \/ port = 0
    BY <1>1, <1>5 DEF kept, port
<1>6. CASE kept # {} /\ port # 0
    <2>1. conn = Failed \/ conn \in all \/ \E other \in all : \E ip : conn = [other EXCEPT !.ip = ip]
        BY <1>1, <1>6, PickedFrom
    <2>. QED BY <2>1, <1>3, <1>4 DEF kept
<1>. QED BY <1>5, <1>6

\* A stored server is of a VPN and a protocol its provider has, and verified by the name it has.
LEMMA StoredKinds ==
    ASSUME NEW provider \in AllWithCustom \ {"custom"}, NEW server \in Stored(provider)
    PROVE  /\ KindOf(provider, Full, server)
           /\ server.x509 = IF provider \in {"ipvanish", "privado", "windscribe"} THEN "name" ELSE Unset
<1>1. Full.reached
    BY DEF Full, Source
<1>2. PICK s \in FetchServers(provider, Full, 0).servers :
          server = [vpn |-> s.vpn, tcp |-> s.tcp, udp |-> s.udp, features |-> {},
                    places |-> [Countries |-> {<<s.hostname, "lower">>}], ips |-> {"4", "6::"},
                    hostname |-> s.hostname, x509 |->
                        IF provider \in {"ipvanish", "privado", "windscribe"} THEN "name" ELSE Unset]
    BY DEF Stored
<1>3. KindOf(provider, Full, s)
    BY <1>1, FetchedKinds
<1>4. /\ server.vpn = s.vpn /\ server.tcp = s.tcp /\ server.hostname = s.hostname
      /\ server.x509 = IF provider \in {"ipvanish", "privado", "windscribe"} THEN "name" ELSE Unset
    BY <1>2
<1>. QED BY <1>3, <1>4 DEF KindOf

\* A preset Private Internet Access has ports for.
PresetFits(provider, preset) == provider = "private internet access" => preset \in {"normal", "strong"}

\* The providers that have a default port for each of the protocols they have servers of.
LEMMA DefaultsAre ==
    ASSUME NEW provider \in AllWithCustom \ {"custom"}, NEW preset
    PROVE  LET d == DefaultPorts(provider, preset) IN
           /\ provider # "mullvad" /\ PresetFits(provider, preset) =>
                 /\ d.udp # 0
                 /\ provider \notin {"expressvpn", "giganews", "ipvanish", "vyprvpn"} => d.tcp # 0
           /\ provider \in WireguardProviders => d.wireguard # 0
<1>1. CASE provider = "airvpn"
    BY <1>1 DEF DefaultPorts, AirvpnPorts, ConnectionDefaults, WireguardProviders
<1>2. CASE provider = "cyberghost"
    BY <1>2 DEF DefaultPorts, CyberghostPorts, ConnectionDefaults, WireguardProviders
<1>3. CASE provider = "expressvpn"
    BY <1>3 DEF DefaultPorts, ExpressvpnPorts, ConnectionDefaults, WireguardProviders
<1>4. CASE provider = "fastestvpn"
    BY <1>4 DEF DefaultPorts, FastestvpnPorts, ConnectionDefaults, WireguardProviders
<1>5. CASE provider = "giganews"
    BY <1>5 DEF DefaultPorts, GiganewsPorts, ConnectionDefaults, WireguardProviders
<1>6. CASE provider = "hidemyass"
    BY <1>6 DEF DefaultPorts, HidemyassPorts, ConnectionDefaults, WireguardProviders
<1>7. CASE provider = "ipvanish"
    BY <1>7 DEF DefaultPorts, IpvanishPorts, ConnectionDefaults, WireguardProviders
<1>8. CASE provider = "ivpn"
    BY <1>8 DEF DefaultPorts, IvpnPorts, ConnectionDefaults, WireguardProviders
<1>9. CASE provider = "mullvad"
    BY <1>9 DEF DefaultPorts, MullvadPorts, ConnectionDefaults, WireguardProviders
<1>10. CASE provider = "nordvpn"
    BY <1>10 DEF DefaultPorts, NordvpnPorts, ConnectionDefaults, WireguardProviders
<1>11. CASE provider = "perfect privacy"
    <2>1. DefaultPorts(provider, preset) = PerfectPrivacyPorts
        BY <1>11, Zenon DEF DefaultPorts
    <2>2. provider \notin WireguardProviders
        BY <1>11, Zenon DEF WireguardProviders
    <2>. QED BY <2>1, <2>2 DEF PerfectPrivacyPorts, ConnectionDefaults
<1>12. CASE provider = "privado"
    BY <1>12 DEF DefaultPorts, PrivadoPorts, ConnectionDefaults, WireguardProviders
<1>13. CASE provider = "private internet access"
    <2>1. DefaultPorts(provider, preset) = PIAPorts(preset)
        BY <1>13, Zenon DEF DefaultPorts
    <2>2. PresetFits(provider, preset) => preset \in {"normal", "strong"}
        BY <1>13, Zenon DEF PresetFits
    <2>3. provider \notin WireguardProviders
        BY <1>13, Zenon DEF WireguardProviders
    <2>. QED BY <2>1, <2>2, <2>3 DEF PIAPorts, ConnectionDefaults
<1>14. CASE provider = "privatevpn"
    BY <1>14 DEF DefaultPorts, PrivatevpnPorts, ConnectionDefaults, WireguardProviders
<1>15. CASE provider = "protonvpn"
    BY <1>15 DEF DefaultPorts, ProtonvpnPorts, ConnectionDefaults, WireguardProviders
<1>16. CASE provider = "purevpn"
    BY <1>16 DEF DefaultPorts, PurevpnPorts, ConnectionDefaults, WireguardProviders
<1>17. CASE provider = "slickvpn"
    BY <1>17 DEF DefaultPorts, SlickvpnPorts, ConnectionDefaults, WireguardProviders
<1>18. CASE provider = "surfshark"
    BY <1>18 DEF DefaultPorts, SurfsharkPorts, ConnectionDefaults, WireguardProviders
<1>19. CASE provider = "torguard"
    BY <1>19 DEF DefaultPorts, TorguardPorts, ConnectionDefaults, WireguardProviders
<1>20. CASE provider = "vpnsecure"
    BY <1>20 DEF DefaultPorts, VPNSecurePorts, ConnectionDefaults, WireguardProviders
<1>21. CASE provider = "vpn unlimited"
    <2>1. DefaultPorts(provider, preset) = VPNUnlimitedPorts
        BY <1>21, Zenon DEF DefaultPorts
    <2>2. provider \notin WireguardProviders
        BY <1>21, Zenon DEF WireguardProviders
    <2>. QED BY <2>1, <2>2 DEF VPNUnlimitedPorts, ConnectionDefaults
<1>22. CASE provider = "vyprvpn"
    BY <1>22 DEF DefaultPorts, VyprvpnPorts, ConnectionDefaults, WireguardProviders
<1>23. CASE provider = "windscribe"
    BY <1>23 DEF DefaultPorts, WindscribePorts, ConnectionDefaults, WireguardProviders
<1>. QED BY <1>1, <1>2, <1>3, <1>4, <1>5, <1>6, <1>7, <1>8, <1>9, <1>10, <1>11, <1>12, <1>13, <1>14, <1>15,
            <1>16, <1>17, <1>18, <1>19, <1>20, <1>21, <1>22, <1>23 DEF AllWithCustom

\* The element of a singleton.
LEMMA TheOne ==
    ASSUME NEW x
    PROVE  The({x}) = x
BY DEF The

\* What a valid selection has of its provider.
LEMMA ValidHas ==
    ASSUME NEW so, NEW provider, OpenVPNSelectionValid(so, provider)
    PROVE  /\ PresetFits(provider, The(so.PIAEncPreset))
           /\ so.Protocol = {"tcp"} => provider \notin {"giganews", "ipvanish", "vyprvpn"}
<1>1. PresetFits(provider, The(so.PIAEncPreset))
    BY Zenon DEF OpenVPNSelectionValid, PresetFits
<1>2. ASSUME so.Protocol = {"tcp"} PROVE provider \notin {"giganews", "ipvanish", "vyprvpn"}
    <2>1. The(so.Protocol) = "tcp"
        BY <1>2, TheOne, Zenon
    <2>. QED BY <2>1, Zenon DEF OpenVPNSelectionValid
<1>. QED BY <1>1, <1>2

\* A server that is kept has the VPN of the selection, and takes its protocol.
LEMMA KeptAre ==
    ASSUME NEW servers, NEW s, NEW kind, s.VPN = {kind}, NEW so, NEW server \in FilterServers(servers, s, so)
    PROVE  /\ server \in servers /\ server.vpn = kind
           /\ kind = "openvpn" => IF so.Protocol = {"tcp"} THEN server.tcp ELSE server.udp
<1>1. The(s.VPN) = kind
    BY TheOne
<1>2. server \in servers /\ ~ Filtered(server, s, so)
    BY DEF FilterServers
<1>3. server.vpn = kind /\ (kind # "wireguard" => ~ ByProtocol(server, s, so))
    BY <1>1, <1>2, Zenon DEF Filtered
<1>4. kind = "openvpn" => s.VPN # {"wireguard"}
    OBVIOUS
<1>. QED BY <1>2, <1>3, <1>4 DEF ByProtocol

\* The provider of a valid selection has a port for the servers that are kept.
LEMMA NeverPanics ==
    ASSUME NEW provider \in AllWithCustom \ {"custom"}, NEW s, NEW kind, s.VPN = {kind}, NEW so, NEW sw,
           kind = "openvpn" => OpenVPNSelectionValid(so, provider),
           FilterServers(Stored(provider), s, so) # {}
    PROVE  GetPort(s, so, sw, DefaultPorts(provider, The(so.PIAEncPreset))) # 0
<1>. DEFINE d == DefaultPorts(provider, The(so.PIAEncPreset))
            port == GetPort(s, so, sw, d)
            custom == The(IF s.VPN = {"wireguard"} THEN sw.EndpointPort ELSE so.CustomPort)
<1>1. PICK server \in FilterServers(Stored(provider), s, so) : TRUE
    OBVIOUS
<1>2. /\ server \in Stored(provider) /\ server.vpn = kind
      /\ kind = "openvpn" => IF so.Protocol = {"tcp"} THEN server.tcp ELSE server.udp
    BY KeptAre
<1>3. KindOf(provider, Full, server)
    BY <1>2, StoredKinds
<1>4. /\ provider # "mullvad" /\ PresetFits(provider, The(so.PIAEncPreset)) =>
            /\ d.udp # 0
            /\ provider \notin {"expressvpn", "giganews", "ipvanish", "vyprvpn"} => d.tcp # 0
      /\ provider \in WireguardProviders => d.wireguard # 0
    BY DefaultsAre
<1>. HIDE DEF d
<1>5. port = IF custom > 0 THEN custom ELSE IF s.VPN = {"wireguard"} THEN d.wireguard
             ELSE IF so.Protocol = {"tcp"} THEN d.tcp ELSE d.udp
    BY DEF GetPort
<1>. HIDE DEF custom, port
<1>6. custom > 0 => custom # 0
    OBVIOUS
<1>7. CASE kind = "wireguard"
    <2>1. provider \in WireguardProviders
        BY <1>2, <1>3, <1>7 DEF KindOf
    <2>. QED BY <1>4, <1>5, <1>6, <1>7, <2>1 DEF port, d
<1>8. CASE kind = "openvpn"
    <2>1. s.VPN # {"wireguard"}
        BY <1>8
    <2>2. provider # "mullvad" /\ (provider = "expressvpn" => ~ server.tcp)
        BY <1>2, <1>3, <1>8 DEF KindOf
    <2>3. /\ PresetFits(provider, The(so.PIAEncPreset))
          /\ so.Protocol = {"tcp"} => provider \notin {"giganews", "ipvanish", "vyprvpn"}
        BY <1>8, ValidHas
    <2>4. d.udp # 0 /\ (so.Protocol = {"tcp"} => d.tcp # 0)
        BY <1>2, <1>4, <1>8, <2>2, <2>3
    <2>. QED BY <1>5, <1>6, <2>1, <2>4 DEF port, d
<1>9. CASE kind \notin {"openvpn", "wireguard"}
    BY <1>2, <1>3, <1>9 DEF KindOf
<1>. QED BY <1>7, <1>8, <1>9

\* A connection that is made takes the protocol of its server.
Fine(made) ==
    /\ made.result # "panic"
    /\ made.result = "connection" /\ made.type = "openvpn" => made.server[made.protocol]

\* A selection that is valid connects to a server that takes the protocol, or errs.
LEMMA ValidConnects ==
    ASSUME NEW provider \in AllWithCustom \ {"custom"}, NEW s, NEW kind, s.VPN = {kind}, NEW so, NEW sw,
           kind = "openvpn" => OpenVPNSelectionValid(so, provider), NEW ipv6, NEW sixes,
           NEW conn \in GetConnection(Stored(provider), s, so, sw, DefaultPorts(provider, The(so.PIAEncPreset)), ipv6, sixes)
    PROVE  /\ Fine(conn)
           /\ conn.result = "connection" =>
                 \E server \in Stored(provider) : ConnectedTo(conn, server, s, so) /\ server.vpn = kind
<1>. DEFINE kept == FilterServers(Stored(provider), s, so)
            d == DefaultPorts(provider, The(so.PIAEncPreset))
<1>1. \/ conn = Failed
      \/ conn = Panicked /\ kept # {} /\ GetPort(s, so, sw, d) = 0
      \/ \E server \in kept : ConnectedTo(conn, server, s, so)
    BY ConnectionIs, Zenon
<1>2. kept # {} => GetPort(s, so, sw, d) # 0
    BY NeverPanics
<1>3. CASE conn = Failed
    BY <1>3 DEF Failed, Fine
<1>4. CASE \E server \in kept : ConnectedTo(conn, server, s, so)
    <2>1. PICK server \in kept : ConnectedTo(conn, server, s, so)
        BY <1>4
    <2>2. /\ server \in Stored(provider) /\ server.vpn = kind
          /\ kind = "openvpn" => IF so.Protocol = {"tcp"} THEN server.tcp ELSE server.udp
        BY KeptAre
    <2>3. conn.result = "connection" /\ conn.type = kind /\ conn.server = server
        BY <2>1, TheOne DEF ConnectedTo
    <2>4. conn.protocol = IF kind = "openvpn" /\ so.Protocol = {"tcp"} THEN "tcp" ELSE "udp"
        BY <2>1 DEF ConnectedTo, GetProtocol
    <2>5. conn.type = "openvpn" => conn.server[conn.protocol]
        BY <2>2, <2>3, <2>4
    <2>. QED BY <2>1, <2>2, <2>3, <2>5 DEF Fine
<1>. QED BY <1>1, <1>2, <1>3, <1>4

(***************************************************************************)
(* What an environment is read as, and what a partial update and a         *)
(* validation keep of it: one VPN type, the same for the settings and      *)
(* their servers, and a provider that is not called by its old name.       *)
(***************************************************************************)

\* Settings that name a VPN type for their servers and a provider that is not called by its old name.
NamesOne(field) == \E n : field = {n} /\ n # "pia"
Regular(v) ==
    /\ {"provider", "selection"} \subseteq DOMAIN v
    /\ "VPN" \in DOMAIN v.selection /\ "Name" \in DOMAIN v.provider
    /\ \E kind : v.selection.VPN = {kind}
    /\ NamesOne(v.provider.Name)

\* An old name of Private Internet Access is read as the new one.
LEMMA ReadName ==
    ASSUME NEW env, NEW type
    PROVE  LET p == ReadProvider(env, type) IN
           "Name" \in DOMAIN p /\ (p.Name = {} \/ NamesOne(p.Name))
<1>. DEFINE long == "private internet access"
            named == First(env, <<"VPN_SERVICE_PROVIDER", "VPNSP">>)
            file == type # {"wireguard"} /\ "OPENVPN_CUSTOM_CONFIG" \in DOMAIN env
            custom == "custom"
<1>1. ReadProvider(env, type)
      = [Name |-> IF named # {} THEN {IF The(named) = "pia" THEN long ELSE The(named)}
                  ELSE IF file THEN {custom} ELSE {}]
    BY Zenon DEF ReadProvider
<1>2. long # "pia" /\ custom # "pia"
    BY Zenon
<1>. HIDE DEF long, named, file, custom
<1>. QED BY <1>1, <1>2 DEF NamesOne

\* The default provider is called by its new name.
LEMMA DefaultName ==
    "Name" \in DOMAIN ProviderDefaults /\ ProviderDefaults["Name"] # "pia"
<1>. DEFINE long == "private internet access"
<1>1. ProviderDefaults = [Name |-> long]
    BY Zenon DEF ProviderDefaults
<1>2. long # "pia"
    BY Zenon
<1>. HIDE DEF long
<1>. QED BY <1>1, <1>2

\* The servers are of OpenVPN by default.
LEMMA DefaultVPN ==
    ASSUME NEW provider, NEW forwarding
    PROVE  "VPN" \in DOMAIN SelectionDefaults(provider, forwarding) /\ SelectionDefaults(provider, forwarding)["VPN"] = "openvpn"
<1>. DEFINE On(f) == f = "PortForwardOnly" /\ forwarding /\ provider \in {"private internet access", "protonvpn"}
            d == [f \in {"VPN"} \cup Filters |-> IF f = "VPN" THEN "openvpn" ELSE On(f)]
<1>1. SelectionDefaults(provider, forwarding) = d
    BY Zenon DEF SelectionDefaults
<1>2. "VPN" \in DOMAIN d /\ d["VPN"] = "openvpn"
    <2>. HIDE DEF On
    <2>. QED OBVIOUS
<1>. QED BY <1>1, <1>2

\* Settings read from any environment, with the defaults, are regular.
LEMMA Loads ==
    ASSUME NEW env
    PROVE  Regular(SetVPNDefaults(ReadVPN(env)))
<1>. DEFINE read == ReadVPN(env)
            v == SetVPNDefaults(read)
            type == Read(env, VPNKeys).Type
            provider == WithDefaults(read.provider, ProviderDefaults)
            forwarding == WithDefaults(read.portForwarding, PortForwardingDefaults)
            defaults == SelectionDefaults(The(provider.Name), The(forwarding.Enabled))
<1>1. /\ read.provider = ReadProvider(env, type)
      /\ read.selection = ReadSelection(env, read.provider.Name, type)
    BY DEF ReadVPN
<1>2. /\ {"provider", "selection"} \subseteq DOMAIN v
      /\ v.provider = provider /\ v.selection = WithDefaults(read.selection, defaults)
    BY DEF SetVPNDefaults
<1>3. type = {} \/ \E x : type = {x}
    <2>1. Values(<<"VPN_TYPE">>) = {"VPN_TYPE"}
        BY DEF Values
    <2>2. type = {env[k] : k \in Values(<<"VPN_TYPE">>) \cap DOMAIN env}
        BY DEF Read, VPNKeys
    <2>. HIDE DEF type
    <2>3. CASE "VPN_TYPE" \in DOMAIN env
        <3>1. type = {env["VPN_TYPE"]}
            BY <2>1, <2>2, <2>3
        <3>. QED BY <3>1
    <2>4. CASE "VPN_TYPE" \notin DOMAIN env
        BY <2>1, <2>2, <2>4
    <2>. QED BY <2>3, <2>4
<1>. HIDE DEF type
<1>4. "VPN" \in DOMAIN read.selection /\ read.selection["VPN"] = type
    <2>. DEFINE s == Read(env, SelectionKeys(read.provider.Name))
    <2>1. read.selection = [f \in DOMAIN s \cup {"VPN"} |-> IF f = "VPN" THEN type ELSE s[f]]
        BY <1>1 DEF ReadSelection
    <2>. HIDE DEF read, s
    <2>. QED BY <2>1
<1>5. "VPN" \in DOMAIN defaults /\ defaults["VPN"] = "openvpn"
    BY DefaultVPN
<1>6. "Name" \in DOMAIN read.provider /\ (read.provider.Name = {} \/ NamesOne(read.provider.Name))
    BY <1>1, ReadName
<1>7. "Name" \in DOMAIN provider /\ NamesOne(provider.Name)
    <2>1. provider = [f \in DOMAIN read.provider |->
                         IF read.provider[f] = {} /\ f \in DOMAIN ProviderDefaults THEN {ProviderDefaults[f]} ELSE read.provider[f]]
        BY DEF WithDefaults
    <2>. HIDE DEF read, provider
    <2>. QED BY <1>6, <2>1, DefaultName DEF NamesOne
<1>. HIDE DEF defaults, provider, read, v
<1>8. "VPN" \in DOMAIN v.selection /\ \E kind : v.selection.VPN = {kind}
    BY <1>2, <1>3, <1>4, <1>5 DEF WithDefaults
<1>. QED BY <1>2, <1>7, <1>8 DEF Regular, v, read

\* Old names of locations give way to others, which changes no VPN type.
LEMMA SameVPN ==
    ASSUME NEW s, "VPN" \in DOMAIN s, NEW provider, NEW choices, NEW retro
    PROVE  LET t == WithoutOldNames(s, provider, choices, retro) IN "VPN" \in DOMAIN t /\ t.VPN = s.VPN
<1>1. LET t == NordvpnRetro(s, choices) IN "VPN" \in DOMAIN t /\ t.VPN = s.VPN
    BY DEF NordvpnRetro
<1>2. LET t == SurfsharkRetro(s, retro) IN "VPN" \in DOMAIN t /\ t.VPN = s.VPN
    BY DEF SurfsharkRetro
<1>3. WithoutOldNames(s, provider, choices, retro) \in {NordvpnRetro(s, choices), SurfsharkRetro(s, retro), s}
    BY DEF WithoutOldNames
<1>. QED BY <1>1, <1>2, <1>3

\* Validation keeps the settings regular; valid ones have a provider and a selection it takes.
LEMMA Validated ==
    ASSUME NEW v, Regular(v), NEW choices, NEW retro, NEW ipv6, NEW sixes
    PROVE  LET w == Validate(v, choices, retro, ipv6, sixes) IN
           /\ Regular(w.settings)
           /\ w.ok => /\ The(w.settings.provider.Name) \in AllWithCustom
                      /\ w.settings.selection.VPN = {"openvpn"} =>
                             OpenVPNSelectionValid(w.settings.selectionOpenVPN, The(w.settings.provider.Name))
<1>. DEFINE name == The(v.provider.Name)
            type == The(v.vpn.Type)
            s == WithoutOldNames(v.selection, name, choices, retro)
            w == Validate(v, choices, retro, ipv6, sixes)
<1>1. w.settings = [v EXCEPT !.selection = s]
    BY DEF Validate
<1>2. w.ok => /\ type \in {"amneziawg", "openvpn", "wireguard"} /\ name \in Names(type)
              /\ SelectionValid(s, v.selectionOpenVPN, v.selectionWireguard, name, choices)
    BY DEF Validate
<1>3. "VPN" \in DOMAIN s /\ s.VPN = v.selection.VPN
    BY SameVPN DEF Regular
<1>. HIDE DEF w, s
<1>4. /\ w.settings.provider = v.provider /\ w.settings.selectionOpenVPN = v.selectionOpenVPN
      /\ w.settings.selection = s /\ DOMAIN w.settings = DOMAIN v
    BY <1>1 DEF Regular
<1>5. Regular(w.settings)
    BY <1>3, <1>4 DEF Regular
<1>6. w.ok => name \in AllWithCustom
    <2>1. Names("amneziawg") \subseteq AllWithCustom \cup {"pia"} /\ Names("openvpn") \subseteq AllWithCustom \cup {"pia"}
          /\ Names("wireguard") \subseteq AllWithCustom \cup {"pia"}
        BY Zenon DEF Names, AllWithCustom, WireguardProviders
    <2>2. name # "pia"
        BY TheOne DEF Regular, NamesOne
    <2>. QED BY <1>2, <2>1, <2>2
<1>7. w.ok /\ s.VPN = {"openvpn"} => OpenVPNSelectionValid(v.selectionOpenVPN, name)
    BY <1>2, TheOne DEF SelectionValid
<1>. QED BY <1>4, <1>5, <1>6, <1>7 DEF w

\* A partial update that names one VPN type and one provider, or none.
Mild(o) ==
    /\ o.selection.VPN = {} \/ \E kind : o.selection.VPN = {kind}
    /\ o.provider.Name = {} \/ NamesOne(o.provider.Name)

\* A mild update keeps the settings regular.
LEMMA OverriddenRegular ==
    ASSUME NEW v, Regular(v), NEW o, Mild(o)
    PROVE  Regular(OverrideVPN(CopyVPN(v), o))
<1>. DEFINE copy == CopyVPN(v)  w == OverrideVPN(copy, o)
<1>1. copy = [p \in DOMAIN v |-> Copied(v[p], Kept[p])]
    BY DEF CopyVPN
<1>2. w = [p \in DOMAIN copy |-> Overridden(copy[p], o[p], Kept[p])]
    BY DEF OverrideVPN
<1>3. Kept["selection"] = SelectionKept /\ Kept["provider"] = ProviderKept
    BY DEF Kept
<1>4. "VPN" \in SelectionKept /\ "Name" \in ProviderKept
    BY DEF SelectionKept, SelectionFields, ProviderKept, ProviderFields
<1>. HIDE DEF copy, w
<1>5. "selection" \in DOMAIN v /\ "provider" \in DOMAIN v /\ "VPN" \in DOMAIN v.selection /\ "Name" \in DOMAIN v.provider
    BY DEF Regular
<1>6. DOMAIN copy = DOMAIN v /\ DOMAIN w = DOMAIN v
    BY <1>1, <1>2
<1>7. copy["selection"] = Copied(v["selection"], SelectionKept) /\ copy["provider"] = Copied(v["provider"], ProviderKept)
    BY <1>1, <1>3, <1>5
<1>8. w["selection"] = Overridden(copy["selection"], o["selection"], SelectionKept)
      /\ w["provider"] = Overridden(copy["provider"], o["provider"], ProviderKept)
    BY <1>2, <1>3, <1>5, <1>6
<1>9. "VPN" \in DOMAIN w["selection"]
      /\ w["selection"]["VPN"] = IF o["selection"]["VPN"] # {} THEN o["selection"]["VPN"] ELSE v["selection"]["VPN"]
    BY <1>4, <1>5, <1>7, <1>8 DEF Copied, Overridden
<1>10. "Name" \in DOMAIN w["provider"]
       /\ w["provider"]["Name"] = IF o["provider"]["Name"] # {} THEN o["provider"]["Name"] ELSE v["provider"]["Name"]
    BY <1>4, <1>5, <1>7, <1>8 DEF Copied, Overridden
<1>11. Regular(w)
    BY <1>5, <1>6, <1>9, <1>10 DEF Regular, Mild
<1>. QED BY <1>11 DEF w, copy

\* The update of nothing sets no field.
LEMMA NothingMild ==
    /\ Nothing_.selection.VPN = {} /\ Nothing_.provider.Name = {}
    /\ {"selection", "provider", "vpn", "selectionOpenVPN"} \subseteq DOMAIN Nothing_
    /\ "VPN" \in DOMAIN Nothing_.selection /\ "Name" \in DOMAIN Nothing_.provider
<1>1. "selection" \in DOMAIN VPNStructs /\ "provider" \in DOMAIN VPNStructs /\ "vpn" \in DOMAIN VPNStructs
      /\ "selectionOpenVPN" \in DOMAIN VPNStructs
      /\ VPNStructs["selection"] = SelectionFields /\ VPNStructs["provider"] = ProviderFields
    BY DEF VPNStructs
<1>2. "VPN" \in SelectionFields /\ "Name" \in ProviderFields
    BY DEF SelectionFields, ProviderFields
<1>3. Nothing_ = [p \in DOMAIN VPNStructs |-> [f \in VPNStructs[p] |-> {}]]
    BY DEF Nothing_
<1>. QED BY <1>1, <1>2, <1>3

\* An update of one field is mild.
LEMMA SettingIs ==
    ASSUME NEW p \in {"provider", "vpn", "selection", "selectionOpenVPN"}, NEW f, NEW x,
           p = "provider" => f = "Name" /\ x # "pia"
    PROVE  Mild(Setting(p, f, x))
<1>. DEFINE o == Setting(p, f, x)
<1>1. o = [Nothing_ EXCEPT ![p] = [Nothing_[p] EXCEPT ![f] = {x}]]
    BY DEF Setting
<1>. HIDE DEF o
<1>2. p \in DOMAIN Nothing_
    BY NothingMild
<1>3. CASE p = "provider"
    <2>1. o.selection = Nothing_.selection /\ o.provider = [Nothing_.provider EXCEPT !["Name"] = {x}]
        BY <1>1, <1>2, <1>3
    <2>2. o.provider.Name = {x}
        BY <2>1, NothingMild
    <2>. QED BY <1>3, <2>1, <2>2, NothingMild DEF Mild, NamesOne, o
<1>4. CASE p = "selection"
    <2>1. o.provider = Nothing_.provider /\ o.selection = [Nothing_.selection EXCEPT ![f] = {x}]
        BY <1>1, <1>2, <1>4
    <2>2. o.selection.VPN = IF f = "VPN" THEN {x} ELSE {}
        BY <2>1, NothingMild
    <2>. QED BY <2>1, <2>2, NothingMild DEF Mild, o
<1>5. CASE p \notin {"provider", "selection"}
    <2>1. o.selection = Nothing_.selection /\ o.provider = Nothing_.provider
        BY <1>1, <1>2, <1>5
    <2>. QED BY <2>1, NothingMild DEF Mild, o
<1>. QED BY <1>3, <1>4, <1>5

\* Each partial update of the instance is mild.
LEMMA PatchesAre ==
    ASSUME NEW o \in Patches
    PROVE  Mild(o)
<1>. DEFINE long == "private internet access"
<1>1. \/ o = Nothing_
      \/ \E n \in {long, "mullvad", "windscribe"} : o = Setting("provider", "Name", n)
      \/ \E x : o = Setting("vpn", "Type", x)
      \/ \E x : o = Setting("selection", "VPN", x)
      \/ \E x : o = Setting("selectionOpenVPN", "Protocol", x)
      \/ \E x : o = Setting("selectionOpenVPN", "PIAEncPreset", x)
    BY Zenon DEF Patches
<1>2. long # "pia"
    BY Zenon
<1>. HIDE DEF long
<1>3. CASE o = Nothing_
    BY <1>3, NothingMild DEF Mild
<1>4. CASE \E n \in {long, "mullvad", "windscribe"} : o = Setting("provider", "Name", n)
    <2>1. PICK n \in {long, "mullvad", "windscribe"} : o = Setting("provider", "Name", n)
        BY <1>4
    <2>2. n # "pia"
        BY <1>2
    <2>. QED BY <2>1, <2>2, SettingIs
<1>5. CASE \E p \in {"vpn", "selection", "selectionOpenVPN"} : \E f, x : o = Setting(p, f, x)
    <2>1. PICK p \in {"vpn", "selection", "selectionOpenVPN"} : \E f, x : o = Setting(p, f, x)
        BY <1>5
    <2>2. PICK f, x : o = Setting(p, f, x)
        BY <2>1
    <2>. QED BY <2>2, SettingIs
<1>. QED BY <1>1, <1>3, <1>4, <1>5

\* Settings of any environment, also after a partial update, connect or err.
LEMMA EnvConnects ==
    ASSUME PickEnv
    PROVE  ConnectsOrErrs'
<1>. DEFINE Input(patch, env, provider) ==
                [kind |-> "env", patch |-> patch, env |-> env,
                 started |-> Validate(SetVPNDefaults(ReadVPN(env)), Choices(provider), NoRetro, TRUE, V6)]
<1>0. PICK patch \in Patches : \E env, provider : input' = Input(patch, env, provider)
    <2>1. PICK provider \in AllWithCustom, type \in {"openvpn", "wireguard"}, k1 \in Keys, k2 \in Keys, patch \in Patches :
              input' = Input(patch, Env({k1, k2}) @@ [VPN_SERVICE_PROVIDER |-> provider, VPN_TYPE |-> type] @@ Credentials,
                             provider)
        BY Zenon DEF PickEnv
    <2>. HIDE DEF Input
    <2>. QED BY <2>1, Zenon
<1>1. PICK env, provider : input' = Input(patch, env, provider)
    <2>. HIDE DEF Input
    <2>. QED BY <1>0
<1>. DEFINE began == Validate(SetVPNDefaults(ReadVPN(env)), Choices(provider), NoRetro, TRUE, V6)
            over == OverrideVPN(CopyVPN(began.settings), patch)
            choosing == Choices(IF patch.provider.Name = {} THEN The(began.settings.provider.Name) ELSE The(patch.provider.Name))
            now == Validate(over, choosing, NoRetro, TRUE, V6)
            v == now.settings
            name == The(v.provider.Name)
<1>2. Regular(began.settings)
    <2>1. Regular(SetVPNDefaults(ReadVPN(env)))
        BY Loads
    <2>. HIDE DEF Regular
    <2>. QED BY <2>1, Validated, Zenon
<1>3. Regular(over)
    <2>. HIDE DEF began
    <2>. QED BY <1>2, PatchesAre, OverriddenRegular, Zenon
<1>4. /\ Regular(v)
      /\ now.ok => /\ name \in AllWithCustom
                   /\ v.selection.VPN = {"openvpn"} => OpenVPNSelectionValid(v.selectionOpenVPN, name)
    <2>. HIDE DEF over, choosing
    <2>. QED BY <1>3, Validated, Zenon
<1>5. input.started' = began /\ input.patch' = patch
    BY <1>1
<1>6. Patched' = now
    <2>. HIDE DEF began
    <2>. QED BY <1>5 DEF Patched, PatchedBy, Patch, Choosing, Started
<1>. HIDE DEF now
<1>7. SUFFICES ASSUME now.ok, name # "custom", NEW conn \in Connections(v)
               PROVE  /\ conn.result # "panic"
                      /\ conn.result = "connection" /\ conn.type = "openvpn" => conn.server[conn.protocol]
    BY <1>6 DEF ConnectsOrErrs, Connections
<1>8. PICK kind : v.selection.VPN = {kind}
    BY <1>4 DEF Regular
<1>9. conn \in GetConnection(Stored(name), v.selection, v.selectionOpenVPN, v.selectionWireguard,
                             DefaultPorts(name, The(v.selectionOpenVPN.PIAEncPreset)), TRUE, V6)
    BY <1>7 DEF Connections
<1>10. name \in AllWithCustom \ {"custom"}
       /\ (kind = "openvpn" => OpenVPNSelectionValid(v.selectionOpenVPN, name))
    BY <1>4, <1>7, <1>8
<1>. HIDE DEF v, name
<1>. DEFINE s == v.selection  so == v.selectionOpenVPN  sw == v.selectionWireguard
<1>11. /\ s.VPN = {kind} /\ (kind = "openvpn" => OpenVPNSelectionValid(so, name))
       /\ name \in AllWithCustom \ {"custom"}
    BY <1>8, <1>10
<1>12. conn \in GetConnection(Stored(name), s, so, sw, DefaultPorts(name, The(so.PIAEncPreset)), TRUE, V6)
    BY <1>9
<1>. HIDE DEF name, s, so, sw
<1>13. ASSUME NEW six, conn \in GetConnection(Stored(name), s, so, sw, DefaultPorts(name, The(so.PIAEncPreset)), six, V6)
       PROVE  Fine(conn)
    <2>1. name \in AllWithCustom \ {"custom"} /\ s.VPN = {kind} /\ (kind = "openvpn" => OpenVPNSelectionValid(so, name))
        BY <1>11
    <2>2. conn \in GetConnection(Stored(name), s, so, sw, DefaultPorts(name, The(so.PIAEncPreset)), six, V6)
        BY <1>13
    <2>. QED BY <2>1, <2>2, ValidConnects
<1>. QED BY <1>12, <1>13, Zenon DEF Fine

(***************************************************************************)
(* The configuration of a provider. It is joined of some twenty parts,     *)
(* each of which holds directives of its own; what the settings of a       *)
(* provider have to be for the parts not to meet is in Suits and Proper,   *)
(* and each provider's are.                                                *)
(***************************************************************************)

\* Of the directives OpenVPN takes one of, a configuration has those of heads, once each, and some lines.
HoldsLines(q, heads, lines) == Whole(q, OneOf, heads) /\ lines \subseteq Values(q)

\* Two sequences of lines that share no directive hold the lines of both.
LEMMA Joined ==
    ASSUME NEW a, NEW b, NEW left, NEW right, NEW la, NEW lb, HoldsLines(a, left, la), HoldsLines(b, right, lb),
           left \cap right = {}
    PROVE  HoldsLines(a \o b, left \cup right, la \cup lb)
<1>1. Whole(a \o b, OneOf, left \cup right)
    BY Joins DEF HoldsLines
<1>2. Values(a \o b) = Values(a) \cup Values(b)
    BY ValuesJoined DEF HoldsLines, Whole
<1>. QED BY <1>1, <1>2 DEF HoldsLines

\* The same, of which the second names no line.
LEMMA JoinedPlain ==
    ASSUME NEW a, NEW b, NEW left, NEW right, NEW lines, HoldsLines(a, left, lines), HoldsLines(b, right, {}),
           left \cap right = {}
    PROVE  HoldsLines(a \o b, left \cup right, lines)
<1>1. lines \cup {} = lines
    OBVIOUS
<1>2. HoldsLines(a \o b, left \cup right, lines \cup {})
    BY Joined
<1>. QED BY <1>1, <1>2

\* Other lines add nothing to what it holds.
LEMMA JoinedOther ==
    ASSUME NEW a, NEW b, NEW heads, NEW lines, HoldsLines(a, heads, lines), HoldsLines(b, {}, {})
    PROVE  HoldsLines(a \o b, heads, lines)
<1>1. heads \cap {} = {} /\ heads \cup {} = heads /\ lines \cup {} = lines
    OBVIOUS
<1>2. HoldsLines(a \o b, heads \cup {}, lines \cup {})
    BY <1>1, Joined
<1>. QED BY <1>1, <1>2

\* No line holds nothing.
LEMMA HoldsNone == HoldsLines(<<>>, {}, {})
BY NoLine DEF HoldsLines

\* One line holds itself.
LEMMA HoldsOne ==
    ASSUME NEW line
    PROVE  HoldsLines(<<line>>, {line[1]}, {line})
<1>1. line \in Values(<<line>>)
    BY DEF Values
<1>2. Whole(<<line>>, OneOf, {line[1]})
    BY OneLine
<1>. QED BY <1>1, <1>2 DEF HoldsLines

\* More directives may be said to be held.
LEMMA HoldsMore ==
    ASSUME NEW q, NEW heads, NEW lines, NEW more, HoldsLines(q, heads, lines), heads \cap OneOf \subseteq more
    PROVE  HoldsLines(q, more, lines)
BY MoreHeads DEF HoldsLines

\* Fewer lines may be said to be held.
LEMMA HoldsLess ==
    ASSUME NEW q, NEW heads, NEW lines, NEW some, HoldsLines(q, heads, lines), some \subseteq lines
    PROVE  HoldsLines(q, heads, some)
BY DEF HoldsLines

\* The lines of an option that is there or not.
LEMMA IfHolds ==
    ASSUME NEW condition, NEW q, NEW heads, HoldsLines(q, heads, {})
    PROVE  HoldsLines(If(condition, q), heads, {})
<1>1. HoldsLines(<<>>, heads, {})
    BY HoldsNone, HoldsMore
<1>2. If(condition, q) = q \/ If(condition, q) = <<>>
    BY Zenon DEF If
<1>. QED BY <1>1, <1>2, Zenon

\* A line that may be there holds at most itself.
LEMMA IfOne ==
    ASSUME NEW condition, NEW line, NEW d, line[1] = d
    PROVE  HoldsLines(If(condition, <<line>>), {d}, {})
<1>1. HoldsLines(<<line>>, {d}, {})
    BY HoldsOne, HoldsLess
<1>. QED BY <1>1, IfHolds, Zenon

\* A line of a directive that may be repeated holds none of the others.
LEMMA IfOther ==
    ASSUME NEW condition, NEW line, line[1] \notin OneOf
    PROVE  HoldsLines(If(condition, <<line>>), {}, {})
<1>1. HoldsLines(<<line>>, {line[1]}, {})
    BY HoldsOne, HoldsLess
<1>2. {line[1]} \cap OneOf \subseteq {}
    OBVIOUS
<1>3. HoldsLines(<<line>>, {}, {})
    BY <1>1, <1>2, HoldsMore
<1>. QED BY <1>3, IfHolds, Zenon

\* The head of an option that is there, and its line.
HeadIf(name, value, none) == IF value # none THEN {name} ELSE {}
OptLine(name, value, none) == IF value # none THEN {<<name, value>>} ELSE {}

\* An option with a value holds a line with the value.
LEMMA OptHolds ==
    ASSUME NEW name, NEW value, NEW none
    PROVE  HoldsLines(Opt(name, value, none), HeadIf(name, value, none), OptLine(name, value, none))
<1>. DEFINE line == <<name, value>>
<1>1. Opt(name, value, none) = IF value # none THEN <<line>> ELSE <<>>
    BY DEF Opt, If
<1>2. line[1] = name
    OBVIOUS
<1>3. HeadIf(name, value, none) = (IF value # none THEN {line[1]} ELSE {})
      /\ OptLine(name, value, none) = (IF value # none THEN {line} ELSE {})
    BY <1>2 DEF HeadIf, OptLine
<1>. HIDE DEF line
<1>. QED BY <1>1, <1>3, HoldsOne, HoldsNone

\* An option is one line at most.
LEMMA OptAtMost ==
    ASSUME NEW name, NEW value, NEW none
    PROVE  HoldsLines(Opt(name, value, none), {name}, {})
<1>1. HeadIf(name, value, none) \subseteq {name}
    BY DEF HeadIf
<1>2. HoldsLines(Opt(name, value, none), HeadIf(name, value, none), {})
    BY OptHolds, HoldsLess
<1>. QED BY <1>1, <1>2, HoldsMore

\* An option that may be repeated holds none of the others.
LEMMA OptOther ==
    ASSUME NEW name, name \notin OneOf, NEW value, NEW none
    PROVE  HoldsLines(Opt(name, value, none), {}, {})
<1>1. HoldsLines(Opt(name, value, none), {name}, {})
    BY OptAtMost
<1>2. {name} \cap OneOf \subseteq {}
    OBVIOUS
<1>. QED BY <1>1, <1>2, HoldsMore

\* A flag is one line at most.
LEMMA FlagAtMost ==
    ASSUME NEW name, NEW on
    PROVE  HoldsLines(Flag(name, on), {name}, {})
<1>. DEFINE line == <<name>>
<1>1. line[1] = name
    OBVIOUS
<1>2. Flag(name, on) = If(on, <<line>>)
    BY Zenon DEF Flag
<1>. HIDE DEF line
<1>. QED BY <1>1, <1>2, IfOne, Zenon

\* A flag that may be repeated holds none of the others.
LEMMA FlagOther ==
    ASSUME NEW name, name \notin OneOf, NEW on
    PROVE  HoldsLines(Flag(name, on), {}, {})
<1>1. HoldsLines(Flag(name, on), {name}, {})
    BY FlagAtMost, Zenon
<1>. DEFINE q == Flag(name, on)
<1>. HIDE DEF q
<1>2. HoldsLines(q, {name}, {}) => HoldsLines(q, {}, {})
    BY HoldsMore
<1>. QED BY <1>1, <1>2, Zenon DEF q

\* The lines every configuration has.
LEMMA FirstDirectives ==
    ASSUME NEW conn, NEW o
    PROVE  HoldsLines(<<<<"client">>, <<"nobind">>, <<"tls-exit">>, <<"auth-nocache">>, <<"mute-replay-warnings">>,
                   <<"auth-retry", "nointeract">>, <<"suppress-timestamps">>, <<"dev", The(o.Interface)>>,
                   <<"verb", The(o.Verbosity)>>, <<"proto", conn.protocol>>, <<"remote", conn.ip, conn.port>>>>,
                 {"dev", "verb", "proto", "remote"}, {<<"remote", conn.ip, conn.port>>})
<1>. DEFINE client == <<"client">>  nobind == <<"nobind">>  tlsexit == <<"tls-exit">>
            cache == <<"auth-nocache">>  mute == <<"mute-replay-warnings">>
            retry == <<"auth-retry", "nointeract">>  times == <<"suppress-timestamps">>
            dev == <<"dev", The(o.Interface)>>  verb == <<"verb", The(o.Verbosity)>>
            proto == <<"proto", conn.protocol>>  remote == <<"remote", conn.ip, conn.port>>
            q == <<client, nobind, tlsexit, cache, mute, retry, times, dev, verb, proto, remote>>
<1>1. /\ client[1] = "client" /\ nobind[1] = "nobind" /\ tlsexit[1] = "tls-exit" /\ cache[1] = "auth-nocache"
      /\ mute[1] = "mute-replay-warnings" /\ retry[1] = "auth-retry" /\ times[1] = "suppress-timestamps"
      /\ dev[1] = "dev" /\ verb[1] = "verb" /\ proto[1] = "proto" /\ remote[1] = "remote"
    OBVIOUS
<1>. HIDE DEF client, nobind, tlsexit, cache, mute, retry, times, dev, verb, proto, remote
<1>2. /\ Len(q) = 11 /\ q[1] = client /\ q[2] = nobind /\ q[3] = tlsexit /\ q[4] = cache /\ q[5] = mute
      /\ q[6] = retry /\ q[7] = times /\ q[8] = dev /\ q[9] = verb /\ q[10] = proto /\ q[11] = remote
      /\ DOMAIN q = 1..11
    OBVIOUS
<1>3. q \in Seq({client, nobind, tlsexit, cache, mute, retry, times, dev, verb, proto, remote})
    OBVIOUS
<1>. HIDE DEF q
<1>4. \A i \in 1..11 : i = 1 \/ i = 2 \/ i = 3 \/ i = 4 \/ i = 5 \/ i = 6 \/ i = 7 \/ i = 8 \/ i = 9 \/ i = 10 \/ i = 11
    OBVIOUS
<1>5. {client, nobind, tlsexit, cache, mute, retry, times, dev, verb, proto, remote} \subseteq Values(q)
    BY <1>2 DEF Values
<1>6. q \in Seq(Values(q))
    BY <1>3, <1>5
<1>7. \A i \in 1..11 : q[i][1] \in OneOf => q[i][1] \in {"dev", "verb", "proto", "remote"}
    BY <1>1, <1>2, <1>4 DEF OneOf
<1>8. \A i, j \in 1..11 : q[i][1] = q[j][1] => i = j
    BY <1>1, <1>2, <1>4
<1>9. Whole(q, OneOf, {"dev", "verb", "proto", "remote"})
    BY <1>2, <1>6, <1>7, <1>8 DEF Whole
<1>10. HoldsLines(q, {"dev", "verb", "proto", "remote"}, {remote})
    BY <1>5, <1>9 DEF HoldsLines
<1>. QED BY <1>10 DEF q, client, nobind, tlsexit, cache, mute, retry, times, dev, verb, proto, remote

\* Directives that may be of a provider's own lines.
Movable == {"key-direction", "ping", "tun-mtu", "tun-mtu-extra"}

\* Directives the program writes for every provider, or may write.
Always == {"dev", "verb", "proto", "remote", "auth-user-pass", "reneg-sec", "tls-cipher",
           "data-ciphers-fallback", "data-ciphers", "auth", "mssfix", "fragment", "user"}

\* The certificates and keys of a configuration.
LEMMA BlocksJoined ==
    ASSUME NEW A, A \subseteq {"tls-auth"}, NEW ca, HoldsLines(ca, {"ca"}, {}), NEW cert, HoldsLines(cert, {}, {}),
           NEW key, HoldsLines(key, {}, {}), NEW rsa, HoldsLines(rsa, {}, {}), NEW auth, HoldsLines(auth, A, {}),
           NEW crypt, HoldsLines(crypt, {"tls-crypt"}, {}), NEW pass, HoldsLines(pass, {}, {}),
           NEW cert2, HoldsLines(cert2, {}, {}), NEW key2, HoldsLines(key2, {}, {})
    PROVE  HoldsLines(ca \o cert \o key \o rsa \o auth \o crypt \o pass \o cert2 \o key2, {"ca", "tls-crypt"} \cup A, {})
<1>. DEFINE H0 == {"ca"}  L0 == {}
<1>0. HoldsLines(ca, H0, L0)
    OBVIOUS
<1>. DEFINE q1 == ca \o cert
<1>1. HoldsLines(q1, H0, L0)
    <2>. HIDE DEF H0, L0
    <2>. QED BY <1>0, JoinedOther
<1>. HIDE DEF q1
<1>. DEFINE q2 == q1 \o key
<1>2. HoldsLines(q2, H0, L0)
    <2>. HIDE DEF H0, L0
    <2>. QED BY <1>1, JoinedOther
<1>. HIDE DEF q2
<1>. DEFINE q3 == q2 \o rsa
<1>3. HoldsLines(q3, H0, L0)
    <2>. HIDE DEF H0, L0
    <2>. QED BY <1>2, JoinedOther
<1>. HIDE DEF q3
<1>. DEFINE q4 == q3 \o auth  H4 == H0 \cup A
<1>4. HoldsLines(q4, H4, L0)
    <2>1. H0 \cap A = {}
        OBVIOUS
    <2>. HIDE DEF H0, L0
    <2>. QED BY <1>3, <2>1, JoinedPlain
<1>. HIDE DEF q4
<1>. DEFINE q5 == q4 \o crypt  H5 == H4 \cup {"tls-crypt"}
<1>5. HoldsLines(q5, H5, L0)
    <2>1. H4 \cap {"tls-crypt"} = {}
        OBVIOUS
    <2>. HIDE DEF H4, L0
    <2>. QED BY <1>4, <2>1, JoinedPlain
<1>. HIDE DEF q5
<1>. DEFINE q6 == q5 \o pass
<1>6. HoldsLines(q6, H5, L0)
    <2>. HIDE DEF H5, L0
    <2>. QED BY <1>5, JoinedOther
<1>. HIDE DEF q6
<1>. DEFINE q7 == q6 \o cert2
<1>7. HoldsLines(q7, H5, L0)
    <2>. HIDE DEF H5, L0
    <2>. QED BY <1>6, JoinedOther
<1>. HIDE DEF q7
<1>. DEFINE q8 == q7 \o key2
<1>8. HoldsLines(q8, H5, L0)
    <2>. HIDE DEF H5, L0
    <2>. QED BY <1>7, JoinedOther
<1>. HIDE DEF q8
<1>9. H5 = {"ca", "tls-crypt"} \cup A
    OBVIOUS
<1>. HIDE DEF H5
<1>. QED BY <1>8, <1>9 DEF q1, q2, q3, q4, q5, q6, q7, q8

\* The head of a static key.
KeyHead(on) == IF on THEN {"tls-auth"} ELSE {}

\* The static key is one block at most.
LEMMA StaticKey ==
    ASSUME NEW on
    PROVE  HoldsLines(Block("tls-auth", on), KeyHead(on), {}) /\ KeyHead(on) \subseteq {"tls-auth"}
<1>. DEFINE line == <<"tls-auth">>
<1>1. CASE on
    <2>1. Block("tls-auth", on) = <<line>> /\ KeyHead(on) = {"tls-auth"}
        BY <1>1, Zenon DEF Block, Flag, If, KeyHead
    <2>2. line[1] = "tls-auth"
        OBVIOUS
    <2>. HIDE DEF line
    <2>3. HoldsLines(<<line>>, {"tls-auth"}, {})
        BY <2>2, HoldsOne, HoldsLess
    <2>. QED BY <2>1, <2>3, Zenon
<1>2. CASE ~ on
    <2>1. Block("tls-auth", on) = <<>> /\ KeyHead(on) = {}
        BY <1>2, Zenon DEF Block, Flag, If, KeyHead
    <2>2. {} \subseteq {"tls-auth"}
        OBVIOUS
    <2>. QED BY <2>1, <2>2, HoldsNone, Zenon
<1>. QED BY <1>1, <1>2, Zenon

\* Directives that may be repeated.
LEMMA NotOneOf ==
    {"pull-filter", "cert", "key", "askpass", "fast-io", "remote-cert-tls", "sndbuf", "rcvbuf",
     "explicit-exit-notify", "persist-tun", "persist-key"} \cap OneOf = {}
BY DEF OneOf

\* The blocks of certificates and keys are one of each.
LEMMA BlocksHold ==
    ASSUME NEW p, NEW o
    PROVE  HoldsLines(Blocks(p, o), {"ca", "tls-crypt"} \cup KeyHead(p.TLSAuth), {})
<1>. DEFINE line == <<"askpass", "file">>
            both == <<line>> \o Block("key", TRUE)
            pass == If(The(o.EncryptedKey) # Unset, both)
<1>1. "cert" \notin OneOf /\ "key" \notin OneOf /\ line[1] \notin OneOf
    BY NotOneOf
<1>2. \A on : HoldsLines(Block("cert", on), {}, {}) /\ HoldsLines(Block("key", on), {}, {})
    BY <1>1, FlagOther, Zenon DEF Block
<1>3. HoldsLines(pass, {}, {})
    <2>. HIDE DEF line
    <2>1. HoldsLines(<<line>>, {line[1]}, {})
        BY HoldsOne, HoldsLess
    <2>2. {line[1]} \cap OneOf \subseteq {}
        BY <1>1
    <2>3. HoldsLines(<<line>>, {}, {})
        BY <2>1, <2>2, HoldsMore
    <2>4. HoldsLines(both, {}, {})
        <3>. DEFINE key == Block("key", TRUE)
        <3>1. HoldsLines(key, {}, {})
            BY <1>2, Zenon
        <3>2. both = <<line>> \o key
            BY Zenon
        <3>. HIDE DEF key, both
        <3>3. HoldsLines(<<line>> \o key, {}, {})
            BY <2>3, <3>1, JoinedOther
        <3>. QED BY <3>2, <3>3
    <2>. HIDE DEF both
    <2>. QED BY <2>4, IfHolds, Zenon
<1>4. HoldsLines(Block("ca", p.CAs > 0), {"ca"}, {}) /\ HoldsLines(Block("tls-crypt", p.TLSCrypt), {"tls-crypt"}, {})
    BY FlagAtMost, Zenon DEF Block
<1>. HIDE DEF pass
<1>5. Blocks(p, o) = Block("ca", p.CAs > 0) \o Block("cert", p.Cert) \o Block("key", p.Key) \o Block("key", p.RSAKey)
                     \o Block("tls-auth", p.TLSAuth) \o Block("tls-crypt", p.TLSCrypt) \o pass
                     \o Block("cert", The(o.Cert) # Unset) \o Block("key", The(o.Key) # Unset)
    BY Zenon DEF Blocks, pass
<1>. DEFINE ca == Block("ca", p.CAs > 0)  cert == Block("cert", p.Cert)  key == Block("key", p.Key)
            rsa == Block("key", p.RSAKey)  auth == Block("tls-auth", p.TLSAuth)  crypt == Block("tls-crypt", p.TLSCrypt)
            cert2 == Block("cert", The(o.Cert) # Unset)  key2 == Block("key", The(o.Key) # Unset)
            A == KeyHead(p.TLSAuth)
<1>6. /\ HoldsLines(cert, {}, {}) /\ HoldsLines(key, {}, {}) /\ HoldsLines(rsa, {}, {}) /\ HoldsLines(cert2, {}, {}) /\ HoldsLines(key2, {}, {})
    BY <1>2, Zenon
<1>7. HoldsLines(auth, A, {}) /\ A \subseteq {"tls-auth"}
    BY StaticKey, Zenon
<1>8. HoldsLines(ca, {"ca"}, {}) /\ HoldsLines(crypt, {"tls-crypt"}, {})
    BY <1>4, Zenon
<1>9. Blocks(p, o) = ca \o cert \o key \o rsa \o auth \o crypt \o pass \o cert2 \o key2
    BY <1>5, Zenon
<1>. HIDE DEF ca, cert, key, rsa, auth, crypt, cert2, key2, A
<1>10. HoldsLines(ca \o cert \o key \o rsa \o auth \o crypt \o pass \o cert2 \o key2, {"ca", "tls-crypt"} \cup A, {})
    BY <1>3, <1>6, <1>7, <1>8, BlocksJoined
<1>. QED BY <1>9, <1>10, Zenon DEF A

\* The options of a provider that its own lines may give as well, and the line for its certificate.
KeyOf(p) == HeadIf("key-direction", p.KeyDirection, Unset)
PingOf(p) == HeadIf("ping", p.Ping, 0)
MTUOf(p) == HeadIf("tun-mtu", p.TunMTU, 0)
ExtraMTUOf(p) == HeadIf("tun-mtu-extra", p.TunMTUExtra, 0)
OwnOptions(p) == KeyOf(p) \cup PingOf(p) \cup MTUOf(p) \cup ExtraMTUOf(p)
NameOf(p) == HeadIf("verify-x509-name", p.VerifyX509Type, Unset)
NameLine(p, conn) == <<"verify-x509-name", VerifiedName(p, conn), p.VerifyX509Type>>
NameLines(p, conn) == IF p.VerifyX509Type # Unset THEN {NameLine(p, conn)} ELSE {}
KeyLines(p) == OptLine("key-direction", p.KeyDirection, Unset)
OverUDP(conn, lines) == IF conn.protocol = "udp" THEN lines ELSE {}

\* The directives of the options a provider may set.
LEMMA HeadsOfOptions ==
    ASSUME NEW p
    PROVE  /\ KeyOf(p) \subseteq {"key-direction"} /\ PingOf(p) \subseteq {"ping"}
           /\ MTUOf(p) \subseteq {"tun-mtu"} /\ ExtraMTUOf(p) \subseteq {"tun-mtu-extra"}
           /\ NameOf(p) \subseteq {"verify-x509-name"}
BY DEF KeyOf, PingOf, MTUOf, ExtraMTUOf, NameOf, HeadIf

\* The options of a provider are one line each at most.
LEMMA OptionsHold ==
    ASSUME NEW p
    PROVE  /\ HoldsLines(Opt("key-direction", p.KeyDirection, Unset), KeyOf(p), KeyLines(p))
           /\ HoldsLines(Opt("ping", p.Ping, 0), PingOf(p), {})
           /\ HoldsLines(Opt("tun-mtu", p.TunMTU, 0), MTUOf(p), {})
           /\ HoldsLines(Opt("tun-mtu-extra", p.TunMTUExtra, 0), ExtraMTUOf(p), {})
<1>1. \A name, value, none : HoldsLines(Opt(name, value, none), HeadIf(name, value, none), {})
    BY OptHolds, HoldsLess
<1>. QED BY <1>1, OptHolds, Zenon DEF KeyOf, KeyLines, PingOf, MTUOf, ExtraMTUOf

\* The renegotiation is one line at most.
LEMMA RenegHolds ==
    ASSUME NEW p
    PROVE  HoldsLines(IF p.RenegDisabled THEN <<<<"reneg-sec", 0>>>> ELSE Opt("reneg-sec", p.RenegSec, 0), {"reneg-sec"}, {})
<1>. DEFINE line == <<"reneg-sec", 0>>
<1>1. line[1] = "reneg-sec"
    OBVIOUS
<1>. HIDE DEF line
<1>2. HoldsLines(<<line>>, {"reneg-sec"}, {})
    BY <1>1, HoldsOne, HoldsLess
<1>3. HoldsLines(Opt("reneg-sec", p.RenegSec, 0), {"reneg-sec"}, {})
    BY OptAtMost, Zenon
<1>. QED BY <1>2, <1>3, Zenon DEF line

\* The name the certificate is verified by is one line at most.
LEMMA NameHolds ==
    ASSUME NEW p, NEW conn
    PROVE  HoldsLines(If(p.VerifyX509Type # Unset, <<<<"verify-x509-name", VerifiedName(p, conn), p.VerifyX509Type>>>>),
                 NameOf(p), NameLines(p, conn))
<1>. DEFINE line == NameLine(p, conn)
<1>1. line[1] = "verify-x509-name"
    BY DEF NameLine
<1>2. If(p.VerifyX509Type # Unset, <<<<"verify-x509-name", VerifiedName(p, conn), p.VerifyX509Type>>>>)
      = IF p.VerifyX509Type # Unset THEN <<line>> ELSE <<>>
    BY Zenon DEF If, NameLine
<1>3. NameOf(p) = (IF p.VerifyX509Type # Unset THEN {line[1]} ELSE {})
      /\ NameLines(p, conn) = (IF p.VerifyX509Type # Unset THEN {line} ELSE {})
    BY <1>1 DEF NameOf, NameLines, HeadIf
<1>. HIDE DEF line
<1>4. HoldsLines(<<line>>, {line[1]}, {line})
    BY HoldsOne
<1>. QED BY <1>2, <1>3, <1>4, HoldsNone

\* Three lines of directives that may be repeated.
LEMMA ManyOther ==
    ASSUME NEW a, NEW b, NEW d, a[1] \notin OneOf, b[1] \notin OneOf, d[1] \notin OneOf
    PROVE  HoldsLines(<<a, b, d>>, {}, {})
<1>. DEFINE q == <<a, b, d>>
<1>1. Len(q) = 3 /\ q[1] = a /\ q[2] = b /\ q[3] = d /\ DOMAIN q = 1..3
    OBVIOUS
<1>2. q \in Seq({a, b, d})
    OBVIOUS
<1>. HIDE DEF q
<1>3. Values(q) = {a, b, d}
    <2>1. 1..3 = {1, 2, 3}
        OBVIOUS
    <2>. QED BY <1>1, <2>1 DEF Values
<1>4. \A i \in 1..Len(q) : i = 1 \/ i = 2 \/ i = 3
    BY <1>1
<1>5. Whole(q, OneOf, {})
    BY <1>1, <1>2, <1>3, <1>4 DEF Whole
<1>. QED BY <1>5 DEF q, HoldsLines

\* Without IPv6, its options are refused and the lines of the provider follow.
LEMMA IPv6Holds ==
    ASSUME NEW q, HoldsLines(q, {}, {}), NEW ipv6
    PROVE  HoldsLines(If(~ipv6, <<<<"pull-filter", "ignore", "tun-ipv6">>, <<"pull-filter", "ignore", "route-ipv6">>,
                             <<"pull-filter", "ignore", "ifconfig-ipv6">>>> \o q), {}, {})
<1>. DEFINE a == <<"pull-filter", "ignore", "tun-ipv6">>  b == <<"pull-filter", "ignore", "route-ipv6">>
            d == <<"pull-filter", "ignore", "ifconfig-ipv6">>  lines == <<a, b, d>>  all == lines \o q
<1>1. a[1] \notin OneOf /\ b[1] \notin OneOf /\ d[1] \notin OneOf
    BY NotOneOf
<1>2. HoldsLines(lines, {}, {})
    <2>. HIDE DEF a, b, d
    <2>. QED BY <1>1, ManyOther
<1>3. HoldsLines(all, {}, {})
    <2>. HIDE DEF lines
    <2>. QED BY <1>2, JoinedOther
<1>4. HoldsLines(If(~ipv6, all), {}, {})
    <2>. HIDE DEF all
    <2>. QED BY <1>3, IfHolds, Zenon
<1>. QED BY <1>4, Zenon

\* Over UDP, the lines of the provider for it follow.
LEMMA UDPHolds ==
    ASSUME NEW q, NEW U, NEW UL, HoldsLines(q, U, UL), NEW conn
    PROVE  HoldsLines(If(conn.protocol = "udp", <<<<"explicit-exit-notify">>>> \o q), U, OverUDP(conn, UL))
<1>. DEFINE line == <<"explicit-exit-notify">>  first == <<line>>  all == first \o q
<1>1. line[1] \notin OneOf
    BY NotOneOf
<1>2. HoldsLines(first, {}, {})
    <2>. HIDE DEF line
    <2>1. HoldsLines(first, {line[1]}, {})
        BY HoldsOne, HoldsLess
    <2>2. {line[1]} \cap OneOf \subseteq {}
        BY <1>1
    <2>. HIDE DEF first
    <2>. QED BY <2>1, <2>2, HoldsMore
<1>3. HoldsLines(all, U, UL)
    <2>. HIDE DEF first
    <2>1. {} \cap U = {} /\ {} \cup U = U /\ {} \cup UL = UL
        OBVIOUS
    <2>2. HoldsLines(all, {} \cup U, {} \cup UL)
        BY <1>2, <2>1, Joined
    <2>. QED BY <2>1, <2>2
<1>4. If(conn.protocol = "udp", all) = IF conn.protocol = "udp" THEN all ELSE <<>>
    BY Zenon DEF If
<1>. HIDE DEF all
<1>5. HoldsLines(<<>>, U, {})
    BY HoldsNone, HoldsMore
<1>6. HoldsLines(If(conn.protocol = "udp", all), U, OverUDP(conn, UL))
    BY <1>3, <1>4, <1>5 DEF OverUDP
<1>. QED BY <1>6 DEF all

\* The login is one line at most.
LEMMA LoginHolds ==
    ASSUME NEW user
    PROVE  HoldsLines(If(user # Unset, <<<<"auth-user-pass", "file">>>>), {"auth-user-pass"}, {})
<1>. DEFINE line == <<"auth-user-pass", "file">>
<1>1. line[1] = "auth-user-pass"
    OBVIOUS
<1>. HIDE DEF line
<1>2. HoldsLines(If(user # Unset, <<line>>), {"auth-user-pass"}, {})
    BY <1>1, IfOne, Zenon
<1>. QED BY <1>2, Zenon DEF line

\* A refused token is a line that may be repeated.
LEMMA TokenHolds ==
    ASSUME NEW token
    PROVE  HoldsLines(If(~token, <<<<"pull-filter", "ignore", "auth-token">>>>), {}, {})
<1>. DEFINE line == <<"pull-filter", "ignore", "auth-token">>
<1>1. line[1] \notin OneOf
    BY NotOneOf
<1>. HIDE DEF line
<1>2. HoldsLines(If(~token, <<line>>), {}, {})
    BY <1>1, IfOther, Zenon
<1>. QED BY <1>2, Zenon DEF line

\* The ciphers are a line of each directive at most.
LEMMA CiphersHold ==
    ASSUME NEW ciphers
    PROVE  HoldsLines(CipherLines(ciphers), {"data-ciphers-fallback", "data-ciphers"}, {})
BY CipherLinesAre DEF HoldsLines

\* The user is one line at most.
LEMMA UserHolds ==
    ASSUME NEW user
    PROVE  HoldsLines(If(user # "root", <<<<"user", user>>, <<"persist-tun">>, <<"persist-key">>>>), {"user"}, {})
<1>. DEFINE q == If(user # "root", <<<<"user", user>>, <<"persist-tun">>, <<"persist-key">>>>)
<1>1. Whole(q, OneOf, {"user", "persist-tun", "persist-key"})
    BY UserLines
<1>. HIDE DEF q
<1>2. {"user", "persist-tun", "persist-key"} \cap OneOf \subseteq {"user"}
    BY NotOneOf
<1>3. HoldsLines(q, {"user", "persist-tun", "persist-key"}, {})
    BY <1>1 DEF HoldsLines
<1>4. HoldsLines(q, {"user"}, {})
    BY <1>2, <1>3, HoldsMore
<1>. QED BY <1>4 DEF q

\* What a provider's own lines may be: none of a directive that the program writes for it.
Suits(p, U, UL, X, XL) ==
    /\ HoldsLines(p.UDPLines, U, UL) /\ HoldsLines(p.ExtraLines, X, XL)
    /\ HoldsLines(p.SetEnv, {}, {}) /\ HoldsLines(p.UnderIPv4, {}, {})
    /\ U \cup X \subseteq Movable /\ U \cap X = {} /\ (U \cup X) \cap OwnOptions(p) = {}

DirectiveHeads(p, U) ==
    Always \cup KeyOf(p) \cup PingOf(p) \cup NameOf(p) \cup MTUOf(p) \cup ExtraMTUOf(p) \cup U
DirectiveLines(p, conn, UL) == {<<"remote", conn.ip, conn.port>>} \cup KeyLines(p) \cup NameLines(p, conn) \cup OverUDP(conn, UL)

\* The directives have one line of each, and name the server of the connection.
LEMMA DirectivesHold ==
    ASSUME NEW p, NEW conn, NEW o, NEW ipv6, NEW U, NEW UL, NEW X, NEW XL, Suits(p, U, UL, X, XL)
    PROVE  HoldsLines(Directives(p, conn, o, ipv6), DirectiveHeads(p, U), DirectiveLines(p, conn, UL))
<1>. DEFINE first == <<<<"client">>, <<"nobind">>, <<"tls-exit">>, <<"auth-nocache">>, <<"mute-replay-warnings">>,
                       <<"auth-retry", "nointeract">>, <<"suppress-timestamps">>, <<"dev", The(o.Interface)>>,
                       <<"verb", The(o.Verbosity)>>, <<"proto", conn.protocol>>, <<"remote", conn.ip, conn.port>>>>
            login == If(The(o.User) # Unset, <<<<"auth-user-pass", "file">>>>)
            pull == If(~p.AuthToken, <<<<"pull-filter", "ignore", "auth-token">>>>)
            key == Opt("key-direction", p.KeyDirection, Unset)
            ping == Opt("ping", p.Ping, 0)
            reneg == IF p.RenegDisabled THEN <<<<"reneg-sec", 0>>>> ELSE Opt("reneg-sec", p.RenegSec, 0)
            tls == Flag("remote-cert-tls", p.RemoteCertTLS)
            verify == If(p.VerifyX509Type # Unset, <<<<"verify-x509-name", VerifiedName(p, conn), p.VerifyX509Type>>>>)
            cipher == Opt("tls-cipher", p.TLSCipher, Unset)
            fast == Flag("fast-io", p.FastIO)
            ciphers == CipherLines(IF Given(o, "Ciphers") # <<>> THEN Given(o, "Ciphers") ELSE p.Ciphers)
            auth == Opt("auth", IF The(o.Auth) # Unset THEN The(o.Auth) ELSE p.Auth, Unset)
            mtu == Opt("tun-mtu", p.TunMTU, 0)
            mtux == Opt("tun-mtu-extra", p.TunMTUExtra, 0)
            mssfix == Opt("mssfix", IF The(o.MSSFix) > 0 THEN The(o.MSSFix) ELSE p.MssFix, 0)
            fragment == Opt("fragment", p.Fragment, 0)
            snd == Opt("sndbuf", p.SndBuf, 0)
            rcv == Opt("rcvbuf", p.RcvBuf, 0)
            udp == If(conn.protocol = "udp", <<<<"explicit-exit-notify">>>> \o p.UDPLines)
            user == If(The(o.ProcessUser) # "root", <<<<"user", The(o.ProcessUser)>>, <<"persist-tun">>, <<"persist-key">>>>)
            six == If(~ipv6, <<<<"pull-filter", "ignore", "tun-ipv6">>, <<"pull-filter", "ignore", "route-ipv6">>,
                               <<"pull-filter", "ignore", "ifconfig-ipv6">>>> \o p.UnderIPv4)
            env == p.SetEnv
            remote == <<"remote", conn.ip, conn.port>>
<1>1. Directives(p, conn, o, ipv6)
      = first \o login \o pull \o key \o ping \o reneg \o tls \o verify \o cipher \o fast \o ciphers
        \o auth \o mtu \o mtux \o mssfix \o fragment \o snd \o rcv \o udp \o user \o six \o env
    BY Zenon DEF Directives
<1>2. HoldsLines(first, {"dev", "verb", "proto", "remote"}, {remote})
    BY FirstDirectives, Zenon
<1>3. HoldsLines(login, {"auth-user-pass"}, {}) /\ HoldsLines(pull, {}, {}) /\ HoldsLines(reneg, {"reneg-sec"}, {})
    BY LoginHolds, TokenHolds, RenegHolds, Zenon
<1>4. /\ HoldsLines(key, KeyOf(p), KeyLines(p)) /\ HoldsLines(ping, PingOf(p), {})
      /\ HoldsLines(mtu, MTUOf(p), {}) /\ HoldsLines(mtux, ExtraMTUOf(p), {})
    BY OptionsHold, Zenon
<1>5. HoldsLines(verify, NameOf(p), NameLines(p, conn))
    BY NameHolds, Zenon
<1>6. /\ "remote-cert-tls" \notin OneOf /\ "fast-io" \notin OneOf /\ "sndbuf" \notin OneOf /\ "rcvbuf" \notin OneOf
    BY NotOneOf
<1>7. HoldsLines(tls, {}, {}) /\ HoldsLines(fast, {}, {}) /\ HoldsLines(snd, {}, {}) /\ HoldsLines(rcv, {}, {})
    BY <1>6, FlagOther, OptOther, Zenon
<1>8. /\ HoldsLines(cipher, {"tls-cipher"}, {}) /\ HoldsLines(auth, {"auth"}, {}) /\ HoldsLines(mssfix, {"mssfix"}, {})
      /\ HoldsLines(fragment, {"fragment"}, {})
    BY OptAtMost, Zenon
<1>9. HoldsLines(ciphers, {"data-ciphers-fallback", "data-ciphers"}, {}) /\ HoldsLines(user, {"user"}, {})
    BY CiphersHold, UserHolds, Zenon
<1>10. HoldsLines(udp, U, OverUDP(conn, UL)) /\ HoldsLines(six, {}, {}) /\ HoldsLines(env, {}, {})
    BY UDPHolds, IPv6Holds, Zenon DEF Suits
<1>11. U \subseteq Movable /\ U \cap (KeyOf(p) \cup PingOf(p) \cup MTUOf(p) \cup ExtraMTUOf(p)) = {}
    BY DEF Suits, OwnOptions
<1>. HIDE DEF first, login, pull, key, ping, reneg, tls, verify, cipher, fast, ciphers, auth, mtu, mtux, mssfix, fragment,
              snd, rcv, udp, user, six, env, remote
<1>. DEFINE K == KeyOf(p)  P == PingOf(p)  V == NameOf(p)  T == MTUOf(p)  E == ExtraMTUOf(p)
            KL == KeyLines(p)  VL == NameLines(p, conn)  W == OverUDP(conn, UL)
<1>12. /\ K \subseteq {"key-direction"} /\ P \subseteq {"ping"} /\ V \subseteq {"verify-x509-name"}
       /\ T \subseteq {"tun-mtu"} /\ E \subseteq {"tun-mtu-extra"}
       /\ U \subseteq Movable /\ U \cap (K \cup P \cup T \cup E) = {}
    BY <1>11, HeadsOfOptions
<1>13. /\ HoldsLines(key, K, KL) /\ HoldsLines(ping, P, {}) /\ HoldsLines(mtu, T, {}) /\ HoldsLines(mtux, E, {})
       /\ HoldsLines(verify, V, VL) /\ HoldsLines(udp, U, W)
    BY <1>4, <1>5, <1>10
<1>. HIDE DEF K, P, V, T, E, KL, VL, W
<1>. DEFINE H0 == {"dev", "verb", "proto", "remote"}  L0 == {remote}
<1>j0. HoldsLines(first, H0, L0)
    BY <1>2
<1>. DEFINE q1 == first \o login  H1 == H0 \cup {"auth-user-pass"}
<1>j1. HoldsLines(q1, H1, L0)
    <2>1. H0 \cap {"auth-user-pass"} = {}
        BY <1>12
    <2>. HIDE DEF H0, L0
    <2>. QED BY <1>3, <1>j0, <2>1, JoinedPlain
<1>. HIDE DEF q1
<1>. DEFINE q2 == q1 \o pull
<1>j2. HoldsLines(q2, H1, L0)
    <2>. HIDE DEF H1, L0
    <2>. QED BY <1>3, <1>j1, JoinedOther
<1>. HIDE DEF q2
<1>. DEFINE q3 == q2 \o key  H3 == H1 \cup K  L3 == L0 \cup KL
<1>j3. HoldsLines(q3, H3, L3)
    <2>1. H1 \cap K = {}
        BY <1>12
    <2>. HIDE DEF H1, L0
    <2>. QED BY <1>13, <1>j2, <2>1, Joined
<1>. HIDE DEF q3
<1>. DEFINE q4 == q3 \o ping  H4 == H3 \cup P
<1>j4. HoldsLines(q4, H4, L3)
    <2>1. H3 \cap P = {}
        BY <1>12
    <2>. HIDE DEF H3, L3
    <2>. QED BY <1>13, <1>j3, <2>1, JoinedPlain
<1>. HIDE DEF q4
<1>. DEFINE q5 == q4 \o reneg  H5 == H4 \cup {"reneg-sec"}
<1>j5. HoldsLines(q5, H5, L3)
    <2>1. H4 \cap {"reneg-sec"} = {}
        BY <1>12
    <2>. HIDE DEF H4, L3
    <2>. QED BY <1>3, <1>j4, <2>1, JoinedPlain
<1>. HIDE DEF q5
<1>. DEFINE q6 == q5 \o tls
<1>j6. HoldsLines(q6, H5, L3)
    <2>. HIDE DEF H5, L3
    <2>. QED BY <1>7, <1>j5, JoinedOther
<1>. HIDE DEF q6
<1>. DEFINE q7 == q6 \o verify  H7 == H5 \cup V  L7 == L3 \cup VL
<1>j7. HoldsLines(q7, H7, L7)
    <2>1. H5 \cap V = {}
        BY <1>12
    <2>. HIDE DEF H5, L3
    <2>. QED BY <1>13, <1>j6, <2>1, Joined
<1>. HIDE DEF q7
<1>. DEFINE q8 == q7 \o cipher  H8 == H7 \cup {"tls-cipher"}
<1>j8. HoldsLines(q8, H8, L7)
    <2>1. H7 \cap {"tls-cipher"} = {}
        BY <1>12
    <2>. HIDE DEF H7, L7
    <2>. QED BY <1>8, <1>j7, <2>1, JoinedPlain
<1>. HIDE DEF q8
<1>. DEFINE q9 == q8 \o fast
<1>j9. HoldsLines(q9, H8, L7)
    <2>. HIDE DEF H8, L7
    <2>. QED BY <1>7, <1>j8, JoinedOther
<1>. HIDE DEF q9
<1>. DEFINE q10 == q9 \o ciphers  H10 == H8 \cup {"data-ciphers-fallback", "data-ciphers"}
<1>j10. HoldsLines(q10, H10, L7)
    <2>1. H8 \cap {"data-ciphers-fallback", "data-ciphers"} = {}
        BY <1>12
    <2>. HIDE DEF H8, L7
    <2>. QED BY <1>9, <1>j9, <2>1, JoinedPlain
<1>. HIDE DEF q10
<1>. DEFINE q11 == q10 \o auth  H11 == H10 \cup {"auth"}
<1>j11. HoldsLines(q11, H11, L7)
    <2>1. H10 \cap {"auth"} = {}
        BY <1>12
    <2>. HIDE DEF H10, L7
    <2>. QED BY <1>8, <1>j10, <2>1, JoinedPlain
<1>. HIDE DEF q11
<1>. DEFINE q12 == q11 \o mtu  H12 == H11 \cup T
<1>j12. HoldsLines(q12, H12, L7)
    <2>1. H11 \cap T = {}
        BY <1>12
    <2>. HIDE DEF H11, L7
    <2>. QED BY <1>13, <1>j11, <2>1, JoinedPlain
<1>. HIDE DEF q12
<1>. DEFINE q13 == q12 \o mtux  H13 == H12 \cup E
<1>j13. HoldsLines(q13, H13, L7)
    <2>1. H12 \cap E = {}
        BY <1>12
    <2>. HIDE DEF H12, L7
    <2>. QED BY <1>13, <1>j12, <2>1, JoinedPlain
<1>. HIDE DEF q13
<1>. DEFINE q14 == q13 \o mssfix  H14 == H13 \cup {"mssfix"}
<1>j14. HoldsLines(q14, H14, L7)
    <2>1. H13 \cap {"mssfix"} = {}
        BY <1>12
    <2>. HIDE DEF H13, L7
    <2>. QED BY <1>8, <1>j13, <2>1, JoinedPlain
<1>. HIDE DEF q14
<1>. DEFINE q15 == q14 \o fragment  H15 == H14 \cup {"fragment"}
<1>j15. HoldsLines(q15, H15, L7)
    <2>1. H14 \cap {"fragment"} = {}
        BY <1>12
    <2>. HIDE DEF H14, L7
    <2>. QED BY <1>8, <1>j14, <2>1, JoinedPlain
<1>. HIDE DEF q15
<1>. DEFINE q16 == q15 \o snd
<1>j16. HoldsLines(q16, H15, L7)
    <2>. HIDE DEF H15, L7
    <2>. QED BY <1>7, <1>j15, JoinedOther
<1>. HIDE DEF q16
<1>. DEFINE q17 == q16 \o rcv
<1>j17. HoldsLines(q17, H15, L7)
    <2>. HIDE DEF H15, L7
    <2>. QED BY <1>7, <1>j16, JoinedOther
<1>. HIDE DEF q17
<1>. DEFINE q18 == q17 \o udp  H18 == H15 \cup U  L18 == L7 \cup W
<1>j18. HoldsLines(q18, H18, L18)
    <2>1. H15 \cap U = {}
        BY <1>12 DEF Movable
    <2>. HIDE DEF H15, L7
    <2>. QED BY <1>13, <1>j17, <2>1, Joined
<1>. HIDE DEF q18
<1>. DEFINE q19 == q18 \o user  H19 == H18 \cup {"user"}
<1>j19. HoldsLines(q19, H19, L18)
    <2>1. H18 \cap {"user"} = {}
        BY <1>12 DEF Movable
    <2>. HIDE DEF H18, L18
    <2>. QED BY <1>9, <1>j18, <2>1, JoinedPlain
<1>. HIDE DEF q19
<1>. DEFINE q20 == q19 \o six
<1>j20. HoldsLines(q20, H19, L18)
    <2>. HIDE DEF H19, L18
    <2>. QED BY <1>10, <1>j19, JoinedOther
<1>. HIDE DEF q20
<1>. DEFINE q21 == q20 \o env
<1>j21. HoldsLines(q21, H19, L18)
    <2>. HIDE DEF H19, L18
    <2>. QED BY <1>10, <1>j20, JoinedOther
<1>. HIDE DEF q21
<1>. DEFINE H == Always \cup K \cup P \cup V \cup T \cup E \cup U
<1>j22. H19 = H /\ L18 = {remote} \cup KL \cup VL \cup W
    BY DEF Always
<1>. HIDE DEF H19, L18, H
<1>j23. HoldsLines(q21, H, {remote} \cup KL \cup VL \cup W)
    BY <1>j21, <1>j22
<1>. QED BY <1>1, <1>j23, Zenon DEF DirectiveHeads, DirectiveLines, H, q1, q2, q3, q4, q5, q6, q7, q8, q9, q10, q11, q12, q13, q14, q15, q16, q17, q18, q19, q20, q21, remote, K, P, V, T, E, KL, VL, W

\* The whole configuration: its directives, its certificates and keys, and the lines of the provider.
ConfigHeads(p, U, X) == DirectiveHeads(p, U) \cup ({"ca", "tls-crypt"} \cup KeyHead(p.TLSAuth)) \cup X

\* So has the configuration, with the blocks and the lines of the provider.
LEMMA ConfigHolds ==
    ASSUME NEW p, NEW conn, NEW o, NEW ipv6, NEW U, NEW UL, NEW X, NEW XL, Suits(p, U, UL, X, XL)
    PROVE  HoldsLines(OpenVPNConfig(p, conn, o, ipv6), ConfigHeads(p, U, X), DirectiveLines(p, conn, UL) \cup XL)
<1>. DEFINE front == Directives(p, conn, o, ipv6)  blocks == Blocks(p, o)  A == KeyHead(p.TLSAuth)
            keys == {"ca", "tls-crypt"} \cup A
<1>1. OpenVPNConfig(p, conn, o, ipv6) = front \o blocks \o p.ExtraLines
    BY Zenon DEF OpenVPNConfig
<1>2. HoldsLines(front, DirectiveHeads(p, U), DirectiveLines(p, conn, UL))
    BY DirectivesHold, Zenon
<1>3. HoldsLines(blocks, keys, {})
    BY BlocksHold, Zenon
<1>4. A \subseteq {"tls-auth"}
    BY StaticKey, Zenon
<1>5. HoldsLines(p.ExtraLines, X, XL) /\ U \cup X \subseteq Movable /\ U \cap X = {} /\ X \cap OwnOptions(p) = {}
    BY DEF Suits
<1>. HIDE DEF front, blocks, A
<1>6. DirectiveHeads(p, U) \cap keys = {}
    BY <1>4, <1>5, HeadsOfOptions DEF DirectiveHeads, Always, Movable
<1>7. (DirectiveHeads(p, U) \cup keys) \cap X = {}
    BY <1>4, <1>5, HeadsOfOptions DEF DirectiveHeads, Always, Movable, OwnOptions
<1>. HIDE DEF keys
<1>8. HoldsLines(front \o blocks, DirectiveHeads(p, U) \cup keys, DirectiveLines(p, conn, UL))
    BY <1>2, <1>3, <1>6, JoinedPlain
<1>9. HoldsLines(front \o blocks \o p.ExtraLines, (DirectiveHeads(p, U) \cup keys) \cup X, DirectiveLines(p, conn, UL) \cup XL)
    BY <1>5, <1>7, <1>8, Joined
<1>. QED BY <1>1, <1>9, Zenon DEF ConfigHeads, keys, A

Filled(made) == [f \in DOMAIN NoSettings |-> IF f \in DOMAIN made THEN made[f] ELSE NoSettings[f]]

\* A line says the direction of a static key.
Directs(lines) == \E line \in lines : line[1] = "key-direction"

\* The name a provider's servers are verified by is one they have.
NameFits(provider, p) ==
    \/ p.VerifyX509Type = Unset \/ p.VerifyX509Name # Unset
    \/ p.VerifyX509Type = "name" /\ provider \in {"ipvanish", "privado", "windscribe"}
    \/ p.VerifyX509Type # "name" /\ provider = "ivpn"

\* The settings of a provider make a configuration that is well formed.
Proper(provider, p) ==
    /\ \E U, UL, X, XL :
          /\ Suits(p, U, UL, X, XL)
          /\ p.TLSAuth => p.KeyDirection # Unset \/ Directs(XL) \/ (provider = "privatevpn" /\ Directs(UL))
    /\ NameFits(provider, p)

\* Settings without lines of their own, with the direction of their key, are proper.
LEMMA ProperWhenPlain ==
    ASSUME NEW provider, NEW p, HoldsLines(p.UDPLines, {}, {}), HoldsLines(p.ExtraLines, {}, {}), HoldsLines(p.SetEnv, {}, {}),
           HoldsLines(p.UnderIPv4, {}, {}), p.TLSAuth => p.KeyDirection # Unset, NameFits(provider, p)
    PROVE  Proper(provider, p)
<1>1. Suits(p, {}, {}, {}, {})
    BY DEF Suits
<1>. QED BY <1>1, Zenon DEF Proper

\* One line of a directive that may be repeated.
LEMMA OneOther ==
    ASSUME NEW line, line[1] \notin OneOf
    PROVE  HoldsLines(<<line>>, {}, {})
<1>1. HoldsLines(<<line>>, {line[1]}, {})
    BY HoldsOne, HoldsLess
<1>2. {line[1]} \cap OneOf \subseteq {}
    OBVIOUS
<1>. QED BY <1>1, <1>2, HoldsMore

\* Two lines of directives that may be repeated.
LEMMA TwoOther ==
    ASSUME NEW a, NEW b, a[1] \notin OneOf, b[1] \notin OneOf
    PROVE  HoldsLines(<<a, b>>, {}, {})
<1>1. Whole(<<a, b>>, OneOf, {a[1], b[1]})
    BY TwoLines
<1>2. HoldsLines(<<a, b>>, {a[1], b[1]}, {})
    BY <1>1 DEF HoldsLines
<1>3. {a[1], b[1]} \cap OneOf \subseteq {}
    OBVIOUS
<1>. QED BY <1>2, <1>3, HoldsMore

\* The lines providers add that are of no directive OpenVPN takes one of.
LEMMA TheirLines ==
    /\ HoldsLines(<<>>, {}, {}) /\ HoldsLines(<<<<"fast-io">>>>, {}, {}) /\ HoldsLines(<<<<"comp-lzo">>>>, {}, {})
    /\ HoldsLines(<<<<"comp-lzo", "no">>>>, {}, {}) /\ HoldsLines(<<<<"redirect-gateway">>>>, {}, {})
    /\ HoldsLines(<<<<"route-metric", 1>>>>, {}, {})
    /\ HoldsLines(<<<<"comp-lzo", "no">>, <<"push-peer-info">>>>, {}, {})
    /\ HoldsLines(<<<<"comp-lzo">>, <<"float">>>>, {}, {})
    /\ \A x : HoldsLines(<<<<"setenv", "UV_IPV6", x>>>>, {}, {})
    /\ \A x : HoldsLines(<<<<"redirect-gateway", "def1">>, <<"pull-filter", "ignore", x>>>>, {}, {})
<1>1. {"fast-io", "comp-lzo", "redirect-gateway", "route-metric", "push-peer-info", "float", "setenv", "pull-filter"}
      \cap OneOf = {}
    BY DEF OneOf
<1>. DEFINE a == <<"fast-io">>  b == <<"comp-lzo">>  d == <<"comp-lzo", "no">>  e == <<"redirect-gateway">>  f == <<"route-metric", 1>>  g == <<"push-peer-info">>  h == <<"float">>
            S(x) == <<"setenv", "UV_IPV6", x>>  R == <<"redirect-gateway", "def1">>  F(x) == <<"pull-filter", "ignore", x>>
<1>2. /\ a[1] \notin OneOf
      /\ b[1] \notin OneOf
      /\ d[1] \notin OneOf
      /\ e[1] \notin OneOf
      /\ f[1] \notin OneOf
      /\ g[1] \notin OneOf
      /\ h[1] \notin OneOf
      /\ R[1] \notin OneOf /\ (\A x : S(x)[1] \notin OneOf /\ F(x)[1] \notin OneOf)
    BY <1>1
<1>. HIDE DEF a, b, d, e, f, g, h, R, S, F
<1>3. /\ HoldsLines(<<a>>, {}, {}) /\ HoldsLines(<<b>>, {}, {}) /\ HoldsLines(<<d>>, {}, {}) /\ HoldsLines(<<e>>, {}, {}) /\ HoldsLines(<<f>>, {}, {})
      /\ HoldsLines(<<d, g>>, {}, {}) /\ HoldsLines(<<b, h>>, {}, {})
    BY <1>2, OneOther, TwoOther
<1>4. ASSUME NEW x PROVE HoldsLines(<<S(x)>>, {}, {}) /\ HoldsLines(<<R, F(x)>>, {}, {})
    BY <1>2, OneOther, TwoOther
<1>. QED BY <1>3, <1>4, HoldsNone, Zenon DEF a, b, d, e, f, g, h, R, S, F

\* Values that say something.
LEMMA SaysSomething == "1" # Unset /\ "Server" # Unset
BY Zenon DEF Unset

\* Three providers have lines of their own for what others have an option for.
LEMMA FastestvpnProper ==
    ASSUME NEW made, made = Filled(FastestvpnSettings)
    PROVE  Proper("fastestvpn", made)
<1>. DEFINE mtu == <<"tun-mtu", 1500>>  extra == <<"tun-mtu-extra", 32>>  ping == <<"ping", 15>>
            udp == <<mtu, extra, ping>>
<1>1. /\ made.UDPLines = udp /\ made.ExtraLines = <<<<"comp-lzo">>>> /\ made.SetEnv = <<>> /\ made.UnderIPv4 = <<>>
      /\ made.KeyDirection = "1" /\ made.Ping = 0 /\ made.TunMTU = 0 /\ made.TunMTUExtra = 0 /\ made.VerifyX509Type = Unset
    BY DEF Filled, FastestvpnSettings, NoSettings
<1>2. mtu[1] = "tun-mtu" /\ extra[1] = "tun-mtu-extra" /\ ping[1] = "ping"
    OBVIOUS
<1>. HIDE DEF mtu, extra, ping
<1>3. Whole(udp, OneOf, {"tun-mtu", "tun-mtu-extra", "ping"})
    BY <1>2, ThreeLines
<1>. HIDE DEF udp
<1>4. HoldsLines(udp, {"tun-mtu", "tun-mtu-extra", "ping"}, {})
    BY <1>3 DEF HoldsLines
<1>5. HoldsLines(made.ExtraLines, {}, {}) /\ HoldsLines(made.SetEnv, {}, {}) /\ HoldsLines(made.UnderIPv4, {}, {})
    BY <1>1, TheirLines, Zenon
<1>6. OwnOptions(made) \subseteq {"key-direction"}
    BY <1>1 DEF OwnOptions, KeyOf, PingOf, MTUOf, ExtraMTUOf, HeadIf
<1>7. Suits(made, {"tun-mtu", "tun-mtu-extra", "ping"}, {}, {}, {})
    BY <1>1, <1>4, <1>5, <1>6 DEF Suits, Movable
<1>8. made.KeyDirection # Unset
    BY <1>1, SaysSomething
<1>9. NameFits("fastestvpn", made)
    BY <1>1, Zenon DEF NameFits
<1>. QED BY <1>7, <1>8, <1>9, Zenon DEF Proper

\* The settings of IVPN, whose servers are verified by the first label of their name.
LEMMA IvpnProper ==
    ASSUME NEW made, made = Filled(IvpnSettings)
    PROVE  Proper("ivpn", made)
<1>. DEFINE key == <<"key-direction", "1">>
<1>1. /\ made.UDPLines = <<>> /\ made.ExtraLines = <<key>> /\ made.SetEnv = <<>> /\ made.UnderIPv4 = <<>>
      /\ made.KeyDirection = Unset /\ made.VerifyX509Type = "name-prefix"
    BY DEF Filled, IvpnSettings, NoSettings
<1>2. key[1] = "key-direction"
    OBVIOUS
<1>. HIDE DEF key
<1>3. HoldsLines(made.ExtraLines, {"key-direction"}, {key})
    BY <1>1, <1>2, HoldsOne
<1>4. HoldsLines(made.UDPLines, {}, {}) /\ HoldsLines(made.SetEnv, {}, {}) /\ HoldsLines(made.UnderIPv4, {}, {})
    BY <1>1, TheirLines, Zenon
<1>5. "key-direction" \notin OwnOptions(made)
    BY <1>1, HeadsOfOptions DEF OwnOptions, KeyOf, HeadIf
<1>6. Suits(made, {}, {}, {"key-direction"}, {key})
    BY <1>3, <1>4, <1>5 DEF Suits, Movable
<1>7. Directs({key})
    BY <1>2 DEF Directs
<1>8. NameFits("ivpn", made)
    BY <1>1, Zenon DEF NameFits
<1>. QED BY <1>6, <1>7, <1>8, Zenon DEF Proper

\* The settings of PrivateVPN, whose key has a direction over UDP only.
LEMMA PrivatevpnProper ==
    ASSUME NEW made, made = Filled(PrivatevpnSettings)
    PROVE  Proper("privatevpn", made)
<1>. DEFINE key == <<"key-direction", "1">>
<1>1. /\ made.UDPLines = <<key>> /\ made.ExtraLines = <<>> /\ made.SetEnv = <<>> /\ made.UnderIPv4 = <<>>
      /\ made.KeyDirection = Unset /\ made.VerifyX509Type = Unset
    BY DEF Filled, PrivatevpnSettings, NoSettings
<1>2. key[1] = "key-direction"
    OBVIOUS
<1>. HIDE DEF key
<1>3. HoldsLines(made.UDPLines, {"key-direction"}, {key})
    BY <1>1, <1>2, HoldsOne
<1>4. HoldsLines(made.ExtraLines, {}, {}) /\ HoldsLines(made.SetEnv, {}, {}) /\ HoldsLines(made.UnderIPv4, {}, {})
    BY <1>1, TheirLines, Zenon
<1>5. "key-direction" \notin OwnOptions(made)
    BY <1>1, HeadsOfOptions DEF OwnOptions, KeyOf, HeadIf
<1>6. Suits(made, {"key-direction"}, {key}, {}, {})
    BY <1>3, <1>4, <1>5 DEF Suits, Movable
<1>7. Directs({key})
    BY <1>2 DEF Directs
<1>8. NameFits("privatevpn", made)
    BY <1>1, Zenon DEF NameFits
<1>. QED BY <1>6, <1>7, <1>8, Zenon DEF Proper

\* The settings of every provider are proper.
LEMMA ProperSettings ==
    ASSUME NEW provider \in AllWithCustom \ {"custom", "mullvad"}, NEW preset, NEW ipv6 \in BOOLEAN
    PROVE  Proper(provider, ProviderSettings(provider, preset, ipv6))
<1>. DEFINE p == ProviderSettings(provider, preset, ipv6)
<1>1. CASE provider = "airvpn"
    <2>1. p = Filled(AirvpnSettings(ipv6))
        BY <1>1, Zenon DEF ProviderSettings, Filled
    <2>. HIDE DEF p
    <2>2. /\ p.UDPLines = <<>> /\ p.ExtraLines = <<<<"comp-lzo", "no">>, <<"push-peer-info">>>>
          /\ p.SetEnv = <<<<"setenv", "UV_IPV6", IF ipv6 THEN "yes" ELSE "no">>>> /\ p.UnderIPv4 = <<>>
          /\ (p.TLSAuth => p.KeyDirection # Unset) /\ p.VerifyX509Type = Unset
        BY <2>1, SaysSomething DEF Filled, AirvpnSettings, NoSettings
    <2>3. NameFits(provider, p)
        BY <1>1, <2>2, Zenon DEF NameFits
    <2>4. Proper(provider, p)
        BY <2>2, <2>3, TheirLines, ProperWhenPlain, Zenon
    <2>. QED BY <2>4 DEF p
<1>2. CASE provider = "cyberghost"
    <2>1. p = Filled(CyberghostSettings)
        BY <1>2, Zenon DEF ProviderSettings, Filled
    <2>. HIDE DEF p
    <2>2. /\ p.UDPLines = <<>> /\ p.ExtraLines = <<>>
          /\ p.SetEnv = <<>> /\ p.UnderIPv4 = <<>>
          /\ (p.TLSAuth => p.KeyDirection # Unset) /\ p.VerifyX509Type = Unset
        BY <2>1, SaysSomething DEF Filled, CyberghostSettings, NoSettings
    <2>3. NameFits(provider, p)
        BY <1>2, <2>2, Zenon DEF NameFits
    <2>4. Proper(provider, p)
        BY <2>2, <2>3, TheirLines, ProperWhenPlain, Zenon
    <2>. QED BY <2>4 DEF p
<1>3. CASE provider = "expressvpn"
    <2>1. p = Filled(ExpressvpnSettings)
        BY <1>3, Zenon DEF ProviderSettings, Filled
    <2>. HIDE DEF p
    <2>2. /\ p.UDPLines = <<>> /\ p.ExtraLines = <<>>
          /\ p.SetEnv = <<>> /\ p.UnderIPv4 = <<>>
          /\ (p.TLSAuth => p.KeyDirection # Unset) /\ p.VerifyX509Name # Unset
        BY <2>1, SaysSomething DEF Filled, ExpressvpnSettings, NoSettings
    <2>3. NameFits(provider, p)
        BY <1>3, <2>2, Zenon DEF NameFits
    <2>4. Proper(provider, p)
        BY <2>2, <2>3, TheirLines, ProperWhenPlain, Zenon
    <2>. QED BY <2>4 DEF p
<1>4. CASE provider = "fastestvpn"
    <2>1. p = Filled(FastestvpnSettings)
        BY <1>4, Zenon DEF ProviderSettings, Filled
    <2>. HIDE DEF p
    <2>2. Proper("fastestvpn", p)
        BY <2>1, FastestvpnProper, Zenon
    <2>3. Proper(provider, p)
        BY <1>4, <2>2
    <2>. QED BY <2>3 DEF p
<1>5. CASE provider = "giganews"
    <2>1. p = Filled(GiganewsSettings)
        BY <1>5, Zenon DEF ProviderSettings, Filled
    <2>. HIDE DEF p
    <2>2. /\ p.UDPLines = <<>> /\ p.ExtraLines = <<<<"comp-lzo">>>>
          /\ p.SetEnv = <<>> /\ p.UnderIPv4 = <<>>
          /\ (p.TLSAuth => p.KeyDirection # Unset) /\ p.VerifyX509Type = Unset
        BY <2>1, SaysSomething DEF Filled, GiganewsSettings, NoSettings
    <2>3. NameFits(provider, p)
        BY <1>5, <2>2, Zenon DEF NameFits
    <2>4. Proper(provider, p)
        BY <2>2, <2>3, TheirLines, ProperWhenPlain, Zenon
    <2>. QED BY <2>4 DEF p
<1>6. CASE provider = "hidemyass"
    <2>1. p = Filled(HidemyassSettings)
        BY <1>6, Zenon DEF ProviderSettings, Filled
    <2>. HIDE DEF p
    <2>2. /\ p.UDPLines = <<>> /\ p.ExtraLines = <<>>
          /\ p.SetEnv = <<>> /\ p.UnderIPv4 = <<>>
          /\ (p.TLSAuth => p.KeyDirection # Unset) /\ p.VerifyX509Type = Unset
        BY <2>1, SaysSomething DEF Filled, HidemyassSettings, NoSettings
    <2>3. NameFits(provider, p)
        BY <1>6, <2>2, Zenon DEF NameFits
    <2>4. Proper(provider, p)
        BY <2>2, <2>3, TheirLines, ProperWhenPlain, Zenon
    <2>. QED BY <2>4 DEF p
<1>7. CASE provider = "ipvanish"
    <2>1. p = Filled(IpvanishSettings)
        BY <1>7, Zenon DEF ProviderSettings, Filled
    <2>. HIDE DEF p
    <2>2. /\ p.UDPLines = <<>> /\ p.ExtraLines = <<<<"comp-lzo">>>>
          /\ p.SetEnv = <<>> /\ p.UnderIPv4 = <<>>
          /\ (p.TLSAuth => p.KeyDirection # Unset) /\ p.VerifyX509Type = "name"
        BY <2>1, SaysSomething DEF Filled, IpvanishSettings, NoSettings
    <2>3. NameFits(provider, p)
        BY <1>7, <2>2, Zenon DEF NameFits
    <2>4. Proper(provider, p)
        BY <2>2, <2>3, TheirLines, ProperWhenPlain, Zenon
    <2>. QED BY <2>4 DEF p
<1>8. CASE provider = "ivpn"
    <2>1. p = Filled(IvpnSettings)
        BY <1>8, Zenon DEF ProviderSettings, Filled
    <2>. HIDE DEF p
    <2>2. Proper("ivpn", p)
        BY <2>1, IvpnProper, Zenon
    <2>3. Proper(provider, p)
        BY <1>8, <2>2
    <2>. QED BY <2>3 DEF p
<1>9. CASE provider = "nordvpn"
    <2>1. p = Filled(NordvpnSettings)
        BY <1>9, Zenon DEF ProviderSettings, Filled
    <2>. HIDE DEF p
    <2>2. /\ p.UDPLines = <<<<"fast-io">>>> /\ p.ExtraLines = <<<<"comp-lzo", "no">>>>
          /\ p.SetEnv = <<>> /\ p.UnderIPv4 = <<>>
          /\ (p.TLSAuth => p.KeyDirection # Unset) /\ p.VerifyX509Type = Unset
        BY <2>1, SaysSomething DEF Filled, NordvpnSettings, NoSettings
    <2>3. NameFits(provider, p)
        BY <1>9, <2>2, Zenon DEF NameFits
    <2>4. Proper(provider, p)
        BY <2>2, <2>3, TheirLines, ProperWhenPlain, Zenon
    <2>. QED BY <2>4 DEF p
<1>10. CASE provider = "perfect privacy"
    <2>1. p = Filled(PerfectPrivacySettings)
        BY <1>10, Zenon DEF ProviderSettings, Filled
    <2>. HIDE DEF p
    <2>. DEFINE long == "redirect-gateway def1 ipv6"
                under == <<<<"redirect-gateway", "def1">>, <<"pull-filter", "ignore", long>>>>
    <2>2. PerfectPrivacySettings =
              [Ciphers |-> <<"256cbc", "256gcm">>, Auth |-> "sha512", MssFix |-> 1450, Ping |-> 5, CAs |-> 1, Cert |-> TRUE,
               Key |-> TRUE, TLSCrypt |-> TRUE, TLSCipher |-> "chacha20", TunMTU |-> 1500, TunMTUExtra |-> 32,
               RenegSec |-> 3600, KeyDirection |-> "1", UnderIPv4 |-> under]
        BY Zenon DEF PerfectPrivacySettings
    <2>3. HoldsLines(under, {}, {})
        BY TheirLines, Zenon
    <2>. HIDE DEF under
    <2>4. /\ p.UDPLines = <<>> /\ p.ExtraLines = <<>> /\ p.SetEnv = <<>> /\ p.UnderIPv4 = under
          /\ (p.TLSAuth => p.KeyDirection # Unset) /\ p.VerifyX509Type = Unset
        BY <2>1, <2>2, SaysSomething DEF Filled, NoSettings
    <2>5. NameFits(provider, p)
        BY <2>4, Zenon DEF NameFits
    <2>6. Proper(provider, p)
        BY <2>3, <2>4, <2>5, TheirLines, ProperWhenPlain, Zenon
    <2>. QED BY <2>6 DEF p
<1>11. CASE provider = "privado"
    <2>1. p = Filled(PrivadoSettings)
        BY <1>11, Zenon DEF ProviderSettings, Filled
    <2>. HIDE DEF p
    <2>2. /\ p.UDPLines = <<>> /\ p.ExtraLines = <<>>
          /\ p.SetEnv = <<>> /\ p.UnderIPv4 = <<>>
          /\ (p.TLSAuth => p.KeyDirection # Unset) /\ p.VerifyX509Type = "name"
        BY <2>1, SaysSomething DEF Filled, PrivadoSettings, NoSettings
    <2>3. NameFits(provider, p)
        BY <1>11, <2>2, Zenon DEF NameFits
    <2>4. Proper(provider, p)
        BY <2>2, <2>3, TheirLines, ProperWhenPlain, Zenon
    <2>. QED BY <2>4 DEF p
<1>12. CASE provider = "private internet access"
    <2>1. p = Filled(PIASettings(preset))
        BY <1>12, Zenon DEF ProviderSettings, Filled
    <2>. HIDE DEF p
    <2>2. /\ p.UDPLines = <<>> /\ p.ExtraLines = <<>>
          /\ p.SetEnv = <<>> /\ p.UnderIPv4 = <<>>
          /\ (p.TLSAuth => p.KeyDirection # Unset) /\ p.VerifyX509Type = Unset
        BY <2>1, SaysSomething DEF Filled, PIASettings, NoSettings
    <2>3. NameFits(provider, p)
        BY <1>12, <2>2, Zenon DEF NameFits
    <2>4. Proper(provider, p)
        BY <2>2, <2>3, TheirLines, ProperWhenPlain, Zenon
    <2>. QED BY <2>4 DEF p
<1>13. CASE provider = "privatevpn"
    <2>1. p = Filled(PrivatevpnSettings)
        BY <1>13, Zenon DEF ProviderSettings, Filled
    <2>. HIDE DEF p
    <2>2. Proper("privatevpn", p)
        BY <2>1, PrivatevpnProper, Zenon
    <2>3. Proper(provider, p)
        BY <1>13, <2>2
    <2>. QED BY <2>3 DEF p
<1>14. CASE provider = "protonvpn"
    <2>1. p = Filled(ProtonvpnSettings)
        BY <1>14, Zenon DEF ProviderSettings, Filled
    <2>. HIDE DEF p
    <2>2. /\ p.UDPLines = <<<<"fast-io">>>> /\ p.ExtraLines = <<>>
          /\ p.SetEnv = <<>> /\ p.UnderIPv4 = <<>>
          /\ (p.TLSAuth => p.KeyDirection # Unset) /\ p.VerifyX509Type = Unset
        BY <2>1, SaysSomething DEF Filled, ProtonvpnSettings, NoSettings
    <2>3. NameFits(provider, p)
        BY <1>14, <2>2, Zenon DEF NameFits
    <2>4. Proper(provider, p)
        BY <2>2, <2>3, TheirLines, ProperWhenPlain, Zenon
    <2>. QED BY <2>4 DEF p
<1>15. CASE provider = "purevpn"
    <2>1. p = Filled(PurevpnSettings)
        BY <1>15, Zenon DEF ProviderSettings, Filled
    <2>. HIDE DEF p
    <2>2. /\ p.UDPLines = <<>> /\ p.ExtraLines = <<>>
          /\ p.SetEnv = <<>> /\ p.UnderIPv4 = <<>>
          /\ (p.TLSAuth => p.KeyDirection # Unset) /\ p.VerifyX509Type = Unset
        BY <2>1, SaysSomething DEF Filled, PurevpnSettings, NoSettings
    <2>3. NameFits(provider, p)
        BY <1>15, <2>2, Zenon DEF NameFits
    <2>4. Proper(provider, p)
        BY <2>2, <2>3, TheirLines, ProperWhenPlain, Zenon
    <2>. QED BY <2>4 DEF p
<1>16. CASE provider = "slickvpn"
    <2>1. p = Filled(SlickvpnSettings)
        BY <1>16, Zenon DEF ProviderSettings, Filled
    <2>. HIDE DEF p
    <2>2. /\ p.UDPLines = <<>> /\ p.ExtraLines = <<<<"redirect-gateway">>>>
          /\ p.SetEnv = <<>> /\ p.UnderIPv4 = <<>>
          /\ (p.TLSAuth => p.KeyDirection # Unset) /\ p.VerifyX509Type = Unset
        BY <2>1, SaysSomething DEF Filled, SlickvpnSettings, NoSettings
    <2>3. NameFits(provider, p)
        BY <1>16, <2>2, Zenon DEF NameFits
    <2>4. Proper(provider, p)
        BY <2>2, <2>3, TheirLines, ProperWhenPlain, Zenon
    <2>. QED BY <2>4 DEF p
<1>17. CASE provider = "surfshark"
    <2>1. p = Filled(SurfsharkSettings)
        BY <1>17, Zenon DEF ProviderSettings, Filled
    <2>. HIDE DEF p
    <2>2. /\ p.UDPLines = <<>> /\ p.ExtraLines = <<>>
          /\ p.SetEnv = <<>> /\ p.UnderIPv4 = <<>>
          /\ (p.TLSAuth => p.KeyDirection # Unset) /\ p.VerifyX509Type = Unset
        BY <2>1, SaysSomething DEF Filled, SurfsharkSettings, NoSettings
    <2>3. NameFits(provider, p)
        BY <1>17, <2>2, Zenon DEF NameFits
    <2>4. Proper(provider, p)
        BY <2>2, <2>3, TheirLines, ProperWhenPlain, Zenon
    <2>. QED BY <2>4 DEF p
<1>18. CASE provider = "torguard"
    <2>1. p = Filled(TorguardSettings)
        BY <1>18, Zenon DEF ProviderSettings, Filled
    <2>. HIDE DEF p
    <2>2. /\ p.UDPLines = <<>> /\ p.ExtraLines = <<>>
          /\ p.SetEnv = <<>> /\ p.UnderIPv4 = <<>>
          /\ (p.TLSAuth => p.KeyDirection # Unset) /\ p.VerifyX509Type = Unset
        BY <2>1, SaysSomething DEF Filled, TorguardSettings, NoSettings
    <2>3. NameFits(provider, p)
        BY <1>18, <2>2, Zenon DEF NameFits
    <2>4. Proper(provider, p)
        BY <2>2, <2>3, TheirLines, ProperWhenPlain, Zenon
    <2>. QED BY <2>4 DEF p
<1>19. CASE provider = "vpnsecure"
    <2>1. p = Filled(VPNSecureSettings)
        BY <1>19, Zenon DEF ProviderSettings, Filled
    <2>. HIDE DEF p
    <2>2. /\ p.UDPLines = <<>> /\ p.ExtraLines = <<<<"comp-lzo">>, <<"float">>>>
          /\ p.SetEnv = <<>> /\ p.UnderIPv4 = <<>>
          /\ (p.TLSAuth => p.KeyDirection # Unset) /\ p.VerifyX509Type = Unset
        BY <2>1, SaysSomething DEF Filled, VPNSecureSettings, NoSettings
    <2>3. NameFits(provider, p)
        BY <1>19, <2>2, Zenon DEF NameFits
    <2>4. Proper(provider, p)
        BY <2>2, <2>3, TheirLines, ProperWhenPlain, Zenon
    <2>. QED BY <2>4 DEF p
<1>20. CASE provider = "vpn unlimited"
    <2>1. p = Filled(VPNUnlimitedSettings)
        BY <1>20, Zenon DEF ProviderSettings, Filled
    <2>. HIDE DEF p
    <2>2. /\ p.UDPLines = <<>> /\ p.ExtraLines = <<<<"route-metric", 1>>>>
          /\ p.SetEnv = <<>> /\ p.UnderIPv4 = <<>>
          /\ (p.TLSAuth => p.KeyDirection # Unset) /\ p.VerifyX509Type = Unset
        BY <2>1, SaysSomething DEF Filled, VPNUnlimitedSettings, NoSettings
    <2>3. NameFits(provider, p)
        BY <1>20, <2>2, Zenon DEF NameFits
    <2>4. Proper(provider, p)
        BY <2>2, <2>3, TheirLines, ProperWhenPlain, Zenon
    <2>. QED BY <2>4 DEF p
<1>21. CASE provider = "vyprvpn"
    <2>1. p = Filled(VyprvpnSettings)
        BY <1>21, Zenon DEF ProviderSettings, Filled
    <2>. HIDE DEF p
    <2>2. /\ p.UDPLines = <<>> /\ p.ExtraLines = <<<<"comp-lzo">>>>
          /\ p.SetEnv = <<>> /\ p.UnderIPv4 = <<>>
          /\ (p.TLSAuth => p.KeyDirection # Unset) /\ p.VerifyX509Type = Unset
        BY <2>1, SaysSomething DEF Filled, VyprvpnSettings, NoSettings
    <2>3. NameFits(provider, p)
        BY <1>21, <2>2, Zenon DEF NameFits
    <2>4. Proper(provider, p)
        BY <2>2, <2>3, TheirLines, ProperWhenPlain, Zenon
    <2>. QED BY <2>4 DEF p
<1>22. CASE provider = "windscribe"
    <2>1. p = Filled(WindscribeSettings)
        BY <1>22, Zenon DEF ProviderSettings, Filled
    <2>. HIDE DEF p
    <2>2. /\ p.UDPLines = <<>> /\ p.ExtraLines = <<>>
          /\ p.SetEnv = <<>> /\ p.UnderIPv4 = <<>>
          /\ (p.TLSAuth => p.KeyDirection # Unset) /\ p.VerifyX509Type = "name"
        BY <2>1, SaysSomething DEF Filled, WindscribeSettings, NoSettings
    <2>3. NameFits(provider, p)
        BY <1>22, <2>2, Zenon DEF NameFits
    <2>4. Proper(provider, p)
        BY <2>2, <2>3, TheirLines, ProperWhenPlain, Zenon
    <2>. QED BY <2>4 DEF p
<1>. QED BY <1>1, <1>2, <1>3, <1>4, <1>5, <1>6, <1>7, <1>8, <1>9, <1>10, <1>11, <1>12, <1>13, <1>14, <1>15, <1>16, <1>17, <1>18, <1>19, <1>20, <1>21, <1>22, Zenon DEF AllWithCustom

\* What WellFormedConfig says of a configuration.
WellMade(config, provider, conn) ==
    /\ \A d \in OneOf : Len(Of(config, d)) <= 1
    /\ Of(config, "remote") = <<<<"remote", conn.ip, conn.port>>>>
    /\ \A line \in Values(Of(config, "verify-x509-name")) : line[2] # Unset
    /\ (Of(config, "tls-auth") # <<>> /\ ~Undirected(provider, conn) => Len(Of(config, "key-direction")) = 1)

\* A line of a directive that OpenVPN takes one of is the only one of it.
LEMMA HeldOnly ==
    ASSUME NEW q, NEW heads, NEW lines, HoldsLines(q, heads, lines), NEW line \in lines, line[1] \in OneOf
    PROVE  Of(q, line[1]) = <<line>>
BY OfOnly DEF HoldsLines

\* A directive that is not held has no line.
LEMMA HeldNot ==
    ASSUME NEW q, NEW heads, NEW lines, HoldsLines(q, heads, lines), NEW d \in OneOf, d \notin heads
    PROVE  Of(q, d) = <<>>
BY OfNone DEF HoldsLines

\* Directives OpenVPN takes one line of.
LEMMA OneOfThem ==
    /\ "remote" \in OneOf /\ "verify-x509-name" \in OneOf /\ "tls-auth" \in OneOf /\ "key-direction" \in OneOf
BY DEF OneOf

\* A configuration made of proper settings is well formed.
LEMMA ConfigIsWellMade ==
    ASSUME NEW provider, NEW p, Proper(provider, p), NEW conn, conn.protocol \in {"tcp", "udp"}, NEW o, NEW ipv6,
           p.VerifyX509Type # Unset => VerifiedName(p, conn) # Unset
    PROVE  WellMade(OpenVPNConfig(p, conn, o, ipv6), provider, conn)
<1>. DEFINE config == OpenVPNConfig(p, conn, o, ipv6)  remote == <<"remote", conn.ip, conn.port>>
<1>1. PICK U, UL, X, XL :
          /\ Suits(p, U, UL, X, XL)
          /\ p.TLSAuth => p.KeyDirection # Unset \/ Directs(XL) \/ (provider = "privatevpn" /\ Directs(UL))
    BY Zenon DEF Proper
<1>. DEFINE heads == ConfigHeads(p, U, X)  lines == DirectiveLines(p, conn, UL) \cup XL
<1>2. HoldsLines(config, heads, lines)
    BY <1>1, ConfigHolds, Zenon
<1>3. Of(config, "remote") = <<remote>>
    <2>1. remote \in lines /\ remote[1] = "remote"
        BY DEF DirectiveLines
    <2>. HIDE DEF config, heads, lines, remote
    <2>. QED BY <1>2, <2>1, HeldOnly, OneOfThem
<1>4. \A d \in OneOf : Len(Of(config, d)) <= 1
    <2>. HIDE DEF config, heads, lines
    <2>. QED BY <1>2, OfAtMost DEF HoldsLines
<1>5. U \cup X \subseteq Movable
    BY <1>1 DEF Suits
<1>6. \A line \in Values(Of(config, "verify-x509-name")) : line[2] # Unset
    <2>1. CASE p.VerifyX509Type = Unset
        <3>1. "verify-x509-name" \notin NameOf(p)
            BY <2>1 DEF NameOf, HeadIf
        <3>2. "verify-x509-name" \notin heads
            BY <1>5, <3>1, HeadsOfOptions, StaticKey DEF ConfigHeads, DirectiveHeads, Always, Movable
        <3>. HIDE DEF config, heads, lines
        <3>3. Of(config, "verify-x509-name") = <<>>
            BY <1>2, <3>2, HeldNot, OneOfThem
        <3>4. Values(<<>>) = {}
            BY DEF Values
        <3>. QED BY <3>3, <3>4
    <2>2. CASE p.VerifyX509Type # Unset
        <3>. DEFINE line == NameLine(p, conn)
        <3>1. line \in lines
            BY <2>2 DEF DirectiveLines, NameLines
        <3>2. line[1] = "verify-x509-name" /\ line[2] = VerifiedName(p, conn)
            BY DEF NameLine
        <3>. HIDE DEF config, heads, lines, line
        <3>3. Of(config, "verify-x509-name") = <<line>>
            BY <1>2, <3>1, <3>2, HeldOnly, OneOfThem
        <3>4. Values(<<line>>) = {line}
            BY DEF Values
        <3>. QED BY <2>2, <3>2, <3>3, <3>4
    <2>. QED BY <2>1, <2>2
<1>7. ASSUME Of(config, "tls-auth") # <<>>, ~Undirected(provider, conn)
      PROVE  Len(Of(config, "key-direction")) = 1
    <2>1. "tls-auth" \in heads
        <3>. HIDE DEF config, heads, lines
        <3>. QED BY <1>2, <1>7, HeldNot, OneOfThem
    <2>2. "tls-auth" \in KeyHead(p.TLSAuth)
        <3>. DEFINE keys == KeyHead(p.TLSAuth)
        <3>1. heads = Always \cup KeyOf(p) \cup PingOf(p) \cup NameOf(p) \cup MTUOf(p) \cup ExtraMTUOf(p) \cup U
                      \cup ({"ca", "tls-crypt"} \cup keys) \cup X
            BY DEF ConfigHeads, DirectiveHeads
        <3>. HIDE DEF heads, keys
        <3>2. "tls-auth" \in keys
            BY <1>5, <2>1, <3>1, HeadsOfOptions DEF Always, Movable
        <3>. QED BY <3>2 DEF keys
    <2>3. p.TLSAuth
        BY <2>2, Zenon DEF KeyHead
    <2>4. ~ (provider = "privatevpn" /\ conn.protocol = "tcp")
        BY <1>7 DEF Undirected
    <2>5. \E line \in lines : line[1] = "key-direction"
        <3>1. CASE p.KeyDirection # Unset
            <4>1. <<"key-direction", p.KeyDirection>> \in lines
                BY <3>1 DEF DirectiveLines, KeyLines, OptLine
            <4>2. <<"key-direction", p.KeyDirection>>[1] = "key-direction"
                OBVIOUS
            <4>. QED BY <4>1, <4>2
        <3>2. CASE Directs(XL)
            BY <3>2 DEF Directs
        <3>3. CASE provider = "privatevpn" /\ Directs(UL)
            <4>1. conn.protocol = "udp"
                BY <2>4, <3>3
            <4>2. UL \subseteq lines
                BY <4>1 DEF DirectiveLines, OverUDP
            <4>. QED BY <3>3, <4>2 DEF Directs
        <3>. QED BY <1>1, <2>3, <3>1, <3>2, <3>3, Zenon
    <2>. HIDE DEF config, heads, lines
    <2>6. PICK line \in lines : line[1] = "key-direction"
        BY <2>5
    <2>7. Of(config, "key-direction") = <<line>>
        BY <1>2, <2>6, HeldOnly, OneOfThem
    <2>. QED BY <2>7
<1>. HIDE DEF config
<1>8. WellMade(config, provider, conn)
    BY <1>3, <1>4, <1>6, <1>7, Zenon DEF WellMade
<1>. QED BY <1>8 DEF config

\* The servers are of the VPN type of the settings.
LEMMA SameType ==
    ASSUME NEW env
    PROVE  LET v == SetVPNDefaults(ReadVPN(env)) IN v.vpn.Type = v.selection.VPN
<1>. DEFINE read == ReadVPN(env)
            v == SetVPNDefaults(read)
            type == Read(env, VPNKeys).Type
            forwarding == WithDefaults(read.portForwarding, PortForwardingDefaults)
            name == The(WithDefaults(read.provider, ProviderDefaults).Name)
            defaults == SelectionDefaults(name, The(forwarding.Enabled))
<1>1. read.vpn = Read(env, VPNKeys) /\ read.selection = ReadSelection(env, read.provider.Name, type)
    BY DEF ReadVPN
<1>2. v.vpn = WithDefaults(read.vpn, VPNDefaults) /\ v.selection = WithDefaults(read.selection, defaults)
    BY DEF SetVPNDefaults
<1>3. "VPN" \in DOMAIN read.selection /\ read.selection["VPN"] = type
    <2>. DEFINE s == Read(env, SelectionKeys(read.provider.Name))
    <2>1. read.selection = [f \in DOMAIN s \cup {"VPN"} |-> IF f = "VPN" THEN type ELSE s[f]]
        BY <1>1 DEF ReadSelection
    <2>. HIDE DEF read, s, type
    <2>. QED BY <2>1
<1>4. "Type" \in DOMAIN read.vpn /\ read.vpn["Type"] = type
    <2>1. DOMAIN Read(env, VPNKeys) = DOMAIN VPNKeys /\ "Type" \in DOMAIN VPNKeys
        BY DEF Read, VPNKeys
    <2>. HIDE DEF read
    <2>. QED BY <1>1, <2>1
<1>5. "VPN" \in DOMAIN defaults /\ defaults["VPN"] = "openvpn"
    BY DefaultVPN
<1>6. "Type" \in DOMAIN VPNDefaults /\ VPNDefaults["Type"] = "openvpn"
    BY DEF VPNDefaults
<1>. HIDE DEF defaults, read, v, type
<1>7. v.selection["VPN"] = IF type = {} THEN {"openvpn"} ELSE type
    BY <1>2, <1>3, <1>5 DEF WithDefaults
<1>8. v.vpn["Type"] = IF type = {} THEN {"openvpn"} ELSE type
    BY <1>2, <1>4, <1>6 DEF WithDefaults
<1>. QED BY <1>7, <1>8 DEF v, read

\* Settings that are valid for OpenVPN have servers of OpenVPN, and a provider that has it.
LEMMA ValidForOpenVPN ==
    ASSUME NEW v, Regular(v), "vpn" \in DOMAIN v, v.vpn.Type = v.selection.VPN, NEW choices, NEW retro, NEW ipv6, NEW sixes
    PROVE  LET w == Validate(v, choices, retro, ipv6, sixes) IN
           w.ok /\ The(w.settings.vpn.Type) = "openvpn" =>
               /\ w.settings.selection.VPN = {"openvpn"}
               /\ The(w.settings.provider.Name) \in AllWithCustom \ {"mullvad"}
<1>. DEFINE name == The(v.provider.Name)
            type == The(v.vpn.Type)
            s == WithoutOldNames(v.selection, name, choices, retro)
            w == Validate(v, choices, retro, ipv6, sixes)
<1>1. w.settings = [v EXCEPT !.selection = s]
    BY DEF Validate
<1>2. w.ok => name \in Names(type)
    BY DEF Validate
<1>3. "VPN" \in DOMAIN s /\ s.VPN = v.selection.VPN
    BY SameVPN DEF Regular
<1>. HIDE DEF w, s
<1>4. /\ w.settings.provider = v.provider /\ w.settings.vpn = v.vpn /\ w.settings.selection = s
    BY <1>1 DEF Regular
<1>5. Names("openvpn") = (AllWithCustom \cup {"pia"}) \ {"mullvad"}
    BY Zenon DEF Names
<1>6. name # "pia"
    BY TheOne DEF Regular, NamesOne
<1>7. \A kind : v.selection.VPN = {kind} => type = kind
    BY TheOne
<1>8. type = "openvpn" => v.selection.VPN = {"openvpn"}
    BY <1>7 DEF Regular
<1>. HIDE DEF name, type
<1>9. w.ok /\ type = "openvpn" => name \in AllWithCustom \ {"mullvad"}
    <2>. SUFFICES ASSUME w.ok, type = "openvpn" PROVE name \in AllWithCustom \ {"mullvad"}
        OBVIOUS
    <2>1. name \in Names("openvpn")
        BY <1>2
    <2>. QED BY <1>5, <1>6, <2>1
<1>. QED BY <1>3, <1>4, <1>8, <1>9 DEF w, name, type

\* A connection of OpenVPN has a name its certificate is verified by.
LEMMA NameToVerify ==
    ASSUME NEW provider \in AllWithCustom \ {"custom"}, NEW p, NameFits(provider, p), p.VerifyX509Type # Unset,
           NEW s, s.VPN = {"openvpn"}, NEW so, NEW conn, NEW server \in Stored(provider), ConnectedTo(conn, server, s, so)
    PROVE  VerifiedName(p, conn) # Unset
<1>1. The(s.VPN) = "openvpn"
    BY TheOne
<1>2. conn.hostname = IF server.x509 # Unset THEN server.x509 ELSE server.hostname
    BY <1>1, Zenon DEF ConnectedTo
<1>3. /\ KindOf(provider, Full, server)
      /\ server.x509 = IF provider \in {"ipvanish", "privado", "windscribe"} THEN "name" ELSE Unset
    BY StoredKinds
<1>4. CASE p.VerifyX509Name # Unset
    BY <1>4, Zenon DEF VerifiedName
<1>5. CASE p.VerifyX509Name = Unset /\ p.VerifyX509Type = "name" /\ provider \in {"ipvanish", "privado", "windscribe"}
    <2>1. VerifiedName(p, conn) = conn.hostname
        BY <1>5, Zenon DEF VerifiedName
    <2>2. "name" # Unset
        BY Zenon DEF Unset
    <2>3. conn.hostname = "name"
        BY <1>2, <1>3, <1>5, <2>2
    <2>. QED BY <2>1, <2>2, <2>3
<1>6. CASE p.VerifyX509Name = Unset /\ p.VerifyX509Type # "name" /\ provider = "ivpn"
    <2>1. VerifiedName(p, conn) = FirstLabel(conn.hostname)
        BY <1>6, Zenon DEF VerifiedName
    <2>2. server.x509 = Unset
        BY <1>3, <1>6
    <2>3. conn.hostname = server.hostname
        BY <1>2, <2>2
    <2>4. server.hostname \in HostsOf(Full.entries)
        BY <1>3, <1>6 DEF KindOf
    <2>5. HostsOf(Full.entries) \subseteq Hosts
        BY DEF HostsOf, Full, Source
    <2>6. conn.hostname \in Hosts
        BY <2>3, <2>4, <2>5
    <2>7. FirstLabel(conn.hostname) # Unset
        BY <2>6, HostsAssumption, Zenon
    <2>. QED BY <2>1, <2>7
<1>. QED BY <1>4, <1>5, <1>6 DEF NameFits

\* The configuration of any environment is well formed.
LEMMA EnvWellFormed ==
    ASSUME PickEnv
    PROVE  WellFormedConfig'
<1>. DEFINE Input(patch, env, provider) ==
                [kind |-> "env", patch |-> patch, env |-> env,
                 started |-> Validate(SetVPNDefaults(ReadVPN(env)), Choices(provider), NoRetro, TRUE, V6)]
<1>1. PICK patch, env, named : input' = Input(patch, env, named)
    <2>1. PICK provider \in AllWithCustom, type \in {"openvpn", "wireguard"}, k1 \in Keys, k2 \in Keys, patch \in Patches :
              input' = Input(patch, Env({k1, k2}) @@ [VPN_SERVICE_PROVIDER |-> provider, VPN_TYPE |-> type] @@ Credentials,
                             provider)
        BY Zenon DEF PickEnv
    <2>. HIDE DEF Input
    <2>. QED BY <2>1, Zenon
<1>. DEFINE read == SetVPNDefaults(ReadVPN(env))
            now == Validate(read, Choices(named), NoRetro, TRUE, V6)
            v == now.settings
            provider == The(v.provider.Name)
<1>2. /\ provider \in AllWithCustom \/ ~ now.ok
      /\ v.selection.VPN = {"openvpn"} /\ now.ok => OpenVPNSelectionValid(v.selectionOpenVPN, provider)
    <2>1. Regular(read)
        BY Loads
    <2>. HIDE DEF read, Regular
    <2>. QED BY <2>1, Validated, Zenon
<1>3. now.ok /\ The(v.vpn.Type) = "openvpn" =>
          v.selection.VPN = {"openvpn"} /\ provider \in AllWithCustom \ {"mullvad"}
    <2>1. Regular(read) /\ read.vpn.Type = read.selection.VPN
        BY Loads, SameType
    <2>2. "vpn" \in DOMAIN read
        BY DEF SetVPNDefaults
    <2>. HIDE DEF read, Regular
    <2>. QED BY <2>1, <2>2, ValidForOpenVPN, Zenon
<1>4. Started' = now
    BY <1>1 DEF Started
<1>. HIDE DEF now
<1>5. SUFFICES ASSUME now.ok, provider # "custom", The(v.vpn.Type) = "openvpn",
                      NEW conn \in Connections(v), NEW ipv6 \in BOOLEAN, conn.result = "connection"
               PROVE  WellMade(OpenVPNConfig(ProviderSettings(provider, The(v.selectionOpenVPN.PIAEncPreset), ipv6),
                                             conn, v.openvpn, ipv6),
                               provider, conn)
    BY <1>4, Zenon DEF WellFormedConfig, WellMade
<1>6. /\ v.selection.VPN = {"openvpn"} /\ provider \in AllWithCustom \ {"mullvad", "custom"}
      /\ OpenVPNSelectionValid(v.selectionOpenVPN, provider)
    BY <1>2, <1>3, <1>5
<1>. DEFINE s == v.selection  so == v.selectionOpenVPN  sw == v.selectionWireguard
<1>7. conn \in GetConnection(Stored(provider), s, so, sw, DefaultPorts(provider, The(so.PIAEncPreset)), TRUE, V6)
    BY <1>5 DEF Connections
<1>8. /\ s.VPN = {"openvpn"} /\ provider \in AllWithCustom \ {"mullvad", "custom"}
      /\ OpenVPNSelectionValid(so, provider)
    BY <1>6
<1>. DEFINE o == v.openvpn  preset == The(so.PIAEncPreset)
            p == ProviderSettings(provider, preset, ipv6)
<1>. HIDE DEF provider, s, so, sw, o
<1>9. PICK server \in Stored(provider) : ConnectedTo(conn, server, s, so)
    <2>1. ASSUME NEW six, conn \in GetConnection(Stored(provider), s, so, sw, DefaultPorts(provider, The(so.PIAEncPreset)), six, V6)
          PROVE  \E server \in Stored(provider) : ConnectedTo(conn, server, s, so)
        <3>1. provider \in AllWithCustom \ {"custom"}
            BY <1>8
        <3>. QED BY <1>5, <1>8, <2>1, <3>1, ValidConnects
    <2>. QED BY <1>7, <2>1, Zenon
<1>10. conn.protocol \in {"tcp", "udp"}
    BY <1>9 DEF ConnectedTo, GetProtocol
<1>11. Proper(provider, p)
    BY <1>8, ProperSettings
<1>. HIDE DEF p
<1>12. ASSUME p.VerifyX509Type # Unset PROVE VerifiedName(p, conn) # Unset
    <2>1. provider \in AllWithCustom \ {"custom"} /\ NameFits(provider, p) /\ s.VPN = {"openvpn"}
        BY <1>8, <1>11 DEF Proper
    <2>. QED BY <1>9, <1>12, <2>1, NameToVerify
<1>13. \A six : WellMade(OpenVPNConfig(p, conn, o, six), provider, conn)
    BY <1>10, <1>11, <1>12, ConfigIsWellMade
<1>14. WellMade(OpenVPNConfig(p, conn, o, ipv6), provider, conn)
    BY <1>13, Zenon
<1>. QED BY <1>14, Zenon DEF p, o, so, preset

\* The inputs that nothing connects with.
OtherThanConnects == input.kind \notin {"env", "file"}

\* Neither an environment nor a file.
LEMMA OthersConnect ==
    OtherThanConnects => ConnectsAsSet
BY DEF OtherThanConnects, ConnectsAsSet, ConnectsOrErrs, WellFormedConfig, CustomOneServer, FirstServer, SettingsWin

\* The same input connects as it did.
LEMMA ConnectsSame ==
    ASSUME ConnectsAsSet, UNCHANGED input
    PROVE  ConnectsAsSet'
<1>1. Started' = Started /\ Patched' = Patched
    BY DEF Started, Patched, PatchedBy, Choosing
<1>2. FileSettings' = FileSettings /\ FileConnection' = FileConnection /\ FileConfig' = FileConfig
    BY DEF FileSettings, FileConnection, FileConfig
<1>3. ConnectsOrErrs'
    BY <1>1 DEF ConnectsAsSet, ConnectsOrErrs
<1>4. WellFormedConfig'
    BY <1>1 DEF ConnectsAsSet, WellFormedConfig
<1>5. CustomOneServer'
    BY <1>2 DEF ConnectsAsSet, CustomOneServer
<1>6. FirstServer'
    BY <1>2 DEF ConnectsAsSet, FirstServer
<1>7. SettingsWin'
    BY <1>2 DEF ConnectsAsSet, SettingsWin
<1>. QED BY <1>3, <1>4, <1>5, <1>6, <1>7 DEF ConnectsAsSet

(* Whatever an environment sets, what is validated of it connects or errs, and the   *)
(* configuration that is written names the server of the connection; and so does a  *)
(* custom file of any lines, with the settings winning over them                *)
(* (provider/utils, openvpn/extract, provider/custom).                          *)
THEOREM ConnectsFromAny == MCSpec => []ConnectsAsSet
<1>1. MCInit => ConnectsAsSet
    <2>1. MCInit => OtherThanConnects
        BY DEF MCInit, Init, Unpicked, Server, OtherThanConnects
    <2>. QED BY <2>1, OthersConnect
<1>2. ConnectsAsSet /\ [MCNext]_<<input, c>> => ConnectsAsSet'
    <2>. SUFFICES ASSUME ConnectsAsSet, [MCNext]_<<input, c>> PROVE ConnectsAsSet'
        OBVIOUS
    <2>1. CASE PickEnv
        <3>1. input'.kind = "env"
            BY <2>1 DEF PickEnv
        <3>2. ConnectsOrErrs' /\ WellFormedConfig'
            BY <2>1, EnvConnects, EnvWellFormed
        <3>3. CustomOneServer' /\ FirstServer' /\ SettingsWin'
            BY <3>1 DEF CustomOneServer, FirstServer, SettingsWin
        <3>. QED BY <3>2, <3>3 DEF ConnectsAsSet
    <2>2. CASE PickFile
        <3>1. input'.kind = "file"
            BY <2>2 DEF PickFile
        <3>2. FilesConnect'
            BY <2>2, FileKept
        <3>3. ConnectsOrErrs' /\ WellFormedConfig'
            BY <3>1 DEF ConnectsOrErrs, WellFormedConfig
        <3>. QED BY <3>2, <3>3 DEF ConnectsAsSet, FilesConnect
    <2>3. CASE PickSource \/ PickResults \/ PickUpdate \/ PickDNS \/ PickSection \/ PickRetro
        <3>1. input'.kind \notin {"env", "file"}
            <4>1. CASE PickSource
                BY <4>1 DEF PickSource
            <4>2. CASE PickResults
                BY <4>2 DEF PickResults
            <4>3. CASE PickUpdate
                BY <4>3 DEF PickUpdate
            <4>4. CASE PickDNS
                BY <4>4 DEF PickDNS
            <4>5. CASE PickSection
                BY <4>5 DEF PickSection
            <4>6. CASE PickRetro
                BY <4>6 DEF PickRetro
            <4>. QED BY <2>3, <4>1, <4>2, <4>3, <4>4, <4>5, <4>6
        <3>2. OtherThanConnects'
            BY <3>1 DEF OtherThanConnects
        <3>. QED BY <3>2, OthersConnect, PTL
    <2>4. CASE UNCHANGED input
        BY <2>4, ConnectsSame
    <2>. QED BY <2>1, <2>2, <2>3, <2>4 DEF MCNext, Next
<1>. QED BY <1>1, <1>2, PTL DEF MCSpec

=============================================================================
