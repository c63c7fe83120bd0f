------------------------------- MODULE Routing -------------------------------
(***************************************************************************)
(* The routes and rules of internal/routing, which the program sets at its     *)
(* start and removes at its end: the loops over the default routes and the      *)
(* outbound subnets, one call to the kernel after the other, each of which may   *)
(* fail.                                                                      *)
(***************************************************************************)
EXTENDS Naturals, Sequences

CONSTANTS
    DefaultFamilies,    \* the lists of default routes there may be, each the sequence of their families
    Subnets,            \* the outbound subnets of the settings, each [name, family], in a sequence
    MaxFaults           \* bound on the calls that fail

\* What the constants are assumed to be.
RoutingConstants ==
    /\ MaxFaults \in Nat /\ Len(Subnets) \in Nat
    /\ \A families \in DefaultFamilies : Len(families) \in Nat

VARIABLE k
(* at: where the program is; subnet, route: how far its loops are; defaults: the         *)
(* families of the default routes; routes and rules: what the kernel has; outbound: the    *)
(* set of Routing.outboundSubnets; faults: the calls that failed.                      *)

\* A route is to any address, or to a subnet, through a default route.
Inbound(d) == <<"inbound", d>>
Outbound(x, d) == <<"outbound", x, d>>
InboundRule(d) == <<"from", d>>
OutboundRule(x) == <<"to", x>>
LocalRule == <<"local">>

Each == 1..Len(k.defaults)
Outer == {Subnets[i] : i \in 1..Len(Subnets)}
Matching(x) == {d \in Each : k.defaults[d] = x.family}
AllRoutes == {Inbound(d) : d \in Each} \cup UNION {{Outbound(x, d) : d \in Matching(x)} : x \in Outer}

Stages ==
    {"start", "rules", "routes", "list", "outbound", "local", "running", "teardown", "unroute", "unrule",
     "forget", "end"}

(* Only routes through a default route of their family are there, and only subnets of   *)
(* the settings are recorded.                                                    *)
RoutingTypeOK ==
    /\ k.at \in Stages
    /\ k.subnet \in 1 .. Len(Subnets) + 1 /\ k.route \in 1 .. Len(k.defaults) + 1
    /\ k.routes \subseteq AllRoutes /\ k.outbound \subseteq Outer

RoutingInit ==
    \E families \in DefaultFamilies :
    k = [at |-> "start", subnet |-> 1, route |-> 1, defaults |-> families, routes |-> {}, rules |-> {},
         outbound |-> {}, faults |-> 0]

------------------------------- (* The loops *) ------------------------------

At(stage) == [k EXCEPT !.at = stage, !.subnet = 1, !.route = 1]
NextRoute(v) == [v EXCEPT !.route = @ + 1]
NextSubnet(v) == [v EXCEPT !.subnet = @ + 1, !.route = 1]
InRoutes == k.route <= Len(k.defaults)
InSubnets == k.subnet <= Len(Subnets)
This == Subnets[k.subnet]

LoopEnds ==
    \/ /\ ~InRoutes
       /\ \/ k.at = "rules" /\ k' = At("routes")
          \/ k.at = "routes" /\ k' = At("list")
          \/ k.at = "unroute" /\ k' = At("unrule")
          \/ k.at = "unrule" /\ k' = At("forget")
    \/ /\ ~InSubnets
       /\ \/ k.at = "outbound" /\ k' = At("local")
          \/ k.at = "forget" /\ k' = At("end")

(* RouteReplace: the kernel keeps one route to a destination of a family, the last     *)
(* one it was given.                                                            *)
Alike(d) == {e \in Each : k.defaults[e] = k.defaults[d]}

---------------------- (* Setup, SetOutboundRoutes, local *) -----------------

Setup == k.at = "start" /\ k' = At("rules")

AddInboundRule ==
    /\ k.at = "rules" /\ InRoutes
    /\ k' = NextRoute([k EXCEPT !.rules = @ \cup {InboundRule(k.route)}])

AddInboundRoute ==
    /\ k.at = "routes" /\ InRoutes
    /\ k' = NextRoute([k EXCEPT !.routes = (@ \ {Inbound(d) : d \in Alike(k.route)}) \cup {Inbound(k.route)}])

SetOutboundRoutes == k.at = "list" /\ k' = At("outbound")

\* A bug: the family of a default route is not looked at.
AddOutboundRoute_AnyFamily ==
    /\ k.at = "outbound" /\ InSubnets /\ InRoutes
    /\ k' = NextRoute([k EXCEPT !.routes = (@ \ {Outbound(This, d) : d \in Alike(k.route)})
                                                 \cup {Outbound(This, k.route)}])

AddOutboundRoute ==
    /\ k.at = "outbound" /\ InSubnets /\ InRoutes
    /\ k' = IF k.route \notin Matching(This) THEN NextRoute(k)
            ELSE NextRoute([k EXCEPT !.routes = (@ \ {Outbound(This, d) : d \in Alike(k.route)})
                                                    \cup {Outbound(This, k.route)}])

\* A subnet with no default route of its family is left out, and not recorded.
AddOutboundRule ==
    /\ k.at = "outbound" /\ InSubnets /\ ~InRoutes
    /\ k' = IF Matching(This) = {} THEN NextSubnet(k)
            ELSE NextSubnet([k EXCEPT !.rules = @ \cup {OutboundRule(This)}, !.outbound = @ \cup {This}])

AddLocalRules == k.at = "local" /\ k' = [At("running") EXCEPT !.rules = @ \cup {LocalRule}]

-------------------------------- (* TearDown *) ------------------------------

\* Of Setup, when it fails, and of main when it returns.
TearDown == k.at \in {"running", "teardown"} /\ k' = At("unroute")

\* The kernel refuses to delete a route it does not have, which ends the teardown.
Unroute ==
    /\ k.at = "unroute" /\ InRoutes
    /\ k' = IF Inbound(k.route) \notin k.routes THEN At("end")
            ELSE NextRoute([k EXCEPT !.routes = @ \ {Inbound(k.route)}])

\* A rule is looked for first, and one that is not there is not deleted.
Unrule ==
    /\ k.at = "unrule" /\ InRoutes
    /\ k' = NextRoute([k EXCEPT !.rules = @ \ {InboundRule(k.route)}])

\* A bug: the rule of a subnet is left.
Forget_Rule ==
    /\ k.at = "forget" /\ InSubnets
    /\ k' = IF This \notin k.outbound THEN NextSubnet(k)
            ELSE IF InRoutes THEN NextRoute([k EXCEPT !.routes = @ \ {Outbound(This, k.route)}])
            ELSE NextSubnet([k EXCEPT !.outbound = @ \ {This}])

\* removeOutboundSubnets, of those that are recorded.
Forget ==
    /\ k.at = "forget" /\ InSubnets
    /\ k' = IF This \notin k.outbound THEN NextSubnet(k)
            ELSE IF InRoutes THEN NextRoute([k EXCEPT !.routes = @ \ {Outbound(This, k.route)}])
            ELSE NextSubnet([k EXCEPT !.rules = @ \ {OutboundRule(This)}, !.outbound = @ \ {This}])

-------------------------------- (* Failures *) ------------------------------

\* Where a call to the kernel is made.
Calls ==
    \/ k.at \in {"start", "list", "local", "running", "teardown"}
    \/ k.at \in {"rules", "routes", "unroute", "unrule"} /\ InRoutes
    \/ k.at = "outbound" /\ InSubnets /\ (IF InRoutes THEN k.route \in Matching(This) ELSE Matching(This) # {})
    \/ k.at = "forget" /\ InSubnets /\ This \in k.outbound

\* A bug: a subnet is forgotten although its rule could not be deleted.
AfterFailure_Forgets ==
    IF k.at = "forget" THEN IF InRoutes THEN NextRoute(k) ELSE NextSubnet([k EXCEPT !.outbound = @ \ {This}])
    ELSE IF k.at \in {"rules", "routes", "list", "outbound", "local"} THEN At("teardown") ELSE At("end")

(* The first error ends the setup, or the teardown; one of the removal of a subnet is   *)
(* a warning, and a rule that is not deleted keeps the subnet.                     *)
AfterFailure ==
    IF k.at = "forget" THEN IF InRoutes THEN NextRoute(k) ELSE NextSubnet(k)
    ELSE IF k.at \in {"rules", "routes", "list", "outbound", "local"} THEN At("teardown") ELSE At("end")

CallFails == Calls /\ k.faults < MaxFaults /\ k' = [AfterFailure EXCEPT !.faults = @ + 1]

RoutingNext ==
    \/ Setup \/ AddInboundRule \/ AddInboundRoute \/ SetOutboundRoutes \/ AddOutboundRoute \/ AddOutboundRule
    \/ AddLocalRules \/ TearDown \/ Unroute \/ Unrule \/ Forget \/ LoopEnds \/ CallFails

------------------------------- (* Properties *) -----------------------------

\* One default route for each family, as the teardown takes for granted.
OnePerFamily == \A d \in Each : Alike(d) = {d}

(* When the program ends and no call was refused, what it added is removed, but the     *)
(* rules of the local networks, if no two default routes are of one family             *)
(* (routing/enable.go, TearDown).                                                *)
NothingLeft == k.at = "end" /\ k.faults = 0 /\ OnePerFamily => k.routes = {} /\ k.rules \subseteq {LocalRule}

(* A subnet that is recorded has its rule and a route, whichever call failed, and one    *)
(* whose rule could not be removed is still recorded, so that it is tried again          *)
(* (routing/outbound.go).                                                        *)
RecordedIsThere ==
    /\ k.at \in {"running", "local"} =>
          \A x \in k.outbound : OutboundRule(x) \in k.rules /\ \E d \in Matching(x) : Outbound(x, d) \in k.routes
    /\ k.at = "end" => \A x \in Outer : OutboundRule(x) \in k.rules => x \in k.outbound
=============================================================================
