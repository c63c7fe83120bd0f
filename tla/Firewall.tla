------------------------------ MODULE Firewall ------------------------------
(***************************************************************************)
(* The firewall (internal/firewall with its iptables implementation): what   *)
(* Config records, against the rules the kernel has.                        *)
(*                                                                         *)
(* Every setter holds stateMutex from its first line to its last, and every  *)
(* iptables function saves the rules and restores them when one of its       *)
(* commands fails: a setter is a sequence of steps that each happen wholly   *)
(* or not at all, and is one action here.  Rules that are added for TCP are  *)
(* always added for UDP too and count as one.  The order of the rules of a   *)
(* chain is left out: but for the one lent to MTU discovery they all accept. *)
(***************************************************************************)
EXTENDS Naturals, FiniteSets, Sequences, Bags

CONSTANTS
    Connections,    \* connections to VPN servers
    NoConnection,   \* models.Connection{}, with an invalid IP address
    Subnets,        \* outbound subnets
    Family,         \* the IP family, 4 or 6, of each connection and subnet
    Routes,         \* Config.defaultRoutes: a sequence of [intf, family]
    Locals,         \* Config.localNetworks: a sequence of [intf, family]
    Tunnel,         \* the VPN interface
    NoInterface,    \* the empty interface name
    Ports,          \* ports to open and redirect
    MaxFaults       \* bound on the iptables commands that fail

ASSUME FirewallConstants ==
    /\ NoConnection \notin Connections
    /\ Family \in [Connections \cup Subnets -> {4, 6}]
    /\ Routes \in Seq([intf : STRING, family : {4, 6}])
    /\ Locals \in Seq([intf : STRING, family : {4, 6}])
    /\ Tunnel # NoInterface
    /\ 0 \notin Ports
    /\ MaxFaults \in Nat

VARIABLES
    kernel,             \* what iptables can do: ip6tables, IPv6 NAT, port 0
    enabled,            \* Config.enabled
    restore,            \* the rules and policy Config.restore puts back
    policy,             \* of the chains INPUT, OUTPUT and FORWARD
    rules,              \* the rules in force, as a bag
    lent,               \* the rules added for a caller that will remove them
    vpnConnection,      \* Config.vpnConnection
    vpnIntf,            \* Config.vpnIntf
    outboundSubnets,    \* Config.outboundSubnets
    allowedInputPorts,  \* Config.allowedInputPorts, all on the VPN interface
    portRedirections,   \* Config.portRedirections, by source port; 0 to none
    redirected,         \* the source ports that have a redirection
    wasDisabled,        \* SetEnabled(false) was called: the program never does
    nFaults             \* commands that failed so far

recorded == <<vpnConnection, vpnIntf, outboundSubnets, allowedInputPorts,
              portRedirections, redirected>>
inForce == <<policy, rules>>
vars == <<kernel, enabled, restore, inForce, lent, recorded, wasDisabled, nFaults>>

---------------------- (* Rules, and the steps that set them *) ---------------

Families == IF kernel.ip6tables THEN {4, 6} ELSE {4}

VPNRule(r, c) == {<<"vpn", Family[c], r.intf, c>>}

IntfRules(i) == {<<"intf", f, i>> : f \in Families}

SubnetRule(r, s) == {<<"subnet", Family[s], r.intf, s>>}

InputRules(p) == {<<"input", f, p>> : f \in Families}

(* RedirectPort restores both families when IPv6 has no NAT table, and tells  *)
(* its caller that nothing went wrong.                                      *)
RedirectRules(s, d) ==
    IF kernel.ip6tables /\ ~kernel.nat6 THEN {}
    ELSE {<<"nat", f, s, d>> : f \in Families} \cup InputRules(d)

\* The default routes that serve each subnet of S, by their places.
Serving(S) == {x \in (1..Len(Routes)) \X S : Routes[x[1]].family = Family[x[2]]}

(* A step adds or deletes rules.  A setter gives up when one fails that must  *)
(* not; a rule that is not there is not deleted, which is no error.         *)
Adding(rs) == [op |-> "add", must |-> TRUE, rules |-> rs]
Deleting(rs) == [op |-> "delete", must |-> TRUE, rules |-> rs]
TryDeleting(rs) == [op |-> "delete", must |-> FALSE, rules |-> rs]

(* A command fails because of a fault, for want of ip6tables, or since its    *)
(* port is 0.                                                              *)
Refused(step) ==
    \/ ~kernel.ip6tables /\ \E r \in step.rules : r[2] = 6
    \/ ~kernel.port0 /\ \E r \in step.rules : r[1] = "nat" /\ r[4] = 0

Tally(steps, I) ==
    [r \in UNION {steps[i].rules : i \in I} |-> Cardinality({i \in I : r \in steps[i].rules})]

(* The outcome of steps, deletions first, when those in faults fail: the     *)
(* rules in force, the steps that came before the one the setter gave up on, *)
(* and whether they are all.                                               *)
Outcome(steps, faults) ==
    LET Fails(i) == i \in faults \/ Refused(steps[i])
        reached == {i \in 1..Len(steps) : \A j \in 1..i : ~(steps[j].must /\ Fails(j))}
        Done(op) == Tally(steps, {i \in reached : steps[i].op = op /\ ~Fails(i)})
    IN [rules |-> (rules (-) Done("delete")) (+) Done("add"),
        reached |-> reached, ok |-> reached = 1..Len(steps)]

\* The failures a call of these steps may meet: of one of them at most.
Faults(steps) == {{}} \cup (IF nFaults < MaxFaults THEN {{i} : i \in steps} ELSE {})

Counted(faults) == nFaults' = nFaults + Cardinality(faults)

----------------------------- (* SetEnabled *) -------------------------------

RouteIntfs == {Routes[i].intf : i \in 1..Len(Routes)}

\* A command for each default route that serves a subnet.
SubnetSteps == [x \in Serving(Subnets) |-> Adding(SubnetRule(Routes[x[1]], x[2]))]

\* The rules enable adds whatever is recorded.
BaseRules ==
    {<<"lo", f>> : f \in Families} \cup {<<"established", f>> : f \in Families}
    \cup {<<"local", Locals[i].family, i>> : i \in 1..Len(Locals)}
    \cup {<<"multicast", 6, Locals[i].intf>> : i \in {j \in 1..Len(Locals) : kernel.ip6tables}}

EnableSteps ==
    LET ForVPN == {Adding(VPNRule([intf |-> i], vpnConnection)) :
                        i \in IF vpnConnection = NoConnection THEN {} ELSE RouteIntfs}
    IN {Adding(BaseRules)} \cup ForVPN
           \cup {SubnetSteps[x] : x \in Serving(outboundSubnets)}
           \cup {Adding(InputRules(p)) : p \in allowedInputPorts}

RedirectSteps == [s \in redirected |-> Adding(RedirectRules(s, portRedirections[s]))]

(* enable: the policies, then the rules for what is recorded, but none for    *)
(* vpnIntf.  A failure anywhere, one in the user's own rules too, restores   *)
(* what was there; only the failure to save it leaves no restore function.  *)
Enable ==
    /\ ~enabled
    /\ \/ /\ \A step \in EnableSteps : ~Refused(step)
          /\ \A s \in redirected : ~Refused(RedirectSteps[s])
          /\ enabled' = TRUE
          /\ policy' = "DROP"
          /\ rules' = rules (+) SetToBag(UNION {step.rules : step \in EnableSteps})
                            (+) Tally(RedirectSteps, redirected)
          /\ UNCHANGED nFaults
       \/ /\ \/ \E step \in EnableSteps : Refused(step)
             \/ \E s \in redirected : Refused(RedirectSteps[s])
          /\ UNCHANGED <<enabled, inForce, nFaults>>
       \/ /\ nFaults < MaxFaults /\ nFaults' = nFaults + 1
          /\ UNCHANGED <<enabled, inForce>>
    /\ restore' = [policy |-> policy, rules |-> rules]
    /\ UNCHANGED <<kernel, lent, recorded, wasDisabled>>

\* A bug: the rules are flushed and the policies stay.
Disable_KeepsPolicy ==
    /\ enabled
    /\ enabled' = FALSE
    /\ rules' = restore.rules
    /\ lent' = {}
    /\ wasDisabled' = TRUE
    /\ UNCHANGED <<kernel, policy, restore, recorded, nFaults>>

\* SetEnabled(false) puts back what enable saved; nothing recorded is forgotten.
Disable ==
    /\ enabled
    /\ enabled' = FALSE
    /\ policy' = restore.policy
    /\ rules' = restore.rules
    /\ lent' = {}
    /\ wasDisabled' = TRUE
    /\ UNCHANGED <<kernel, restore, recorded, nFaults>>

--------------------------- (* SetVPNConnection *) ----------------------------

\* While disabled the connection is recorded, and the interface is not.
RecordVPNConnection(c) ==
    /\ ~enabled
    /\ vpnConnection' = c
    /\ UNCHANGED <<kernel, enabled, restore, inForce, lent, vpnIntf, outboundSubnets,
                   allowedInputPorts, portRedirections, redirected, wasDisabled, nFaults>>

\* The early return on an equal connection, whatever the interface is.
SameVPNConnection(c) ==
    /\ enabled /\ c = vpnConnection
    /\ UNCHANGED <<kernel, enabled, restore, inForce, lent, recorded, wasDisabled, nFaults>>

\* A bug: the rules of the old server stay.
VPNSteps_Stale(c) ==
    [i \in 1..Len(Routes) |-> Adding(VPNRule(Routes[i], c))]
        \o <<Adding(IntfRules(Tunnel))>>

(* The old server and interface are no longer allowed, then the new ones are: *)
(* one command per default route, be their interfaces the same or not.       *)
VPNSteps(c) ==
    LET forOld == IF vpnConnection = NoConnection THEN <<>>
                  ELSE [i \in 1..Len(Routes) |-> TryDeleting(VPNRule(Routes[i], vpnConnection))]
        forIntf == IF vpnIntf = NoInterface THEN <<>> ELSE <<TryDeleting(IntfRules(vpnIntf))>>
    IN forOld \o forIntf
          \o [i \in 1..Len(Routes) |-> Adding(VPNRule(Routes[i], c))]
          \o <<Adding(IntfRules(Tunnel))>>

SetVPNConnection(c) ==
    /\ enabled /\ c # vpnConnection
    /\ \E faults \in Faults(1..Len(VPNSteps(c))) :
         LET out == Outcome(VPNSteps(c), faults) IN
         /\ Counted(faults)
         /\ rules' = out.rules
         /\ vpnConnection' = IF 1..(Len(VPNSteps(c)) - 1) \subseteq out.reached THEN c ELSE NoConnection
         /\ vpnIntf' = IF out.ok THEN Tunnel ELSE NoInterface
    /\ UNCHANGED <<kernel, enabled, policy, restore, lent, outboundSubnets,
                   allowedInputPorts, portRedirections, redirected, wasDisabled>>

-------------------------- (* SetOutboundSubnets *) ---------------------------

RecordOutboundSubnets(S) ==
    /\ ~enabled
    /\ outboundSubnets' = S
    /\ UNCHANGED <<kernel, enabled, restore, inForce, lent, vpnConnection, vpnIntf,
                   allowedInputPorts, portRedirections, redirected, wasDisabled, nFaults>>

\* A subnet of a family without a default route has none: it is neither recorded nor forgotten.
Served(S) == {x[2] : x \in Serving(S)}

(* addOutboundSubnets, when the commands in failing fail: it gets through the  *)
(* subnets A, in any order, and adds what is in added: all, or all that comes   *)
(* before the first command that fails, which is for a subnet after those.     *)
AddsUpTo(A, added, new, failing) ==
    /\ added \cap failing = {}
    /\ \/ added = new
       \/ \E x \in new \cap failing :
             /\ x[2] \notin A
             /\ added = {y \in new : y[2] \in A \/ (y[2] = x[2] /\ y[1] < x[1])}

(* FindSubnetsToChange, then removeOutboundSubnets, which only logs failures, *)
(* and addOutboundSubnets, which records a subnet once all its rules are in.  *)
SetOutboundSubnets(S) ==
    LET old == Serving(outboundSubnets \ S)
        new == Serving(S \ outboundSubnets)
    IN /\ enabled
       /\ \E faults \in Faults(old \cup new), A \in SUBSET (S \ outboundSubnets), added \in SUBSET new :
            LET failing == faults \cup {x \in old \cup new : Refused(SubnetSteps[x])} IN
            /\ AddsUpTo(A, added, new, failing)
            /\ added = new => A = S \ outboundSubnets
            /\ Counted(faults)
            /\ rules' = (rules (-) Tally(SubnetSteps, old \ failing)) (+) Tally(SubnetSteps, added)
            /\ outboundSubnets' = (outboundSubnets \ Served(outboundSubnets \ S)) \cup Served(A)
       /\ UNCHANGED <<kernel, enabled, policy, restore, lent, vpnConnection, vpnIntf,
                      allowedInputPorts, portRedirections, redirected, wasDisabled>>

---------------------- (* Input ports and redirections *) ---------------------

\* What a call about ports leaves alone.
PortsOnly == UNCHANGED <<kernel, enabled, policy, restore, lent, vpnConnection, vpnIntf,
                         outboundSubnets, wasDisabled>>

\* A call whose only command adds or deletes the rules of p: what is allowed after it.
Sets(step, allowed) ==
    \E faults \in Faults({1}) :
        LET out == Outcome(<<step>>, faults) IN
        /\ Counted(faults)
        /\ rules' = out.rules
        /\ allowedInputPorts' = IF out.ok THEN allowed ELSE allowedInputPorts

\* A bug: the port is recorded first, and stays so when its rule is refused.
SetAllowedPort_First(p) ==
    /\ p \notin allowedInputPorts
    /\ IF enabled THEN \E faults \in Faults({1}) :
                         /\ Counted(faults)
                         /\ rules' = Outcome(<<Adding(InputRules(p))>>, faults).rules
       ELSE UNCHANGED <<rules, nFaults>>
    /\ allowedInputPorts' = allowedInputPorts \cup {p}
    /\ PortsOnly /\ UNCHANGED <<portRedirections, redirected>>

\* SetAllowedPort; a call for port 0 or for an allowed port returns at once.
SetAllowedPort(p) ==
    /\ p \notin allowedInputPorts
    /\ IF enabled THEN Sets(Adding(InputRules(p)), allowedInputPorts \cup {p})
       ELSE allowedInputPorts' = allowedInputPorts \cup {p} /\ UNCHANGED <<rules, nFaults>>
    /\ PortsOnly /\ UNCHANGED <<portRedirections, redirected>>

RemoveAllowedPort(p) ==
    /\ p \in allowedInputPorts
    /\ IF enabled THEN Sets(Deleting(InputRules(p)), allowedInputPorts \ {p})
       ELSE allowedInputPorts' = allowedInputPorts \ {p} /\ UNCHANGED <<rules, nFaults>>
    /\ PortsOnly /\ UNCHANGED <<portRedirections, redirected>>

Redirects(s, d) == s \in redirected /\ portRedirections[s] = d

\* While disabled, destination 0 removes the redirection of s.
RecordRedirection(s, d) ==
    /\ ~enabled
    /\ redirected' = IF d = 0 THEN redirected \ {s} ELSE redirected \cup {s}
    /\ portRedirections' = [portRedirections EXCEPT ![s] = d]
    /\ PortsOnly /\ UNCHANGED <<rules, allowedInputPorts, nFaults>>

(* While enabled it does not: a redirection of s to another port is removed,  *)
(* and one to d is added, whatever d is.                                    *)
RedirectPort(s, d) ==
    LET old == IF s \in redirected /\ ~Redirects(s, d)
               THEN <<Deleting(RedirectRules(s, portRedirections[s]))>> ELSE <<>>
        new == IF Redirects(s, d) THEN <<>> ELSE <<Adding(RedirectRules(s, d))>>
    IN /\ enabled
       /\ \E faults \in Faults(1..Len(old \o new)) :
            LET out == Outcome(old \o new, faults) IN
            /\ Counted(faults)
            /\ rules' = out.rules
            /\ redirected' = IF out.ok THEN redirected \cup {s}
                             ELSE IF 1 \in out.reached THEN redirected \ {s} ELSE redirected
            /\ portRedirections' = [portRedirections EXCEPT
                  ![s] = IF out.ok THEN d ELSE IF 1 \in out.reached THEN 0 ELSE @]
       /\ PortsOnly /\ UNCHANGED allowedInputPorts

(* AcceptOutput and TempDropOutputTCPRST: a caller adds a rule and removes it, *)
(* or fails to.  They take no stateMutex; callers use them once main has      *)
(* enabled the firewall.                                                    *)
Lend ==
    /\ enabled /\ lent = {}
    /\ lent' = {<<"lent", 4>>}
    /\ rules' = rules (+) SetToBag(lent')
    /\ UNCHANGED <<kernel, enabled, policy, restore, recorded, wasDisabled, nFaults>>

GiveBack ==
    /\ lent # {}
    /\ lent' = {}
    /\ \/ rules' = rules (-) SetToBag(lent) /\ UNCHANGED nFaults
       \/ nFaults < MaxFaults /\ nFaults' = nFaults + 1 /\ UNCHANGED rules
    /\ UNCHANGED <<kernel, enabled, policy, restore, recorded, wasDisabled>>

------------------------------------------------------------------------------

\* Only an ip6tables can have an IPv6 NAT table or miss it.
Kernels == {k \in [ip6tables : BOOLEAN, nat6 : BOOLEAN, port0 : BOOLEAN] : k.nat6 => k.ip6tables}

Init ==
    /\ kernel \in Kernels
    /\ enabled = FALSE
    /\ policy = "ACCEPT"
    /\ rules = EmptyBag
    /\ restore = [policy |-> "ACCEPT", rules |-> EmptyBag]
    /\ lent = {}
    /\ vpnConnection = NoConnection
    /\ vpnIntf = NoInterface
    /\ outboundSubnets = {}
    /\ allowedInputPorts = {}
    /\ portRedirections = [p \in Ports |-> 0]
    /\ redirected = {}
    /\ wasDisabled = FALSE
    /\ nFaults = 0

Next ==
    \/ Enable \/ Disable \/ Lend \/ GiveBack
    \/ \E c \in Connections : RecordVPNConnection(c) \/ SameVPNConnection(c) \/ SetVPNConnection(c)
    \/ \E S \in SUBSET Subnets : RecordOutboundSubnets(S) \/ SetOutboundSubnets(S)
    \/ \E p \in Ports : SetAllowedPort(p) \/ RemoveAllowedPort(p)
    \/ \E s \in Ports, d \in Ports \cup {0} : RecordRedirection(s, d) \/ RedirectPort(s, d)

Spec == Init /\ [][Next]_vars

-------------------------------- (* Properties *) -----------------------------

\* The rules that what is recorded calls for while the firewall is enabled.
Wanted ==
    BaseRules
    \cup (IF vpnConnection = NoConnection THEN {}
          ELSE UNION {VPNRule(Routes[i], vpnConnection) : i \in 1..Len(Routes)})
    \cup (IF vpnIntf = NoInterface THEN {} ELSE IntfRules(vpnIntf))
    \cup (UNION {SubnetRule(Routes[x[1]], x[2]) : x \in Serving(outboundSubnets)})
    \cup (UNION {InputRules(p) : p \in allowedInputPorts})
    \cup (UNION {RedirectRules(s, portRedirections[s]) : s \in redirected})

(* Traffic is dropped by default exactly while the firewall is enabled, and an *)
(* enable that failed or a disable leaves nothing of what came after it: the  *)
(* restore functions of enable and SetEnabled, whatever failed in between.    *)
PolicyFollows ==
    /\ enabled => policy = "DROP"
    /\ ~enabled => policy = "ACCEPT" /\ rules = EmptyBag

(* Whatever Config records has its rules in force, whatever failed on the way: *)
(* the setters record a change after its rules are in and forget one before or *)
(* as they go.  Only disabling forgets the rules of the VPN interface.        *)
RecordedInForce ==
    enabled => Wanted \ (IF wasDisabled THEN IntfRules(vpnIntf) ELSE {}) \subseteq BagToSet(rules)

(* As long as no command fails for a reason of its own, nothing else is in    *)
(* force: no rule of an earlier server, subnet, port or redirection stays,   *)
(* even after calls the kernel refuses.                                     *)
NothingMore == enabled /\ nFaults = 0 => BagToSet(rules) \subseteq Wanted \cup lent
=============================================================================
