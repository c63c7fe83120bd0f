--------------------------- MODULE Firewall_proofs ---------------------------
(***************************************************************************)
(* The firewall for any connections, subnets, ports, default routes, kernels  *)
(* and number of failures: its policy and its rules follow from whether it is  *)
(* enabled, whatever failed before.                                         *)
(***************************************************************************)
EXTENDS Firewall, FiniteSetTheorems, TLAPS

(* What PolicyFollows needs to be inductive: enable saves a kernel without rules *)
(* that accepts, since that is what it finds whenever the firewall is disabled, *)
(* and a rule is lent only by a caller that found it enabled.                *)
Restorable ==
    /\ PolicyFollows
    /\ restore = [policy |-> "ACCEPT", rules |-> EmptyBag]
    /\ lent # {} => enabled

\* What enable saves is what it found, and what it puts there depends on it.
LEMMA EnableRestorable == Restorable /\ Enable => Restorable'
  BY DEF Restorable, PolicyFollows, Enable, inForce, recorded

\* Disabling puts back the state that enable saved.
LEMMA DisableRestorable == Restorable /\ Disable => Restorable'
  BY DEF Restorable, PolicyFollows, Disable, recorded

\* Rules are lent and given back only while the firewall is enabled.
LEMMA LendRestorable == Restorable /\ (Lend \/ GiveBack) => Restorable'
  BY DEF Restorable, PolicyFollows, Lend, GiveBack, recorded

\* Setting the connection, or the subnets, touches no rule of a disabled firewall.
LEMMA VPNRestorable ==
  ASSUME NEW c \in Connections,
         Restorable, RecordVPNConnection(c) \/ SameVPNConnection(c) \/ SetVPNConnection(c)
  PROVE  Restorable'
  <1>1. CASE RecordVPNConnection(c)
    BY <1>1 DEF Restorable, PolicyFollows, RecordVPNConnection, inForce
  <1>2. CASE SameVPNConnection(c)
    BY <1>2 DEF Restorable, PolicyFollows, SameVPNConnection, inForce
  <1>3. CASE SetVPNConnection(c)
    <2>1. enabled /\ enabled' /\ policy' = policy /\ restore' = restore
      BY <1>3 DEF SetVPNConnection
    <2>2. QED
      BY <2>1 DEF Restorable, PolicyFollows
  <1>4. QED
    BY <1>1, <1>2, <1>3

\* The same for the outbound subnets.
LEMMA SubnetsRestorable ==
  ASSUME NEW S \in SUBSET Subnets, Restorable, RecordOutboundSubnets(S) \/ SetOutboundSubnets(S)
  PROVE  Restorable'
  <1>1. CASE RecordOutboundSubnets(S)
    BY <1>1 DEF Restorable, PolicyFollows, RecordOutboundSubnets, inForce
  <1>2. CASE SetOutboundSubnets(S)
    <2>1. enabled /\ enabled' /\ policy' = policy /\ restore' = restore
      BY <1>2 DEF SetOutboundSubnets
    <2>2. QED
      BY <2>1 DEF Restorable, PolicyFollows
  <1>3. QED
    BY <1>1, <1>2

\* Ports and redirections change rules only while the firewall is enabled.
LEMMA PortsRestorable ==
  ASSUME NEW s, NEW d, Restorable,
         \/ SetAllowedPort(s) \/ RemoveAllowedPort(s)
         \/ RecordRedirection(s, d) \/ RedirectPort(s, d)
  PROVE  Restorable'
  <1>1. PortsOnly
    BY DEF SetAllowedPort, RemoveAllowedPort, RecordRedirection, RedirectPort
  <1>2. ~enabled => rules' = rules
    BY DEF SetAllowedPort, RemoveAllowedPort, RecordRedirection, RedirectPort
  <1>3. QED
    BY <1>1, <1>2 DEF Restorable, PolicyFollows, PortsOnly

\* Initially the kernel has no rule and accepts.
LEMMA InitRestorable == Init => Restorable
  BY DEF Init, Restorable, PolicyFollows

\* Every setter keeps it, whatever fails on its way.
LEMMA NextRestorable == Restorable /\ [Next]_vars => Restorable'
  <1> SUFFICES ASSUME Restorable, [Next]_vars PROVE Restorable'
    OBVIOUS
  <1>1. CASE UNCHANGED vars
    BY <1>1 DEF vars, inForce, recorded, Restorable, PolicyFollows
  <1>2. CASE Next
    BY <1>2, EnableRestorable, DisableRestorable, LendRestorable, VPNRestorable,
       SubnetsRestorable, PortsRestorable DEF Next
  <1>3. QED
    BY <1>1, <1>2

(* Traffic is dropped by default exactly while the firewall is enabled, and an   *)
(* enable that failed or a disable leaves no rule behind (firewall/enable.go,    *)
(* iptables/delete.go and save.go).                                         *)
THEOREM PolicyAlwaysFollows == Spec => []PolicyFollows
  <1>1. Restorable => PolicyFollows
    BY DEF Restorable
  <1>2. QED
    BY <1>1, InitRestorable, NextRestorable, PTL DEF Spec

(***************************************************************************)
(* Bags, and what the steps of a setter do to the copies of a rule.           *)
(***************************************************************************)

Copies(r, B) == IF r \in DOMAIN B THEN B[r] ELSE 0

\* A rule is in force as often as it was added, less the times it was deleted.
Less(m, n) == IF m <= n THEN 0 ELSE m - n

\* Copies counts the rules of a bag.
LEMMA CopiesType ==
  ASSUME NEW B, IsABag(B), NEW r
  PROVE  Copies(r, B) \in Nat /\ (r \in DOMAIN B <=> Copies(r, B) > 0)
  BY DEF IsABag, Copies

\* Adding bags adds copies.
LEMMA PlusCopies ==
  ASSUME NEW A, NEW B, IsABag(A), IsABag(B)
  PROVE  /\ IsABag(A (+) B)
         /\ \A r : Copies(r, A (+) B) = Copies(r, A) + Copies(r, B)
  BY DEF IsABag, Copies, (+)

\* Taking a bag away takes copies away, down to none.
LEMMA MinusCopies ==
  ASSUME NEW A, NEW B, IsABag(A), IsABag(B)
  PROVE  /\ IsABag(A (-) B)
         /\ \A r : Copies(r, A (-) B) = Less(Copies(r, A), Copies(r, B))
  BY DEF IsABag, Copies, Less, (-)

\* A set is a bag with one copy of each.
LEMMA SetCopies ==
  ASSUME NEW S
  PROVE  /\ IsABag(SetToBag(S))
         /\ \A r : Copies(r, SetToBag(S)) = IF r \in S THEN 1 ELSE 0
  BY DEF IsABag, Copies, SetToBag

\* The steps with index in I that are about the rule r.
About(steps, I, r) == {i \in I : r \in steps[i].rules}

\* Finitely many steps are about a rule.
LEMMA AboutFinite ==
  ASSUME NEW steps, NEW I, IsFiniteSet(I), NEW r
  PROVE  /\ IsFiniteSet(About(steps, I, r))
         /\ Cardinality(About(steps, I, r)) \in Nat
         /\ Cardinality(About(steps, I, r)) = 0 <=> About(steps, I, r) = {}
  BY FS_Subset, FS_CardinalityType, FS_EmptySet DEF About

\* Tally counts the steps that are about each rule.
LEMMA TallyCopies ==
  ASSUME NEW steps, NEW I, \A r : IsFiniteSet(About(steps, I, r))
  PROVE  /\ IsABag(Tally(steps, I))
         /\ \A r : Copies(r, Tally(steps, I)) = Cardinality(About(steps, I, r))
  <1>1. ASSUME NEW r PROVE r \in UNION {steps[i].rules : i \in I} <=> About(steps, I, r) # {}
    BY DEF About
  <1>2. ASSUME NEW r
        PROVE  /\ Cardinality(About(steps, I, r)) \in Nat
               /\ Cardinality(About(steps, I, r)) = 0 <=> About(steps, I, r) = {}
    BY FS_CardinalityType, FS_EmptySet
  <1>3. Tally(steps, I) = [r \in UNION {steps[i].rules : i \in I} |-> Cardinality(About(steps, I, r))]
    BY DEF Tally, About
  <1>4. QED
    BY <1>1, <1>2, <1>3 DEF IsABag, Copies

\* The steps of an outcome that were carried out, by what they do.
Reached(steps, faults) ==
    {i \in 1..Len(steps) : \A j \in 1..i : ~(steps[j].must /\ (j \in faults \/ Refused(steps[j])))}
Done(steps, faults, op) ==
    {i \in Reached(steps, faults) : steps[i].op = op /\ ~(i \in faults \/ Refused(steps[i]))}

\* What the steps of a setter leave in force.
LEMMA OutcomeCopies ==
  ASSUME NEW steps, NEW faults, Len(steps) \in Nat, IsABag(rules)
  PROVE  LET out == Outcome(steps, faults) IN
         /\ IsABag(out.rules)
         /\ out.reached = Reached(steps, faults)
         /\ out.ok <=> Reached(steps, faults) = 1..Len(steps)
         /\ \A r : Copies(r, out.rules) =
                      Less(Copies(r, rules), Cardinality(About(steps, Done(steps, faults, "delete"), r)))
                      + Cardinality(About(steps, Done(steps, faults, "add"), r))
  <1> DEFINE D == Tally(steps, Done(steps, faults, "delete"))
             A == Tally(steps, Done(steps, faults, "add"))
  <1>1. IsFiniteSet(1..Len(steps))
    BY FS_Interval
  <1>2. IsFiniteSet(Done(steps, faults, "delete")) /\ IsFiniteSet(Done(steps, faults, "add"))
    BY <1>1, FS_Subset DEF Done, Reached
  <1>3. /\ Outcome(steps, faults).rules = (rules (-) D) (+) A
        /\ Outcome(steps, faults).reached = Reached(steps, faults)
        /\ Outcome(steps, faults).ok <=> Reached(steps, faults) = 1..Len(steps)
    BY DEF Outcome, Done, Reached
  <1>4. IsABag(D) /\ IsABag(A)
    BY <1>2, AboutFinite, TallyCopies
  <1>5. IsABag(rules (-) D) /\ IsABag((rules (-) D) (+) A)
    BY <1>4, MinusCopies, PlusCopies
  <1>6. ASSUME NEW r
        PROVE  Copies(r, (rules (-) D) (+) A) = Less(Copies(r, rules), Copies(r, D)) + Copies(r, A)
    BY <1>4, <1>5, MinusCopies, PlusCopies
  <1>7. ASSUME NEW r
        PROVE  /\ Copies(r, D) = Cardinality(About(steps, Done(steps, faults, "delete"), r))
               /\ Copies(r, A) = Cardinality(About(steps, Done(steps, faults, "add"), r))
    BY <1>2, AboutFinite, TallyCopies
  <1>8. QED
    BY <1>3, <1>5, <1>6, <1>7

(***************************************************************************)
(* What every rule in force owes to what is recorded, kind by kind.           *)
(***************************************************************************)

\* The VPN rules and subnet rules that amount to r, one for each default route.
VPNFor(c, r) == {i \in 1..Len(Routes) : r \in VPNRule(Routes[i], c)}
SubnetsFor(S, r) == {x \in Serving(S) : r \in SubnetRule(Routes[x[1]], x[2])}

\* The redirections that call for r, and whether an allowed port does.
Redirecting(r) == {s \in redirected : r \in RedirectRules(s, portRedirections[s])}
Allowed(r) == \E p \in allowedInputPorts : r \in InputRules(p)
ForPorts(r) == Cardinality(Redirecting(r)) + (IF Allowed(r) THEN 1 ELSE 0)

BaseKinds == {"lo", "established", "local", "multicast"}
PortKinds == {"input", "nat"}
AllKinds == BaseKinds \cup PortKinds \cup {"lent", "vpn", "intf", "subnet"}

\* The rules of some kind that are in force.
OfKind(k) == {r \in DOMAIN rules : r[1] = k}

Typed ==
    /\ kernel \in Kernels
    /\ IsABag(rules)
    /\ lent \in {{}, {<<"lent", 4>>}}
    /\ vpnConnection \in Connections \cup {NoConnection}
    /\ vpnIntf \in {NoInterface, Tunnel}
    /\ outboundSubnets \subseteq Subnets
    /\ allowedInputPorts \subseteq Ports
    /\ portRedirections \in [Ports -> Ports \cup {0}]
    /\ redirected \subseteq Ports
    /\ IsFiniteSet(redirected)
    /\ nFaults \in Nat

\* The kernel takes each rule that is in force.
Accepted == \A r \in DOMAIN rules : ~Refused([rules |-> {r}])

BaseHeld ==
    /\ enabled => BaseRules \subseteq DOMAIN rules
    /\ enabled /\ nFaults = 0 => \A r \in DOMAIN rules : r[1] \in BaseKinds => r \in BaseRules

LentHeld ==
    enabled /\ nFaults = 0 => \A r \in OfKind("lent") : r \in lent /\ rules[r] <= 1

VPNHeld ==
    /\ enabled /\ vpnConnection # NoConnection =>
          \A i \in 1..Len(Routes) : VPNRule(Routes[i], vpnConnection) \subseteq DOMAIN rules
    /\ enabled /\ nFaults = 0 => \A r \in OfKind("vpn") :
          vpnConnection # NoConnection /\ rules[r] <= Cardinality(VPNFor(vpnConnection, r))

IntfHeld ==
    /\ enabled /\ vpnIntf # NoInterface /\ ~wasDisabled => IntfRules(vpnIntf) \subseteq DOMAIN rules
    /\ enabled /\ nFaults = 0 => \A r \in OfKind("intf") :
          vpnIntf # NoInterface /\ r \in IntfRules(vpnIntf) /\ rules[r] <= 1
    /\ ~enabled /\ ~wasDisabled => vpnIntf = NoInterface

SubnetsHeld ==
    /\ enabled => \A x \in Serving(outboundSubnets) : SubnetRule(Routes[x[1]], x[2]) \subseteq DOMAIN rules
    /\ enabled /\ nFaults = 0 => \A r \in OfKind("subnet") :
          rules[r] <= Cardinality(SubnetsFor(outboundSubnets, r))

PortsHeld ==
    /\ enabled => \A r : r[1] \in PortKinds => Copies(r, rules) >= ForPorts(r)
    /\ enabled /\ nFaults = 0 => \A r : r[1] \in PortKinds => Copies(r, rules) <= ForPorts(r)

KindsHeld == enabled /\ nFaults = 0 => \A r \in DOMAIN rules : r[1] \in AllKinds

Held ==
    /\ Typed /\ Accepted
    /\ BaseHeld /\ LentHeld /\ VPNHeld /\ IntfHeld /\ SubnetsHeld /\ PortsHeld /\ KindsHeld

\* What the rules say of themselves.
LEMMA Kinds ==
  /\ \A r \in BaseRules : r[1] \in BaseKinds
  /\ \A x, c : \A r \in VPNRule(x, c) : r[1] = "vpn" /\ r[2] = Family[c]
  /\ \A i : \A r \in IntfRules(i) : r[1] = "intf" /\ r[2] \in Families
  /\ \A x, s : \A r \in SubnetRule(x, s) : r[1] = "subnet" /\ r[2] = Family[s] /\ r[4] = s
  /\ \A p : \A r \in InputRules(p) : r[1] = "input" /\ r[2] \in Families
  /\ \A s, d : \A r \in RedirectRules(s, d) : r[1] \in PortKinds /\ r[2] \in Families
  <1>1. \A r \in BaseRules : r[1] \in BaseKinds
    BY DEF BaseRules, BaseKinds
  <1>2. \A x, c : \A r \in VPNRule(x, c) : r[1] = "vpn" /\ r[2] = Family[c]
    BY DEF VPNRule
  <1>3. \A i : \A r \in IntfRules(i) : r[1] = "intf" /\ r[2] \in Families
    BY DEF IntfRules
  <1>4. \A x, s : \A r \in SubnetRule(x, s) : r[1] = "subnet" /\ r[2] = Family[s] /\ r[4] = s
    BY DEF SubnetRule
  <1>5. \A p : \A r \in InputRules(p) : r[1] = "input" /\ r[2] \in Families
    BY DEF InputRules
  <1>6. \A s, d : \A r \in RedirectRules(s, d) : r[1] \in PortKinds /\ r[2] \in Families
    BY <1>5 DEF RedirectRules, PortKinds
  <1>7. QED
    BY <1>1, <1>2, <1>3, <1>4, <1>5, <1>6

\* A step whose rules are refused has one that is, and the other way round.
LEMMA RefusedRules ==
  ASSUME NEW step
  PROVE  Refused(step) <=> \E r \in step.rules : Refused([rules |-> {r}])
  BY DEF Refused

\* The rules a setter leaves alone stay as they are.
Kept(k) == \A r : r[1] = k => Copies(r, rules') = Copies(r, rules)

\* What a setter called while the firewall is enabled leaves alone.
Setter ==
    /\ enabled /\ UNCHANGED <<kernel, enabled, wasDisabled>>
    /\ nFaults' = 0 => nFaults = 0

\* The base rules depend on nothing that setters change.
LEMMA BaseKept ==
  ASSUME Held, Typed', Setter, \A k \in BaseKinds : Kept(k)
  PROVE  BaseHeld'
  <1>1. BaseRules' = BaseRules
    BY DEF Setter, BaseRules, Families
  <1>2. \A r : r[1] \in BaseKinds => (r \in DOMAIN rules' <=> r \in DOMAIN rules)
    BY CopiesType DEF Held, Typed, Kept
  <1>3. QED
    BY <1>1, <1>2, Kinds DEF Held, BaseHeld, Setter

\* So it is with the rules lent,
LEMMA LentKept ==
  ASSUME Held, Typed', Setter, Kept("lent"), lent' = lent
  PROVE  LentHeld'
  <1>1. \A r : r[1] = "lent" => (r \in DOMAIN rules' <=> r \in DOMAIN rules)
    BY CopiesType DEF Held, Typed, Kept
  <1>2. \A r \in DOMAIN rules' : r[1] = "lent" => rules'[r] = rules[r]
    BY <1>1 DEF Kept, Copies
  <1>3. QED
    BY <1>1, <1>2 DEF Held, LentHeld, Setter, OfKind

\* those of the VPN server,
LEMMA VPNKept ==
  ASSUME Held, Typed', Setter, Kept("vpn"), vpnConnection' = vpnConnection
  PROVE  VPNHeld'
  <1>1. \A r : r[1] = "vpn" => (r \in DOMAIN rules' <=> r \in DOMAIN rules)
    BY CopiesType DEF Held, Typed, Kept
  <1>2. \A r \in DOMAIN rules' : r[1] = "vpn" => rules'[r] = rules[r]
    BY <1>1 DEF Kept, Copies
  <1>3. QED
    BY <1>1, <1>2, Kinds DEF Held, VPNHeld, Setter, OfKind

\* those of the VPN interface,
LEMMA IntfKept ==
  ASSUME Held, Typed', Setter, Kept("intf"), vpnIntf' = vpnIntf
  PROVE  IntfHeld'
  <1>1. \A r : r[1] = "intf" => (r \in DOMAIN rules' <=> r \in DOMAIN rules)
    BY CopiesType DEF Held, Typed, Kept
  <1>2. \A r \in DOMAIN rules' : r[1] = "intf" => rules'[r] = rules[r]
    BY <1>1 DEF Kept, Copies
  <1>3. IntfRules(vpnIntf)' = IntfRules(vpnIntf)
    BY DEF Setter, IntfRules, Families
  <1>4. QED
    BY <1>1, <1>2, <1>3, Kinds DEF Held, IntfHeld, Setter, OfKind

\* those of the outbound subnets,
LEMMA SubnetsKept ==
  ASSUME Held, Typed', Setter, Kept("subnet"), outboundSubnets' = outboundSubnets
  PROVE  SubnetsHeld'
  <1>1. \A r : r[1] = "subnet" => (r \in DOMAIN rules' <=> r \in DOMAIN rules)
    BY CopiesType DEF Held, Typed, Kept
  <1>2. \A r \in DOMAIN rules' : r[1] = "subnet" => rules'[r] = rules[r]
    BY <1>1 DEF Kept, Copies
  <1>3. QED
    BY <1>1, <1>2, Kinds DEF Held, SubnetsHeld, Setter, OfKind

\* and those of ports and redirections.
LEMMA PortsKept ==
  ASSUME Held, Typed', Setter, Kept("input"), Kept("nat"),
         UNCHANGED <<allowedInputPorts, portRedirections, redirected>>
  PROVE  PortsHeld'
  <1>1. ASSUME NEW s, NEW d PROVE InputRules(d)' = InputRules(d) /\ RedirectRules(s, d)' = RedirectRules(s, d)
    BY DEF Setter, InputRules, RedirectRules, Families
  <1>2. ASSUME NEW r PROVE ForPorts(r)' = ForPorts(r)
    BY <1>1 DEF ForPorts, Redirecting, Allowed
  <1>3. QED
    BY <1>2 DEF Held, PortsHeld, Setter, Kept, PortKinds


(***************************************************************************)
(* SetVPNConnection.                                                        *)
(***************************************************************************)

\* The steps carried out are finitely many.
LEMMA DoneFinite ==
  ASSUME NEW steps, NEW faults, Len(steps) \in Nat, NEW op
  PROVE  IsFiniteSet(Done(steps, faults, op))
  <1>1. IsFiniteSet(1..Len(steps))
    BY FS_Interval
  <1>2. Done(steps, faults, op) \in SUBSET (1..Len(steps))
    BY DEF Done, Reached
  <1>3. QED
    BY <1>1, <1>2, FS_Subset

\* A setter puts no rule in force that the kernel refuses.
LEMMA OutcomeAccepted ==
  ASSUME NEW steps, NEW faults, Len(steps) \in Nat, Typed, Accepted, kernel' = kernel,
         rules' = Outcome(steps, faults).rules
  PROVE  IsABag(rules') /\ Accepted'
  <1>1. IsABag(rules')
    BY OutcomeCopies DEF Typed
  <1>2. ASSUME NEW r \in DOMAIN rules' PROVE ~Refused([rules |-> {r}])
    <2>1. CASE r \in DOMAIN rules
      BY <2>1 DEF Accepted
    <2>2. CASE r \notin DOMAIN rules
      <3>1. Copies(r, rules) = 0 /\ Copies(r, rules') > 0
        BY <1>1, <2>2, CopiesType DEF Copies
      <3>2. Cardinality(About(steps, Done(steps, faults, "delete"), r)) \in Nat
        BY DoneFinite, AboutFinite
      <3>3. Copies(r, rules') = Less(0, Cardinality(About(steps, Done(steps, faults, "delete"), r)))
                                + Cardinality(About(steps, Done(steps, faults, "add"), r))
        BY <3>1, OutcomeCopies DEF Typed
      <3>4. About(steps, Done(steps, faults, "add"), r) # {}
        <4>1. SUFFICES ASSUME About(steps, Done(steps, faults, "add"), r) = {} PROVE FALSE
          OBVIOUS
        <4>2. Cardinality(About(steps, Done(steps, faults, "add"), r)) = 0
          BY <4>1, FS_EmptySet
        <4>3. QED
          BY <3>1, <3>2, <3>3, <4>2 DEF Less
      <3>5. QED
        BY <3>4, RefusedRules DEF About, Done
    <2>3. QED
      BY <2>1, <2>2
  <1>3. ASSUME NEW r PROVE Refused([rules |-> {r}])' <=> Refused([rules |-> {r}])
    BY DEF Refused
  <1>4. QED
    BY <1>1, <1>2, <1>3 DEF Accepted

\* A setter leaves alone the kinds of rules that its steps do not name.
LEMMA OutcomeKept ==
  ASSUME NEW steps, NEW faults, Len(steps) \in Nat, Typed, NEW k,
         \A i \in 1..Len(steps) : \A r \in steps[i].rules : r[1] # k,
         rules' = Outcome(steps, faults).rules
  PROVE  Kept(k)
  <1> SUFFICES ASSUME NEW r, r[1] = k PROVE Copies(r, rules') = Copies(r, rules)
    BY DEF Kept
  <1>1. \A op : About(steps, Done(steps, faults, op), r) = {}
    BY DEF About, Done, Reached
  <1>2. Copies(r, rules) \in Nat
    BY CopiesType DEF Typed
  <1>3. \A op : Cardinality(About(steps, Done(steps, faults, op), r)) = 0
    BY <1>1, FS_EmptySet
  <1>4. Copies(r, rules') = Less(Copies(r, rules), 0) + 0
    BY <1>3, OutcomeCopies DEF Typed
  <1>5. QED
    BY <1>2, <1>4 DEF Less

\* The rules in force are all of the kinds the setters add.
LEMMA OutcomeKinds ==
  ASSUME NEW steps, NEW faults, Len(steps) \in Nat, Held, Setter,
         \A i \in 1..Len(steps) : \A r \in steps[i].rules : r[1] \in AllKinds,
         rules' = Outcome(steps, faults).rules
  PROVE  KindsHeld'
  <1> SUFFICES ASSUME nFaults = 0, NEW r \in DOMAIN rules' PROVE r[1] \in AllKinds
    BY DEF KindsHeld, Setter
  <1>1. IsABag(rules')
    BY OutcomeCopies DEF Held, Typed
  <1>2. CASE r \in DOMAIN rules
    BY <1>2 DEF Held, KindsHeld, Setter
  <1>3. CASE r \notin DOMAIN rules
    <2>1. r[1] \in AllKinds \/ Kept(r[1])
      BY OutcomeKept DEF Held
    <2>2. QED
      BY <1>1, <1>3, <2>1, CopiesType DEF Kept, Held, Typed
  <1>4. QED
    BY <1>2, <1>3

\* How many steps SetVPNConnection spends on what was recorded.
OldSteps == IF vpnConnection = NoConnection THEN 0 ELSE Len(Routes)
IntfSteps == IF vpnIntf = NoInterface THEN 0 ELSE 1

\* The numbers of steps are numbers.
LEMMA VPNCounts == Len(Routes) \in Nat /\ OldSteps \in Nat /\ IntfSteps \in Nat
  BY FirewallConstants DEF OldSteps, IntfSteps

\* The steps of SetVPNConnection, by their places.
LEMMA VPNStepsAre ==
  ASSUME NEW c
  PROVE  LET n == Len(Routes)
             S == VPNSteps(c)
         IN /\ n \in Nat
            /\ Len(S) = OldSteps + IntfSteps + n + 1
            /\ \A i \in 1..OldSteps : S[i] = TryDeleting(VPNRule(Routes[i], vpnConnection))
            /\ \A i \in 1..IntfSteps : S[OldSteps + i] = TryDeleting(IntfRules(vpnIntf))
            /\ \A i \in 1..n : S[OldSteps + IntfSteps + i] = Adding(VPNRule(Routes[i], c))
            /\ S[OldSteps + IntfSteps + n + 1] = Adding(IntfRules(Tunnel))
  <1> DEFINE n == Len(Routes)
             O == IF vpnConnection = NoConnection THEN <<>>
                  ELSE [i \in 1..Len(Routes) |-> TryDeleting(VPNRule(Routes[i], vpnConnection))]
             I == IF vpnIntf = NoInterface THEN <<>> ELSE <<TryDeleting(IntfRules(vpnIntf))>>
             N == [i \in 1..Len(Routes) |-> Adding(VPNRule(Routes[i], c))]
             L == <<Adding(IntfRules(Tunnel))>>
  <1>1. n \in Nat
    BY FirewallConstants
  <1> DEFINE OI == O \o I
             OIN == OI \o N
  <1>2. VPNSteps(c) = OIN \o L
    BY DEF VPNSteps
  <1> DEFINE All == {TryDeleting(VPNRule(Routes[i], vpnConnection)) : i \in 1..n}
                    \cup {Adding(VPNRule(Routes[i], c)) : i \in 1..n}
                    \cup {TryDeleting(IntfRules(vpnIntf)), Adding(IntfRules(Tunnel))}
  <1>3. /\ O \in Seq(All) /\ Len(O) = OldSteps
        /\ \A i \in 1..OldSteps : O[i] = TryDeleting(VPNRule(Routes[i], vpnConnection))
    <2>1. CASE vpnConnection = NoConnection
      BY <2>1 DEF OldSteps
    <2>2. CASE vpnConnection # NoConnection
      <3>1. \A i \in 1..n : TryDeleting(VPNRule(Routes[i], vpnConnection)) \in All
        OBVIOUS
      <3>2. QED
        BY <1>1, <2>2, <3>1 DEF OldSteps
    <2>3. QED
      BY <2>1, <2>2
  <1>4. /\ I \in Seq(All) /\ Len(I) = IntfSteps
        /\ \A i \in 1..IntfSteps : I[i] = TryDeleting(IntfRules(vpnIntf))
    <2>1. CASE vpnIntf = NoInterface
      BY <2>1 DEF IntfSteps
    <2>2. CASE vpnIntf # NoInterface
      <3>1. TryDeleting(IntfRules(vpnIntf)) \in All
        OBVIOUS
      <3>2. QED
        BY <2>2, <3>1 DEF IntfSteps
    <2>3. QED
      BY <2>1, <2>2
  <1>5. /\ N \in Seq(All) /\ Len(N) = n
        /\ \A i \in 1..n : N[i] = Adding(VPNRule(Routes[i], c))
    <2>1. \A i \in 1..n : Adding(VPNRule(Routes[i], c)) \in All
      OBVIOUS
    <2>2. QED
      BY <1>1, <2>1
  <1>6. L \in Seq(All) /\ Len(L) = 1 /\ L[1] = Adding(IntfRules(Tunnel))
    <2>1. Adding(IntfRules(Tunnel)) \in All
      OBVIOUS
    <2>2. QED
      BY <2>1
  <1>7. OldSteps \in Nat /\ IntfSteps \in Nat
    BY <1>1 DEF OldSteps, IntfSteps
  <1> HIDE DEF O, I, N, L, n, All
  <1>8. /\ OI \in Seq(All) /\ Len(OI) = OldSteps + IntfSteps
        /\ \A i \in 1..OldSteps : OI[i] = O[i]
        /\ \A i \in 1..IntfSteps : OI[OldSteps + i] = I[i]
    <2>1. /\ O \o I \in Seq(All) /\ Len(O \o I) = Len(O) + Len(I)
          /\ \A i \in 1..Len(O) : (O \o I)[i] = O[i]
          /\ \A i \in 1..Len(I) : (O \o I)[Len(O) + i] = I[i]
      BY ONLY <1>3, <1>4
    <2>2. QED
      BY <1>3, <1>4, <2>1
  <1> HIDE DEF OI
  <1>9. /\ OIN \in Seq(All) /\ Len(OIN) = OldSteps + IntfSteps + n
        /\ \A i \in 1..(OldSteps + IntfSteps) : OIN[i] = OI[i]
        /\ \A i \in 1..n : OIN[OldSteps + IntfSteps + i] = N[i]
    <2>1. /\ OI \o N \in Seq(All) /\ Len(OI \o N) = Len(OI) + Len(N)
          /\ \A i \in 1..Len(OI) : (OI \o N)[i] = OI[i]
          /\ \A i \in 1..Len(N) : (OI \o N)[Len(OI) + i] = N[i]
      BY ONLY SMTT(60), <1>5, <1>8
    <2>2. QED
      BY <1>5, <1>8, <2>1
  <1> HIDE DEF OIN
  <1>10. /\ Len(VPNSteps(c)) = OldSteps + IntfSteps + n + 1
         /\ \A i \in 1..(OldSteps + IntfSteps + n) : VPNSteps(c)[i] = OIN[i]
         /\ \A i \in 1..1 : VPNSteps(c)[OldSteps + IntfSteps + n + i] = L[i]
    <2>1. /\ Len(OIN \o L) = Len(OIN) + Len(L)
          /\ \A i \in 1..Len(OIN) : (OIN \o L)[i] = OIN[i]
          /\ \A i \in 1..Len(L) : (OIN \o L)[Len(OIN) + i] = L[i]
      <3>1. OIN \in Seq(All) /\ L \in Seq(All)
        BY <1>6, <1>9
      <3>2. QED
        BY ONLY <3>1
    <2>2. QED
      BY <1>2, <1>6, <1>9, <2>1
  <1>11. \A i \in 1..OldSteps : VPNSteps(c)[i] = O[i]
    <2>1. n \in Nat
      BY <1>1 DEF n
    <2>2. \A i \in 1..OldSteps : /\ i \in 1..(OldSteps + IntfSteps)
                                 /\ i \in 1..(OldSteps + IntfSteps + n)
      BY <1>7, <2>1
    <2>3. QED
      BY <1>8, <1>9, <1>10, <2>2
  <1>12. \A i \in 1..IntfSteps : VPNSteps(c)[OldSteps + i] = I[i]
    <2>1. n \in Nat
      BY <1>1 DEF n
    <2>2. \A i \in 1..IntfSteps : /\ OldSteps + i \in 1..(OldSteps + IntfSteps)
                                  /\ OldSteps + i \in 1..(OldSteps + IntfSteps + n)
      BY <1>7, <2>1
    <2>3. QED
      BY <1>8, <1>9, <1>10, <2>2
  <1>13. \A i \in 1..n : VPNSteps(c)[OldSteps + IntfSteps + i] = N[i]
    <2>1. n \in Nat
      BY <1>1 DEF n
    <2>2. \A i \in 1..n : OldSteps + IntfSteps + i \in 1..(OldSteps + IntfSteps + n)
      BY <1>7, <2>1
    <2>3. QED
      BY <1>9, <1>10, <2>2
  <1>14. VPNSteps(c)[OldSteps + IntfSteps + n + 1] = L[1]
    BY <1>10
  <1>15. QED
    BY <1>1, <1>3, <1>4, <1>5, <1>6, <1>10, <1>11, <1>12, <1>13, <1>14 DEF n

\* What each kind of step does.
LEMMA StepsSay ==
  ASSUME NEW rs
  PROVE  /\ Adding(rs).op = "add" /\ Adding(rs).must /\ Adding(rs).rules = rs
         /\ Deleting(rs).op = "delete" /\ Deleting(rs).must /\ Deleting(rs).rules = rs
         /\ TryDeleting(rs).op = "delete" /\ ~TryDeleting(rs).must /\ TryDeleting(rs).rules = rs
  BY DEF Adding, Deleting, TryDeleting

\* Of the steps of SetVPNConnection, a deletion is always reached, and an addition that is reached is done.
LEMMA VPNDone ==
  ASSUME NEW c, NEW faults
  PROVE  LET S == VPNSteps(c)
             B == OldSteps + IntfSteps
             n == Len(Routes)
         IN /\ Done(S, faults, "delete") = {i \in 1..B : ~(i \in faults \/ Refused(S[i]))}
            /\ Done(S, faults, "add") = {i \in (B + 1)..(B + n + 1) : i \in Reached(S, faults)}
  <1> DEFINE S == VPNSteps(c)
             B == OldSteps + IntfSteps
             n == Len(Routes)
  <1>1. n \in Nat /\ OldSteps \in Nat /\ IntfSteps \in Nat /\ Len(S) = B + n + 1
    BY VPNCounts, VPNStepsAre
  <1>2. \A i \in 1..B : S[i].op = "delete" /\ ~S[i].must
    <2>1. \A i \in 1..OldSteps : S[i].op = "delete" /\ ~S[i].must
      <3>1. \A i \in 1..OldSteps : S[i] = TryDeleting(VPNRule(Routes[i], vpnConnection))
        BY VPNStepsAre
      <3>2. QED
        BY <3>1, StepsSay
    <2>2. \A i \in 1..IntfSteps : S[OldSteps + i].op = "delete" /\ ~S[OldSteps + i].must
      <3>1. \A i \in 1..IntfSteps : S[OldSteps + i] = TryDeleting(IntfRules(vpnIntf))
        BY VPNStepsAre
      <3>2. QED
        BY <3>1, StepsSay
    <2>3. \A i \in 1..B : i \notin 1..OldSteps => i - OldSteps \in 1..IntfSteps /\ i = OldSteps + (i - OldSteps)
      BY <1>1
    <2>4. QED
      BY <2>1, <2>2, <2>3
  <1>3. \A i \in (B + 1)..(B + n + 1) : S[i].op = "add" /\ S[i].must
    <2>1. \A i \in 1..n : S[B + i].op = "add" /\ S[B + i].must
      <3>1. \A i \in 1..n : S[B + i] = Adding(VPNRule(Routes[i], c))
        BY VPNStepsAre
      <3>2. QED
        BY <3>1, StepsSay
    <2>2. S[B + n + 1].op = "add" /\ S[B + n + 1].must
      <3>1. S[B + n + 1] = Adding(IntfRules(Tunnel))
        BY VPNStepsAre
      <3>2. QED
        BY <3>1, StepsSay
    <2>3. \A i \in (B + 1)..(B + n + 1) : i # B + n + 1 => i - B \in 1..n /\ i = B + (i - B)
      BY <1>1
    <2>4. QED
      BY <2>1, <2>2, <2>3
  <1> HIDE DEF S, B, n
  <1>4. B \in Nat /\ n \in Nat /\ Len(S) = B + n + 1
    BY <1>1 DEF B, n
  <1>5. \A i \in 1..Len(S) : i \in 1..B \/ i \in (B + 1)..(B + n + 1)
    BY <1>4
  <1>6. \A i \in 1..B : i \in Reached(S, faults)
    <2>1. \A i \in 1..B : i \in 1..Len(S) /\ \A j \in 1..i : j \in 1..B
      BY <1>4
    <2>2. QED
      BY <1>2, <2>1 DEF Reached
  <1>7. \A i \in Reached(S, faults) : i \in 1..Len(S) /\ ~(S[i].must /\ (i \in faults \/ Refused(S[i])))
    <2>1. \A i \in 1..Len(S) : i \in 1..i
      BY <1>4
    <2>2. QED
      BY <2>1 DEF Reached
  <1>8. Done(S, faults, "delete") = {i \in 1..B : ~(i \in faults \/ Refused(S[i]))}
    BY <1>2, <1>3, <1>5, <1>6, <1>7 DEF Done
  <1>9. Done(S, faults, "add") = {i \in (B + 1)..(B + n + 1) : i \in Reached(S, faults)}
    BY <1>2, <1>3, <1>5, <1>7 DEF Done
  <1>10. QED
    BY <1>8, <1>9 DEF S, B, n

\* A VPN rule is added as often as there is a default route it goes through.
LEMMA VPNAdded ==
  ASSUME NEW c, NEW faults, NEW r, r[1] = "vpn"
  PROVE  LET A == About(VPNSteps(c), Done(VPNSteps(c), faults, "add"), r)
             B == OldSteps + IntfSteps
         IN /\ IsFiniteSet(VPNFor(c, r))
            /\ Cardinality(VPNFor(c, r)) \in Nat
            /\ Cardinality(A) \in Nat
            /\ Cardinality(A) <= Cardinality(VPNFor(c, r))
            /\ \A i \in A : i - B \in VPNFor(c, r) /\ i \in Reached(VPNSteps(c), faults)
                            /\ VPNSteps(c)[i] = Adding(VPNRule(Routes[i - B], c))
  <1> DEFINE S == VPNSteps(c)
             B == OldSteps + IntfSteps
             n == Len(Routes)
             A == About(S, Done(S, faults, "add"), r)
  <1>1. n \in Nat /\ B \in Nat
    BY VPNCounts
  <1>2. IsFiniteSet(VPNFor(c, r)) /\ Cardinality(VPNFor(c, r)) \in Nat
    <2>1. IsFiniteSet(1..n)
      BY <1>1, FS_Interval
    <2>2. QED
      BY <2>1, FS_Subset, FS_CardinalityType DEF VPNFor
  <1>3. r \notin S[B + n + 1].rules
    <2>1. S[B + n + 1].rules = IntfRules(Tunnel)
      BY VPNStepsAre DEF Adding
    <2>2. QED
      BY <2>1, Kinds
  <1>4. \A i \in A : /\ i - B \in VPNFor(c, r) /\ i \in Reached(S, faults)
                     /\ S[i] = Adding(VPNRule(Routes[i - B], c))
    <2> SUFFICES ASSUME NEW i \in A
                 PROVE  /\ i - B \in VPNFor(c, r) /\ i \in Reached(S, faults)
                        /\ S[i] = Adding(VPNRule(Routes[i - B], c))
      OBVIOUS
    <2>1. i \in (B + 1)..(B + n + 1) /\ i \in Reached(S, faults) /\ r \in S[i].rules
      BY VPNDone DEF About
    <2>2. i - B \in 1..n /\ i = B + (i - B)
      BY <1>1, <1>3, <2>1
    <2>3. S[B + (i - B)] = Adding(VPNRule(Routes[i - B], c))
      BY <2>2, VPNStepsAre
    <2>4. QED
      BY <2>1, <2>2, <2>3 DEF VPNFor, Adding
  <1> DEFINE f == [i \in A |-> i - B]
  <1>5. f \in Injection(A, VPNFor(c, r))
    <2>1. \A i \in A : i \in Int
      BY <1>1, VPNDone DEF About
    <2>2. \A i, j \in A : i - B = j - B => i = j
      BY <1>1, <2>1
    <2>3. f \in [A -> VPNFor(c, r)]
      BY <1>4
    <2>4. \A i, j \in A : f[i] = f[j] => i = j
      BY <2>2
    <2>5. QED
      BY <2>3, <2>4 DEF Injection, IsInjective
  <1>6. IsFiniteSet(A) /\ Cardinality(A) <= Cardinality(VPNFor(c, r))
    BY <1>2, <1>5, FS_Injection
  <1>7. QED
    BY <1>2, <1>4, <1>6, FS_CardinalityType

\* A call counts the failure it met, if it met one.
LEMMA CountedFaults ==
  ASSUME NEW I, NEW faults \in Faults(I), Counted(faults), nFaults \in Nat
  PROVE  nFaults' \in Nat /\ (nFaults' = 0 => nFaults = 0 /\ faults = {})
  <1>1. faults = {} \/ \E i : faults = {i}
    BY DEF Faults
  <1>2. faults = {} => Cardinality(faults) = 0
    BY FS_EmptySet
  <1>3. ASSUME NEW i, faults = {i} PROVE Cardinality(faults) = 1
    BY <1>3, FS_Singleton
  <1>4. QED
    BY <1>1, <1>2, <1>3 DEF Counted

\* What SetVPNConnection keeps, and the shape of the rest.
LEMMA VPNTyped ==
  ASSUME Held, NEW c \in Connections, SetVPNConnection(c)
  PROVE  Typed' /\ Accepted' /\ Setter /\ KindsHeld'
         /\ \A k : k \notin {"vpn", "intf"} => Kept(k)
  <1>1. PICK faults \in Faults(1..Len(VPNSteps(c))) :
           /\ Counted(faults)
           /\ rules' = Outcome(VPNSteps(c), faults).rules
           /\ vpnConnection' \in {c, NoConnection}
           /\ vpnIntf' \in {Tunnel, NoInterface}
    BY DEF SetVPNConnection
  <1>2. Len(VPNSteps(c)) \in Nat
    BY VPNCounts, VPNStepsAre
  <1>3. nFaults' \in Nat /\ (nFaults' = 0 => nFaults = 0)
    BY <1>1, CountedFaults DEF Held, Typed
  <1>4. Setter
    BY <1>3 DEF SetVPNConnection, Setter
  <1>5. IsABag(rules') /\ Accepted'
    BY <1>1, <1>2, <1>4, OutcomeAccepted DEF Held, Setter
  <1>6. Typed'
    BY <1>1, <1>3, <1>5 DEF Held, Typed, SetVPNConnection
  <1>7. \A i \in 1..Len(VPNSteps(c)) : \A r \in VPNSteps(c)[i].rules : r[1] \in {"vpn", "intf"}
    <2> SUFFICES ASSUME NEW i \in 1..Len(VPNSteps(c)), NEW r \in VPNSteps(c)[i].rules
                 PROVE  r[1] \in {"vpn", "intf"}
      OBVIOUS
    <2> DEFINE B == OldSteps + IntfSteps
               n == Len(Routes)
    <2>1. CASE i \in 1..OldSteps
      BY <2>1, VPNStepsAre, StepsSay, Kinds
    <2>2. CASE i \notin 1..OldSteps /\ i \in 1..B
      <3>1. i - OldSteps \in 1..IntfSteps /\ i = OldSteps + (i - OldSteps)
        BY <2>2, VPNCounts
      <3>2. VPNSteps(c)[OldSteps + (i - OldSteps)] = TryDeleting(IntfRules(vpnIntf))
        BY <3>1, VPNStepsAre
      <3>3. QED
        BY <3>1, <3>2, StepsSay, Kinds
    <2>3. CASE i \notin 1..B /\ i # B + n + 1
      <3>1. i - B \in 1..n /\ i = B + (i - B)
        BY <2>3, VPNCounts, VPNStepsAre
      <3>2. VPNSteps(c)[B + (i - B)] = Adding(VPNRule(Routes[i - B], c))
        BY <3>1, VPNStepsAre
      <3>3. QED
        BY <3>1, <3>2, StepsSay, Kinds
    <2>4. CASE i = B + n + 1
      <3>1. VPNSteps(c)[B + n + 1] = Adding(IntfRules(Tunnel))
        BY VPNStepsAre
      <3>2. QED
        BY <2>4, <3>1, StepsSay, Kinds
    <2>5. QED
      BY <2>1, <2>2, <2>3, <2>4
  <1>8. \A k : k \notin {"vpn", "intf"} => Kept(k)
    BY <1>1, <1>2, <1>7, OutcomeKept DEF Held
  <1>9. KindsHeld'
    BY <1>1, <1>2, <1>4, <1>7, OutcomeKinds DEF AllKinds
  <1>10. QED
    BY <1>4, <1>5, <1>6, <1>8, <1>9

\* A change of server puts in the rules of the new one, and takes out those of the old one.
LEMMA VPNMoves ==
  ASSUME Held, NEW c \in Connections, SetVPNConnection(c)
  PROVE  VPNHeld'
  <1> DEFINE S == VPNSteps(c)
             B == OldSteps + IntfSteps
             n == Len(Routes)
  <1>1. PICK faults \in Faults(1..Len(S)) :
           /\ Counted(faults)
           /\ rules' = Outcome(S, faults).rules
           /\ vpnConnection' = IF 1..(Len(S) - 1) \subseteq Outcome(S, faults).reached
                               THEN c ELSE NoConnection
    BY DEF SetVPNConnection
  <1> DEFINE del(r) == Cardinality(About(S, Done(S, faults, "delete"), r))
             add(r) == Cardinality(About(S, Done(S, faults, "add"), r))
  <1>2. /\ n \in Nat /\ OldSteps \in Nat /\ IntfSteps \in Nat /\ B \in Nat
        /\ Len(S) \in Nat /\ Len(S) = B + n + 1
    BY VPNCounts, VPNStepsAre
  <1>3. /\ \A r : Copies(r, rules') = Less(Copies(r, rules), del(r)) + add(r)
        /\ Outcome(S, faults).reached = Reached(S, faults)
    BY <1>1, <1>2, OutcomeCopies DEF Held, Typed
  <1>4. \A r : del(r) \in Nat /\ add(r) \in Nat /\ Copies(r, rules) \in Nat
    BY <1>2, DoneFinite, AboutFinite, CopiesType DEF Held, Typed
  <1>5. Typed' /\ Setter
    BY VPNTyped
  <1>6. ASSUME vpnConnection' # NoConnection, NEW i \in 1..n, NEW r \in VPNRule(Routes[i], c)
        PROVE  r \in DOMAIN rules'
    <2>1. B + i \in 1..(Len(S) - 1) /\ B + i \in (B + 1)..(B + n + 1)
      BY <1>2
    <2>2. B + i \in Done(S, faults, "add")
      BY <1>1, <1>3, <1>6, <2>1, VPNDone
    <2>3. S[B + i].rules = VPNRule(Routes[i], c)
      BY VPNStepsAre, StepsSay
    <2>4. About(S, Done(S, faults, "add"), r) # {}
      BY <1>6, <2>2, <2>3 DEF About
    <2>5. add(r) # 0
      BY <1>2, <2>4, DoneFinite, AboutFinite
    <2>6. Copies(r, rules') > 0
      BY <1>3, <1>4, <2>5 DEF Less
    <2>7. QED
      BY <1>5, <2>6, CopiesType DEF Typed
  <1>7. ASSUME nFaults' = 0, NEW r \in DOMAIN rules', r[1] = "vpn"
        PROVE  vpnConnection' = c /\ rules'[r] <= Cardinality(VPNFor(c, r))
    <2>1. nFaults = 0 /\ faults = {}
      BY <1>1, <1>7, CountedFaults DEF Held, Typed
    <2>2. Copies(r, rules) <= del(r)
      <3>1. CASE r \notin DOMAIN rules
        BY <1>4, <3>1 DEF Copies
      <3>2. CASE r \in DOMAIN rules
        <4>1. vpnConnection # NoConnection /\ rules[r] <= Cardinality(VPNFor(vpnConnection, r))
          BY <1>5, <1>7, <2>1, <3>2 DEF Held, VPNHeld, Setter, OfKind
        <4>2. OldSteps = n
          BY <4>1 DEF OldSteps
        <4>3. ASSUME NEW i \in VPNFor(vpnConnection, r)
              PROVE  i \in About(S, Done(S, faults, "delete"), r)
          <5>1. i \in 1..OldSteps /\ r \in VPNRule(Routes[i], vpnConnection)
            BY <4>2, <4>3 DEF VPNFor
          <5>2. S[i].rules = VPNRule(Routes[i], vpnConnection)
            BY <5>1, VPNStepsAre, StepsSay
          <5>3. ~Refused(S[i])
            <6>1. \A q \in S[i].rules : q = r
              BY <5>1, <5>2 DEF VPNRule
            <6>2. QED
              BY <3>2, <6>1, RefusedRules DEF Held, Accepted
          <5>4. i \in 1..B
            BY <1>2, <5>1
          <5>5. QED
            BY <2>1, <5>1, <5>2, <5>3, <5>4, VPNDone DEF About
        <4>4. Cardinality(VPNFor(vpnConnection, r)) <= del(r)
          <5>1. IsFiniteSet(About(S, Done(S, faults, "delete"), r))
            BY <1>2, DoneFinite, AboutFinite
          <5>2. QED
            BY <4>3, <5>1, FS_Subset
        <4>5. Cardinality(VPNFor(vpnConnection, r)) \in Nat /\ rules[r] \in Nat
          BY <1>7, <3>2, VPNAdded DEF Held, Typed, IsABag
        <4>6. QED
          BY <1>4, <3>2, <4>1, <4>4, <4>5 DEF Copies
      <3>3. QED
        BY <3>1, <3>2
    <2>3. Copies(r, rules') = add(r)
      BY <1>3, <1>4, <2>2 DEF Less
    <2>4. add(r) > 0
      BY <1>5, <1>7, <2>3, CopiesType DEF Typed
    <2>5. About(S, Done(S, faults, "add"), r) # {}
      <3>1. About(S, Done(S, faults, "add"), r) = {} => add(r) = 0
        BY FS_EmptySet
      <3>2. QED
        BY <2>4, <3>1
    <2>6. PICK i \in About(S, Done(S, faults, "add"), r) :
              /\ i - B \in VPNFor(c, r) /\ i \in Reached(S, faults)
              /\ S[i] = Adding(VPNRule(Routes[i - B], c))
      BY <1>7, <2>5, VPNAdded
    <2>7. ASSUME NEW j \in 1..Len(S) PROVE j \in Reached(S, faults)
      <3>1. ~Refused(S[i])
        BY <2>6 DEF Done, About
      <3>2. kernel.ip6tables \/ Family[c] # 6
        <4>1. <<"vpn", Family[c], Routes[i - B].intf, c>> \in S[i].rules
          BY <2>6, StepsSay DEF VPNRule
        <4>2. <<"vpn", Family[c], Routes[i - B].intf, c>>[2] = Family[c]
          OBVIOUS
        <4>3. QED
          BY <3>1, <4>1, <4>2 DEF Refused
      <3>3. ASSUME NEW l \in 1..Len(S) PROVE ~(S[l].must /\ Refused(S[l]))
        <4>1. CASE l \in 1..B
          <5>1. CASE l \in 1..OldSteps
            BY <5>1, VPNStepsAre, StepsSay
          <5>2. CASE l \notin 1..OldSteps
            <6>1. l - OldSteps \in 1..IntfSteps /\ l = OldSteps + (l - OldSteps)
              BY <1>2, <4>1, <5>2
            <6>2. S[OldSteps + (l - OldSteps)] = TryDeleting(IntfRules(vpnIntf))
              BY <6>1, VPNStepsAre
            <6>3. QED
              BY <6>1, <6>2, StepsSay
          <5>3. QED
            BY <5>1, <5>2
        <4>2. CASE l \notin 1..B /\ l # B + n + 1
          <5>1. l - B \in 1..n /\ l = B + (l - B)
            BY <1>2, <4>2
          <5>2. S[B + (l - B)] = Adding(VPNRule(Routes[l - B], c))
            BY <5>1, VPNStepsAre
          <5>3. \A q \in S[l].rules : q[1] = "vpn" /\ q[2] = Family[c]
            BY <5>1, <5>2, StepsSay, Kinds
          <5>4. QED
            BY <3>2, <5>3 DEF Refused
        <4>3. CASE l = B + n + 1
          <5>1. S[l] = Adding(IntfRules(Tunnel))
            BY <4>3, VPNStepsAre
          <5>2. \A q \in S[l].rules : q[1] = "intf" /\ q[2] \in Families
            BY <5>1, StepsSay, Kinds
          <5>3. QED
            BY <5>2 DEF Refused, Families
        <4>4. QED
          BY <4>1, <4>2, <4>3
      <3>4. \A l \in 1..j : l \in 1..Len(S)
        BY <1>2
      <3>5. QED
        BY <2>1, <3>3, <3>4 DEF Reached
    <2>8. vpnConnection' = c
      <3>1. \A j \in 1..(Len(S) - 1) : j \in 1..Len(S)
        BY <1>2
      <3>2. QED
        BY <1>1, <1>3, <2>7, <3>1
    <2>9. rules'[r] <= Cardinality(VPNFor(c, r))
      BY <1>7, <2>3, VPNAdded DEF Copies
    <2>10. QED
      BY <2>8, <2>9
  <1>8. c # NoConnection
    BY FirewallConstants
  <1>9. vpnConnection' # NoConnection => vpnConnection' = c
    BY <1>1
  <1>10. QED
    BY <1>5, <1>6, <1>7, <1>8, <1>9 DEF VPNHeld, OfKind

\* The rules of the VPN interface go before those of the new server and come back after them.
LEMMA IntfMoves ==
  ASSUME Held, NEW c \in Connections, SetVPNConnection(c)
  PROVE  IntfHeld'
  <1> DEFINE S == VPNSteps(c)
             B == OldSteps + IntfSteps
             n == Len(Routes)
  <1>1. PICK faults \in Faults(1..Len(S)) :
           /\ Counted(faults)
           /\ rules' = Outcome(S, faults).rules
           /\ vpnIntf' = IF Outcome(S, faults).ok THEN Tunnel ELSE NoInterface
    BY DEF SetVPNConnection
  <1> DEFINE del(r) == Cardinality(About(S, Done(S, faults, "delete"), r))
             add(r) == Cardinality(About(S, Done(S, faults, "add"), r))
  <1>2. /\ n \in Nat /\ OldSteps \in Nat /\ IntfSteps \in Nat /\ B \in Nat
        /\ Len(S) \in Nat /\ Len(S) = B + n + 1
    BY VPNCounts, VPNStepsAre
  <1>3. /\ \A r : Copies(r, rules') = Less(Copies(r, rules), del(r)) + add(r)
        /\ Outcome(S, faults).ok <=> Reached(S, faults) = 1..Len(S)
    BY <1>1, <1>2, OutcomeCopies DEF Held, Typed
  <1>4. \A r : del(r) \in Nat /\ add(r) \in Nat /\ Copies(r, rules) \in Nat
    BY <1>2, DoneFinite, AboutFinite, CopiesType DEF Held, Typed
  <1>5. Typed' /\ Setter
    BY VPNTyped
  <1>6. S[B + n + 1].rules = IntfRules(Tunnel)
    BY VPNStepsAre, StepsSay
  <1>7. \A i : IntfRules(i)' = IntfRules(i)
    BY <1>5 DEF Setter, IntfRules, Families
  <1>8. ASSUME vpnIntf' # NoInterface, NEW r \in IntfRules(Tunnel)
        PROVE  r \in DOMAIN rules'
    <2>1. B + n + 1 \in 1..Len(S) /\ B + n + 1 \in (B + 1)..(B + n + 1)
      BY <1>2
    <2>2. B + n + 1 \in Done(S, faults, "add")
      BY <1>1, <1>3, <1>8, <2>1, VPNDone
    <2>3. About(S, Done(S, faults, "add"), r) # {}
      BY <1>6, <1>8, <2>2 DEF About
    <2>4. add(r) # 0
      BY <1>2, <2>3, DoneFinite, AboutFinite
    <2>5. Copies(r, rules') > 0
      BY <1>3, <1>4, <2>4 DEF Less
    <2>6. QED
      BY <1>5, <2>5, CopiesType DEF Typed
  <1>9. ASSUME nFaults' = 0, NEW r \in DOMAIN rules', r[1] = "intf"
        PROVE  vpnIntf' = Tunnel /\ r \in IntfRules(Tunnel) /\ rules'[r] <= 1
    <2>1. nFaults = 0 /\ faults = {}
      BY <1>1, <1>9, CountedFaults DEF Held, Typed
    <2>2. Copies(r, rules) <= del(r)
      <3>1. CASE r \notin DOMAIN rules
        BY <1>4, <3>1 DEF Copies
      <3>2. CASE r \in DOMAIN rules
        <4>1. vpnIntf # NoInterface /\ r \in IntfRules(vpnIntf) /\ rules[r] <= 1
          BY <1>5, <1>9, <2>1, <3>2 DEF Held, IntfHeld, Setter, OfKind
        <4>2. 1 \in 1..IntfSteps /\ OldSteps + 1 \in 1..B
          BY <1>2, <4>1 DEF IntfSteps
        <4>3. S[OldSteps + 1].rules = IntfRules(vpnIntf)
          BY <4>2, VPNStepsAre, StepsSay
        <4>4. ~Refused(S[OldSteps + 1])
          <5>1. \A q \in S[OldSteps + 1].rules : q[1] = "intf" /\ q[2] \in Families
            BY <4>3, Kinds
          <5>2. QED
            BY <5>1 DEF Refused, Families
        <4>5. OldSteps + 1 \in About(S, Done(S, faults, "delete"), r)
          BY <2>1, <4>1, <4>2, <4>3, <4>4, VPNDone DEF About
        <4>6. del(r) # 0
          BY <1>2, <4>5, DoneFinite, AboutFinite
        <4>7. rules[r] \in Nat
          BY <3>2 DEF Held, Typed, IsABag
        <4>8. QED
          BY <1>4, <3>2, <4>1, <4>6, <4>7 DEF Copies
      <3>3. QED
        BY <3>1, <3>2
    <2>3. Copies(r, rules') = add(r)
      BY <1>3, <1>4, <2>2 DEF Less
    <2>4. About(S, Done(S, faults, "add"), r) \subseteq {B + n + 1}
      <3> SUFFICES ASSUME NEW i \in About(S, Done(S, faults, "add"), r) PROVE i = B + n + 1
        OBVIOUS
      <3>1. i \in (B + 1)..(B + n + 1)
        BY VPNDone DEF About
      <3>3. r \in S[i].rules
        BY DEF About
      <3>2. CASE i # B + n + 1
        <4>1. i - B \in 1..n /\ i = B + (i - B)
          <5>1. B \in Nat /\ n \in Nat
            BY <1>2
          <5> HIDE DEF B, n
          <5>2. QED
            BY <3>1, <3>2, <5>1
        <4>2. S[B + (i - B)] = Adding(VPNRule(Routes[i - B], c))
          BY <4>1, VPNStepsAre
        <4>3. QED
          BY <1>9, <3>3, <4>1, <4>2, StepsSay, Kinds
      <3>4. QED
        BY <3>2
    <2>5. add(r) > 0
      BY <1>5, <1>9, <2>3, CopiesType DEF Typed
    <2>6. About(S, Done(S, faults, "add"), r) = {B + n + 1}
      <3>1. About(S, Done(S, faults, "add"), r) = {} => add(r) = 0
        BY FS_EmptySet
      <3>2. QED
        BY <2>4, <2>5, <3>1
    <2>7. add(r) = 1
      BY <2>6, FS_Singleton
    <2>8. B + n + 1 \in Reached(S, faults) /\ r \in S[B + n + 1].rules
      BY <2>6 DEF About, Done
    <2>9. Reached(S, faults) = 1..Len(S)
      <3>1. \A j \in 1..Len(S) : \A l \in 1..j : l \in 1..(B + n + 1)
        BY <1>2
      <3>2. QED
        BY <2>8, <3>1 DEF Reached
    <2>10. QED
      BY <1>1, <1>3, <1>6, <1>9, <2>3, <2>7, <2>8, <2>9 DEF Copies
  <1>10. vpnIntf' # NoInterface => vpnIntf' = Tunnel
    BY <1>1
  <1>11. QED
    BY <1>5, <1>7, <1>8, <1>9, <1>10, FirewallConstants DEF IntfHeld, OfKind, Setter

\* SetVPNConnection, and the two ways it returns early.
LEMMA VPNHolds ==
  ASSUME Held, NEW c \in Connections, SetVPNConnection(c)
  PROVE  Held'
  <1>1. Typed' /\ Accepted' /\ Setter /\ KindsHeld' /\ \A k : k \notin {"vpn", "intf"} => Kept(k)
    BY VPNTyped
  <1>2. \A k \in BaseKinds \cup PortKinds \cup {"lent", "subnet"} : Kept(k)
    BY <1>1 DEF BaseKinds, PortKinds
  <1>3. UNCHANGED <<lent, outboundSubnets, allowedInputPorts, portRedirections, redirected>>
    BY DEF SetVPNConnection
  <1>4. BaseHeld' /\ LentHeld' /\ SubnetsHeld'
    BY <1>1, <1>2, <1>3, BaseKept, LentKept, SubnetsKept
  <1>5. PortsHeld'
    BY <1>1, <1>2, <1>3, PortsKept DEF PortKinds
  <1>6. QED
    BY <1>1, <1>4, <1>5, VPNMoves, IntfMoves DEF Held

(***************************************************************************)
(* SetOutboundSubnets.                                                      *)
(***************************************************************************)

\* The commands about one rule are about one subnet: one for each route at most.
LEMMA SubnetsAbout ==
  ASSUME NEW I, I \subseteq Serving(Subnets), NEW r
  PROVE  /\ IsFiniteSet(About(SubnetSteps, I, r))
         /\ Cardinality(About(SubnetSteps, I, r)) \in Nat
         /\ \A x \in I : /\ SubnetSteps[x] = Adding(SubnetRule(Routes[x[1]], x[2]))
                         /\ r \in SubnetSteps[x].rules => r[1] = "subnet" /\ x[2] = r[4]
  <1>1. \A x \in I : SubnetSteps[x] = Adding(SubnetRule(Routes[x[1]], x[2]))
    BY DEF SubnetSteps
  <1>2. \A x \in I : r \in SubnetSteps[x].rules => r[1] = "subnet" /\ x[2] = r[4]
    BY <1>1, StepsSay, Kinds
  <1>3. About(SubnetSteps, I, r) \in SUBSET ((1..Len(Routes)) \X {r[4]})
    <2>1. ASSUME NEW x \in About(SubnetSteps, I, r) PROVE x \in (1..Len(Routes)) \X {r[4]}
      <3>1. x \in (1..Len(Routes)) \X Subnets /\ x[2] = r[4]
        BY <1>2 DEF About, Serving
      <3>2. QED
        BY <3>1
    <2>2. QED
      BY <2>1
  <1>4. IsFiniteSet((1..Len(Routes)) \X {r[4]})
    <2>1. IsFiniteSet(1..Len(Routes))
      BY VPNCounts, FS_Interval
    <2>2. IsFiniteSet({r[4]})
      BY FS_Singleton
    <2>3. QED
      BY <2>1, <2>2, FS_Product
  <1>5. QED
    BY <1>1, <1>2, <1>3, <1>4, FS_Subset, FS_CardinalityType

\* The copies of a rule that commands for subnets leave, as TallyCopies has it.
LEMMA SubnetsTally ==
  ASSUME NEW I, I \subseteq Serving(Subnets)
  PROVE  /\ IsABag(Tally(SubnetSteps, I))
         /\ \A r : Copies(r, Tally(SubnetSteps, I)) = Cardinality(About(SubnetSteps, I, r))
  <1>1. \A r : IsFiniteSet(About(SubnetSteps, I, r)) /\ Cardinality(About(SubnetSteps, I, r)) \in Nat
    BY SubnetsAbout
  <1>2. QED
    BY <1>1, TallyCopies

\* Each command for a subnet has the rule of SubnetsFor.
LEMMA SubnetsForAbout ==
  ASSUME NEW S \in SUBSET Subnets, NEW r
  PROVE  /\ SubnetsFor(S, r) = About(SubnetSteps, Serving(S), r)
         /\ Serving(S) \subseteq Serving(Subnets)
         /\ IsFiniteSet(SubnetsFor(S, r)) /\ Cardinality(SubnetsFor(S, r)) \in Nat
  <1>1. Serving(S) \subseteq Serving(Subnets)
    BY DEF Serving
  <1>2. \A x \in Serving(S) : SubnetSteps[x].rules = SubnetRule(Routes[x[1]], x[2])
    BY <1>1, SubnetsAbout, StepsSay
  <1>3. SubnetsFor(S, r) = About(SubnetSteps, Serving(S), r)
    BY <1>2 DEF SubnetsFor, About
  <1>4. QED
    BY <1>1, <1>3, SubnetsAbout

\* A change of subnets keeps the account of every rule, however far it gets.
LEMMA SubnetsHold ==
  ASSUME Held, NEW S \in SUBSET Subnets, SetOutboundSubnets(S)
  PROVE  Held'
  <1> DEFINE old == Serving(outboundSubnets \ S)
             new == Serving(S \ outboundSubnets)
  <1>1. PICK faults \in Faults(old \cup new), A \in SUBSET (S \ outboundSubnets), added \in SUBSET new :
            /\ AddsUpTo(A, added, new, faults \cup {x \in old \cup new : Refused(SubnetSteps[x])})
            /\ added = new => A = S \ outboundSubnets
            /\ Counted(faults)
            /\ rules' = (rules (-) Tally(SubnetSteps, old \ (faults \cup {x \in old \cup new : Refused(SubnetSteps[x])})))
                            (+) Tally(SubnetSteps, added)
            /\ outboundSubnets' = (outboundSubnets \ Served(outboundSubnets \ S)) \cup Served(A)
    BY DEF SetOutboundSubnets
  <1> DEFINE failing == faults \cup {x \in old \cup new : Refused(SubnetSteps[x])}
             gone == old \ failing
             del(r) == Cardinality(About(SubnetSteps, gone, r))
             add(r) == Cardinality(About(SubnetSteps, added, r))
  <1>2. nFaults' \in Nat /\ (nFaults' = 0 => nFaults = 0 /\ faults = {})
    BY <1>1, CountedFaults DEF Held, Typed
  <1>3. Setter /\ UNCHANGED <<lent, vpnConnection, vpnIntf, allowedInputPorts, portRedirections, redirected>>
    BY <1>2 DEF SetOutboundSubnets, Setter
  <1>4. outboundSubnets \subseteq Subnets /\ IsABag(rules)
    BY DEF Held, Typed
  <1>5. /\ gone \subseteq Serving(Subnets) /\ added \subseteq Serving(Subnets)
        /\ old \subseteq Serving(Subnets) /\ new \subseteq Serving(Subnets)
    BY <1>4 DEF Serving
  <1>6. /\ IsABag(rules')
        /\ \A r : Copies(r, rules') = Less(Copies(r, rules), del(r)) + add(r)
    <2>1. IsABag(Tally(SubnetSteps, gone)) /\ IsABag(Tally(SubnetSteps, added))
      BY <1>5, SubnetsTally
    <2>2. IsABag(rules (-) Tally(SubnetSteps, gone))
      BY <1>4, <2>1, MinusCopies
    <2>3. IsABag(rules')
      BY <1>1, <2>1, <2>2, PlusCopies
    <2>4. ASSUME NEW r PROVE Copies(r, rules') = Less(Copies(r, rules), del(r)) + add(r)
      <3>1. Copies(r, rules') = Copies(r, rules (-) Tally(SubnetSteps, gone)) + Copies(r, Tally(SubnetSteps, added))
        BY <1>1, <2>1, <2>2, PlusCopies
      <3>2. Copies(r, rules (-) Tally(SubnetSteps, gone)) = Less(Copies(r, rules), Copies(r, Tally(SubnetSteps, gone)))
        BY <1>4, <2>1, MinusCopies
      <3>3. Copies(r, Tally(SubnetSteps, gone)) = del(r) /\ Copies(r, Tally(SubnetSteps, added)) = add(r)
        BY <1>5, SubnetsTally
      <3>4. QED
        BY <3>1, <3>2, <3>3
    <2>5. QED
      BY <2>3, <2>4
  <1>7. \A r : del(r) \in Nat /\ add(r) \in Nat /\ Copies(r, rules) \in Nat
    BY <1>4, <1>5, SubnetsAbout, CopiesType
  <1>8. ASSUME NEW r
        PROVE  /\ About(SubnetSteps, gone, r) = {} => del(r) = 0
               /\ About(SubnetSteps, added, r) = {} <=> add(r) = 0
    <2>1. IsFiniteSet(About(SubnetSteps, added, r))
      BY <1>5, SubnetsAbout
    <2>2. About(SubnetSteps, added, r) = {} <=> Cardinality(About(SubnetSteps, added, r)) = 0
      BY <2>1, FS_EmptySet
    <2>3. About(SubnetSteps, gone, r) = {} => Cardinality(About(SubnetSteps, gone, r)) = 0
      BY FS_EmptySet
    <2>4. QED
      BY <2>2, <2>3
  <1> HIDE DEF del, add
  <1>9. ASSUME NEW k, k # "subnet" PROVE Kept(k)
    <2> SUFFICES ASSUME NEW r, r[1] = k PROVE Copies(r, rules') = Copies(r, rules)
      BY DEF Kept
    <2>1. About(SubnetSteps, gone, r) = {} /\ About(SubnetSteps, added, r) = {}
      BY <1>5, <1>9, SubnetsAbout DEF About
    <2>2. del(r) = 0 /\ add(r) = 0
      BY <1>8, <2>1
    <2>3. Copies(r, rules') = Less(Copies(r, rules), 0) + 0
      BY <1>6, <2>2
    <2>4. QED
      BY <1>7, <2>3 DEF Less
  <1>10. \A x \in added : ~Refused(SubnetSteps[x])
    BY <1>1 DEF AddsUpTo
  <1>11. Served(A) \subseteq A /\ Typed'
    <2>1. Served(A) \subseteq A
      BY DEF Served, Serving
    <2>2. QED
      BY <1>1, <1>2, <1>3, <1>6, <2>1 DEF Held, Typed, Setter
  <1>12. Accepted'
    <2>1. ASSUME NEW r \in DOMAIN rules' PROVE ~Refused([rules |-> {r}])
      <3>1. CASE r \in DOMAIN rules
        BY <3>1 DEF Held, Accepted
      <3>2. CASE r \notin DOMAIN rules
        <4>1. Copies(r, rules) = 0 /\ Copies(r, rules') > 0
          BY <1>6, <3>2, CopiesType DEF Copies
        <4>2. add(r) > 0
          BY <1>6, <1>7, <4>1 DEF Less
        <4>3. About(SubnetSteps, added, r) # {}
          BY <1>8, <4>2
        <4>4. QED
          BY <1>10, <4>3, RefusedRules DEF About
      <3>3. QED
        BY <3>1, <3>2
    <2>2. ASSUME NEW r PROVE Refused([rules |-> {r}])' <=> Refused([rules |-> {r}])
      BY <1>3 DEF Refused, Setter
    <2>3. QED
      BY <2>1, <2>2 DEF Accepted
  <1>13. KindsHeld'
    <2> SUFFICES ASSUME nFaults = 0, NEW r \in DOMAIN rules' PROVE r[1] \in AllKinds
      BY <1>2, <1>3 DEF KindsHeld, Setter
    <2>1. CASE r[1] = "subnet"
      BY <2>1 DEF AllKinds
    <2>2. CASE r[1] # "subnet"
      <3>1. r \in DOMAIN rules
        BY <1>4, <1>6, <1>9, <2>2, CopiesType DEF Kept
      <3>2. QED
        BY <1>3, <3>1 DEF Held, KindsHeld, Setter
    <2>3. QED
      BY <2>1, <2>2
  <1>14. ASSUME NEW x \in Serving(outboundSubnets'), NEW r \in SubnetRule(Routes[x[1]], x[2])
         PROVE  r \in DOMAIN rules'
    <2>1. x \in (1..Len(Routes)) \X outboundSubnets' /\ Routes[x[1]].family = Family[x[2]]
      BY <1>14 DEF Serving
    <2>2. r[1] = "subnet" /\ r[4] = x[2]
      BY Kinds
    <2>3. CASE x[2] \in Served(A)
      <3>1. x \in new /\ x[2] \in A
        BY <1>11, <2>1, <2>3 DEF Serving
      <3>2. x \in added
        BY <1>1, <3>1 DEF AddsUpTo
      <3>3. SubnetSteps[x].rules = SubnetRule(Routes[x[1]], x[2])
        <4>1. SubnetSteps[x] = Adding(SubnetRule(Routes[x[1]], x[2]))
          BY <1>5, <3>2 DEF SubnetSteps
        <4>2. QED
          BY <4>1, StepsSay
      <3>4. x \in About(SubnetSteps, added, r)
        BY <3>2, <3>3 DEF About
      <3>5. Copies(r, rules') > 0
        BY <1>6, <1>7, <1>8, <3>4 DEF Less
      <3>6. QED
        BY <1>6, <3>5, CopiesType
    <2>4. CASE x[2] \notin Served(A)
      <3>1. x[2] \in outboundSubnets /\ x[2] \notin Served(outboundSubnets \ S)
        BY <1>1, <2>1, <2>4
      <3>2. x[2] \in S
        <4>1. x[2] \notin S => x \in Serving(outboundSubnets \ S)
          BY <2>1, <3>1 DEF Serving
        <4>2. QED
          BY <3>1, <4>1 DEF Served
      <3>3. x \in Serving(outboundSubnets)
        BY <2>1, <3>1 DEF Serving
      <3>4. r \in DOMAIN rules
        BY <1>3, <3>3 DEF Held, SubnetsHeld, Setter
      <3>5. About(SubnetSteps, gone, r) = {}
        <4> SUFFICES ASSUME NEW y \in About(SubnetSteps, gone, r) PROVE FALSE
          OBVIOUS
        <4>1. y \in old /\ y[2] = r[4]
          BY ZenonT(60), <1>5, SubnetsAbout DEF About
        <4>2. y[2] \in outboundSubnets \ S
          BY <4>1 DEF Serving
        <4>3. QED
          BY <2>2, <3>2, <4>1, <4>2
      <3>6. Copies(r, rules') > 0
        <4>1. del(r) = 0 /\ Copies(r, rules) > 0
          BY <1>4, <1>8, <3>4, <3>5, CopiesType
        <4>2. Copies(r, rules') = Less(Copies(r, rules), 0) + add(r)
          BY <1>6, <4>1
        <4>3. QED
          BY <1>7, <4>1, <4>2 DEF Less
      <3>7. QED
        BY <1>6, <3>6, CopiesType
    <2>5. QED
      BY <2>3, <2>4
  <1>15. ASSUME nFaults' = 0, NEW r \in DOMAIN rules', r[1] = "subnet"
         PROVE  rules'[r] <= Cardinality(SubnetsFor(outboundSubnets', r))
    <2>1. nFaults = 0 /\ faults = {}
      BY <1>2, <1>15
    <2>2. outboundSubnets' \in SUBSET Subnets
      BY <1>11 DEF Typed
    <2>3. \A T \in SUBSET Subnets : SubnetsFor(T, r) = {x \in Serving(Subnets) : x[2] \in T /\ r \in SubnetSteps[x].rules}
      BY SubnetsForAbout DEF About, Serving
    <2>4. CASE r[4] \in outboundSubnets /\ r[4] \in S
      <3>1. About(SubnetSteps, added, r) = {}
        <4> SUFFICES ASSUME NEW y \in About(SubnetSteps, added, r) PROVE FALSE
          OBVIOUS
        <4>1. y \in new /\ y[2] = r[4]
          BY <1>5, SubnetsAbout DEF About
        <4>2. QED
          BY <2>4, <4>1 DEF Serving
      <3>2. r \in DOMAIN rules /\ rules'[r] <= rules[r]
        BY <1>4, <1>6, <1>7, <1>8, <1>15, <3>1, CopiesType DEF Copies, Less
      <3>3. rules[r] <= Cardinality(SubnetsFor(outboundSubnets, r))
        BY <1>3, <1>15, <2>1, <3>2 DEF Held, SubnetsHeld, Setter, OfKind
      <3>4. r[4] \in outboundSubnets'
        BY <1>1, <2>4 DEF Served, Serving
      <3>5. SubnetsFor(outboundSubnets', r) = SubnetsFor(outboundSubnets, r)
        <4>1. \A x \in Serving(Subnets) : r \in SubnetSteps[x].rules => x[2] = r[4]
          BY SubnetsAbout
        <4>2. QED
          BY <1>4, <2>2, <2>3, <2>4, <3>4, <4>1
      <3>6. Cardinality(SubnetsFor(outboundSubnets, r)) \in Nat /\ rules[r] \in Nat /\ rules'[r] \in Nat
        BY <1>4, <1>6, <1>15, <3>2, SubnetsForAbout DEF IsABag
      <3>7. QED
        BY <3>2, <3>3, <3>5, <3>6
    <2>5. CASE ~(r[4] \in outboundSubnets /\ r[4] \in S)
      <3>1. Copies(r, rules) <= del(r)
        <4>1. CASE r \notin DOMAIN rules
          BY <1>7, <4>1 DEF Copies
        <4>2. CASE r \in DOMAIN rules
          <5>1. rules[r] <= Cardinality(SubnetsFor(outboundSubnets, r))
            BY <1>3, <1>15, <2>1, <4>2 DEF Held, SubnetsHeld, Setter, OfKind
          <5>2. SubnetsFor(outboundSubnets, r) \subseteq About(SubnetSteps, gone, r)
            <6> SUFFICES ASSUME NEW x \in SubnetsFor(outboundSubnets, r) PROVE x \in About(SubnetSteps, gone, r)
              OBVIOUS
            <6>1. x \in Serving(Subnets) /\ x[2] \in outboundSubnets /\ r \in SubnetSteps[x].rules
              BY <1>4, <2>3
            <6>2. x[2] = r[4]
              BY <6>1, SubnetsAbout
            <6>3. x \in old
              BY <2>5, <6>1, <6>2 DEF Serving
            <6>4. ~Refused(SubnetSteps[x])
              <7>1. SubnetSteps[x].rules = SubnetRule(Routes[x[1]], x[2])
                BY <6>1, SubnetsAbout, StepsSay
              <7>2. \A q \in SubnetSteps[x].rules : q = r
                BY <6>1, <7>1 DEF SubnetRule
              <7>3. QED
                BY <4>2, <7>2, RefusedRules DEF Held, Accepted
            <6>5. QED
              BY <2>1, <6>1, <6>3, <6>4 DEF About
          <5>3. Cardinality(SubnetsFor(outboundSubnets, r)) <= del(r)
            BY <1>5, <5>2, SubnetsAbout, FS_Subset DEF del
          <5>4. Cardinality(SubnetsFor(outboundSubnets, r)) \in Nat /\ rules[r] \in Nat
            BY <1>4, <4>2, SubnetsForAbout DEF IsABag
          <5>5. QED
            BY <1>7, <4>2, <5>1, <5>3, <5>4 DEF Copies
        <4>3. QED
          BY <4>1, <4>2
      <3>2. rules'[r] = add(r)
        BY <1>6, <1>7, <1>15, <3>1 DEF Copies, Less
      <3>3. About(SubnetSteps, added, r) \subseteq SubnetsFor(outboundSubnets', r)
        <4> SUFFICES ASSUME NEW y \in About(SubnetSteps, added, r)
                     PROVE  y \in SubnetsFor(outboundSubnets', r)
          OBVIOUS
        <4>1. y \in added /\ y \in new /\ y \in Serving(Subnets) /\ r \in SubnetSteps[y].rules
          BY <1>5 DEF About
        <4>2. y[2] \in A
          <5>1. CASE added = new
            <6>1. y[2] \in S \ outboundSubnets
              BY <4>1 DEF Serving
            <6>2. QED
              BY <1>1, <5>1, <6>1
          <5>2. CASE added # new
            <6>1. PICK x \in new \cap failing : y[2] \in A \/ (y[2] = x[2] /\ y[1] < x[1])
              BY <1>1, <4>1, <5>2 DEF AddsUpTo
            <6>2. CASE y[2] = x[2]
              <7>1. /\ SubnetSteps[x].rules = SubnetRule(Routes[x[1]], x[2])
                    /\ SubnetSteps[y].rules = SubnetRule(Routes[y[1]], y[2])
                <8>1. /\ SubnetSteps[x] = Adding(SubnetRule(Routes[x[1]], x[2]))
                      /\ SubnetSteps[y] = Adding(SubnetRule(Routes[y[1]], y[2]))
                  BY <1>5, <4>1, <6>1 DEF SubnetSteps
                <8>2. QED
                  BY <8>1, StepsSay
              <7>2. \A q \in SubnetSteps[x].rules : q[1] = "subnet" /\ q[2] = Family[y[2]]
                BY <6>2, <7>1, Kinds
              <7>3. \E q \in SubnetSteps[y].rules : q[2] = Family[y[2]]
                BY <4>1, <7>1, Kinds
              <7>4. Refused(SubnetSteps[x])
                BY <2>1, <6>1
              <7>5. Refused(SubnetSteps[y])
                BY <7>2, <7>3, <7>4 DEF Refused
              <7>6. QED
                BY <1>10, <4>1, <7>5
            <6>3. QED
              BY <6>1, <6>2
          <5>3. QED
            BY <5>1, <5>2
        <4>3. y[2] \in Served(A)
          <5>1. y \in Serving(A)
            BY <4>1, <4>2 DEF Serving
          <5>2. QED
            BY <5>1 DEF Served
        <4>4. y[2] \in outboundSubnets'
          BY <1>1, <4>3
        <4>5. QED
          BY <2>2, <2>3, <4>1, <4>4
      <3>4. QED
        BY ZenonT(60), <2>2, <3>2, <3>3, SubnetsForAbout, FS_Subset DEF add
    <2>6. QED
      BY <2>4, <2>5
  <1>16. SubnetsHeld'
    <2>1. Serving(outboundSubnets)' = Serving(outboundSubnets')
      BY DEF Serving
    <2>2. QED
      BY <1>3, <1>14, <1>15, <2>1 DEF SubnetsHeld, OfKind, SubnetRule, SubnetsFor, Setter
  <1>17. \A k \in BaseKinds \cup PortKinds \cup {"lent", "vpn", "intf"} : Kept(k)
    BY <1>9 DEF BaseKinds, PortKinds
  <1>18. BaseHeld' /\ LentHeld' /\ VPNHeld' /\ IntfHeld'
    BY <1>3, <1>11, <1>17, BaseKept, LentKept, VPNKept, IntfKept
  <1>19. PortsHeld'
    BY <1>3, <1>11, <1>17, PortsKept DEF PortKinds
  <1>20. QED
    BY <1>11, <1>12, <1>13, <1>16, <1>18, <1>19 DEF Held

(***************************************************************************)
(* Ports and redirections.                                                  *)
(***************************************************************************)

\* One step that must not fail: all of it happens, or nothing does.
LEMMA OneStep ==
  ASSUME NEW step, step.must, step.op \in {"add", "delete"}, NEW faults, IsABag(rules)
  PROVE  LET out == Outcome(<<step>>, faults)
             fails == 1 \in faults \/ Refused(step)
             here(r) == IF r \in step.rules /\ ~fails THEN 1 ELSE 0
         IN /\ IsABag(out.rules)
            /\ out.ok <=> ~fails
            /\ 1 \in out.reached <=> ~fails
            /\ \A r : Copies(r, out.rules) =
                         IF r \in step.rules /\ ~fails
                         THEN IF step.op = "add" THEN Copies(r, rules) + 1 ELSE Less(Copies(r, rules), 1)
                         ELSE Copies(r, rules)
  <1> DEFINE fails == 1 \in faults \/ Refused(step)
             S == <<step>>
  <1>1. Len(S) = 1 /\ S[1] = step /\ 1..Len(S) = {1} /\ \A i \in {1} : 1..i = {1}
    OBVIOUS
  <1>2. Reached(S, faults) = IF fails THEN {} ELSE {1}
    BY <1>1 DEF Reached
  <1>3. \A op : Done(S, faults, op) = IF fails \/ step.op # op THEN {} ELSE {1}
    BY <1>1, <1>2 DEF Done
  <1>4. \A op, r : About(S, Done(S, faults, op), r) =
                      IF ~fails /\ step.op = op /\ r \in step.rules THEN {1} ELSE {}
    BY <1>1, <1>3 DEF About
  <1>5. Cardinality({1}) = 1 /\ Cardinality({}) = 0
    BY FS_Singleton, FS_EmptySet
  <1>6. \A op, r : Cardinality(About(S, Done(S, faults, op), r)) =
                      IF ~fails /\ step.op = op /\ r \in step.rules THEN 1 ELSE 0
    BY <1>4, <1>5
  <1> HIDE DEF fails, S
  <1>7. \A r : Copies(r, rules) \in Nat
    BY CopiesType
  <1>8. /\ IsABag(Outcome(S, faults).rules)
        /\ Outcome(S, faults).reached = Reached(S, faults)
        /\ Outcome(S, faults).ok <=> Reached(S, faults) = 1..Len(S)
        /\ \A r : Copies(r, Outcome(S, faults).rules) =
                     Less(Copies(r, rules), Cardinality(About(S, Done(S, faults, "delete"), r)))
                     + Cardinality(About(S, Done(S, faults, "add"), r))
    BY <1>1, OutcomeCopies
  <1>9. \A r : Copies(r, Outcome(S, faults).rules) =
                  IF r \in step.rules /\ ~fails
                  THEN IF step.op = "add" THEN Copies(r, rules) + 1 ELSE Less(Copies(r, rules), 1)
                  ELSE Copies(r, rules)
    BY <1>6, <1>7, <1>8 DEF Less
  <1>10. QED
    BY <1>1, <1>2, <1>8, <1>9 DEF fails, S

\* A deletion and an addition that must not fail: both, the first only, or none.
LEMMA TwoSteps ==
  ASSUME NEW a, NEW b, NEW faults, IsABag(rules)
  PROVE  LET out == Outcome(<<Deleting(a), Adding(b)>>, faults)
             failsA == 1 \in faults \/ Refused(Deleting(a))
             failsB == 2 \in faults \/ Refused(Adding(b))
         IN /\ IsABag(out.rules)
            /\ out.ok <=> ~failsA /\ ~failsB
            /\ 1 \in out.reached <=> ~failsA
            /\ \A r : Copies(r, out.rules) =
                         Less(Copies(r, rules), IF r \in a /\ ~failsA THEN 1 ELSE 0)
                         + (IF r \in b /\ ~failsA /\ ~failsB THEN 1 ELSE 0)
  <1> DEFINE failsA == 1 \in faults \/ Refused(Deleting(a))
             failsB == 2 \in faults \/ Refused(Adding(b))
             S == <<Deleting(a), Adding(b)>>
  <1>1. /\ Len(S) = 2 /\ S[1] = Deleting(a) /\ S[2] = Adding(b)
        /\ 1..Len(S) = {1, 2} /\ 1..1 = {1} /\ 1..2 = {1, 2}
    OBVIOUS
  <1>2. Reached(S, faults) = IF failsA THEN {} ELSE IF failsB THEN {1} ELSE {1, 2}
    BY <1>1, StepsSay DEF Reached
  <1>3. /\ Done(S, faults, "delete") = IF failsA THEN {} ELSE {1}
        /\ Done(S, faults, "add") = IF failsA \/ failsB THEN {} ELSE {2}
    BY <1>1, <1>2, StepsSay DEF Done
  <1>4. \A r : /\ About(S, Done(S, faults, "delete"), r) = IF r \in a /\ ~failsA THEN {1} ELSE {}
               /\ About(S, Done(S, faults, "add"), r) = IF r \in b /\ ~failsA /\ ~failsB THEN {2} ELSE {}
    BY <1>1, <1>3, StepsSay DEF About
  <1>5. Cardinality({1}) = 1 /\ Cardinality({2}) = 1 /\ Cardinality({}) = 0
    BY FS_Singleton, FS_EmptySet
  <1>6. \A r : /\ Cardinality(About(S, Done(S, faults, "delete"), r)) = IF r \in a /\ ~failsA THEN 1 ELSE 0
               /\ Cardinality(About(S, Done(S, faults, "add"), r)) = IF r \in b /\ ~failsA /\ ~failsB THEN 1 ELSE 0
    BY <1>4, <1>5
  <1> HIDE DEF failsA, failsB, S
  <1>7. /\ IsABag(Outcome(S, faults).rules)
        /\ Outcome(S, faults).reached = Reached(S, faults)
        /\ Outcome(S, faults).ok <=> Reached(S, faults) = 1..Len(S)
        /\ \A r : Copies(r, Outcome(S, faults).rules) =
                     Less(Copies(r, rules), Cardinality(About(S, Done(S, faults, "delete"), r)))
                     + Cardinality(About(S, Done(S, faults, "add"), r))
    <2>1. Len(S) \in Nat
      BY <1>1
    <2>2. QED
      BY <2>1, OutcomeCopies
  <1>8. QED
    BY <1>1, <1>2, <1>6, <1>7 DEF failsA, failsB, S

\* What is left of the invariant when only the rules of ports change.
LEMMA PortsRest ==
  ASSUME Held, Typed', Setter, Accepted', KindsHeld', PortsHeld', PortsOnly,
         \A k : k \notin PortKinds => Kept(k)
  PROVE  Held'
  <1>1. UNCHANGED <<lent, vpnConnection, vpnIntf, outboundSubnets>>
    BY DEF PortsOnly
  <1>2. \A k \in BaseKinds \cup {"lent", "vpn", "intf", "subnet"} : Kept(k)
    BY DEF BaseKinds, PortKinds
  <1>3. BaseHeld' /\ LentHeld' /\ VPNHeld' /\ IntfHeld' /\ SubnetsHeld'
    BY <1>1, <1>2, BaseKept, LentKept, VPNKept, IntfKept, SubnetsKept
  <1>4. QED
    BY <1>3 DEF Held

\* How many redirections and allowed ports call for a rule.
LEMMA ForPortsType ==
  ASSUME Typed
  PROVE  \A r : /\ IsFiniteSet(Redirecting(r))
                /\ Cardinality(Redirecting(r)) \in Nat
                /\ ForPorts(r) \in Nat
  <1>1. \A r : Redirecting(r) \in SUBSET redirected
    BY DEF Redirecting
  <1>2. \A r : IsFiniteSet(Redirecting(r)) /\ Cardinality(Redirecting(r)) \in Nat
    BY <1>1, FS_Subset, FS_CardinalityType DEF Typed
  <1>3. QED
    BY <1>2 DEF ForPorts

\* A step that adds or deletes the rules of one port, and what is allowed then.
LEMMA AllowedHold ==
  ASSUME Held, enabled, NEW p \in Ports, NEW step,
         \/ p \notin allowedInputPorts /\ step = Adding(InputRules(p))
            /\ Sets(step, allowedInputPorts \cup {p})
         \/ p \in allowedInputPorts /\ step = Deleting(InputRules(p))
            /\ Sets(step, allowedInputPorts \ {p}),
         PortsOnly, UNCHANGED <<portRedirections, redirected>>
  PROVE  Held'
  <1> DEFINE allowed == IF p \in allowedInputPorts THEN allowedInputPorts \ {p} ELSE allowedInputPorts \cup {p}
  <1>1. PICK faults \in Faults({1}) :
            /\ Counted(faults)
            /\ rules' = Outcome(<<step>>, faults).rules
            /\ allowedInputPorts' = IF Outcome(<<step>>, faults).ok THEN allowed ELSE allowedInputPorts
    BY DEF Sets
  <1> DEFINE fails == 1 \in faults \/ Refused(step)
  <1>2. step.must /\ step.op \in {"add", "delete"} /\ step.rules = InputRules(p)
        /\ (step.op = "add" <=> p \notin allowedInputPorts)
    BY StepsSay
  <1>3. IsABag(rules)
    BY DEF Held, Typed
  <1>4. /\ IsABag(rules')
        /\ allowedInputPorts' = IF fails THEN allowedInputPorts ELSE allowed
        /\ \A r : Copies(r, rules') =
                     IF r \in InputRules(p) /\ ~fails
                     THEN IF step.op = "add" THEN Copies(r, rules) + 1 ELSE Less(Copies(r, rules), 1)
                     ELSE Copies(r, rules)
    BY <1>1, <1>2, <1>3, OneStep
  <1> HIDE DEF fails
  <1>5. nFaults' \in Nat /\ (nFaults' = 0 => nFaults = 0)
    BY <1>1, CountedFaults DEF Held, Typed
  <1>6. Setter
    BY <1>5 DEF Setter, PortsOnly
  <1>7. Typed'
    BY <1>4, <1>5 DEF Held, Typed, PortsOnly
  <1>8. Len(<<step>>) = 1 /\ \A i \in 1..Len(<<step>>) : <<step>>[i] = step
    OBVIOUS
  <1>9. Accepted'
    BY <1>1, <1>6, <1>8, OutcomeAccepted DEF Held, Setter
  <1>10. \A i \in 1..Len(<<step>>) : \A r \in <<step>>[i].rules : r[1] \in PortKinds
    BY <1>2, <1>8, Kinds DEF PortKinds
  <1>11. KindsHeld' /\ \A k : k \notin PortKinds => Kept(k)
    BY <1>1, <1>6, <1>8, <1>10, OutcomeKinds, OutcomeKept DEF Held, AllKinds
  <1>12. \A q, d : InputRules(q)' = InputRules(q) /\ RedirectRules(q, d)' = RedirectRules(q, d)
    BY <1>6 DEF Setter, InputRules, RedirectRules, Families
  <1>13. ASSUME NEW r
         PROVE  /\ Copies(r, rules) \in Nat /\ ForPorts(r) \in Nat
                /\ r \in InputRules(p) /\ ~fails =>
                      IF step.op = "add" THEN ForPorts(r)' = ForPorts(r) + 1
                      ELSE ForPorts(r) > 0 /\ ForPorts(r)' = ForPorts(r) - 1
                /\ ~(r \in InputRules(p) /\ ~fails) => ForPorts(r)' = ForPorts(r)
    <2>1. Copies(r, rules) \in Nat /\ Cardinality(Redirecting(r)) \in Nat /\ ForPorts(r) \in Nat
      BY <1>3, CopiesType, ForPortsType DEF Held
    <2>2. Redirecting(r)' = Redirecting(r)
      BY <1>12 DEF Redirecting
    <2>3. \A q : r \in InputRules(q) => r[3] = q
      BY DEF InputRules
    <2>4. Allowed(r)' <=> \E q \in allowedInputPorts' : r \in InputRules(q)
      BY <1>12 DEF Allowed
    <2>5. CASE r \in InputRules(p) /\ ~fails
      <3>1. Allowed(r) <=> p \in allowedInputPorts
        BY <2>3, <2>5 DEF Allowed
      <3>2. Allowed(r)' <=> p \notin allowedInputPorts
        BY <1>4, <2>3, <2>4, <2>5
      <3>3. QED
        BY <1>2, <2>1, <2>2, <2>5, <3>1, <3>2 DEF ForPorts
    <2>6. CASE ~(r \in InputRules(p) /\ ~fails)
      <3>1. Allowed(r)' <=> Allowed(r)
        BY <1>4, <2>3, <2>4, <2>6 DEF Allowed
      <3>2. ForPorts(r)' = ForPorts(r)
        BY <2>2, <3>1 DEF ForPorts
      <3>3. QED
        BY <2>1, <2>6, <3>2
    <2>7. QED
      BY <2>1, <2>5, <2>6
  <1>14. PortsHeld'
    <2>1. ASSUME NEW r, r[1] \in PortKinds
          PROVE  /\ Copies(r, rules') >= ForPorts(r)'
                 /\ nFaults' = 0 => Copies(r, rules') <= ForPorts(r)'
      <3>1. Copies(r, rules) >= ForPorts(r) /\ (nFaults' = 0 => Copies(r, rules) <= ForPorts(r))
        BY <1>5, <2>1 DEF Held, PortsHeld
      <3>2. QED
        BY <1>4, <1>13, <3>1 DEF Less
    <2>2. QED
      BY <2>1 DEF PortsHeld
  <1>15. QED
    BY <1>6, <1>7, <1>9, <1>11, <1>14, PortsRest

\* Two steps, one after the other.
LEMMA Pair ==
  ASSUME NEW a, NEW b
  PROVE  <<a>> \o <<b>> = <<a, b>>
  <1> DEFINE c == <<a>> \o <<b>>
  <1>1. <<a>> \in Seq({a, b}) /\ <<b>> \in Seq({a, b})
    OBVIOUS
  <1>2. c \in Seq({a, b}) /\ Len(c) = 2 /\ c[1] = a /\ c[2] = b
    BY <1>1
  <1> HIDE DEF c
  <1>3. c = <<a, b>>
    BY <1>2
  <1>4. QED
    BY <1>3 DEF c

\* What RedirectPort does to the copies of a rule, in terms of the old and the new redirection of s.
LEMMA RedirectCopies ==
  ASSUME Held, NEW s \in Ports, NEW d \in Ports \cup {0}, RedirectPort(s, d)
  PROVE  /\ IsABag(rules') /\ Accepted' /\ Setter /\ KindsHeld'
         /\ \A k : k \notin PortKinds => Kept(k)
         /\ nFaults' \in Nat
         /\ redirected' \in {redirected, redirected \cup {s}, redirected \ {s}}
         /\ portRedirections' \in [Ports -> Ports \cup {0}]
         /\ \A x \in Ports \ {s} : portRedirections'[x] = portRedirections[x]
         /\ \A r : LET before == IF s \in redirected /\ r \in RedirectRules(s, portRedirections[s]) THEN 1 ELSE 0
                       after == IF s \in redirected' /\ r \in RedirectRules(s, portRedirections'[s]) THEN 1 ELSE 0
                   IN \/ Copies(r, rules') = Copies(r, rules) /\ after = before
                      \/ Copies(r, rules') = Less(Copies(r, rules), before) + after
  <1> DEFINE old == IF s \in redirected /\ ~Redirects(s, d)
                    THEN <<Deleting(RedirectRules(s, portRedirections[s]))>> ELSE <<>>
             new == IF Redirects(s, d) THEN <<>> ELSE <<Adding(RedirectRules(s, d))>>
             S == old \o new
  <1>1. PICK faults \in Faults(1..Len(S)) :
            /\ Counted(faults)
            /\ rules' = Outcome(S, faults).rules
            /\ redirected' = IF Outcome(S, faults).ok THEN redirected \cup {s}
                             ELSE IF 1 \in Outcome(S, faults).reached THEN redirected \ {s} ELSE redirected
            /\ portRedirections' = [portRedirections EXCEPT
                  ![s] = IF Outcome(S, faults).ok THEN d
                         ELSE IF 1 \in Outcome(S, faults).reached THEN 0 ELSE @]
    BY DEF RedirectPort
  <1>2. /\ IsABag(rules) /\ portRedirections \in [Ports -> Ports \cup {0}]
        /\ \A r : Copies(r, rules) \in Nat
    BY CopiesType DEF Held, Typed
  <1>3. portRedirections' \in [Ports -> Ports \cup {0}]
        /\ (\A x \in Ports \ {s} : portRedirections'[x] = portRedirections[x])
        /\ portRedirections'[s] = IF Outcome(S, faults).ok THEN d
                                  ELSE IF 1 \in Outcome(S, faults).reached THEN 0 ELSE portRedirections[s]
    BY <1>1, <1>2
  <1>4. nFaults' \in Nat /\ (nFaults' = 0 => nFaults = 0)
    BY <1>1, CountedFaults DEF Held, Typed
  <1>5. Setter /\ PortsOnly
    BY <1>4 DEF RedirectPort, Setter, PortsOnly
  <1>6. \/ Redirects(s, d) /\ S = <<>>
        \/ s \notin redirected /\ S = <<Adding(RedirectRules(s, d))>>
        \/ s \in redirected /\ ~Redirects(s, d)
           /\ S = <<Deleting(RedirectRules(s, portRedirections[s])), Adding(RedirectRules(s, d))>>
    <2>1. CASE Redirects(s, d)
      <3>1. old = <<>> /\ new = <<>>
        BY <2>1
      <3>2. QED
        BY <2>1, <3>1
    <2>2. CASE s \notin redirected
      <3>1. old = <<>> /\ new = <<Adding(RedirectRules(s, d))>>
        BY <2>2 DEF Redirects
      <3>2. QED
        BY <2>2, <3>1
    <2>3. CASE s \in redirected /\ ~Redirects(s, d)
      <3>1. /\ old = <<Deleting(RedirectRules(s, portRedirections[s]))>>
            /\ new = <<Adding(RedirectRules(s, d))>>
        BY <2>3
      <3>2. S = old \o new
        OBVIOUS
      <3> HIDE DEF old, new, S
      <3>3. QED
        BY <2>3, <3>1, <3>2, Pair
    <2>4. QED
      BY <2>1, <2>2, <2>3
  <1> HIDE DEF S
  <1>7. Len(S) \in Nat /\ \A i \in 1..Len(S) : S[i].rules \in {RedirectRules(s, x) : x \in {d, portRedirections[s]}}
    <2>1. CASE S = <<>>
      BY <2>1
    <2>2. CASE S = <<Adding(RedirectRules(s, d))>>
      <3>1. Len(S) = 1 /\ \A i \in 1..Len(S) : S[i] = Adding(RedirectRules(s, d))
        BY <2>2
      <3>2. QED
        BY <3>1, StepsSay
    <2>3. CASE S = <<Deleting(RedirectRules(s, portRedirections[s])), Adding(RedirectRules(s, d))>>
      <3>1. Len(S) = 2 /\ \A i \in 1..Len(S) :
               S[i] \in {Deleting(RedirectRules(s, portRedirections[s])), Adding(RedirectRules(s, d))}
        BY <2>3
      <3>2. QED
        BY <3>1, StepsSay
    <2>4. QED
      BY <1>6, <2>1, <2>2, <2>3
  <1>8. IsABag(rules') /\ Accepted'
    BY <1>1, <1>5, <1>7, OutcomeAccepted DEF Held, Setter
  <1>9. \A i \in 1..Len(S) : \A r \in S[i].rules : r[1] \in PortKinds
    BY <1>7, Kinds
  <1>10. KindsHeld' /\ \A k : k \notin PortKinds => Kept(k)
    BY <1>1, <1>5, <1>7, <1>9, OutcomeKinds, OutcomeKept DEF Held, AllKinds
  <1>11. \A q, x : RedirectRules(q, x)' = RedirectRules(q, x)
    BY <1>5 DEF Setter, InputRules, RedirectRules, Families
  <1>12. ASSUME NEW r
         PROVE  LET before == IF s \in redirected /\ r \in RedirectRules(s, portRedirections[s]) THEN 1 ELSE 0
                    after == IF s \in redirected' /\ r \in RedirectRules(s, portRedirections'[s]) THEN 1 ELSE 0
                IN \/ Copies(r, rules') = Copies(r, rules) /\ after = before
                   \/ Copies(r, rules') = Less(Copies(r, rules), before) + after
    <2>1. CASE Redirects(s, d) /\ S = <<>>
      <3>1. Len(S) = 0 /\ 1..Len(S) = {}
        BY <2>1
      <3>2. \A op : Done(S, faults, op) = {} /\ Reached(S, faults) = {}
        BY <3>1 DEF Done, Reached
      <3>3. \A op : About(S, Done(S, faults, op), r) = {}
        BY <3>2 DEF About
      <3>4. \A op : Cardinality(About(S, Done(S, faults, op), r)) = 0
        BY <3>3, FS_EmptySet
      <3>5. Copies(r, rules') = Less(Copies(r, rules), 0) + 0 /\ Outcome(S, faults).ok
        <4>1. /\ Outcome(S, faults).ok <=> Reached(S, faults) = 1..Len(S)
              /\ Copies(r, Outcome(S, faults).rules) =
                    Less(Copies(r, rules), Cardinality(About(S, Done(S, faults, "delete"), r)))
                    + Cardinality(About(S, Done(S, faults, "add"), r))
          BY <1>2, <1>7, OutcomeCopies
        <4>2. QED
          BY <1>1, <3>1, <3>2, <3>4, <4>1
      <3>6. Copies(r, rules') = Copies(r, rules)
        BY <1>2, <3>5 DEF Less
      <3>7. redirected' = redirected /\ portRedirections'[s] = portRedirections[s]
        BY <1>1, <1>3, <2>1, <3>5 DEF Redirects
      <3>8. QED
        BY <3>6, <3>7
    <2>2. CASE s \notin redirected /\ S = <<Adding(RedirectRules(s, d))>>
      <3> DEFINE fails == 1 \in faults \/ Refused(Adding(RedirectRules(s, d)))
      <3>1. /\ Outcome(S, faults).ok <=> ~fails
            /\ 1 \in Outcome(S, faults).reached <=> ~fails
            /\ Copies(r, rules') = IF r \in RedirectRules(s, d) /\ ~fails
                                   THEN Copies(r, rules) + 1 ELSE Copies(r, rules)
        BY <1>1, <1>2, <2>2, StepsSay, OneStep
      <3> HIDE DEF fails
      <3>2. CASE fails
        <4>1. redirected' = redirected /\ Copies(r, rules') = Copies(r, rules)
          BY <1>1, <3>1, <3>2
        <4>2. QED
          BY <2>2, <4>1
      <3>3. CASE ~fails
        <4>1. redirected' = redirected \cup {s} /\ portRedirections'[s] = d
          BY <1>1, <1>3, <3>1, <3>3
        <4>2. Less(Copies(r, rules), 0) = Copies(r, rules)
          BY <1>2 DEF Less
        <4>3. QED
          BY <1>2, <2>2, <3>1, <3>3, <4>1, <4>2
      <3>4. QED
        BY <3>2, <3>3
    <2>3. CASE s \in redirected /\ ~Redirects(s, d)
               /\ S = <<Deleting(RedirectRules(s, portRedirections[s])), Adding(RedirectRules(s, d))>>
      <3> DEFINE failsA == 1 \in faults \/ Refused(Deleting(RedirectRules(s, portRedirections[s])))
                 failsB == 2 \in faults \/ Refused(Adding(RedirectRules(s, d)))
      <3>1. /\ Outcome(S, faults).ok <=> ~failsA /\ ~failsB
            /\ 1 \in Outcome(S, faults).reached <=> ~failsA
            /\ Copies(r, rules') =
                  Less(Copies(r, rules), IF r \in RedirectRules(s, portRedirections[s]) /\ ~failsA THEN 1 ELSE 0)
                  + (IF r \in RedirectRules(s, d) /\ ~failsA /\ ~failsB THEN 1 ELSE 0)
        BY <1>1, <1>2, <2>3, TwoSteps
      <3> HIDE DEF failsA, failsB
      <3>2. CASE failsA
        <4>1. redirected' = redirected /\ portRedirections'[s] = portRedirections[s]
          BY <1>1, <1>3, <3>1, <3>2
        <4>2. Copies(r, rules') = Less(Copies(r, rules), 0) + 0
          BY <3>1, <3>2
        <4>3. QED
          BY <1>2, <4>1, <4>2 DEF Less
      <3>3. CASE ~failsA /\ failsB
        <4>1. redirected' = redirected \ {s}
          BY <1>1, <3>1, <3>3
        <4>2. QED
          BY <2>3, <3>1, <3>3, <4>1
      <3>4. CASE ~failsA /\ ~failsB
        <4>1. redirected' = redirected \cup {s} /\ portRedirections'[s] = d
          BY <1>1, <1>3, <3>1, <3>4
        <4>2. QED
          BY <2>3, <3>1, <3>4, <4>1
      <3>5. QED
        BY <3>2, <3>3, <3>4
    <2>4. QED
      BY <1>6, <2>1, <2>2, <2>3
  <1>13. redirected' \in {redirected, redirected \cup {s}, redirected \ {s}}
    BY <1>1
  <1>14. QED
    BY <1>3, <1>4, <1>5, <1>8, <1>10, <1>11, <1>12, <1>13

\* A redirection takes its rules with it when it changes.
LEMMA RedirectHolds ==
  ASSUME Held, NEW s \in Ports, NEW d \in Ports \cup {0}, RedirectPort(s, d)
  PROVE  Held'
  <1>1. /\ IsABag(rules') /\ Accepted' /\ Setter /\ KindsHeld'
        /\ \A k : k \notin PortKinds => Kept(k)
        /\ nFaults' \in Nat
        /\ redirected' \in {redirected, redirected \cup {s}, redirected \ {s}}
        /\ portRedirections' \in [Ports -> Ports \cup {0}]
        /\ \A x \in Ports \ {s} : portRedirections'[x] = portRedirections[x]
    BY RedirectCopies
  <1>2. PortsOnly /\ allowedInputPorts' = allowedInputPorts
    BY DEF RedirectPort
  <1>3. IsFiniteSet(redirected') /\ redirected' \subseteq Ports
    BY <1>1, FS_AddElement, FS_RemoveElement DEF Held, Typed
  <1>4. Typed'
    BY <1>1, <1>2, <1>3 DEF Held, Typed, PortsOnly
  <1>5. \A q, x : InputRules(q)' = InputRules(q) /\ RedirectRules(q, x)' = RedirectRules(q, x)
    BY <1>1 DEF Setter, InputRules, RedirectRules, Families
  <1>6. ASSUME NEW r, r[1] \in PortKinds
        PROVE  /\ Copies(r, rules') >= ForPorts(r)'
               /\ nFaults' = 0 => Copies(r, rules') <= ForPorts(r)'
    <2> DEFINE before == IF s \in redirected /\ r \in RedirectRules(s, portRedirections[s]) THEN 1 ELSE 0
               after == IF s \in redirected' /\ r \in RedirectRules(s, portRedirections'[s]) THEN 1 ELSE 0
               others == {x \in redirected \ {s} : r \in RedirectRules(x, portRedirections[x])}
               allowed == IF Allowed(r) THEN 1 ELSE 0
    <2>1. others \in SUBSET redirected
      OBVIOUS
    <2>2. IsFiniteSet(others) /\ Cardinality(others) \in Nat
      BY <2>1, FS_Subset, FS_CardinalityType DEF Held, Typed
    <2>3. Cardinality(Redirecting(r)) = Cardinality(others) + before
      <3>1. Redirecting(r) = IF before = 1 THEN others \cup {s} ELSE others
        BY DEF Redirecting
      <3>2. Cardinality(others \cup {s}) = Cardinality(others) + 1
        BY <2>2, FS_AddElement
      <3>3. QED
        BY <2>2, <3>1, <3>2
    <2>4. Cardinality(Redirecting(r)') = Cardinality(others) + after
      <3>1. Redirecting(r)' = {x \in redirected' : r \in RedirectRules(x, portRedirections'[x])}
        BY <1>5 DEF Redirecting
      <3>2. Redirecting(r)' = IF after = 1 THEN others \cup {s} ELSE others
        BY <1>1, <1>3, <3>1 DEF Held, Typed
      <3>3. Cardinality(others \cup {s}) = Cardinality(others) + 1
        BY <2>2, FS_AddElement
      <3>4. QED
        BY <2>2, <3>2, <3>3
    <2>5. Allowed(r)' <=> Allowed(r)
      BY <1>2, <1>5 DEF Allowed
    <2>6. /\ ForPorts(r) = Cardinality(others) + before + allowed
          /\ ForPorts(r)' = Cardinality(others) + after + allowed
      BY <2>3, <2>4, <2>5 DEF ForPorts
    <2>7. \/ Copies(r, rules') = Copies(r, rules) /\ after = before
          \/ Copies(r, rules') = Less(Copies(r, rules), before) + after
      BY RedirectCopies
    <2>8. Copies(r, rules) >= ForPorts(r) /\ (nFaults' = 0 => Copies(r, rules) <= ForPorts(r))
      BY <1>1, <1>6 DEF Held, PortsHeld, Setter
    <2>9. Copies(r, rules) \in Nat /\ before \in {0, 1} /\ after \in {0, 1} /\ allowed \in {0, 1}
      BY CopiesType DEF Held, Typed
    <2> HIDE DEF before, after, others, allowed
    <2>10. QED
      BY <2>2, <2>6, <2>7, <2>8, <2>9 DEF Less
  <1>7. PortsHeld'
    BY <1>6 DEF PortsHeld
  <1>8. QED
    BY <1>1, <1>2, <1>4, <1>7, PortsRest

(***************************************************************************)
(* Enabling, disabling and lending, and what is called while disabled.        *)
(***************************************************************************)

\* The rules that enable adds once, and those of the redirections it adds for each of them.
EnableRules == UNION {step.rules : step \in EnableSteps}

\* The rules enable adds, one kind after the other.
LEMMA EnableRulesAre ==
  ASSUME Typed
  PROVE  \A r : r \in EnableRules <=>
            \/ r \in BaseRules
            \/ vpnConnection # NoConnection /\ \E i \in 1..Len(Routes) : r \in VPNRule(Routes[i], vpnConnection)
            \/ \E x \in Serving(outboundSubnets) : r \in SubnetRule(Routes[x[1]], x[2])
            \/ Allowed(r)
  <1> DEFINE ForVPN == {Adding(VPNRule([intf |-> i], vpnConnection)) :
                           i \in IF vpnConnection = NoConnection THEN {} ELSE RouteIntfs}
             ForSubnets == {SubnetSteps[x] : x \in Serving(outboundSubnets)}
             ForInput == {Adding(InputRules(p)) : p \in allowedInputPorts}
  <1>1. EnableSteps = {Adding(BaseRules)} \cup ForVPN \cup ForSubnets \cup ForInput
    BY DEF EnableSteps
  <1>2. \A x \in Serving(outboundSubnets) : SubnetSteps[x].rules = SubnetRule(Routes[x[1]], x[2])
    BY SubnetsAbout, SubnetsForAbout, StepsSay DEF Typed
  <1> SUFFICES ASSUME NEW r
               PROVE  r \in EnableRules <=>
                        \/ r \in BaseRules
                        \/ vpnConnection # NoConnection /\ \E i \in 1..Len(Routes) : r \in VPNRule(Routes[i], vpnConnection)
                        \/ \E x \in Serving(outboundSubnets) : r \in SubnetRule(Routes[x[1]], x[2])
                        \/ Allowed(r)
    OBVIOUS
  <1>3. (\E step \in ForVPN : r \in step.rules) <=>
          vpnConnection # NoConnection /\ \E i \in 1..Len(Routes) : r \in VPNRule(Routes[i], vpnConnection)
    <2>1. ASSUME NEW i \in 1..Len(Routes)
          PROVE  VPNRule([intf |-> Routes[i].intf], vpnConnection) = VPNRule(Routes[i], vpnConnection)
      BY DEF VPNRule
    <2>2. (\E step \in ForVPN : r \in step.rules) <=>
             \E i \in IF vpnConnection = NoConnection THEN {} ELSE RouteIntfs :
                r \in VPNRule([intf |-> i], vpnConnection)
      <3>1. \A i : Adding(VPNRule([intf |-> i], vpnConnection)).rules = VPNRule([intf |-> i], vpnConnection)
        BY StepsSay
      <3>2. QED
        BY <3>1
    <2>3. \A i : i \in RouteIntfs <=> \E j \in 1..Len(Routes) : i = Routes[j].intf
      BY DEF RouteIntfs
    <2> HIDE DEF ForVPN
    <2>4. QED
      BY <2>1, <2>2, <2>3
  <1>4. (\E step \in ForSubnets : r \in step.rules) <=>
          \E x \in Serving(outboundSubnets) : r \in SubnetRule(Routes[x[1]], x[2])
    BY <1>2
  <1>5. (\E step \in ForInput : r \in step.rules) <=> Allowed(r)
    <2>1. \A p : Adding(InputRules(p)).rules = InputRules(p)
      BY StepsSay
    <2>2. QED
      BY <2>1 DEF Allowed
  <1>6. (\E step \in {Adding(BaseRules)} : r \in step.rules) <=> r \in BaseRules
    BY StepsSay
  <1> HIDE DEF ForVPN, ForSubnets, ForInput
  <1>7. QED
    BY <1>1, <1>3, <1>4, <1>5, <1>6 DEF EnableRules

\* What enable puts in force once it gets to its end.
LEMMA EnableHolds ==
  ASSUME Held, Restorable, Enable
  PROVE  Held'
  <1>1. ~enabled /\ UNCHANGED <<kernel, lent, recorded, wasDisabled>>
    BY DEF Enable
  <1>2. UNCHANGED <<vpnConnection, vpnIntf, outboundSubnets, allowedInputPorts, portRedirections, redirected>>
    BY <1>1 DEF recorded
  <1>3. rules = EmptyBag /\ lent = {}
    BY <1>1 DEF Restorable, PolicyFollows
  <1>4. CASE UNCHANGED <<enabled, rules>> /\ nFaults' \in {nFaults, nFaults + 1}
    <2>1. Typed'
      BY <1>1, <1>2, <1>4 DEF Held, Typed
    <2>2. Accepted'
      BY <1>1, <1>4 DEF Held, Accepted, Refused
    <2>3. IntfHeld'
      BY <1>1, <1>2, <1>4 DEF Held, IntfHeld
    <2>4. QED
      BY <1>1, <1>4, <2>1, <2>2, <2>3
         DEF Held, BaseHeld, LentHeld, VPNHeld, SubnetsHeld, PortsHeld, KindsHeld
  <1>5. CASE /\ \A step \in EnableSteps : ~Refused(step)
             /\ \A s \in redirected : ~Refused(RedirectSteps[s])
             /\ enabled' = TRUE
             /\ rules' = rules (+) SetToBag(EnableRules) (+) Tally(RedirectSteps, redirected)
             /\ nFaults' = nFaults
    <2>1. \A r : About(RedirectSteps, redirected, r) = Redirecting(r)
      BY StepsSay DEF About, Redirecting, RedirectSteps
    <2>2. \A r : /\ IsFiniteSet(Redirecting(r)) /\ Cardinality(Redirecting(r)) \in Nat
                 /\ ForPorts(r) \in Nat
      BY ForPortsType DEF Held
    <2>3. IsABag(Tally(RedirectSteps, redirected))
          /\ \A r : Copies(r, Tally(RedirectSteps, redirected)) = Cardinality(Redirecting(r))
      <3>1. \A r : IsFiniteSet(About(RedirectSteps, redirected, r))
        BY <2>1, <2>2
      <3>2. QED
        BY <2>1, <3>1, TallyCopies
    <2>4. IsABag(rules) /\ \A r : Copies(r, rules) = 0
      BY <1>3 DEF Held, Typed, Copies, EmptyBag, SetToBag
    <2>5. IsABag(SetToBag(EnableRules))
          /\ \A r : Copies(r, SetToBag(EnableRules)) = IF r \in EnableRules THEN 1 ELSE 0
      BY SetCopies
    <2>6. IsABag(rules (+) SetToBag(EnableRules))
          /\ \A r : Copies(r, rules (+) SetToBag(EnableRules)) = IF r \in EnableRules THEN 1 ELSE 0
      BY <2>4, <2>5, PlusCopies
    <2>7. IsABag(rules') /\ \A r : Copies(r, rules') = (IF r \in EnableRules THEN 1 ELSE 0) + Cardinality(Redirecting(r))
      BY <1>5, <2>3, <2>6, PlusCopies
    <2>8. Typed'
      BY <1>1, <1>2, <1>5, <2>7 DEF Held, Typed
    <2>9. \A r : r \in DOMAIN rules' <=> r \in EnableRules \/ Redirecting(r) # {}
      <3>1. \A r : Cardinality(Redirecting(r)) > 0 <=> Redirecting(r) # {}
        BY <2>2, FS_EmptySet
      <3>2. QED
        BY <2>2, <2>7, <3>1, CopiesType
    <2>10. \A r : r[1] \notin PortKinds => Redirecting(r) = {}
      BY Kinds DEF Redirecting
    <2>11. \A r : r[1] \notin PortKinds => (r \in DOMAIN rules' <=> r \in EnableRules)
      BY <2>9, <2>10
    <2>12. ASSUME NEW r \in DOMAIN rules', r[1] \notin PortKinds PROVE rules'[r] = 1
      <3>1. r \in EnableRules /\ Cardinality(Redirecting(r)) = 0
        BY <2>10, <2>11, <2>12, FS_EmptySet
      <3>2. QED
        BY <2>7, <2>12, <3>1 DEF Copies
    <2>13. \A r : ~Allowed(r) \/ r[1] = "input"
      BY Kinds DEF Allowed
    <2>14. BaseRules' = BaseRules /\ (\A p : InputRules(p)' = InputRules(p))
           /\ (\A s, d : RedirectRules(s, d)' = RedirectRules(s, d))
           /\ (\A i : IntfRules(i)' = IntfRules(i))
           /\ (\A step : Refused(step)' <=> Refused(step))
      BY <1>1 DEF BaseRules, InputRules, RedirectRules, IntfRules, Refused, Families
    <2>15. \A r : r \in EnableRules <=>
              \/ r \in BaseRules
              \/ vpnConnection # NoConnection /\ \E i \in 1..Len(Routes) : r \in VPNRule(Routes[i], vpnConnection)
              \/ \E x \in Serving(outboundSubnets) : r \in SubnetRule(Routes[x[1]], x[2])
              \/ Allowed(r)
      BY EnableRulesAre DEF Held
    <2>16. /\ \A i \in 1..Len(Routes) : \A r \in VPNRule(Routes[i], vpnConnection) : r[1] = "vpn"
           /\ \A x \in Serving(outboundSubnets) : \A r \in SubnetRule(Routes[x[1]], x[2]) : r[1] = "subnet"
           /\ \A r \in BaseRules : r[1] \in BaseKinds
      BY Kinds
    <2>17. Accepted'
      <3>1. ASSUME NEW r \in DOMAIN rules' PROVE ~Refused([rules |-> {r}])
        <4>1. CASE r \in EnableRules
          BY <1>5, <4>1, RefusedRules DEF EnableRules
        <4>2. CASE Redirecting(r) # {}
          <5>1. PICK s \in redirected : r \in RedirectRules(s, portRedirections[s])
            BY <4>2 DEF Redirecting
          <5>2. r \in RedirectSteps[s].rules
            BY <5>1, StepsSay DEF RedirectSteps
          <5>3. QED
            BY <1>5, <5>1, <5>2, RefusedRules
        <4>3. QED
          BY <2>9, <4>1, <4>2
      <3>2. QED
        BY <2>14, <3>1 DEF Accepted
    <2>18. BaseHeld'
      BY <2>11, <2>14, <2>15, <2>16, <2>13 DEF BaseHeld, BaseKinds, PortKinds
    <2>19. LentHeld'
      BY <2>11, <2>13, <2>15, <2>16 DEF LentHeld, BaseKinds, PortKinds, OfKind
    <2>20. VPNHeld'
      <3>1. ASSUME vpnConnection # NoConnection, NEW i \in 1..Len(Routes), NEW r \in VPNRule(Routes[i], vpnConnection)
            PROVE  r \in DOMAIN rules'
        BY <2>9, <2>15, <3>1
      <3>2. ASSUME NEW r \in DOMAIN rules', r[1] = "vpn"
            PROVE  vpnConnection # NoConnection /\ rules'[r] <= Cardinality(VPNFor(vpnConnection, r))
        <4>1. r \in EnableRules /\ rules'[r] = 1
          BY <2>11, <2>12, <3>2 DEF PortKinds
        <4>2. vpnConnection # NoConnection /\ VPNFor(vpnConnection, r) # {}
          BY <2>13, <2>15, <2>16, <3>2, <4>1 DEF BaseKinds, VPNFor
        <4>3. IsFiniteSet(VPNFor(vpnConnection, r)) /\ Cardinality(VPNFor(vpnConnection, r)) \in Nat
          BY <3>2, VPNAdded
        <4>4. Cardinality(VPNFor(vpnConnection, r)) # 0
          BY <4>2, <4>3, FS_EmptySet
        <4>5. QED
          BY <4>1, <4>2, <4>3, <4>4
      <3>3. QED
        BY <1>2, <3>1, <3>2, Kinds DEF VPNHeld, OfKind
    <2>21. IntfHeld'
      <3>1. \A r \in DOMAIN rules' : r[1] # "intf"
        BY <2>11, <2>13, <2>15, <2>16 DEF BaseKinds, PortKinds
      <3>2. vpnIntf # NoInterface => wasDisabled
        BY <1>1 DEF Held, IntfHeld
      <3>3. QED
        BY <1>1, <1>2, <1>5, <3>1, <3>2 DEF IntfHeld, OfKind
    <2>22. SubnetsHeld'
      <3>1. ASSUME NEW x \in Serving(outboundSubnets), NEW r \in SubnetRule(Routes[x[1]], x[2])
            PROVE  r \in DOMAIN rules'
        BY <2>9, <2>15, <3>1
      <3>2. ASSUME NEW r \in DOMAIN rules', r[1] = "subnet"
            PROVE  rules'[r] <= Cardinality(SubnetsFor(outboundSubnets, r))
        <4>1. r \in EnableRules /\ rules'[r] = 1
          BY <2>11, <2>12, <3>2 DEF PortKinds
        <4>2. SubnetsFor(outboundSubnets, r) # {}
          BY <2>13, <2>15, <2>16, <3>2, <4>1 DEF BaseKinds, SubnetsFor
        <4>3. /\ IsFiniteSet(SubnetsFor(outboundSubnets, r))
              /\ Cardinality(SubnetsFor(outboundSubnets, r)) \in Nat
          BY SubnetsForAbout DEF Held, Typed
        <4>4. Cardinality(SubnetsFor(outboundSubnets, r)) # 0
          BY <4>2, <4>3, FS_EmptySet
        <4>5. QED
          BY <4>1, <4>3, <4>4
      <3>3. QED
        BY <1>2, <3>1, <3>2, Kinds DEF SubnetsHeld, OfKind
    <2>23. PortsHeld'
      <3>1. ASSUME NEW r, r[1] \in PortKinds PROVE Copies(r, rules') = ForPorts(r)
        <4>1. r \in EnableRules <=> Allowed(r)
          BY <2>13, <2>15, <2>16, <3>1 DEF BaseKinds, PortKinds
        <4>2. QED
          BY <2>2, <2>7, <4>1 DEF ForPorts
      <3>2. ASSUME NEW r PROVE ForPorts(r)' = ForPorts(r)
        BY <1>2, <2>14 DEF ForPorts, Redirecting, Allowed
      <3>3. QED
        BY <2>2, <3>1, <3>2 DEF PortsHeld
    <2>24. KindsHeld'
      BY <2>9, <2>10, <2>13, <2>15, <2>16 DEF KindsHeld, AllKinds, BaseKinds, PortKinds
    <2>25. QED
      BY <2>8, <2>17, <2>18, <2>19, <2>20, <2>21, <2>22, <2>23, <2>24 DEF Held
  <1>6. QED
    BY <1>4, <1>5 DEF Enable, inForce, EnableRules

\* Disabling leaves no rule, and nothing to keep until the next time.
LEMMA DisableHolds ==
  ASSUME Held, Restorable, Disable
  PROVE  Held'
  <1>1. /\ enabled' = FALSE /\ wasDisabled' = TRUE /\ rules' = EmptyBag /\ lent' = {}
        /\ UNCHANGED <<kernel, recorded, nFaults>>
    BY DEF Disable, Restorable
  <1>2. IsABag(rules') /\ DOMAIN rules' = {}
    BY <1>1 DEF EmptyBag, SetToBag, IsABag
  <1>3. Typed'
    BY <1>1, <1>2 DEF Held, Typed, recorded
  <1>4. QED
    BY <1>1, <1>2, <1>3
       DEF Held, Accepted, BaseHeld, LentHeld, VPNHeld, IntfHeld, SubnetsHeld, PortsHeld, KindsHeld

\* A rule lent is in force once, and goes when it is given back.
LEMMA LendHolds ==
  ASSUME Held, Restorable, Lend \/ GiveBack
  PROVE  Held'
  <1> DEFINE r0 == <<"lent", 4>>
  <1>1. /\ enabled /\ UNCHANGED <<kernel, enabled, recorded, wasDisabled>>
        /\ nFaults' \in Nat /\ (nFaults' = 0 => nFaults = 0)
        /\ lent' \in {{}, {r0}}
    BY DEF Held, Typed, Restorable, Lend, GiveBack
  <1>2. /\ IsABag(rules)
        /\ \A r : Copies(r, rules) \in Nat /\ (r \in DOMAIN rules <=> Copies(r, rules) > 0)
    BY CopiesType DEF Held, Typed
  <1>3. /\ IsABag(SetToBag({r0}))
        /\ \A r : Copies(r, SetToBag({r0})) = IF r \in {r0} THEN 1 ELSE 0
    BY SetCopies
  <1>4. \/ rules' = rules (+) SetToBag({r0}) /\ lent = {} /\ lent' = {r0} /\ nFaults' = nFaults
        \/ rules' = rules (-) SetToBag({r0}) /\ lent = {r0} /\ lent' = {}
        \/ rules' = rules /\ nFaults' = nFaults + 1
    BY DEF Held, Typed, Lend, GiveBack
  <1>5. /\ IsABag(rules')
        /\ \A r : r # r0 => Copies(r, rules') = Copies(r, rules)
        /\ \/ Copies(r0, rules') = Copies(r0, rules) + 1 /\ lent = {} /\ lent' = {r0}
           \/ Copies(r0, rules') = Less(Copies(r0, rules), 1) /\ lent = {r0} /\ lent' = {}
           \/ nFaults' = nFaults + 1
    <2>1. CASE rules' = rules (+) SetToBag({r0}) /\ lent = {} /\ lent' = {r0}
      BY <1>2, <1>3, <2>1, PlusCopies
    <2>2. CASE rules' = rules (-) SetToBag({r0}) /\ lent = {r0} /\ lent' = {}
      <3>1. IsABag(rules') /\ \A r : Copies(r, rules') = Less(Copies(r, rules), Copies(r, SetToBag({r0})))
        BY <1>2, <1>3, <2>2, MinusCopies
      <3>2. \A r : r # r0 => Copies(r, rules') = Less(Copies(r, rules), 0)
        BY <1>3, <3>1
      <3>3. QED
        BY <1>2, <1>3, <2>2, <3>1, <3>2 DEF Less
    <2>3. CASE rules' = rules /\ nFaults' = nFaults + 1
      BY <1>2, <2>3
    <2>4. QED
      BY <1>4, <2>1, <2>2, <2>3
  <1>6. Setter /\ UNCHANGED <<vpnConnection, vpnIntf, outboundSubnets, allowedInputPorts, portRedirections, redirected>>
    BY <1>1 DEF Setter, recorded
  <1>7. Typed'
    BY <1>1, <1>5, <1>6 DEF Held, Typed
  <1>8. r0[1] = "lent" /\ r0[2] = 4
    OBVIOUS
  <1>9. \A k : k # "lent" => Kept(k)
    BY <1>5, <1>8 DEF Kept
  <1>10. \A r : r \in DOMAIN rules' => r \in DOMAIN rules \/ r = r0
    BY <1>2, <1>5, CopiesType
  <1>11. Accepted'
    <2>1. ASSUME NEW r \in DOMAIN rules' PROVE ~Refused([rules |-> {r}])
      BY <1>8, <1>10, <2>1 DEF Held, Accepted, Refused
    <2>2. ASSUME NEW r PROVE Refused([rules |-> {r}])' <=> Refused([rules |-> {r}])
      BY <1>1 DEF Refused
    <2>3. QED
      BY <2>1, <2>2 DEF Accepted
  <1>12. KindsHeld'
    BY <1>6, <1>8, <1>10 DEF Held, KindsHeld, AllKinds, Setter
  <1>13. LentHeld'
    <2> SUFFICES ASSUME nFaults' = 0, NEW r \in DOMAIN rules', r[1] = "lent"
                 PROVE  r \in lent' /\ rules'[r] <= 1
      BY DEF LentHeld, OfKind
    <2>1. nFaults = 0 /\ nFaults' # nFaults + 1
      BY <1>1 DEF Held, Typed
    <2>2. \A q \in DOMAIN rules : q[1] = "lent" => q \in lent /\ rules[q] <= 1
      BY <1>6, <2>1 DEF Held, LentHeld, OfKind, Setter
    <2>3. lent \subseteq {r0}
      BY DEF Held, Typed
    <2>4. r = r0
      BY <1>10, <2>2, <2>3
    <2>5. Copies(r0, rules') > 0 /\ Copies(r0, rules') = rules'[r]
      BY <1>5, <2>4, CopiesType DEF Copies
    <2>6. CASE Copies(r0, rules') = Copies(r0, rules) + 1 /\ lent = {} /\ lent' = {r0}
      <3>1. r0 \notin DOMAIN rules
        BY <1>8, <2>2, <2>6
      <3>2. Copies(r0, rules) = 0
        BY <3>1 DEF Copies
      <3>3. QED
        BY <2>4, <2>5, <2>6, <3>2
    <2>7. CASE Copies(r0, rules') = Less(Copies(r0, rules), 1) /\ lent = {r0} /\ lent' = {}
      <3>1. Copies(r0, rules) <= 1
        BY <1>2, <1>8, <2>2 DEF Copies
      <3>2. QED
        BY <1>2, <2>5, <2>7, <3>1 DEF Less
    <2>8. QED
      BY <1>5, <2>1, <2>6, <2>7
  <1>14. \A k \in BaseKinds \cup PortKinds \cup {"vpn", "intf", "subnet"} : Kept(k)
    BY <1>9 DEF BaseKinds, PortKinds
  <1>15. BaseHeld' /\ VPNHeld' /\ IntfHeld' /\ SubnetsHeld'
    BY <1>6, <1>7, <1>14, BaseKept, VPNKept, IntfKept, SubnetsKept
  <1>16. PortsHeld'
    BY <1>6, <1>7, <1>14, PortsKept DEF PortKinds
  <1>17. QED
    BY <1>7, <1>11, <1>12, <1>13, <1>15, <1>16 DEF Held

\* A call that only records, since the firewall is disabled, touches no rule.
LEMMA RecordHolds ==
  ASSUME Held, ~enabled, UNCHANGED <<kernel, enabled, rules, lent, vpnIntf, wasDisabled, nFaults>>,
         vpnConnection' \in Connections \cup {NoConnection},
         outboundSubnets' \subseteq Subnets,
         allowedInputPorts' \subseteq Ports,
         portRedirections' \in [Ports -> Ports \cup {0}],
         redirected' \subseteq Ports, IsFiniteSet(redirected')
  PROVE  Held'
  <1>1. Typed'
    BY DEF Held, Typed
  <1>2. Accepted'
    BY DEF Held, Accepted, Refused
  <1>3. QED
    BY <1>1, <1>2 DEF Held, BaseHeld, LentHeld, VPNHeld, IntfHeld, SubnetsHeld, PortsHeld, KindsHeld

\* Initially nothing is in force and nothing is recorded.
LEMMA InitHolds == Init => Held
  <1> SUFFICES ASSUME Init PROVE Held
    OBVIOUS
  <1>1. IsABag(rules) /\ DOMAIN rules = {}
    BY DEF Init, EmptyBag, SetToBag, IsABag
  <1>2. Typed
    BY <1>1, FS_EmptySet DEF Init, Typed
  <1>3. QED
    BY <1>1, <1>2
       DEF Init, Held, Accepted, BaseHeld, LentHeld, VPNHeld, IntfHeld, SubnetsHeld, PortsHeld, KindsHeld

\* Every step keeps the accounts of every kind of rule.
LEMMA NextHolds == Held /\ Restorable /\ [Next]_vars => Held'
  <1> SUFFICES ASSUME Held, Restorable, [Next]_vars PROVE Held'
    OBVIOUS
  <1> USE DEF recorded, inForce
  <1>1. CASE UNCHANGED vars
    <2>1. Typed'
      BY <1>1 DEF vars, Held, Typed
    <2>2. Accepted'
      BY <1>1 DEF vars, Held, Accepted, Refused
    <2>3. CASE enabled
      <3>1. Setter /\ \A k : Kept(k)
        BY <1>1, <2>3 DEF vars, Setter, Kept
      <3>2. BaseHeld' /\ LentHeld' /\ VPNHeld' /\ IntfHeld' /\ SubnetsHeld' /\ PortsHeld'
        BY <1>1, <2>1, <3>1, BaseKept, LentKept, VPNKept, IntfKept, SubnetsKept, PortsKept DEF vars
      <3>3. KindsHeld'
        BY <1>1 DEF vars, Held, KindsHeld
      <3>4. QED
        BY <2>1, <2>2, <3>2, <3>3 DEF Held
    <2>4. CASE ~enabled
      BY <1>1, <2>4, RecordHolds DEF vars, Held, Typed
    <2>5. QED
      BY <2>3, <2>4
  <1>2. CASE Enable
    BY <1>2, EnableHolds
  <1>3. CASE Disable
    BY <1>3, DisableHolds
  <1>4. CASE Lend \/ GiveBack
    BY <1>4, LendHolds
  <1>5. ASSUME NEW c \in Connections, RecordVPNConnection(c) \/ SameVPNConnection(c) \/ SetVPNConnection(c)
        PROVE  Held'
    <2>1. CASE RecordVPNConnection(c)
      BY <2>1, RecordHolds DEF RecordVPNConnection, Held, Typed
    <2>2. CASE SameVPNConnection(c)
      BY <2>2, <1>1 DEF SameVPNConnection, vars
    <2>3. CASE SetVPNConnection(c)
      BY <2>3, VPNHolds
    <2>4. QED
      BY <1>5, <2>1, <2>2, <2>3
  <1>6. ASSUME NEW S \in SUBSET Subnets, RecordOutboundSubnets(S) \/ SetOutboundSubnets(S)
        PROVE  Held'
    <2>1. CASE RecordOutboundSubnets(S)
      BY <2>1, RecordHolds DEF RecordOutboundSubnets, Held, Typed
    <2>2. QED
      BY <1>6, <2>1, SubnetsHold
  <1>7. ASSUME NEW p \in Ports, SetAllowedPort(p) PROVE Held'
    <2>1. CASE enabled
      BY <1>7, <2>1, AllowedHold DEF SetAllowedPort
    <2>2. CASE ~enabled
      BY <1>7, <2>2, RecordHolds DEF SetAllowedPort, PortsOnly, Held, Typed
    <2>3. QED
      BY <2>1, <2>2
  <1>8. ASSUME NEW p \in Ports, RemoveAllowedPort(p) PROVE Held'
    <2>1. CASE enabled
      BY <1>8, <2>1, AllowedHold DEF RemoveAllowedPort
    <2>2. CASE ~enabled
      BY <1>8, <2>2, RecordHolds DEF RemoveAllowedPort, PortsOnly, Held, Typed
    <2>3. QED
      BY <2>1, <2>2
  <1>9. ASSUME NEW s \in Ports, NEW d \in Ports \cup {0}, RecordRedirection(s, d) PROVE Held'
    <2>1. IsFiniteSet(redirected') /\ redirected' \subseteq Ports
      BY <1>9, FS_AddElement, FS_RemoveElement DEF RecordRedirection, Held, Typed
    <2>2. QED
      BY <1>9, <2>1, RecordHolds DEF RecordRedirection, PortsOnly, Held, Typed
  <1>10. ASSUME NEW s \in Ports, NEW d \in Ports \cup {0}, RedirectPort(s, d) PROVE Held'
    BY <1>10, RedirectHolds
  <1>11. QED
    BY <1>1, <1>2, <1>3, <1>4, <1>5, <1>6, <1>7, <1>8, <1>9, <1>10 DEF Next

\* The rules that what is recorded calls for, one kind after the other.
LEMMA WantedAre ==
  ASSUME NEW r
  PROVE  r \in Wanted <=>
            \/ r \in BaseRules
            \/ vpnConnection # NoConnection /\ \E i \in 1..Len(Routes) : r \in VPNRule(Routes[i], vpnConnection)
            \/ vpnIntf # NoInterface /\ r \in IntfRules(vpnIntf)
            \/ \E x \in Serving(outboundSubnets) : r \in SubnetRule(Routes[x[1]], x[2])
            \/ Allowed(r)
            \/ Redirecting(r) # {}
  <1>1. Allowed(r) <=> \E p \in allowedInputPorts : r \in InputRules(p)
    BY DEF Allowed
  <1>2. Redirecting(r) # {} <=> \E s \in redirected : r \in RedirectRules(s, portRedirections[s])
    BY DEF Redirecting
  <1>3. r \in Wanted <=>
            \/ r \in BaseRules
            \/ r \in (IF vpnConnection = NoConnection THEN {}
                     ELSE UNION {VPNRule(Routes[i], vpnConnection) : i \in 1..Len(Routes)})
            \/ r \in (IF vpnIntf = NoInterface THEN {} ELSE IntfRules(vpnIntf))
            \/ \E x \in Serving(outboundSubnets) : r \in SubnetRule(Routes[x[1]], x[2])
            \/ \E p \in allowedInputPorts : r \in InputRules(p)
            \/ \E s \in redirected : r \in RedirectRules(s, portRedirections[s])
    BY DEF Wanted
  <1>4. r \in (IF vpnConnection = NoConnection THEN {}
              ELSE UNION {VPNRule(Routes[i], vpnConnection) : i \in 1..Len(Routes)})
        <=> vpnConnection # NoConnection /\ \E i \in 1..Len(Routes) : r \in VPNRule(Routes[i], vpnConnection)
    OBVIOUS
  <1>5. QED
    BY <1>1, <1>2, <1>3, <1>4

\* What is recorded is in force.
LEMMA HeldInForce == Held => RecordedInForce
  <1> SUFFICES ASSUME Held, enabled,
                      NEW r \in Wanted \ (IF wasDisabled THEN IntfRules(vpnIntf) ELSE {})
               PROVE  r \in DOMAIN rules
    BY DEF RecordedInForce, BagToSet
  <1>1. CASE r \in BaseRules
    BY <1>1 DEF Held, BaseHeld
  <1>2. CASE vpnConnection # NoConnection /\ \E i \in 1..Len(Routes) : r \in VPNRule(Routes[i], vpnConnection)
    BY <1>2 DEF Held, VPNHeld
  <1>3. CASE vpnIntf # NoInterface /\ r \in IntfRules(vpnIntf)
    BY <1>3 DEF Held, IntfHeld
  <1>4. CASE \E x \in Serving(outboundSubnets) : r \in SubnetRule(Routes[x[1]], x[2])
    BY <1>4 DEF Held, SubnetsHeld
  <1>5. CASE Allowed(r) \/ Redirecting(r) # {}
    <2>1. r[1] \in PortKinds
      BY <1>5, Kinds DEF PortKinds, Allowed, Redirecting
    <2>2. IsFiniteSet(Redirecting(r)) /\ Cardinality(Redirecting(r)) \in Nat
      BY ForPortsType DEF Held
    <2>3. Cardinality(Redirecting(r)) = 0 <=> Redirecting(r) = {}
      BY <2>2, FS_EmptySet
    <2>4. ForPorts(r) > 0
      BY <1>5, <2>2, <2>3 DEF ForPorts
    <2>5. Copies(r, rules) >= ForPorts(r) /\ Copies(r, rules) \in Nat
      BY <2>1, CopiesType DEF Held, PortsHeld, Typed
    <2>6. QED
      BY <2>2, <2>4, <2>5, CopiesType DEF Held, Typed, ForPorts
  <1>6. QED
    BY <1>1, <1>2, <1>3, <1>4, <1>5, WantedAre

\* Nothing else is, while no command has failed.
LEMMA HeldNothingMore == Held => NothingMore
  <1> SUFFICES ASSUME Held, enabled, nFaults = 0, NEW r \in DOMAIN rules
               PROVE  r \in Wanted \cup lent
    BY DEF NothingMore, BagToSet
  <1>1. rules[r] \in Nat /\ rules[r] > 0 /\ Copies(r, rules) = rules[r]
    BY DEF Held, Typed, IsABag, Copies
  <1>2. CASE r[1] \in BaseKinds
    BY <1>2, WantedAre DEF Held, BaseHeld
  <1>3. CASE r[1] = "lent"
    BY <1>3 DEF Held, LentHeld, OfKind
  <1>4. CASE r[1] = "vpn"
    <2>1. vpnConnection # NoConnection /\ rules[r] <= Cardinality(VPNFor(vpnConnection, r))
      BY <1>4 DEF Held, VPNHeld, OfKind
    <2>2. VPNFor(vpnConnection, r) = {} => Cardinality(VPNFor(vpnConnection, r)) = 0
      BY FS_EmptySet
    <2>3. QED
      BY <1>1, <2>1, <2>2, WantedAre DEF VPNFor
  <1>5. CASE r[1] = "intf"
    BY <1>5, WantedAre DEF Held, IntfHeld, OfKind
  <1>6. CASE r[1] = "subnet"
    <2>1. rules[r] <= Cardinality(SubnetsFor(outboundSubnets, r))
      BY <1>6 DEF Held, SubnetsHeld, OfKind
    <2>2. SubnetsFor(outboundSubnets, r) = {} => Cardinality(SubnetsFor(outboundSubnets, r)) = 0
      BY FS_EmptySet
    <2>3. QED
      BY <1>1, <2>1, <2>2, WantedAre DEF SubnetsFor
  <1>7. CASE r[1] \in PortKinds
    <2>1. rules[r] <= ForPorts(r)
      BY <1>1, <1>7 DEF Held, PortsHeld
    <2>2. Redirecting(r) = {} => Cardinality(Redirecting(r)) = 0
      BY FS_EmptySet
    <2>3. Allowed(r) \/ Redirecting(r) # {}
      BY <1>1, <2>1, <2>2 DEF ForPorts
    <2>4. QED
      BY <2>3, WantedAre
  <1>8. r[1] \in AllKinds
    BY DEF Held, KindsHeld
  <1>9. QED
    BY <1>2, <1>3, <1>4, <1>5, <1>6, <1>7, <1>8 DEF AllKinds

(* Whatever Config records has its rules in force while the firewall is enabled,  *)
(* whatever failed on the way (firewall/vpn.go, outboundsubnets.go, ports.go and *)
(* redirect.go record a change once its rules are in).                      *)
THEOREM RecordedAlwaysInForce == Spec => []RecordedInForce
  <1>1. Init => Held /\ Restorable
    BY InitHolds, InitRestorable
  <1>2. Held /\ Restorable /\ [Next]_vars => (Held /\ Restorable)'
    BY NextHolds, NextRestorable
  <1>3. QED
    BY <1>1, <1>2, HeldInForce, PTL DEF Spec

(* While no command has failed for a reason of its own, no rule is in force but    *)
(* those of what is recorded and those lent: each setter takes out as many copies *)
(* of a rule as there are (firewall/vpn.go, iptables/delete.go).               *)
THEOREM NothingMoreInForce == Spec => []NothingMore
  <1>1. Init => Held /\ Restorable
    BY InitHolds, InitRestorable
  <1>2. Held /\ Restorable /\ [Next]_vars => (Held /\ Restorable)'
    BY NextHolds, NextRestorable
  <1>3. QED
    BY <1>1, <1>2, HeldNothingMore, PTL DEF Spec
=====
