------------------------------ MODULE MCProgram ------------------------------
(* The program as a whole, its servers data, its routing and its algorithms on    *)
(* small inputs: a behaviour is that of the one `which` names, over the variable    *)
(* it calls its own.                                                          *)
EXTENDS Naturals, Sequences, FiniteSets

CONSTANTS MaxLate, MaxTime, MaxUpdates, MaxWriteFaults, MaxEdits, DefaultFamilies, Subnets, MaxKernelFaults,
    Hosts, Addresses, MaxFails, MaxNoNew, HostFails, Streams, MaxLines

VARIABLES which, s

vars == <<which, s>>

SmallWords == [intfs |-> {"eth0", "tun0"}, ips |-> {"a", "b"}, ports |-> {"1", "2"}]
\* One default route, one for each family, and two of one.
SmallDefaults == {<<4>>, <<4, 6>>, <<4, 4>>}
TwoSubnets == <<[name |-> "a", family |-> 4], [name |-> "b", family |-> 6]>>

A == INSTANCE Algorithms WITH input <- s, Words <- SmallWords
M == INSTANCE Startup WITH m <- s
S == INSTANCE Storage WITH st <- s, MaxFaults <- MaxWriteFaults
K == INSTANCE Routing WITH k <- s, MaxFaults <- MaxKernelFaults
R == INSTANCE Resolver WITH r <- s
C == INSTANCE Commands WITH c <- s

ASSUME ProgramConstants ==
    /\ M!StartupConstants /\ S!StorageConstants /\ K!RoutingConstants
    /\ R!ResolverConstants /\ C!CommandsConstants

Init ==
    \/ which = "algorithms" /\ A!Init
    \/ which = "main" /\ M!StartupInit
    \/ which = "storage" /\ S!StorageInit
    \/ which = "routing" /\ K!RoutingInit
    \/ which = "resolver" /\ R!ResolverInit
    \/ which = "command" /\ C!CommandsInit

Next ==
    \/ which = "algorithms" /\ A!Next /\ UNCHANGED which
    \/ which = "main" /\ M!StartupNext /\ UNCHANGED which
    \/ which = "storage" /\ S!StorageNext /\ UNCHANGED which
    \/ which = "routing" /\ K!RoutingNext /\ UNCHANGED which
    \/ which = "resolver" /\ R!ResolverNext /\ UNCHANGED which
    \/ which = "command" /\ C!CommandsNext /\ UNCHANGED which

\* The fairness of each, as its module states it.
Fairness ==
    /\ WF_vars(which = "main" /\ M!MainStep /\ M!Step # "run" /\ UNCHANGED which)
    /\ WF_vars(which = "main" /\ M!Returned /\ UNCHANGED which)
    /\ WF_vars(which = "main" /\ M!GraceOver /\ UNCHANGED which)
    /\ \A v \in M!Servers : WF_vars(which = "main" /\ (M!Listens(v) \/ M!ListenFails(v)) /\ UNCHANGED which)
    /\ \A h \in Hosts :
          /\ WF_vars(which = "resolver" /\ R!Goroutine(h) /\ UNCHANGED which)
          /\ WF_vars(which = "resolver" /\ R!Timeout(h) /\ UNCHANGED which)
    /\ WF_vars(which = "command" /\ C!Goroutines /\ UNCHANGED which)
    /\ WF_vars(which = "command" /\ C!StreamEnds /\ UNCHANGED which)
    /\ WF_vars(which = "command" /\ s.ctx /\ C!Exits /\ UNCHANGED which)

Spec == Init /\ [][Next]_vars /\ Fairness

\* The state of each part is of its type.
ProgramTypeOK ==
    /\ which = "main" => M!StartupTypeOK
    /\ which = "storage" => S!StorageTypeOK
    /\ which = "routing" => K!RoutingTypeOK
    /\ which = "resolver" => R!ResolverTypeOK
    /\ which = "command" => C!CommandsTypeOK

(* A deletion hits the rule it names and no other, and the rule that tests an iptables *)
(* program does not stay (firewall/iptables/delete.go and support.go).               *)
RulesAsNamed == which = "algorithms" => A!DeletesThatRule /\ A!NoTestRuleLeft

(* Whatever failed, what was done is undone or recorded: the services of a program that *)
(* ends were told to, its routing is torn down, a subnet that is recorded has its       *)
(* routes, no goroutine of a child process is left, and none of a resolution sends on    *)
(* a channel that is closed (main.go, internal/routing, command, updater/resolver).       *)
EndsClean ==
    /\ which = "main" => M!AllTold /\ M!RoutingUndone
    /\ which = "routing" => K!NothingLeft /\ K!RecordedIsThere
    /\ which = "command" => C!NoneLeft
    /\ which = "resolver" => R!NoLateSend

(* Servers are not lost: what was saved is used at the next start, over crashes and      *)
(* upgrades, what the user asked to keep is kept, and an address that was found is        *)
(* given (internal/storage, updater/resolver).                                        *)
ServersSurvive ==
    /\ which = "storage" => S!UpdatesSurvive /\ S!KeptSurvive
    /\ which = "resolver" => R!FoundIsGiven

(* The VPN is started or the program ends, unless a server it waits for cannot listen;    *)
(* a resolution returns whatever the servers answer; a process that ends is reported,      *)
(* unless its output and the VPN loop wait for each other (main.go, resolver, openvpn).     *)
ProgramGoesOn ==
    /\ which = "main" /\ s.main = "wait"
       ~> which = "main" /\ (s.vpnUp \/ s.main = "exited" \/ s.deaf # {})
    /\ which = "resolver" /\ s.resolve = "collecting" ~> which = "resolver" /\ s.resolve # "collecting"
    /\ which = "command" /\ s.process = "exited" ~> which = "command" /\ (s.run = "done" \/ C!Blocked)
=============================================================================
