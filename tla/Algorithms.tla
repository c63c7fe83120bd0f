----------------------------- MODULE Algorithms -----------------------------
(***************************************************************************)
(* The pure algorithms of gluetun, each with what it must compute: a state is  *)
(* the input of one of them, and every input of the instance is a state.      *)
(***************************************************************************)
EXTENDS Iptables, FiniteSets

CONSTANTS
    Words       \* small sets of words for the instructions of Iptables

VARIABLE input

None == [algorithm |-> "none"]

----------------------------- (* iptables rules *) ----------------------------

\* The instructions that may be deleted.
Deletable(remove) ==
    {OutputThroughInterface(i, remove) : i \in Words.intfs}
    \cup {OutputTrafficToVPN(i, a, pr, po, remove) :
             i \in Words.intfs, a \in Words.ips, pr \in {"tcp", "udp"}, po \in Words.ports}
    \cup {OutputFromIPToSubnet(i, a, b, remove) :
             i \in Words.intfs \cup {"*"}, a \in Words.ips, b \in Words.ips}
    \cup {InputToPort(i, pr, po, remove) :
             i \in Words.intfs \cup {"*"}, pr \in {"tcp", "udp"}, po \in Words.ports}
    \cup {Redirection(i, pr, p, q, remove) :
             i \in Words.intfs \cup {"*"}, pr \in {"tcp", "udp"}, p \in Words.ports, q \in Words.ports}
    \cup {DropRST(a, p, b, q, "0x1", remove) :
             a \in Words.ips, b \in Words.ips, p \in Words.ports, q \in Words.ports}

Rules == Deletable(FALSE) \cup {InputToSubnet(i, a) : i \in Words.intfs \cup {"*"}, a \in Words.ips}

PickDeletion ==
    \E d \in Deletable(TRUE) : input' = [algorithm |-> "delete", words |-> d]

\* The same instruction with the other verb.
Added(d) == [k \in DOMAIN d |-> IF d[k] = "--delete" THEN "--append" ELSE d[k]]

(* A deletion finds the rule it names, and no other rule the program adds:     *)
(* otherwise a closed port stays open or another rule goes (iptables/parse.go  *)
(* equalToRule, against the listing iptables prints).                       *)
DeletesThatRule ==
    input.algorithm = "delete" =>
        /\ IsDeleteMatch(input.words) /\ ParseInstruction(input.words).ok
        /\ \A r \in Rules : (FindLineNumber(input.words, <<r>>) = 1) <=> (r = Added(input.words))

Failures == {"none", "add", "denied", "delete", "list", "unreadable", "policy"}

PickSupport ==
    \E f4 \in [1..3 -> Failures], f6 \in [1..2 -> Failures] :
        input' = [algorithm |-> "support", v4 |-> f4, v6 |-> f6]

(* "this is a critical error, we want to make sure our test rule gets removed": *)
(* when a firewall is made, no test rule is left in any table tried, every     *)
(* path before the chosen one fails and the chosen one does not.             *)
NoTestRuleLeft ==
    input.algorithm = "support" =>
        LET made == New(input.v4, input.v6) IN
        made.ok => /\ \A k \in made.tested4 : input.v4[k] # "delete"
                   /\ \A k \in made.tested6 : input.v6[k] # "delete"
                   /\ input.v4[made.ip4] = "none"
                   /\ made.ip6 # 0 => input.v6[made.ip6] = "none"
                   /\ made.ip6 = 0 => \A k \in 1..2 : input.v6[k] # "none"

------------------------------------------------------------------------------

Init == input = None

Next == input = None /\ (PickDeletion \/ PickSupport)

Spec == Init /\ [][Next]_input
=============================================================================
