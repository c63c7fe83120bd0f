----------------------------- MODULE MCFirewall -----------------------------
(* A container on one network with both families, for TLC. *)
EXTENDS Firewall

CONSTANTS c4, c6, s4, s6

Families46 == [x \in {c4, c6, s4, s6} |-> IF x \in {c4, s4} THEN 4 ELSE 6]

\* The same interface has the default route of each family.
Eth0 == <<[intf |-> "eth0", family |-> 4], [intf |-> "eth0", family |-> 6]>>
=============================================================================
