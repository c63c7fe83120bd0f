--------------------------- MODULE MCPortForward ---------------------------
(* Small instances of PortForward for TLC. *)
EXTENDS PortForward, TLC

CONSTANT InternalPort

\* Providers that forward a port to the same port.
Same == [p \in Ports |-> p]

\* ProtonVPN asks for a fixed internal port and is given any external one.
Fixed == [p \in Ports |-> InternalPort]

Symmetry == Permutations(Updaters) \cup Permutations(Setters) \cup Permutations(Ports)
=============================================================================
