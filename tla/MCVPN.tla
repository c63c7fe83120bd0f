------------------------------- MODULE MCVPN -------------------------------
(* Small instances of VPN for TLC. *)
EXTENDS VPN, TLC

Symmetry == Permutations(Users) \cup Permutations(Tasks)
=============================================================================
