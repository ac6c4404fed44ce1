------------------------- MODULE MCSessionAdmission --------------------------
(* Instances of SessionAdmission for TLC. *)
EXTENDS SessionAdmission, TLC

\* Sessions, IP addresses and target addresses are interchangeable.
Symmetry == Permutations(Sessions) \union Permutations(Ips) \union Permutations(Addrs)
=============================================================================
