-------------------------- MODULE MCEthClaimManager --------------------------
(* Instances of EthClaimManager for TLC. *)
EXTENDS EthClaimManager, TLC

\* Sessions that are not legacy are interchangeable.
Symmetry == Permutations(Sessions \ Legacy)
=============================================================================
