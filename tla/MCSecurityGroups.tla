-------------------------- MODULE MCSecurityGroups --------------------------
(* Symmetry for the model values of SecurityGroups.                        *)
EXTENDS SecurityGroups, TLC

Symmetry ==
  Permutations(Threads) \cup Permutations(Servers) \cup Permutations(Groups)
=============================================================================
