----------------------------- MODULE MCPlaybooks -----------------------------
(* Symmetry for the model values of Playbooks.                             *)
EXTENDS Playbooks, TLC

Symmetry ==
  Permutations(Threads) \cup Permutations(VMs) \cup Permutations(Playbooks)
=============================================================================
