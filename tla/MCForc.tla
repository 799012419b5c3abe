------------------------------- MODULE MCForc -------------------------------
(* Symmetry for the model values of Forc.                                  *)
EXTENDS Forc, TLC

FSymmetry ==
  Permutations(Threads) \cup Permutations(VMs) \cup Permutations(Playbooks)
    \cup Permutations(Templates)
=============================================================================
