----------------------------- MODULE MCShutdown -----------------------------
(* Symmetry for the model values of Shutdown.                              *)
EXTENDS Shutdown, TLC

Symmetry == Permutations(VMs) \cup Permutations(Playbooks)
=============================================================================
