-------------------------- MODULE MCTemplateUpdate --------------------------
(* Symmetry for the model values of TemplateUpdate.                        *)
EXTENDS TemplateUpdate, TLC

USymmetry == Permutations(Templates) \cup Permutations(VMs)
=============================================================================
