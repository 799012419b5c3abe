------------------------------ MODULE MCImages ------------------------------
(* A catalogue for Images: two images of one name, and a snapshot, which   *)
(* may become a worker image.                                              *)
EXTENDS Images, TLC

CONSTANTS old, new, snap, jammy, custom, v22

Image(n, v, d, s, snapshot, created) ==
  [name |-> n, version |-> v, distro |-> d, slurm |-> s, snapshot |-> snapshot,
   created |-> created]

MCInfo ==
  (old :> Image(jammy, v22, Ubuntu, Unset, FALSE, 1)) @@
  (new :> Image(jammy, v22, Unset, Unset, FALSE, 2)) @@
  (snap :> Image(custom, v22, Ubuntu, Unset, TRUE, 3))

MCMentioned == (jammy :> v22) @@ (custom :> Unset)

Symmetry == Permutations(Threads)
=============================================================================
