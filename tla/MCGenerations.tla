---------------------------- MODULE MCGenerations ----------------------------
(* Generations with two threads and small generations. *)
EXTENDS Generations, TLC

\* YOUNG and OLD are full with one object, PERM with two.
SmallSize == (Young :> 1) @@ (Old :> 1) @@ (Perm :> 2)

\* Threads and objects are interchangeable.
Symmetry == Permutations(Objects) \cup Permutations(Threads)
=============================================================================
