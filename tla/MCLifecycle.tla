----------------------------- MODULE MCLifecycle -----------------------------
(* Instances of Lifecycle for TLC.                                         *)
EXTENDS Lifecycle, TLC

CONSTANTS i1, i2, c1, c2

Symmetry == Permutations(Instances) \union Permutations(Clients)
=============================================================================
