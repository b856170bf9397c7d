-------------------------- MODULE MCNormalizedStore --------------------------
(***************************************************************************)
(* Small instances of NormalizedStore.                                     *)
(***************************************************************************)
EXTENDS NormalizedStore, TLC

CONSTANTS w1, w2, r1, r2, r3, r4, a, b, c, x, y

Symmetry ==
    Permutations(Writers) \cup Permutations(Runs) \cup Permutations(Keys) \cup Permutations(Values)

=============================================================================
