--------------------------- MODULE MCRunCatalogTx ---------------------------
(***************************************************************************)
(* Two collectors finalize two runs over two entities, so that their       *)
(* upserts can meet in either order and wait for each other in a cycle.    *)
(***************************************************************************)
EXTENDS RunCatalogTx, TLC

CONSTANTS k1, k2, c1, c2, o1

Cand(e, o, v, a, i, h) ==
    [entity |-> e, observed |-> o, revision |-> v, available |-> a, ingested |-> i, hash |-> h]

\* Two entities; of the first an old observation that is highly revised, and a
\* newer one in two versions, of which availability decides against the hash.
TwoEntities ==
    {Cand(1, 1, 1, 2, 2, 3), Cand(1, 2, 0, 1, 2, 2), Cand(1, 2, 0, 2, 1, 1), Cand(2, 1, 0, 1, 1, 1)}

Symmetry == Permutations(RunKeys) \cup Permutations(Clients)

=============================================================================
