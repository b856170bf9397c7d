-------------------------- MODULE MCPriceCollection --------------------------
(***************************************************************************)
(* Small instances of PriceCollection.                                     *)
(***************************************************************************)
EXTENDS PriceCollection

CONSTANTS MCSecurities, MCSessions

\* The second run may see the latest session of the first security revised.
MCCandidates ==
    {[entity |-> s, observed |-> d, revision |-> 0, available |-> k, ingested |-> k, hash |-> v] :
        s \in MCSecurities, d \in MCSessions, k \in RunKeys, v \in {0}}
    \cup {[entity |-> 1, observed |-> 2, revision |-> 0, available |-> 2, ingested |-> 2, hash |-> 1]}

=============================================================================
