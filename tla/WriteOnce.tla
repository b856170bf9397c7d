------------------------------ MODULE WriteOnce ------------------------------
(***************************************************************************)
(* What a store of immutable artifacts promises: a manifest appears under  *)
(* its identity once, whole, and is never altered or removed.              *)
(***************************************************************************)
VARIABLE registry    \* the manifests that are published, by identity

Init == registry = <<>>

Publish(id, manifest) ==
    /\ id \notin DOMAIN registry
    /\ registry' = [i \in DOMAIN registry \cup {id} |-> IF i = id THEN manifest ELSE registry[i]]

Next == \E id \in DOMAIN registry' : Publish(id, registry'[id])

Spec == Init /\ [][Next]_registry
=============================================================================
