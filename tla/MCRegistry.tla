------------------------------ MODULE MCRegistry ------------------------------
(* A small registry: three adapters of two identities, one of them written  *)
(* by hand with a descriptor its owner may edit.                            *)
EXTENDS RegistryRefinement, TLC

CONSTANTS c1, c2, c3, a1, a2, a3, nil, k1, k2, o1, o2

C(ops, sound, lookup) == [ops |-> ops, sound |-> sound, lookup |-> lookup]

\* a1 and a3 share an identity; a3 needs a Reconciler and has none after an
\* edit, and the edit of a2 renames an operation and breaks its descriptor.
MCIdent    == (a1 :> k1) @@ (a2 :> k2) @@ (a3 :> k1)
MCDeclares == (a1 :> {o1}) @@ (a2 :> {o1, o2}) @@ (a3 :> {})
MCInitial  == (a1 :> C({o1}, TRUE, TRUE)) @@ (a2 :> C({o1}, TRUE, FALSE))
                @@ (a3 :> C({o2}, TRUE, FALSE))
MCEdits    == (a1 :> {}) @@ (a2 :> {C({o2}, FALSE, FALSE)}) @@ (a3 :> {C({o2}, TRUE, TRUE)})
MCReconciles == {a1}
MCBatches == {<<>>, <<a2, a1>>, <<a3, a2, a2>>, <<a1, nil>>}
MCLiveBatches == {<<>>, <<a1, a2>>}
MCNoEdits == [a \in Adapter |-> {}]
MCCallerSymmetry == Permutations(Caller)
===============================================================================
