------------------------------ MODULE MCRagAnswer ------------------------------
(* Instances of RagAnswer for TLC. *)
EXTENDS RagAnswer, TLC

CONSTANTS r1, r2, r3, d1, d2, a1, a2, b1, far, near

MCRequests == {r1, r2, r3}
MCKind == (r1 :> "chat") @@ (r2 :> "search") @@ (r3 :> "search")
MCDocs == {d1, d2}
MCChunks == {a1, a2, b1}
MCDocOf == (a1 :> d1) @@ (a2 :> d1) @@ (b1 :> d2)
MCScope == (r1 :> MCDocs) @@ (r2 :> MCDocs) @@ (r3 :> {d1})
MCQuestions == {far, near}
MCRanked == (far :> <<b1, a1, a2>>) @@ (near :> <<a1, a2, b1>>)
MCClose == (far :> {b1, a1}) @@ (near :> MCChunks)

\* Two of the three fit, but a1 and a2 only without what separates them.
MCCost == (a1 :> 3) @@ (a2 :> 3) @@ (b1 :> 2)

=============================================================================
