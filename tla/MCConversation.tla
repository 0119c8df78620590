---------------------------- MODULE MCConversation ----------------------------
(***************************************************************************)
(* Instances of Conversation for TLC.                                      *)
(***************************************************************************)
EXTENDS Conversation, TLC

CONSTANTS v1, p1, p2, p3, d1, d2

OneConversation == {v1}
ThreePosts == {p1, p2, p3}
TwoDocs == {d1, d2}

AllInOne == [p \in Posts |-> v1]
\* The first question asks the whole library, the others one document.
FirstAsksAll == [p \in Posts |-> IF p = p1 THEN Docs ELSE {d1}]

Symmetric == Permutations({p2, p3})
=============================================================================
