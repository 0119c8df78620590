--------------------------- MODULE MCConversationList ---------------------------
(* Instances of ConversationList for TLC. *)
EXTENDS ConversationList, TLC

CONSTANTS c1, c2, c3

MCConvs == {c1, c2, c3}

\* Conversations are interchangeable, and the run has no temporal property.
ConvSymmetry == Permutations(MCConvs)

=============================================================================
