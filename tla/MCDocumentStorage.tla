--------------------------- MODULE MCDocumentStorage ---------------------------
(***************************************************************************)
(* Instances of DocumentStorage for TLC.                                   *)
(***************************************************************************)
EXTENDS DocumentStorage, TLC

CONSTANTS d1, c1, c2, c3

OneDoc == {d1}
ThreeDeletes == {c1, c2, c3}
AllOfOne == [c \in Deletes |-> d1]

AllFaults == FaultKinds

Symmetric == Permutations(ThreeDeletes)
=============================================================================
