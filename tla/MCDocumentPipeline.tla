------------------------- MODULE MCDocumentPipeline -------------------------
(***************************************************************************)
(* Instances of DocumentPipeline for TLC.                                  *)
(***************************************************************************)
EXTENDS DocumentPipeline, TLC

CONSTANTS d1, p1, p2, i1, i2

OneDoc == {d1}

Process2 == {p1, p2}
Index1 == {i1}

AllOnOneDoc == [c \in Calls |-> d1]

NoFaults == {}
AllFaults == FaultKinds
DatabaseFaults == {"dbError"}

\* Calls of one kind on one document are interchangeable.
Symmetric == Permutations(Process2)
=============================================================================
