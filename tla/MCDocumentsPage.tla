---------------------------- MODULE MCDocumentsPage ----------------------------
(* Instances of DocumentsPage for TLC. *)
EXTENDS DocumentsPage, TLC

CONSTANTS d1, d2, d3, t1, t2

MCDocs == {d1, d2, d3}
MCUploaded == <<d1, d2>>
MCTasks == {t1, t2}

\* Tasks are interchangeable, and the run has no temporal property.
TaskSymmetry == Permutations(MCTasks)

=============================================================================
