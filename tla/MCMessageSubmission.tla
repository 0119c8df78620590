------------------------- MODULE MCMessageSubmission -------------------------
(***************************************************************************)
(* Instances of MessageSubmission for TLC.                                 *)
(***************************************************************************)
EXTENDS MessageSubmission

CONSTANTS s1, s2, q1

TwoSends == {s1, s2}
Questions == {q1}

\* Every send asks the same.
SameQuestion == [s \in Sends |-> q1]
=============================================================================
