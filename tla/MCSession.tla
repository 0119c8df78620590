------------------------------- MODULE MCSession -------------------------------
(***************************************************************************)
(* Instances of Session for TLC.                                           *)
(***************************************************************************)
EXTENDS Session, TLC

CONSTANTS ana, bo, r1, r2, l1, l2, q1

TwoPeople == {ana, bo}
OnlyBo == {bo}
TwoRegistrations == {r1, r2}
BothAna == [r \in Registrations |-> ana]
TwoLogins == {l1, l2}
AnaThenBo == [l \in Logins |-> IF l = l1 THEN ana ELSE bo]
OneRequest == {q1}
=============================================================================
