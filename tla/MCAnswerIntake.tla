-------------------------- MODULE MCAnswerIntake --------------------------
(* Values for the constants of AnswerIntake that a .cfg cannot write down. *)
EXTENDS AnswerIntake, TLC

CONSTANTS c1, c2, c3, u1, u2

TwoCalls   == {c1, c2}
ThreeCalls == {c1, c2, c3}
OneUser    == {u1}
TwoUsers   == {u1, u2}

AllOps == OpNames

Symmetry == Permutations(Calls)
=============================================================================
