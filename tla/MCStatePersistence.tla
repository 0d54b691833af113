------------------------ MODULE MCStatePersistence ------------------------
(* Values for the constants of StatePersistence that a .cfg cannot write. *)
EXTENDS StatePersistence

CONSTANTS i1, i2, c1, c2, p1, p2

TwoItems == {i1, i2}
TwoCalls == {c1, c2}
TwoRuns  == {p1, p2}
===========================================================================
