--------------------------- MODULE MCLiveSession ---------------------------
(* Values for the constants of LiveSession that a .cfg cannot write down.  *)
EXTENDS LiveSession, TLC

CONSTANTS c1, c2, c3

OneCall    == {c1}
TwoCalls   == {c1, c2}
ThreeCalls == {c1, c2, c3}

AllOps == OpNames

Symmetry == Permutations(Calls)

\* Behaviours are not followed beyond the first lost update.
NothingLost == ~lost
=============================================================================
