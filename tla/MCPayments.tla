----------------------------- MODULE MCPayments -----------------------------
(* Values for the constants of Payments that a .cfg cannot write down. *)
EXTENDS Payments, TLC

CONSTANTS o1, o2, a1, a2, h1, h2, v1

OneOrder    == {o1}
TwoOrders   == {o1, o2}
OneAttempt  == {a1}
TwoAttempts == {a1, a2}
OneHook     == {h1}
TwoHooks    == {h1, h2}
OneChecker  == {v1}
OneBuyer    == [o \in Orders |-> o1]

Symmetry == Permutations(Attempts) \cup Permutations(Hooks)
=============================================================================
