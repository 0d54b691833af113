-------------------------- MODULE MCPaymentRouter --------------------------
(* Values for the constants of PaymentRouter that a .cfg cannot write down. *)
EXTENDS PaymentRouter, TLC

CONSTANTS g1, g2, g3, r1, r2, s1, s2

ThreeGateways == {g1, g2, g3}
InLine        == g1 :> 1 @@ g2 :> 2 @@ g3 :> 3
OneRequest    == {r1}
TwoRequests   == {r1, r2}
OneSweep      == {s1}
TwoSweeps     == {s1, s2}
=============================================================================
