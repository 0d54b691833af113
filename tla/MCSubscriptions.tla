-------------------------- MODULE MCSubscriptions --------------------------
(* Values for the constants of Subscriptions that a .cfg cannot write down. *)
EXTENDS Subscriptions, TLC

CONSTANTS s1, s2, o1, o2, g1, c1, c2, k1, k2

OneHost    == {s1}
TwoHosts   == {s1, s2}
NoOrder    == {}
OneOrder   == {o1}
TwoOrders  == {o1, o2}
NoMandate  == {}
OneMandate == {g1}
NoCall     == {}
OneClient  == {c1}
TwoClients == {c1, c2}
OneHook    == {k1}
TwoHooks   == {k1, k2}
FirstHost  == [g \in Mandates |-> s1]
ProPlan    == [g \in Mandates |-> "PRO"]

Symmetry == Permutations(Clients) \cup Permutations(Hooks)
=============================================================================
