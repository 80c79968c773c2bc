---------------------------- MODULE MCBillingFeed ----------------------------
(* A small instance of BillingFeed for TLC.                                *)
EXTENDS BillingFeed, TLC

PollerSymmetry == Permutations(Pollers)

=============================================================================
