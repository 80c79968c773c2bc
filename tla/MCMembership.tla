----------------------------- MODULE MCMembership -----------------------------
(* Small instances of Membership for TLC.                                  *)
EXTENDS Membership
=============================================================================
