------------------------------- MODULE MCQuota -------------------------------
(* A small instance of Quota for TLC.                                      *)
EXTENDS Quota, TLC

\* Two keys: one bound by its requests, one by its tokens.
TwoKeys == {[rpm |-> 1, tpm |-> 3], [rpm |-> 2, tpm |-> 3]}

QuotaSymmetry == Permutations(Requests) \cup Permutations(Distributed)
=============================================================================
