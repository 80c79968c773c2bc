------------------------------ MODULE MCPayments ------------------------------
(* Small instances of Payments for TLC.                                    *)
EXTENDS Payments, TLC

TwoUnits == [o \in Orders |-> 2]

AllSymmetry == Permutations(Refunds) \cup Permutations(Orders)
                  \cup Permutations(Trades) \cup Permutations(Clients)

=============================================================================
