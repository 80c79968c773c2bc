------------------------------ MODULE MCBilling ------------------------------
(* Instances of Billing for TLC. *)
EXTENDS Billing, TLC

\* Prices and token counts small enough that holds, budget and balance meet.
OnePrice == {[input |-> 1, output |-> 2]}
\* Under the first price version input is free: usage may cost nothing.
TokenPrices == {[input |-> 0, output |-> 3], [input |-> 1, output |-> 2]}
TokenCounts == {[input |-> 1, output |-> 0], [input |-> 0, output |-> 1]}

KeyBudget == [k \in Keys |-> 4]
NoBudget == [k \in Keys |-> 0]
OneCount == {[input |-> 1, output |-> 1]}

\* Every key has the same budget, and rows of either request look alike.
HoldSymmetry == Permutations(Keys) \cup Permutations(Requests)
ReviewSymmetry == Permutations(Reviews) \cup Permutations(Actors)
=============================================================================
