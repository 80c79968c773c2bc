------------------------------- MODULE Totals -------------------------------
(***************************************************************************)
(* Sums of amounts, as SQL's SUM over the rows a filter selects.  The sum  *)
(* of f over S is the number of pairs <<x, i>> with x in S and i in        *)
(* 1..f[x]: a definition without recursion, so that what an insertion or   *)
(* an update does to a sum can be proved for every set of rows.            *)
(***************************************************************************)
EXTENDS Integers, FiniteSets

CONSTANT MaxAmount          \* i64::MAX: every stored amount is an i64

ASSUME MaxAmountAssumption == MaxAmount \in Nat

\* A non-negative i64.
Amount == 0 .. MaxAmount

\* The unit pairs of the rows S.
Units(S, f) == {p \in S \X (1 .. MaxAmount) : p[2] <= f[p[1]]}

\* SUM(f) over the rows S (billing.rs `total`; no rows give 0).
Total(S, f) == Cardinality(Units(S, f))
=============================================================================
