--------------------------- MODULE TotalsTheorems ---------------------------
(* What inserting, removing or updating a row does to a sum. *)
EXTENDS Totals, FiniteSetTheorems, TLAPS

(***************************************************************************)
(* A sum over finitely many rows is a natural number.                      *)
(***************************************************************************)
LEMMA TotalType ==
    ASSUME NEW S, NEW f, IsFiniteSet(S)
    PROVE  IsFiniteSet(Units(S, f)) /\ Total(S, f) \in Nat
<1>1. IsFiniteSet(1 .. MaxAmount)
  BY FS_Interval, MaxAmountAssumption
<1>2. IsFiniteSet(S \X (1 .. MaxAmount))
  BY <1>1, FS_Product
<1>3. Units(S, f) \in SUBSET (S \X (1 .. MaxAmount))
  BY DEF Units
<1>4. IsFiniteSet(Units(S, f))
  BY <1>2, <1>3, FS_Subset
<1> QED
  BY <1>4, FS_CardinalityType DEF Total

(***************************************************************************)
(* A sum depends only on the amounts of its rows.                          *)
(***************************************************************************)
LEMMA TotalSame ==
    ASSUME NEW S, NEW f, NEW g, \A x \in S : f[x] = g[x]
    PROVE  Total(S, f) = Total(S, g)
<1>1. Units(S, f) = Units(S, g)
  BY DEF Units
<1> QED
  BY <1>1 DEF Total

(***************************************************************************)
(* The units of one row.                                                   *)
(***************************************************************************)
LEMMA TotalOne ==
    ASSUME NEW x, NEW f, f[x] \in Amount
    PROVE  Total({x}, f) = f[x]
<1> DEFINE n == f[x]
           h == [i \in 1 .. n |-> <<x, i>>]
<1>1. n \in Nat /\ n <= MaxAmount
  BY MaxAmountAssumption DEF Amount
<1>2. Units({x}, f) = {<<x, i>> : i \in 1 .. n}
  BY <1>1, MaxAmountAssumption DEF Units
<1>3. h \in Bijection(1 .. n, Units({x}, f))
  <2>1. h \in [1 .. n -> Units({x}, f)]
    BY <1>2
  <2>2. \A i, j \in 1 .. n : h[i] = h[j] => i = j
    OBVIOUS
  <2>3. \A u \in Units({x}, f) : \E i \in 1 .. n : h[i] = u
    BY <1>2
  <2> HIDE DEF h
  <2> QED
    BY <2>1, <2>2, <2>3 DEF Bijection, Injection, IsInjective, Surjection
<1>4. ExistsBijection(1 .. n, Units({x}, f))
  BY <1>3 DEF ExistsBijection
<1> QED
  BY <1>1, <1>4, FS_CountingElements DEF Total

(***************************************************************************)
(* Inserting a row adds its amount.                                        *)
(***************************************************************************)
LEMMA TotalInsert ==
    ASSUME NEW S, NEW x, NEW f, IsFiniteSet(S), x \notin S, f[x] \in Amount
    PROVE  Total(S \cup {x}, f) = Total(S, f) + f[x]
<1>1. Units(S \cup {x}, f) = Units(S, f) \cup Units({x}, f)
  BY DEF Units
<1>2. Units(S, f) \cap Units({x}, f) = {}
  BY DEF Units
<1>3. IsFiniteSet(Units(S, f)) /\ Total(S, f) \in Nat
  BY TotalType
<1>4. IsFiniteSet(Units({x}, f)) /\ Total({x}, f) \in Nat
  BY TotalType, FS_Singleton
<1>5. Cardinality(Units(S, f) \cup Units({x}, f))
        = Cardinality(Units(S, f)) + Cardinality(Units({x}, f))
          - Cardinality(Units(S, f) \cap Units({x}, f))
  BY <1>3, <1>4, FS_Union
<1>6. Cardinality(Units(S, f) \cap Units({x}, f)) = 0
  BY <1>2, FS_EmptySet
<1>7. Total({x}, f) = f[x]
  BY TotalOne
<1>8. Total(S \cup {x}, f) = Total(S, f) + Total({x}, f) - 0
  BY <1>1, <1>5, <1>6 DEF Total
<1> QED
  BY <1>3, <1>4, <1>7, <1>8

\* What the row x contributes to the sum over S.
Part(S, f, x) == IF x \in S THEN f[x] ELSE 0

(***************************************************************************)
(* Changing one row, in its membership or in its amount, changes the sum   *)
(* by the difference of its contributions.                                 *)
(***************************************************************************)
LEMMA TotalUpdate ==
    ASSUME NEW S, NEW T, NEW x, NEW f, NEW g,
           IsFiniteSet(S), IsFiniteSet(T),
           S \ {x} = T \ {x}, \A y \in S \ {x} : f[y] = g[y],
           x \in S => f[x] \in Amount,
           x \in T => g[x] \in Amount
    PROVE  Total(T, g) = Total(S, f) - Part(S, f, x) + Part(T, g, x)
<1> DEFINE U == S \ {x}
<1>1. IsFiniteSet(U) /\ U \in SUBSET S
  BY FS_Subset
<1>2. Total(U, f) = Total(U, g)
  BY TotalSame
<1>3. Total(U, f) \in Nat
  BY <1>1, TotalType
<1>4. x \notin U /\ (x \in S => S = U \cup {x}) /\ (x \notin S => S = U)
  OBVIOUS
<1>5. (x \in T => T = U \cup {x}) /\ (x \notin T => T = U)
  OBVIOUS
<1> HIDE DEF U
<1>6. Total(S, f) = Total(U, f) + Part(S, f, x)
  <2>1. CASE x \in S
    BY <2>1, <1>1, <1>4, TotalInsert DEF Part
  <2>2. CASE x \notin S
    BY <2>2, <1>3, <1>4 DEF Part
  <2> QED
    BY <2>1, <2>2
<1>7. Total(T, g) = Total(U, g) + Part(T, g, x)
  <2>1. CASE x \in T
    BY <2>1, <1>1, <1>4, <1>5, TotalInsert DEF Part
  <2>2. CASE x \notin T
    BY <2>2, <1>2, <1>3, <1>5 DEF Part
  <2> QED
    BY <2>1, <2>2
<1>8. Part(S, f, x) \in Int /\ Part(T, g, x) \in Int
  BY MaxAmountAssumption DEF Part, Amount
<1> QED
  BY <1>2, <1>3, <1>6, <1>7, <1>8

(***************************************************************************)
(* Rows that count for less, and fewer rows, sum to less.                  *)
(***************************************************************************)
LEMMA TotalMonotone ==
    ASSUME NEW S, NEW f, NEW g, IsFiniteSet(S),
           \A x \in S : f[x] \in Int /\ g[x] \in Int /\ f[x] <= g[x]
    PROVE  Total(S, f) <= Total(S, g)
<1>1. Units(S, f) \in SUBSET Units(S, g)
  <2>1. SUFFICES ASSUME NEW p \in Units(S, f)
                 PROVE  p \in Units(S, g)
    OBVIOUS
  <2>2. p \in S \X (1 .. MaxAmount) /\ p[2] <= f[p[1]]
    BY DEF Units
  <2>3. p[1] \in S /\ p[2] \in Int
    BY <2>2
  <2> QED
    BY <2>2, <2>3 DEF Units
<1>2. IsFiniteSet(Units(S, g))
  BY TotalType
<1> QED
  BY <1>1, <1>2, FS_Subset DEF Total

\* A part of a set has no greater total.
LEMMA TotalSubset ==
    ASSUME NEW T, NEW S \in SUBSET T, NEW f, IsFiniteSet(T)
    PROVE  Total(S, f) <= Total(T, f)
<1>1. Units(S, f) \in SUBSET Units(T, f)
  BY DEF Units
<1>2. IsFiniteSet(Units(T, f))
  BY TotalType
<1> QED
  BY <1>1, <1>2, FS_Subset DEF Total
=============================================================================
