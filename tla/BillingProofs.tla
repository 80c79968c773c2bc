---------------------------- MODULE BillingProofs ----------------------------
(* Theorems about Billing, for every account, history and set of requests. *)
EXTENDS Billing, TotalsTheorems

-----------------------------------------------------------------------------
(* The tables of record.                                                   *)

\* Rows refer to rows: a reservation to its key, a review to its reservation
\* and, unless it is a waiver, to a usage.
RowsLinked ==
    /\ \A r \in Reservations : resv[r].state # "none" => resv[r].key \in Keys
    /\ \A v \in Reviews : review[v].state # "none" =>
          /\ review[v].reservation \in Reservations
          /\ ~review[v].waiver => review[v].usage \in Usages

\* What a row contributes to the holds of the account and of a key, and what
\* a usage row contributes to the spend of a key in a month.
HoldOf(row) == IF row.state \in Held THEN row.reserved ELSE 0
KeyHoldOf(row, k) == IF row.key = k THEN HoldOf(row) ELSE 0
SpendOf(row, k, m) == IF row.key = k /\ row.month = m THEN row.cost ELSE 0

\* The tables the projections sum over are finite.
LEMMA TablesFinite ==
    /\ IsFiniteSet(Reservations) /\ IsFiniteSet(UsageIds)
    /\ IsFiniteSet(TopUps) /\ IsFiniteSet(UsageIds \cup Debits)
  BY BillingAssumption, FS_Union DEF UsageIds

(***************************************************************************)
(* Every sum of history is an integer, and the non-signed ones naturals.   *)
(***************************************************************************)
LEMMA HistoryType ==
    /\ HistoricalBalance \in Int
    /\ HistoricalHeld \in Nat
    /\ \A k : HistoricalKeyHold(k) \in Nat
    /\ \A k, m : HistoricalSpend(k, m) \in Nat
<1>1. Total(TopUps, ledger) \in Nat /\ Total(UsageIds \cup Debits, ledger) \in Nat
  BY TablesFinite, TotalType
<1>2. HistoricalHeld \in Nat
  <2>1. HeldRows \in SUBSET Reservations
    BY DEF HeldRows
  <2> QED
    BY <2>1, TablesFinite, FS_Subset, TotalType DEF HistoricalHeld
<1>3. ASSUME NEW k PROVE HistoricalKeyHold(k) \in Nat
  <2>1. KeyHeldRows(k) \in SUBSET Reservations
    BY DEF HeldRows, KeyHeldRows
  <2> QED
    BY <2>1, TablesFinite, FS_Subset, TotalType DEF HistoricalKeyHold
<1>4. ASSUME NEW k, NEW m PROVE HistoricalSpend(k, m) \in Nat
  <2>1. SpendRows(k, m) \in SUBSET UsageIds
    BY DEF SpendRows
  <2> QED
    BY <2>1, TablesFinite, FS_Subset, TotalType DEF HistoricalSpend
<1> QED
  BY <1>1, <1>2, <1>3, <1>4 DEF HistoricalBalance

(***************************************************************************)
(* Writing one reservation row changes the holds by what the row held and  *)
(* holds.                                                                  *)
(***************************************************************************)
LEMMA ResvWrite ==
    ASSUME TypeOK, NEW r \in Reservations, NEW row \in Resv,
           resv' = [resv EXCEPT ![r] = row]
    PROVE  /\ HistoricalHeld' = HistoricalHeld - HoldOf(resv[r]) + HoldOf(row)
           /\ \A k : HistoricalKeyHold(k)' =
                 HistoricalKeyHold(k) - KeyHoldOf(resv[r], k) + KeyHoldOf(row, k)
<1>1. resv'[r] = row /\ \A x \in Reservations \ {r} : resv'[x] = resv[x]
  BY DEF TypeOK
<1>2. /\ \A x \in Reservations : ReservedOf[x] = resv[x].reserved
      /\ \A x \in Reservations : ReservedOf'[x] = resv'[x].reserved
  BY DEF ReservedOf
<1>3. ReservedOf[r] \in Amount /\ ReservedOf'[r] \in Amount
  BY <1>1, <1>2 DEF TypeOK, Resv
<1>4. HistoricalHeld' = HistoricalHeld - HoldOf(resv[r]) + HoldOf(row)
  <2>1. HeldRows \ {r} = HeldRows' \ {r}
    BY <1>1 DEF HeldRows
  <2>2. IsFiniteSet(HeldRows) /\ IsFiniteSet(HeldRows')
    <3>1. HeldRows \in SUBSET Reservations /\ HeldRows' \in SUBSET Reservations
      BY DEF HeldRows
    <3> QED
      BY <3>1, TablesFinite, FS_Subset
  <2>3. \A y \in HeldRows \ {r} : ReservedOf[y] = ReservedOf'[y]
    BY <1>1, <1>2 DEF HeldRows
  <2>4. Total(HeldRows', ReservedOf') = Total(HeldRows, ReservedOf)
          - Part(HeldRows, ReservedOf, r) + Part(HeldRows', ReservedOf', r)
    BY <1>3, <2>1, <2>2, <2>3, TotalUpdate
  <2>5. /\ Part(HeldRows, ReservedOf, r) = HoldOf(resv[r])
        /\ Part(HeldRows', ReservedOf', r) = HoldOf(row)
    BY <1>1, <1>2 DEF Part, HoldOf, HeldRows
  <2> QED
    BY <2>4, <2>5 DEF HistoricalHeld
<1>5. ASSUME NEW k
      PROVE  HistoricalKeyHold(k)' =
               HistoricalKeyHold(k) - KeyHoldOf(resv[r], k) + KeyHoldOf(row, k)
  <2>1. KeyHeldRows(k) \ {r} = KeyHeldRows(k)' \ {r}
    BY <1>1 DEF HeldRows, KeyHeldRows
  <2>2. IsFiniteSet(KeyHeldRows(k)) /\ IsFiniteSet(KeyHeldRows(k)')
    <3>1. /\ KeyHeldRows(k) \in SUBSET Reservations
          /\ KeyHeldRows(k)' \in SUBSET Reservations
      BY DEF HeldRows, KeyHeldRows
    <3> QED
      BY <3>1, TablesFinite, FS_Subset
  <2>3. \A y \in KeyHeldRows(k) \ {r} : ReservedOf[y] = ReservedOf'[y]
    BY <1>1, <1>2 DEF HeldRows, KeyHeldRows
  <2>4. Total(KeyHeldRows(k)', ReservedOf') = Total(KeyHeldRows(k), ReservedOf)
          - Part(KeyHeldRows(k), ReservedOf, r) + Part(KeyHeldRows(k)', ReservedOf', r)
    BY <1>3, <2>1, <2>2, <2>3, TotalUpdate
  <2>5. /\ Part(KeyHeldRows(k), ReservedOf, r) = KeyHoldOf(resv[r], k)
        /\ Part(KeyHeldRows(k)', ReservedOf', r) = KeyHoldOf(row, k)
    BY <1>1, <1>2 DEF Part, HoldOf, KeyHoldOf, HeldRows, KeyHeldRows
  <2> QED
    BY <2>4, <2>5 DEF HistoricalKeyHold
<1> QED
  BY <1>4, <1>5

(***************************************************************************)
(* Inserting one usage row adds its cost to one key's month.               *)
(***************************************************************************)
LEMMA UsageInsert ==
    ASSUME TypeOK, NEW e \in UsageIds, usage[e] = NoUsage, NEW row \in Usage,
           usage' = [usage EXCEPT ![e] = row]
    PROVE  \A k \in Keys, m \in Months :
              HistoricalSpend(k, m)' = HistoricalSpend(k, m) + SpendOf(row, k, m)
<1> SUFFICES ASSUME NEW k \in Keys, NEW m \in Months
             PROVE  HistoricalSpend(k, m)' = HistoricalSpend(k, m) + SpendOf(row, k, m)
  OBVIOUS
<1>1. usage'[e] = row /\ \A x \in UsageIds \ {e} : usage'[x] = usage[x]
  BY DEF TypeOK
<1>2. /\ \A x \in UsageIds : CostOf[x] = usage[x].cost
      /\ \A x \in UsageIds : CostOf'[x] = usage'[x].cost
  BY DEF CostOf
<1>3. CostOf'[e] \in Amount
  BY <1>1, <1>2 DEF Usage
<1>4. e \notin SpendRows(k, m)
  BY BillingAssumption DEF SpendRows, NoUsage
<1>5. SpendRows(k, m) \ {e} = SpendRows(k, m)' \ {e}
  BY <1>1 DEF SpendRows
<1>6. IsFiniteSet(SpendRows(k, m)) /\ IsFiniteSet(SpendRows(k, m)')
  <2>1. SpendRows(k, m) \in SUBSET UsageIds /\ SpendRows(k, m)' \in SUBSET UsageIds
    BY DEF SpendRows
  <2> QED
    BY <2>1, TablesFinite, FS_Subset
<1>7. \A y \in SpendRows(k, m) \ {e} : CostOf[y] = CostOf'[y]
  BY <1>1, <1>2 DEF SpendRows
<1>8. Total(SpendRows(k, m)', CostOf') = Total(SpendRows(k, m), CostOf)
        - Part(SpendRows(k, m), CostOf, e) + Part(SpendRows(k, m)', CostOf', e)
  BY <1>3, <1>4, <1>5, <1>6, <1>7, TotalUpdate
<1>9. /\ Part(SpendRows(k, m), CostOf, e) = 0
      /\ Part(SpendRows(k, m)', CostOf', e) = SpendOf(row, k, m)
  BY <1>1, <1>2, <1>4 DEF Part, SpendOf, SpendRows
<1>10. SpendOf(row, k, m) \in Int /\ Total(SpendRows(k, m), CostOf) \in Int
  BY <1>6, TotalType, MaxAmountAssumption DEF SpendOf, Usage, Amount
<1> QED
  BY <1>8, <1>9, <1>10 DEF HistoricalSpend

(***************************************************************************)
(* Posting under a fresh idempotency key moves the balance by the amount.  *)
(***************************************************************************)
LEMMA LedgerPost ==
    ASSUME TypeOK, NEW t \in Txns, NEW amount \in Amount, Post(t, amount)
    PROVE  HistoricalBalance' =
             HistoricalBalance + (IF t \in TopUps THEN amount ELSE -amount)
<1>1. ledger'[t] = amount /\ \A x \in Txns \ {t} : ledger'[x] = ledger[x]
  BY DEF TypeOK, Post
<1>2. ledger[t] = 0 /\ ledger[t] \in Amount /\ amount \in Nat
  BY MaxAmountAssumption DEF Post, Amount
<1> DEFINE D == UsageIds \cup Debits
<1>3. IsFiniteSet(TopUps) /\ IsFiniteSet(D)
  BY TablesFinite
<1>4. TopUps \cap D = {} /\ Txns = TopUps \cup D
  BY BillingAssumption DEF UsageIds, Txns
<1> HIDE DEF D
<1>5. Total(TopUps, ledger') = Total(TopUps, ledger)
        - Part(TopUps, ledger, t) + Part(TopUps, ledger', t)
  <2>1. \A y \in TopUps \ {t} : ledger[y] = ledger'[y]
    BY <1>1, <1>4
  <2> QED
    BY <1>1, <1>2, <1>3, <2>1, TotalUpdate
<1>6. Total(D, ledger') = Total(D, ledger) - Part(D, ledger, t) + Part(D, ledger', t)
  <2>1. \A y \in D \ {t} : ledger[y] = ledger'[y]
    BY <1>1, <1>4
  <2> QED
    BY <1>1, <1>2, <1>3, <2>1, TotalUpdate
<1>7. /\ Total(TopUps, ledger) \in Nat /\ Total(D, ledger) \in Nat
  BY <1>3, TotalType
<1>8. /\ Part(TopUps, ledger, t) = 0 /\ Part(D, ledger, t) = 0
      /\ Part(TopUps, ledger', t) = IF t \in TopUps THEN amount ELSE 0
      /\ Part(D, ledger', t) = IF t \in TopUps THEN 0 ELSE amount
  BY <1>1, <1>2, <1>4 DEF Part
<1>9. /\ HistoricalBalance = Total(TopUps, ledger) - Total(D, ledger)
      /\ HistoricalBalance' = Total(TopUps, ledger') - Total(D, ledger')
  BY DEF HistoricalBalance, D
<1> QED
  BY <1>2, <1>5, <1>6, <1>7, <1>8, <1>9

-----------------------------------------------------------------------------
(* Projections.                                                            *)

\* The inductive invariant: the projections agree with a history that fits.
IInv == TypeOK /\ RowsLinked /\ HistoryFits /\ ProjectionsAgree

(***************************************************************************)
(* What a handler reads through the projections is what history says.      *)
(***************************************************************************)
LEMMA ReadsAreHistory ==
    ASSUME TypeOK, HistoryFits, ProjectionsAgree
    PROVE  /\ Account = [known |-> TRUE, balance |-> HistoricalBalance,
                         held |-> HistoricalHeld]
           /\ \A k \in Keys : KeyHold(k) = [known |-> TRUE, held |-> HistoricalKeyHold(k)]
           /\ \A k \in Keys, m \in Months :
                 Monthly(k, m) = [known |-> TRUE, spent |-> HistoricalSpend(k, m)]
<1>1. Account = [known |-> TRUE, balance |-> HistoricalBalance, held |-> HistoricalHeld]
  BY DEF TypeOK, ProjectionsAgree, Account
<1>2. ASSUME NEW k \in Keys
      PROVE  KeyHold(k) = [known |-> TRUE, held |-> HistoricalKeyHold(k)]
  <2>1. keyHold[k] \in [known : BOOLEAN, held : Amount]
    BY DEF TypeOK
  <2> QED
    BY <2>1 DEF ProjectionsAgree, KeyHold
<1>3. ASSUME NEW k \in Keys, NEW m \in Months
      PROVE  Monthly(k, m) = [known |-> TRUE, spent |-> HistoricalSpend(k, m)]
  <2>1. monthSpend[k][m] \in [known : BOOLEAN, spent : Amount]
    BY DEF TypeOK
  <2> QED
    BY <2>1 DEF ProjectionsAgree, Monthly
<1> QED
  BY <1>1, <1>2, <1>3

\* One transaction's effect on history: the hold of key kk moves by d, its
\* spend in month mm by c and the balance of the account by b.
HistoryMoves(kk, d, mm, c, b) ==
    /\ HistoricalHeld' = HistoricalHeld + d
    /\ \A k \in Keys : HistoricalKeyHold(k)' =
          HistoricalKeyHold(k) + (IF k = kk THEN d ELSE 0)
    /\ \A k \in Keys, m \in Months : HistoricalSpend(k, m)' =
          HistoricalSpend(k, m) + (IF k = kk /\ m = mm THEN c ELSE 0)
    /\ HistoricalBalance' = HistoricalBalance + b

\* The checked additions it made.
ChecksPass(kk, d, mm, c, b) ==
    /\ HistoricalHeld + d \in Amount
    /\ HistoricalKeyHold(kk) + d \in Amount
    /\ HistoricalSpend(kk, mm) + c \in Amount
    /\ HistoricalBalance + b \in Balance

\* The projection rows it wrote; a row may stay as it is if nothing moved.
RowsMove(kk, d, mm, c, b) ==
    /\ \/ account' = AccountRow(d, b)
       \/ UNCHANGED account /\ d = 0 /\ b = 0
    /\ \/ keyHold' = [keyHold EXCEPT ![kk] =
                         [known |-> TRUE, held |-> KeyHold(kk).held + d]]
       \/ UNCHANGED keyHold /\ d = 0
    /\ \/ monthSpend' = [monthSpend EXCEPT ![kk][mm] =
                            [known |-> TRUE, spent |-> Monthly(kk, mm).spent + c]]
       \/ UNCHANGED monthSpend /\ c = 0

\* The projection tables have their type.
ProjectionTypes ==
    /\ account \in [known : BOOLEAN, balance : Balance, held : Amount]
    /\ keyHold \in [Keys -> [known : BOOLEAN, held : Amount]]
    /\ monthSpend \in [Keys -> [Months -> [known : BOOLEAN, spent : Amount]]]

(***************************************************************************)
(* A transaction that moves history and the rows by the same checked       *)
(* amounts keeps them equal.                                               *)
(***************************************************************************)
LEMMA ProjectionStep ==
    ASSUME TypeOK, HistoryFits, ProjectionsAgree,
           NEW kk \in Keys, NEW d \in Int, NEW mm \in Months, NEW c \in Int,
           NEW b \in Int,
           HistoryMoves(kk, d, mm, c, b), ChecksPass(kk, d, mm, c, b),
           RowsMove(kk, d, mm, c, b)
    PROVE  HistoryFits' /\ ProjectionsAgree' /\ ProjectionTypes'
<1> DEFINE hb == HistoricalBalance
           hh == HistoricalHeld
<1>1. hb \in Int /\ hh \in Nat
  BY HistoryType
<1>2. /\ \A k \in Keys : HistoricalKeyHold(k) \in Nat
      /\ \A k \in Keys, m \in Months : HistoricalSpend(k, m) \in Nat
  BY HistoryType
<1>3. HistoryFits'
  <2>1. HistoricalBalance' \in Balance /\ HistoricalHeld' \in Amount
    BY DEF HistoryMoves, ChecksPass
  <2>2. ASSUME NEW k \in Keys PROVE HistoricalKeyHold(k)' \in Amount
    BY <1>2 DEF HistoryMoves, ChecksPass, HistoryFits
  <2>3. ASSUME NEW k \in Keys, NEW m \in Months PROVE HistoricalSpend(k, m)' \in Amount
    BY <1>2 DEF HistoryMoves, ChecksPass, HistoryFits
  <2> QED
    BY <2>1, <2>2, <2>3 DEF HistoryFits
<1>4. /\ account'.known => account'.balance = HistoricalBalance' /\ account'.held = HistoricalHeld'
      /\ account' \in [known : BOOLEAN, balance : Balance, held : Amount]
  <2>1. CASE account' = AccountRow(d, b)
    <3>1. Account.balance = hb /\ Account.held = hh
      BY ReadsAreHistory
    <3>2. account' = [known |-> TRUE, balance |-> hb + b, held |-> hh + d]
      BY <2>1, <3>1 DEF AccountRow
    <3> QED
      BY <3>2 DEF HistoryMoves, ChecksPass
  <2>2. CASE UNCHANGED account /\ d = 0 /\ b = 0
    BY <2>2, <1>1 DEF HistoryMoves, ProjectionsAgree, TypeOK
  <2> QED
    BY <2>1, <2>2 DEF RowsMove
<1>5. /\ \A k \in Keys : keyHold'[k].known => keyHold'[k].held = HistoricalKeyHold(k)'
      /\ keyHold' \in [Keys -> [known : BOOLEAN, held : Amount]]
  <2>1. CASE keyHold' = [keyHold EXCEPT ![kk] =
                            [known |-> TRUE, held |-> KeyHold(kk).held + d]]
    <3>1. KeyHold(kk).held = HistoricalKeyHold(kk)
      BY ReadsAreHistory
    <3>2. keyHold'[kk] = [known |-> TRUE, held |-> HistoricalKeyHold(kk) + d]
      BY <2>1, <3>1 DEF TypeOK
    <3>3. \A k \in Keys \ {kk} : keyHold'[k] = keyHold[k]
      BY <2>1 DEF TypeOK
    <3>4. keyHold' \in [Keys -> [known : BOOLEAN, held : Amount]]
      BY <2>1, <3>1 DEF TypeOK, ChecksPass
    <3>5. ASSUME NEW k \in Keys, keyHold'[k].known
          PROVE  keyHold'[k].held = HistoricalKeyHold(k)'
      BY <3>2, <3>3, <3>5, <1>2 DEF HistoryMoves, ProjectionsAgree
    <3> QED
      BY <3>4, <3>5
  <2>2. CASE UNCHANGED keyHold /\ d = 0
    <3>1. \A k \in Keys : HistoricalKeyHold(k)' = HistoricalKeyHold(k)
      BY <2>2, <1>2 DEF HistoryMoves
    <3> QED
      BY <2>2, <3>1 DEF ProjectionsAgree, TypeOK
  <2> QED
    BY <2>1, <2>2 DEF RowsMove
<1>6. /\ \A k \in Keys, m \in Months :
            monthSpend'[k][m].known => monthSpend'[k][m].spent = HistoricalSpend(k, m)'
      /\ monthSpend' \in [Keys -> [Months -> [known : BOOLEAN, spent : Amount]]]
  <2>1. CASE monthSpend' = [monthSpend EXCEPT ![kk][mm] =
                               [known |-> TRUE, spent |-> Monthly(kk, mm).spent + c]]
    <3>1. Monthly(kk, mm).spent = HistoricalSpend(kk, mm)
      BY ReadsAreHistory
    <3>2. monthSpend'[kk][mm] = [known |-> TRUE, spent |-> HistoricalSpend(kk, mm) + c]
      BY <2>1, <3>1 DEF TypeOK
    <3>3. \A k \in Keys, m \in Months :
             ~(k = kk /\ m = mm) => monthSpend'[k][m] = monthSpend[k][m]
      BY <2>1 DEF TypeOK
    <3>4. monthSpend' \in [Keys -> [Months -> [known : BOOLEAN, spent : Amount]]]
      BY <2>1, <3>1 DEF TypeOK, ChecksPass
    <3>5. ASSUME NEW k \in Keys, NEW m \in Months, monthSpend'[k][m].known
          PROVE  monthSpend'[k][m].spent = HistoricalSpend(k, m)'
      BY <3>2, <3>3, <3>5, <1>2 DEF HistoryMoves, ProjectionsAgree
    <3> QED
      BY <3>4, <3>5
  <2>2. CASE UNCHANGED monthSpend /\ c = 0
    <3>1. \A k \in Keys, m \in Months : HistoricalSpend(k, m)' = HistoricalSpend(k, m)
      BY <2>2, <1>2 DEF HistoryMoves
    <3> QED
      BY <2>2, <3>1 DEF ProjectionsAgree, TypeOK
  <2> QED
    BY <2>1, <2>2 DEF RowsMove
<1> QED
  BY <1>3, <1>4, <1>5, <1>6 DEF ProjectionsAgree, ProjectionTypes

-----------------------------------------------------------------------------
(* The steps.                                                              *)

\* The tables of record and the configuration have their type.
TableTypes ==
    /\ resv \in [Reservations -> Resv]
    /\ usage \in [UsageIds -> Usage]
    /\ ledger \in [Txns -> Amount]
    /\ review \in [Reviews -> Review]
    /\ audit \subseteq Reviews \X {1, 2} \X Actors
    /\ enforce \in BOOLEAN
    /\ revoked \subseteq Keys
    /\ model \in [price : Prices, enabled : BOOLEAN]
    /\ month \in Months

\* The types of the rows of record and those of the projections, apart.
LEMMA TypeSplit == (TypeOK <=> TableTypes /\ ProjectionTypes)
                   /\ (TypeOK' <=> TableTypes' /\ ProjectionTypes')
  BY DEF TypeOK, TableTypes, ProjectionTypes

\* A step that leaves the reservations alone leaves the held money alone.
LEMMA SameHolds ==
    ASSUME UNCHANGED resv
    PROVE  HistoricalHeld' = HistoricalHeld
           /\ \A k : HistoricalKeyHold(k)' = HistoricalKeyHold(k)
  BY DEF HistoricalHeld, HistoricalKeyHold, HeldRows, KeyHeldRows, ReservedOf

\* A step that leaves the usage events alone leaves every month's spend alone.
LEMMA SameSpend ==
    ASSUME UNCHANGED usage
    PROVE  \A k, m : HistoricalSpend(k, m)' = HistoricalSpend(k, m)
  BY DEF HistoricalSpend, SpendRows, CostOf

\* A step that leaves the ledger alone leaves the balance of history alone.
LEMMA SameBalance ==
    ASSUME UNCHANGED ledger PROVE HistoricalBalance' = HistoricalBalance
  BY DEF HistoricalBalance

(***************************************************************************)
(* Every step preserves the invariant if it moves history and projection   *)
(* rows alike and writes well-formed rows.                                 *)
(***************************************************************************)
LEMMA StepPreserves ==
    ASSUME IInv, TableTypes', RowsLinked',
           NEW kk \in Keys, NEW d \in Int, NEW mm \in Months, NEW c \in Int,
           NEW b \in Int,
           HistoryMoves(kk, d, mm, c, b), ChecksPass(kk, d, mm, c, b),
           RowsMove(kk, d, mm, c, b)
    PROVE  IInv'
<1>1. HistoryFits' /\ ProjectionsAgree' /\ ProjectionTypes'
  BY ProjectionStep DEF IInv
<1> QED
  BY <1>1, TypeSplit DEF IInv

\* The cost of a token count is a natural number.
LEMMA CostType ==
    ASSUME NEW u \in TokenPair, NEW p \in TokenPair
    PROVE  Cost(u, p) \in Nat
  BY DEF Cost, TokenPair

\* reserve_money keeps the projections right.
LEMMA ReservePreserves ==
    ASSUME IInv, NEW r \in Reservations, NEW k \in Keys, NEW q \in Requests,
           NEW l \in Usages, ReserveMoney(r, k, q, l)
    PROVE  IInv'
<1> DEFINE amount == Cost(l, model.price)
           row == [state |-> "reserved", key |-> k, request |-> q, limit |-> l,
                   price |-> model.price, reserved |-> amount, settled |-> Null,
                   completion |-> NoCompletion]
<1>1. TypeOK /\ RowsLinked /\ HistoryFits /\ ProjectionsAgree /\ month \in Months
  BY DEF IInv, TypeOK
<1>2. l \in TokenPair /\ model.price \in TokenPair
  BY <1>1, BillingAssumption DEF TypeOK
<1>3. amount \in Nat /\ amount \in Amount
  BY <1>2, CostType, MaxAmountAssumption DEF ReserveMoney, Affordable, Amount
<1>4. row \in Resv
  BY <1>2, <1>3 DEF Resv, States, Null, Completion, NoCompletion
<1>5. resv' = [resv EXCEPT ![r] = row]
  BY DEF ReserveMoney
<1>6. /\ HoldOf(resv[r]) = 0 /\ HoldOf(row) = amount
      /\ \A x : KeyHoldOf(resv[r], x) = 0
      /\ \A x : KeyHoldOf(row, x) = IF x = k THEN amount ELSE 0
  BY DEF ReserveMoney, HoldOf, KeyHoldOf, Held
<1>7. HistoryMoves(k, amount, month, 0, 0)
  <2> HIDE DEF amount, row
  <2>1. /\ HistoricalHeld' = HistoricalHeld - HoldOf(resv[r]) + HoldOf(row)
        /\ \A x : HistoricalKeyHold(x)' =
              HistoricalKeyHold(x) - KeyHoldOf(resv[r], x) + KeyHoldOf(row, x)
    BY <1>1, <1>4, <1>5, ResvWrite
  <2>2. /\ \A x, m : HistoricalSpend(x, m)' = HistoricalSpend(x, m)
        /\ HistoricalBalance' = HistoricalBalance
    BY SameSpend, SameBalance DEF ReserveMoney
  <2> QED
    BY <2>1, <2>2, <1>3, <1>6, HistoryType DEF HistoryMoves
<1>8. ChecksPass(k, amount, month, 0, 0)
  <2>1. Account.held + amount \in Amount /\ KeyHold(k).held + amount \in Amount
    BY DEF ReserveMoney, ChangeHold
  <2>2. Account.held = HistoricalHeld /\ KeyHold(k).held = HistoricalKeyHold(k)
    BY <1>1, ReadsAreHistory
  <2> HIDE DEF amount
  <2> QED
    BY <1>1, <2>1, <2>2, HistoryType DEF ChecksPass, HistoryFits
<1>9. RowsMove(k, amount, month, 0, 0)
  <2>1. Monthly(k, month) = [known |-> TRUE, spent |-> Monthly(k, month).spent + 0]
    BY <1>1, ReadsAreHistory, HistoryType
  <2> QED
    BY <2>1 DEF RowsMove, ReserveMoney, ChangeHold
<1>10. TableTypes'
  BY <1>1, <1>4, <1>5 DEF TableTypes, TypeOK, ReserveMoney
<1>11. RowsLinked'
  <2> HIDE DEF row
  <2>1. row.key \in Keys
    BY DEF row
  <2> QED
    BY <1>1, <1>5, <2>1 DEF RowsLinked, ReserveMoney, TypeOK
<1> HIDE DEF amount, row
<1> QED
  BY <1>1, <1>3, <1>7, <1>8, <1>9, <1>10, <1>11, StepPreserves

(***************************************************************************)
(* Ending a hold without a charge: release and waiver.                     *)
(***************************************************************************)
LEMMA HoldEnds ==
    ASSUME IInv, NEW r \in Reservations, NEW row \in Resv,
           resv[r].state \in Held, row.state \notin Held, row.state # "none",
           row.key = resv[r].key,
           resv' = [resv EXCEPT ![r] = row],
           ChangeHold(resv[r].key, -resv[r].reserved),
           account' = AccountRow(-resv[r].reserved, 0),
           UNCHANGED <<usage, ledger, monthSpend, month>>,
           TableTypes', RowsLinked'
    PROVE  IInv'
<1> DEFINE k == resv[r].key
           n == resv[r].reserved
<1>1. TypeOK /\ RowsLinked /\ HistoryFits /\ ProjectionsAgree /\ month \in Months
  BY DEF IInv, TypeOK
<1>2. k \in Keys /\ n \in Nat
  <2>1. resv[r] \in Resv /\ resv[r].state # "none"
    BY <1>1 DEF TypeOK, Held
  <2> QED
    BY <1>1, <2>1, MaxAmountAssumption DEF RowsLinked, Resv, Amount
<1>3. /\ HoldOf(resv[r]) = n /\ HoldOf(row) = 0
      /\ \A x : KeyHoldOf(resv[r], x) = IF x = k THEN n ELSE 0
      /\ \A x : KeyHoldOf(row, x) = 0
  BY DEF HoldOf, KeyHoldOf
<1>4. /\ Account.held - n \in Amount /\ KeyHold(k).held - n \in Amount
      /\ keyHold' = [keyHold EXCEPT ![k] = [known |-> TRUE, held |-> KeyHold(k).held - n]]
  <2>1. Account.held \in Int /\ KeyHold(k).held \in Int
    BY <1>1, <1>2, ReadsAreHistory, HistoryType
  <2>2. Account.held + (-n) = Account.held - n /\ KeyHold(k).held + (-n) = KeyHold(k).held - n
    BY <1>2, <2>1
  <2> QED
    BY <2>2 DEF ChangeHold
<1> HIDE DEF k, n
<1>5. HistoryMoves(k, -n, month, 0, 0)
  <2>1. /\ HistoricalHeld' = HistoricalHeld - HoldOf(resv[r]) + HoldOf(row)
        /\ \A x : HistoricalKeyHold(x)' =
              HistoricalKeyHold(x) - KeyHoldOf(resv[r], x) + KeyHoldOf(row, x)
    BY <1>1, ResvWrite
  <2>2. /\ \A x, m : HistoricalSpend(x, m)' = HistoricalSpend(x, m)
        /\ HistoricalBalance' = HistoricalBalance
    BY SameSpend, SameBalance
  <2> QED
    BY <2>1, <2>2, <1>2, <1>3, HistoryType DEF HistoryMoves
<1>6. ChecksPass(k, -n, month, 0, 0)
  <2>1. Account.held = HistoricalHeld /\ KeyHold(k).held = HistoricalKeyHold(k)
    BY <1>1, <1>2, ReadsAreHistory
  <2> QED
    BY <1>1, <1>2, <1>4, <2>1, HistoryType DEF ChecksPass, HistoryFits
<1>7. RowsMove(k, -n, month, 0, 0)
  <2>1. keyHold' = [keyHold EXCEPT ![k] = [known |-> TRUE, held |-> KeyHold(k).held + (-n)]]
    BY DEF ChangeHold, k, n
  <2>2. account' = AccountRow(-n, 0)
    BY DEF n
  <2> QED
    BY <2>1, <2>2 DEF RowsMove
<1>8. -n \in Int
  BY <1>2
<1> QED
  BY <1>1, <1>2, <1>5, <1>6, <1>7, <1>8, StepPreserves

\* release_money keeps the projections right.
LEMMA ReleasePreserves ==
    ASSUME IInv, NEW r \in Reservations, ReleaseMoney(r)
    PROVE  IInv'
<1> DEFINE row == [resv[r] EXCEPT !.state = "released", !.completion = Released]
<1>1. TypeOK /\ RowsLinked /\ resv[r] \in Resv
  BY DEF IInv, TypeOK
<1>2. /\ row \in Resv /\ row.key = resv[r].key
      /\ row.state = "released" /\ resv[r].state = "reserved"
  BY <1>1 DEF Resv, States, Completion, Released, ReleaseMoney, Releasable
<1>3. resv' = [resv EXCEPT ![r] = row]
  BY <1>1 DEF ReleaseMoney, TypeOK
<1>4. TableTypes'
  BY <1>1, <1>2, <1>3 DEF TableTypes, TypeOK, ReleaseMoney
<1>5. RowsLinked'
  <2> HIDE DEF row
  <2> QED
    BY <1>1, <1>2, <1>3 DEF RowsLinked, ReleaseMoney, TypeOK
<1> HIDE DEF row
<1>6. "reserved" \in Held /\ "released" \notin Held /\ "released" # "none"
  BY DEF Held
<1>7. /\ ChangeHold(resv[r].key, -resv[r].reserved)
      /\ account' = AccountRow(-resv[r].reserved, 0)
      /\ UNCHANGED <<usage, ledger, monthSpend, month>>
  BY DEF ReleaseMoney
<1> QED
  BY <1>2, <1>3, <1>4, <1>5, <1>6, <1>7, HoldEnds

(***************************************************************************)
(* A decision keeps the review tables well formed.                         *)
(***************************************************************************)
LEMMA DecideTypes ==
    ASSUME TypeOK, RowsLinked, NEW v \in Reviews, NEW actor \in Actors,
           NEW outcome \in {"rejected", "settled", "waived"},
           Decide(v, actor, outcome)
    PROVE  /\ review' \in [Reviews -> Review]
           /\ audit' \subseteq Reviews \X {1, 2} \X Actors
           /\ \A w \in Reviews : review'[w].state # "none" =>
                 /\ review'[w].reservation \in Reservations
                 /\ ~review'[w].waiver => review'[w].usage \in Usages
<1> DEFINE row == [review[v] EXCEPT !.state = outcome, !.reviewer = actor]
<1>1. review[v] \in Review /\ review[v].state = "submitted"
  BY DEF TypeOK, Decide
<1>2. /\ row \in Review
      /\ row.reservation = review[v].reservation
      /\ row.waiver = review[v].waiver /\ row.usage = review[v].usage
  BY <1>1 DEF Review
<1>3. review' = [review EXCEPT ![v] = row]
  BY <1>1 DEF Decide, TypeOK
<1> HIDE DEF row
<1>4. review' \in [Reviews -> Review]
  BY <1>2, <1>3 DEF TypeOK
<1>5. audit' \subseteq Reviews \X {1, 2} \X Actors
  BY DEF Decide, TypeOK
<1>6. \A w \in Reviews : review'[w].state # "none" =>
         /\ review'[w].reservation \in Reservations
         /\ ~review'[w].waiver => review'[w].usage \in Usages
  BY <1>1, <1>2, <1>3 DEF RowsLinked, TypeOK
<1> QED
  BY <1>4, <1>5, <1>6

\* An approved waiver keeps the projections right.
LEMMA WaivePreserves ==
    ASSUME IInv, NEW v \in Reviews, NEW actor \in Actors, ApproveWaiver(v, actor)
    PROVE  IInv'
<1> DEFINE r == review[v].reservation
           row == [resv[r] EXCEPT !.state = "waived"]
<1>1. TypeOK /\ RowsLinked
  BY DEF IInv
<1>2. r \in Reservations /\ resv[r] \in Resv
  BY <1>1 DEF TypeOK, RowsLinked, ApproveWaiver, Decide
<1>3. /\ row \in Resv /\ row.key = resv[r].key
      /\ row.state = "waived" /\ resv[r].state \in Held
  BY <1>2 DEF Resv, States, ApproveWaiver
<1>4. resv' = [resv EXCEPT ![r] = row]
  BY <1>1, <1>2 DEF ApproveWaiver, TypeOK
<1>5. /\ Decide(v, actor, "waived")
      /\ UNCHANGED <<usage, ledger, monthSpend, enforce, revoked, model, month>>
  BY DEF ApproveWaiver
<1>6. /\ ChangeHold(resv[r].key, -resv[r].reserved)
      /\ account' = AccountRow(-resv[r].reserved, 0)
  BY DEF ApproveWaiver
<1> HIDE DEF r, row
<1>7. /\ review' \in [Reviews -> Review]
      /\ audit' \subseteq Reviews \X {1, 2} \X Actors
      /\ \A w \in Reviews : review'[w].state # "none" =>
            /\ review'[w].reservation \in Reservations
            /\ ~review'[w].waiver => review'[w].usage \in Usages
  BY <1>1, <1>5, DecideTypes
<1>8. TableTypes'
  BY <1>1, <1>2, <1>3, <1>4, <1>5, <1>7 DEF TableTypes, TypeOK
<1>9. RowsLinked'
  <2>1. \A x \in Reservations : resv'[x].state # "none" => resv'[x].key \in Keys
    <3>1. row.key \in Keys
      BY <1>1, <1>2, <1>3 DEF RowsLinked, Held
    <3> QED
      BY <1>1, <1>2, <1>4, <3>1 DEF RowsLinked, TypeOK
  <2> QED
    BY <1>7, <2>1 DEF RowsLinked
<1>10. "waived" \notin Held /\ "waived" # "none"
  BY DEF Held
<1> QED
  BY <1>2, <1>3, <1>4, <1>5, <1>6, <1>8, <1>9, <1>10, HoldEnds

(***************************************************************************)
(* A step that leaves every amount of history where it is.                 *)
(***************************************************************************)
LEMMA QuietStep ==
    ASSUME IInv, TableTypes', RowsLinked',
           UNCHANGED <<usage, ledger>>,
           \/ UNCHANGED resv
           \/ \E r \in Reservations, row \in Resv :
                 /\ resv' = [resv EXCEPT ![r] = row]
                 /\ resv[r].state \in Held /\ row.state \in Held
                 /\ row.key = resv[r].key /\ row.reserved = resv[r].reserved,
           NEW k \in Keys, NEW m \in Months,
           RowsMove(k, 0, m, 0, 0)
    PROVE  IInv'
<1>1. TypeOK /\ HistoryFits
  BY DEF IInv
<1>2. /\ HistoricalHeld' = HistoricalHeld
      /\ \A x : HistoricalKeyHold(x)' = HistoricalKeyHold(x)
  <2>1. CASE UNCHANGED resv
    BY <2>1, SameHolds
  <2>2. ASSUME NEW r \in Reservations, NEW row \in Resv,
               resv' = [resv EXCEPT ![r] = row],
               resv[r].state \in Held, row.state \in Held,
               row.key = resv[r].key, row.reserved = resv[r].reserved
        PROVE  /\ HistoricalHeld' = HistoricalHeld
               /\ \A x : HistoricalKeyHold(x)' = HistoricalKeyHold(x)
    <3>1. /\ HistoricalHeld' = HistoricalHeld - HoldOf(resv[r]) + HoldOf(row)
          /\ \A x : HistoricalKeyHold(x)' =
                HistoricalKeyHold(x) - KeyHoldOf(resv[r], x) + KeyHoldOf(row, x)
      BY <1>1, <2>2, ResvWrite
    <3>2. HoldOf(row) = HoldOf(resv[r]) /\ \A x : KeyHoldOf(row, x) = KeyHoldOf(resv[r], x)
      BY <2>2 DEF HoldOf, KeyHoldOf
    <3>3. HoldOf(row) \in Int /\ \A x : KeyHoldOf(row, x) \in Int
      BY MaxAmountAssumption DEF HoldOf, KeyHoldOf, Resv, Amount
    <3> QED
      BY <3>1, <3>2, <3>3, HistoryType
  <2> QED
    BY <2>1, <2>2
<1>3. /\ \A x, y : HistoricalSpend(x, y)' = HistoricalSpend(x, y)
      /\ HistoricalBalance' = HistoricalBalance
  BY SameSpend, SameBalance
<1>4. HistoryMoves(k, 0, m, 0, 0)
  BY <1>2, <1>3, HistoryType DEF HistoryMoves
<1>5. ChecksPass(k, 0, m, 0, 0)
  BY <1>1, HistoryType DEF ChecksPass, HistoryFits
<1> QED
  BY <1>4, <1>5, StepPreserves

\* dispatch_money keeps the projections right.
LEMMA DispatchPreserves ==
    ASSUME IInv, NEW r \in Reservations, DispatchMoney(r)
    PROVE  IInv'
<1> DEFINE row == [resv[r] EXCEPT !.state = "dispatched"]
<1>1. TypeOK /\ RowsLinked /\ resv[r] \in Resv
  BY DEF IInv, TypeOK
<1>2. /\ row \in Resv /\ row.key = resv[r].key /\ row.reserved = resv[r].reserved
      /\ row.state = "dispatched" /\ resv[r].state = "reserved"
  BY <1>1 DEF Resv, States, DispatchMoney
<1>3. resv' = [resv EXCEPT ![r] = row]
  BY <1>1 DEF DispatchMoney, TypeOK
<1> HIDE DEF row
<1>4. TableTypes'
  BY <1>1, <1>2, <1>3 DEF TableTypes, TypeOK, DispatchMoney
<1>5. RowsLinked'
  BY <1>1, <1>2, <1>3 DEF RowsLinked, DispatchMoney, TypeOK
<1>6. "reserved" \in Held /\ "dispatched" \in Held
  BY DEF Held
<1>7. UNCHANGED <<usage, ledger>> /\ \A k, m : RowsMove(k, 0, m, 0, 0)
  BY DEF DispatchMoney, RowsMove
<1>8. resv[r].key \in Keys /\ month \in Months
  BY <1>1, <1>2 DEF RowsLinked, TypeOK
<1> QED
  BY <1>2, <1>3, <1>4, <1>5, <1>6, <1>7, <1>8, QuietStep

\* unresolved_money keeps the projections right.
LEMMA UnresolvedPreserves ==
    ASSUME IInv, NEW r \in Reservations, NEW report \in Completion,
           UnresolvedMoney(r, report)
    PROVE  IInv'
<1> DEFINE row == [resv[r] EXCEPT !.completion = report]
<1>1. TypeOK /\ RowsLinked /\ resv[r] \in Resv
  BY DEF IInv, TypeOK
<1>2. /\ row \in Resv /\ row.key = resv[r].key /\ row.reserved = resv[r].reserved
      /\ row.state = "dispatched" /\ resv[r].state = "dispatched"
  BY <1>1 DEF Resv, UnresolvedMoney
<1>3. resv' = [resv EXCEPT ![r] = row]
  BY <1>1 DEF UnresolvedMoney, TypeOK
<1> HIDE DEF row
<1>4. TableTypes'
  BY <1>1, <1>2, <1>3 DEF TableTypes, TypeOK, UnresolvedMoney
<1>5. RowsLinked'
  BY <1>1, <1>2, <1>3 DEF RowsLinked, UnresolvedMoney, TypeOK
<1>6. "dispatched" \in Held
  BY DEF Held
<1>7. UNCHANGED <<usage, ledger>> /\ \A k, m : RowsMove(k, 0, m, 0, 0)
  BY DEF UnresolvedMoney, RowsMove
<1>8. resv[r].key \in Keys /\ month \in Months
  BY <1>1, <1>2 DEF RowsLinked, TypeOK
<1> QED
  BY <1>2, <1>3, <1>4, <1>5, <1>6, <1>7, <1>8, QuietStep

(***************************************************************************)
(* Settlement replaces a hold by a charge.                                 *)
(***************************************************************************)
LEMMA SettlePreserves ==
    ASSUME IInv, NEW r \in Reservations, NEW u \in Usages, NEW decision,
           SettleLocked(r, u, decision),
           review' \in [Reviews -> Review],
           audit' \subseteq Reviews \X {1, 2} \X Actors,
           \A w \in Reviews : review'[w].state # "none" =>
              /\ review'[w].reservation \in Reservations
              /\ ~review'[w].waiver => review'[w].usage \in Usages
    PROVE  IInv'
<1> DEFINE amount == Cost(u, resv[r].price)
           k == resv[r].key
           n == resv[r].reserved
           row == [resv[r] EXCEPT !.state = "settled", !.settled = amount,
                                  !.completion = Payload(u)]
           urow == [key |-> k, request |-> resv[r].request, month |-> month,
                    cost |-> amount]
<1>1. /\ TypeOK /\ RowsLinked /\ HistoryFits /\ ProjectionsAgree
      /\ month \in Months /\ resv[r] \in Resv /\ resv[r].state = "dispatched"
  BY DEF IInv, TypeOK, SettleLocked
<1>2. k \in Keys /\ n \in Nat /\ resv[r].price \in TokenPair /\ u \in TokenPair
  BY <1>1, MaxAmountAssumption, BillingAssumption DEF RowsLinked, Resv, Amount
<1>3. amount \in Nat /\ amount \in Amount
  BY <1>2, CostType, MaxAmountAssumption DEF SettleLocked, Affordable, Amount
<1>4. /\ row \in Resv /\ row.key = k /\ row.state = "settled"
      /\ urow \in Usage /\ r \in UsageIds /\ r \in Txns /\ r \notin TopUps
  BY <1>1, <1>2, <1>3, BillingAssumption
     DEF Resv, States, Completion, Payload, Usage, UsageIds, Txns
<1>5. /\ resv' = [resv EXCEPT ![r] = row]
      /\ usage[r] = NoUsage /\ usage' = [usage EXCEPT ![r] = urow]
  BY <1>1 DEF SettleLocked, TypeOK
<1>6. /\ HoldOf(resv[r]) = n /\ HoldOf(row) = 0
      /\ \A x : KeyHoldOf(resv[r], x) = IF x = k THEN n ELSE 0
      /\ \A x : KeyHoldOf(row, x) = 0
      /\ \A x, m : SpendOf(urow, x, m) = IF x = k /\ m = month THEN amount ELSE 0
  BY <1>1, <1>4 DEF HoldOf, KeyHoldOf, SpendOf, Held
<1>7. /\ Account.held + (-n) \in Amount
      /\ KeyHold(k).held + (-n) \in Amount
      /\ keyHold' = [keyHold EXCEPT ![k] =
                        [known |-> TRUE, held |-> KeyHold(k).held + (-n)]]
      /\ Monthly(k, month).spent + amount \in Amount
      /\ monthSpend' = [monthSpend EXCEPT ![k][month] =
                           [known |-> TRUE, spent |-> Monthly(k, month).spent + amount]]
      /\ account' = AccountRow(-n, -amount)
      /\ UNCHANGED <<enforce, revoked, model, month>>
  BY DEF SettleLocked, ChangeHold, ChangeSpend
<1>8. \/ amount = 0 /\ UNCHANGED ledger
      \/ Account.balance - amount \in Balance /\ Post(r, amount)
  BY <1>3 DEF SettleLocked
<1>9. /\ Account.held = HistoricalHeld /\ KeyHold(k).held = HistoricalKeyHold(k)
      /\ Monthly(k, month).spent = HistoricalSpend(k, month)
      /\ Account.balance = HistoricalBalance
  BY <1>1, <1>2, ReadsAreHistory
<1> HIDE DEF amount, k, n, row, urow
<1>10. HistoricalBalance' = HistoricalBalance + (-amount)
       /\ HistoricalBalance + (-amount) \in Balance
  <2>1. CASE amount = 0 /\ UNCHANGED ledger
    BY <1>1, <2>1, SameBalance, HistoryType DEF HistoryFits
  <2>2. CASE Account.balance - amount \in Balance /\ Post(r, amount)
    <3>1. HistoricalBalance' = HistoricalBalance + (-amount)
      BY <1>1, <1>3, <1>4, <2>2, LedgerPost
    <3> QED
      BY <1>3, <1>9, <2>2, <3>1, HistoryType
  <2> QED
    BY <1>8, <2>1, <2>2
<1>11. HistoryMoves(k, -n, month, amount, -amount)
  <2>1. /\ HistoricalHeld' = HistoricalHeld - HoldOf(resv[r]) + HoldOf(row)
        /\ \A x : HistoricalKeyHold(x)' =
              HistoricalKeyHold(x) - KeyHoldOf(resv[r], x) + KeyHoldOf(row, x)
    BY <1>1, <1>4, <1>5, ResvWrite
  <2>2. \A x \in Keys, m \in Months :
           HistoricalSpend(x, m)' = HistoricalSpend(x, m) + SpendOf(urow, x, m)
    BY <1>1, <1>4, <1>5, UsageInsert
  <2> QED
    BY <1>2, <1>6, <1>10, <2>1, <2>2, HistoryType DEF HistoryMoves
<1>12. ChecksPass(k, -n, month, amount, -amount)
  BY <1>7, <1>9, <1>10 DEF ChecksPass
<1>13. RowsMove(k, -n, month, amount, -amount)
  BY <1>7 DEF RowsMove
<1>14. TableTypes'
  <2>1. ledger' \in [Txns -> Amount]
    BY <1>1, <1>3, <1>8 DEF TypeOK, Post
  <2> QED
    BY <1>1, <1>4, <1>5, <1>7, <2>1 DEF TableTypes, TypeOK
<1>15. RowsLinked'
  BY <1>1, <1>2, <1>4, <1>5 DEF RowsLinked, TypeOK
<1>16. -n \in Int /\ -amount \in Int /\ amount \in Int
  BY <1>2, <1>3
<1> QED
  BY <1>1, <1>2, <1>11, <1>12, <1>13, <1>14, <1>15, <1>16, StepPreserves

\* settle_money keeps the projections right.
LEMMA SettleMoneyPreserves ==
    ASSUME IInv, NEW r \in Reservations, NEW u \in Usages, SettleMoney(r, u)
    PROVE  IInv'
<1>1. /\ review' \in [Reviews -> Review]
      /\ audit' \subseteq Reviews \X {1, 2} \X Actors
      /\ \A w \in Reviews : review'[w].state # "none" =>
            /\ review'[w].reservation \in Reservations
            /\ ~review'[w].waiver => review'[w].usage \in Usages
  BY DEF IInv, TypeOK, RowsLinked, SettleMoney
<1> QED
  BY <1>1, SettlePreserves DEF SettleMoney

\* record_usage (v1) keeps the projections right.
LEMMA RecordUsagePreserves ==
    ASSUME IInv, NEW e \in UsageEvents, NEW k \in Keys, NEW q \in Requests,
           NEW u \in Usages, NEW p \in Prices, NEW m \in 1 .. month,
           NEW ok \in BOOLEAN, RecordUsage(e, k, q, u, p, m, ok)
    PROVE  IInv'
<1> DEFINE cost == IF ok /\ u # Zero THEN Cost(u, p) ELSE 0
           urow == [key |-> k, request |-> q, month |-> m, cost |-> cost]
<1>1. /\ TypeOK /\ RowsLinked /\ HistoryFits /\ ProjectionsAgree
      /\ month \in Months /\ m \in Months
  BY BillingAssumption DEF IInv, TypeOK, Months
<1>2. cost \in Nat /\ cost \in Amount
  <2>1. Cost(u, p) \in Nat
    BY CostType, BillingAssumption
  <2> QED
    BY <2>1, MaxAmountAssumption DEF RecordUsage, Amount
<1>3. urow \in Usage /\ e \in UsageIds /\ e \in Txns /\ e \notin TopUps
  BY <1>1, <1>2, BillingAssumption DEF Usage, UsageIds, Txns
<1>4. usage[e] = NoUsage /\ usage' = [usage EXCEPT ![e] = urow]
  BY DEF RecordUsage
<1>5. \A x, y : SpendOf(urow, x, y) = IF x = k /\ y = m THEN cost ELSE 0
  BY DEF SpendOf
<1>6. /\ Monthly(k, m).spent + cost \in Amount
      /\ monthSpend' = [monthSpend EXCEPT ![k][m] =
                           [known |-> TRUE, spent |-> Monthly(k, m).spent + cost]]
      /\ UNCHANGED <<resv, review, audit, keyHold, enforce, revoked, model, month>>
  BY DEF RecordUsage, ChangeSpend
<1>7. \/ cost = 0 /\ UNCHANGED <<account, ledger>>
      \/ /\ Account.balance - cost \in Balance /\ Post(e, cost)
         /\ account' = AccountRow(0, -cost)
  BY <1>2 DEF RecordUsage
<1>8. /\ Monthly(k, m).spent = HistoricalSpend(k, m)
      /\ Account.balance = HistoricalBalance
  BY <1>1, ReadsAreHistory
<1> HIDE DEF cost, urow
<1>9. HistoricalBalance' = HistoricalBalance + (-cost)
      /\ HistoricalBalance + (-cost) \in Balance
  <2>1. CASE cost = 0 /\ UNCHANGED <<account, ledger>>
    BY <1>1, <2>1, SameBalance, HistoryType DEF HistoryFits
  <2>2. CASE Account.balance - cost \in Balance /\ Post(e, cost)
    <3>1. HistoricalBalance' = HistoricalBalance + (-cost)
      BY <1>1, <1>2, <1>3, <2>2, LedgerPost
    <3> QED
      BY <1>2, <1>8, <2>2, <3>1, HistoryType
  <2> QED
    BY <1>7, <2>1, <2>2
<1>10. HistoryMoves(k, 0, m, cost, -cost)
  <2>1. \A x \in Keys, y \in Months :
           HistoricalSpend(x, y)' = HistoricalSpend(x, y) + SpendOf(urow, x, y)
    BY <1>1, <1>3, <1>4, UsageInsert
  <2>2. HistoricalHeld' = HistoricalHeld
        /\ \A x : HistoricalKeyHold(x)' = HistoricalKeyHold(x)
    BY <1>6, SameHolds
  <2> QED
    BY <1>5, <1>9, <2>1, <2>2, HistoryType DEF HistoryMoves
<1>11. ChecksPass(k, 0, m, cost, -cost)
  BY <1>1, <1>6, <1>8, <1>9, HistoryType DEF ChecksPass, HistoryFits
<1>12. RowsMove(k, 0, m, cost, -cost)
  <2>1. \/ account' = AccountRow(0, -cost)
        \/ UNCHANGED account /\ -cost = 0
    BY <1>2, <1>7
  <2> QED
    BY <1>6, <2>1 DEF RowsMove
<1>13. TableTypes'
  <2>1. ledger' \in [Txns -> Amount]
    BY <1>1, <1>2, <1>7 DEF TypeOK, Post
  <2> QED
    BY <1>1, <1>3, <1>4, <1>6, <2>1 DEF TableTypes, TypeOK
<1>14. RowsLinked'
  BY <1>1, <1>6 DEF RowsLinked
<1>15. -cost \in Int /\ cost \in Int
  BY <1>2
<1> QED
  BY <1>1, <1>10, <1>11, <1>12, <1>13, <1>14, <1>15, StepPreserves

(***************************************************************************)
(* Credits and refund debits.                                              *)
(***************************************************************************)
LEMMA PostPreserves ==
    ASSUME IInv, NEW t \in TopUps \cup Debits, NEW amount \in Amount, NEW b \in Int,
           b = IF t \in TopUps THEN amount ELSE -amount,
           Account.balance + b \in Balance, account' = AccountRow(0, b),
           Post(t, amount),
           UNCHANGED <<resv, usage, review, audit, keyHold, monthSpend, enforce,
                       revoked, model, month>>
    PROVE  IInv'
<1>1. /\ TypeOK /\ RowsLinked /\ HistoryFits /\ ProjectionsAgree
      /\ month \in Months /\ t \in Txns
  BY DEF IInv, TypeOK, Txns
<1>2. HistoricalBalance' = HistoricalBalance + b
  BY <1>1, LedgerPost
<1>3. PICK k \in Keys : TRUE
  BY BillingAssumption
<1>4. HistoryMoves(k, 0, month, 0, b)
  BY <1>2, SameHolds, SameSpend, HistoryType DEF HistoryMoves
<1>5. ChecksPass(k, 0, month, 0, b)
  BY <1>1, ReadsAreHistory, HistoryType DEF ChecksPass, HistoryFits
<1>6. RowsMove(k, 0, month, 0, b)
  BY DEF RowsMove
<1>7. TableTypes' /\ RowsLinked'
  BY <1>1 DEF TableTypes, TypeOK, RowsLinked, Post
<1> QED
  BY <1>1, <1>4, <1>5, <1>6, <1>7, StepPreserves

\* Submitting a review keeps the projections right.
LEMMA SubmitPreserves ==
    ASSUME IInv, NEW v \in Reviews, NEW r \in Reservations, NEW actor \in Actors,
           NEW waiver \in BOOLEAN, NEW u \in Usages \cup {None},
           ~waiver => u \in Usages,
           SubmitReview(v, r, actor, waiver, u)
    PROVE  IInv'
<1> DEFINE row == [state |-> "submitted", reservation |-> r, waiver |-> waiver,
                   usage |-> u, submitter |-> actor, reviewer |-> None]
<1>1. TypeOK /\ RowsLinked
  BY DEF IInv
<1>2. row \in Review /\ review' = [review EXCEPT ![v] = row]
  BY DEF Review, SubmitReview
<1>3. row.reservation \in Reservations /\ (~row.waiver => row.usage \in Usages)
  OBVIOUS
<1> HIDE DEF row
<1>4. TableTypes'
  BY <1>1, <1>2 DEF TableTypes, TypeOK, SubmitReview
<1>5. RowsLinked'
  BY <1>1, <1>2, <1>3 DEF RowsLinked, TypeOK, SubmitReview
<1>6. PICK k \in Keys : TRUE
  BY BillingAssumption
<1>7. month \in Months /\ UNCHANGED <<resv, usage, ledger>> /\ RowsMove(k, 0, month, 0, 0)
  BY <1>1 DEF TypeOK, SubmitReview, RowsMove
<1> QED
  BY <1>4, <1>5, <1>7, QuietStep

\* Rejecting a review keeps the projections right.
LEMMA RejectPreserves ==
    ASSUME IInv, NEW v \in Reviews, NEW actor \in Actors, RejectReview(v, actor)
    PROVE  IInv'
<1>1. TypeOK /\ RowsLinked /\ month \in Months
  BY DEF IInv, TypeOK
<1>2. TableTypes' /\ RowsLinked'
  BY <1>1, DecideTypes DEF TableTypes, TypeOK, RowsLinked, RejectReview
<1>3. PICK k \in Keys : TRUE
  BY BillingAssumption
<1>4. UNCHANGED <<resv, usage, ledger>> /\ RowsMove(k, 0, month, 0, 0)
  BY DEF RejectReview, RowsMove
<1> QED
  BY <1>1, <1>2, <1>4, QuietStep

\* An approved usage review settles, and keeps the projections right.
LEMMA ApproveEvidencePreserves ==
    ASSUME IInv, NEW v \in Reviews, NEW actor \in Actors, ApproveEvidence(v, actor)
    PROVE  IInv'
<1> DEFINE r == review[v].reservation
           u == review[v].usage
<1>1. TypeOK /\ RowsLinked /\ month \in Months
  BY DEF IInv, TypeOK
<1>2. r \in Reservations /\ u \in Usages
  BY <1>1 DEF RowsLinked, ApproveEvidence, Decide
<1>3. /\ review' \in [Reviews -> Review]
      /\ audit' \subseteq Reviews \X {1, 2} \X Actors
      /\ \A w \in Reviews : review'[w].state # "none" =>
            /\ review'[w].reservation \in Reservations
            /\ ~review'[w].waiver => review'[w].usage \in Usages
  BY <1>1, DecideTypes DEF ApproveEvidence
<1>4. CASE SettleLocked(r, u, {<<"review.settled", v>>})
  <2> HIDE DEF r, u
  <2> QED
    BY <1>2, <1>3, <1>4, SettlePreserves
<1>5. CASE UNCHANGED <<resv, usage, ledger, account, keyHold, monthSpend,
                       enforce, revoked, model, month>>
  <2>1. TableTypes' /\ RowsLinked'
    BY <1>1, <1>3, <1>5 DEF TableTypes, TypeOK, RowsLinked
  <2>2. PICK k \in Keys : TRUE
    BY BillingAssumption
  <2>3. RowsMove(k, 0, month, 0, 0)
    BY <1>5 DEF RowsMove
  <2> QED
    BY <1>1, <1>5, <2>1, <2>3, QuietStep
<1> QED
  BY <1>4, <1>5 DEF ApproveEvidence

(***************************************************************************)
(* Rebuilds, cold reads, configuration changes, the calendar and           *)
(* stuttering touch no table of record.                                    *)
(***************************************************************************)
LEMMA OtherPreserves ==
    ASSUME IInv,
           \/ \E k \in Keys, m \in Months : \/ ProjectionRebuild(k, m)
                                            \/ ColdSpendRead(k, m)
           \/ ColdBalanceRead
           \/ \E flag \in BOOLEAN : UpdateBalancePolicy(flag)
           \/ \E k \in Keys : RevokeKey(k)
           \/ \E p \in Prices, enabled \in BOOLEAN : PutModel(p, enabled)
           \/ NextMonth
           \/ UNCHANGED vars
    PROVE  IInv'
<1>1. TypeOK /\ RowsLinked /\ HistoryFits /\ ProjectionsAgree /\ month \in Months
  BY DEF IInv, TypeOK
<1>2. Account = AccountRow(0, 0)
  BY <1>1, ReadsAreHistory, HistoryType DEF AccountRow
<1>3. PICK k0 \in Keys : TRUE
  BY BillingAssumption
<1>4. ASSUME NEW k \in Keys, NEW m \in Months, ProjectionRebuild(k, m)
      PROVE  IInv'
  <2>1. TableTypes' /\ RowsLinked'
    BY <1>1, <1>4 DEF TableTypes, TypeOK, RowsLinked, ProjectionRebuild
  <2>2. /\ account' = AccountRow(0, 0)
        /\ KeyHold(k).held + 0 = HistoricalKeyHold(k)
        /\ Monthly(k, m).spent + 0 = HistoricalSpend(k, m)
    BY <1>1, <1>2, <1>4, ReadsAreHistory, HistoryType DEF ProjectionRebuild
  <2>3. RowsMove(k, 0, m, 0, 0)
    BY <1>4, <2>2 DEF RowsMove, ProjectionRebuild
  <2>4. UNCHANGED <<resv, usage, ledger>>
    BY <1>4 DEF ProjectionRebuild
  <2> QED
    BY <2>1, <2>3, <2>4, QuietStep
<1>5. ASSUME NEW k \in Keys, NEW m \in Months, ColdSpendRead(k, m)
      PROVE  IInv'
  <2>1. TableTypes' /\ RowsLinked'
    BY <1>1, <1>5 DEF TableTypes, TypeOK, RowsLinked, ColdSpendRead
  <2>2. Monthly(k, m) = [known |-> TRUE, spent |-> Monthly(k, m).spent + 0]
    BY <1>1, ReadsAreHistory, HistoryType
  <2>3. RowsMove(k, 0, m, 0, 0)
    BY <1>5, <2>2 DEF RowsMove, ColdSpendRead
  <2>4. UNCHANGED <<resv, usage, ledger>>
    BY <1>5 DEF ColdSpendRead
  <2> QED
    BY <2>1, <2>3, <2>4, QuietStep
<1>6. CASE ColdBalanceRead
  <2>1. TableTypes' /\ RowsLinked'
    BY <1>1, <1>6 DEF TableTypes, TypeOK, RowsLinked, ColdBalanceRead
  <2>2. RowsMove(k0, 0, month, 0, 0)
    BY <1>2, <1>6 DEF RowsMove, ColdBalanceRead
  <2>3. UNCHANGED <<resv, usage, ledger>>
    BY <1>6 DEF ColdBalanceRead
  <2> QED
    BY <1>1, <2>1, <2>2, <2>3, QuietStep
<1>7. CASE \/ \E flag \in BOOLEAN : UpdateBalancePolicy(flag)
           \/ \E k \in Keys : RevokeKey(k)
           \/ \E p \in Prices, enabled \in BOOLEAN : PutModel(p, enabled)
           \/ NextMonth
           \/ UNCHANGED vars
  <2>1. UNCHANGED <<resv, usage, ledger, review, audit, account, keyHold, monthSpend>>
    BY <1>7 DEF UpdateBalancePolicy, RevokeKey, PutModel, NextMonth, vars
  <2>2. /\ enforce' \in BOOLEAN /\ revoked' \subseteq Keys
        /\ model' \in [price : Prices, enabled : BOOLEAN]
    BY <1>1, <1>7 DEF TypeOK, UpdateBalancePolicy, RevokeKey, PutModel, NextMonth, vars
  <2>3. month' \in Months
    BY <1>1, <1>7, BillingAssumption DEF Months, UpdateBalancePolicy, RevokeKey, PutModel, NextMonth, vars
  <2>4. TableTypes' /\ RowsLinked'
    BY <1>1, <2>1, <2>2, <2>3 DEF TableTypes, TypeOK, RowsLinked
  <2>5. RowsMove(k0, 0, month, 0, 0)
    BY <2>1 DEF RowsMove
  <2> QED
    BY <1>1, <2>1, <2>4, <2>5, QuietStep
<1> QED
  BY <1>4, <1>5, <1>6, <1>7

(***************************************************************************)
(* The invariant holds initially: no projection row exists yet.            *)
(***************************************************************************)
LEMMA InitInv == Init => IInv
<1> SUFFICES ASSUME Init PROVE IInv
  OBVIOUS
<1>1. HistoryFits /\ ProjectionsAgree
  BY DEF Init, ProjectionsAgree
<1>2. NoResv \in Resv /\ NoUsage \in Usage /\ NoReview \in Review
  BY MaxAmountAssumption, BillingAssumption
     DEF NoResv, Resv, States, Zero, TokenPair, Amount, Null, NoCompletion,
         Completion, NoUsage, Usage, NoReview, Review
<1>3. LegacyResv \subseteq Resv
      /\ \A row \in LegacyResv : row.state # "none" => row.key \in Keys
  <2>1. ASSUME NEW row \in LegacyResv, row # NoResv
        PROVE  row \in Resv /\ row.key \in Keys
    <3>1. row \in [state : Held, key : Keys, request : Requests,
                   limit : {l \in Usages : l.input + l.output \in 1 .. MaxContext},
                   price : Prices, reserved : Amount, settled : {Null},
                   completion : {NoCompletion}]
      BY <2>1 DEF LegacyResv
    <3>2. NoCompletion \in Completion
      BY DEF NoCompletion, Completion
    <3> QED
      BY <3>1, <3>2, BillingAssumption DEF Resv, Held, States, Null
  <2> QED
    BY <1>2, <2>1 DEF NoResv
<1>4. LegacyUsage \subseteq Usage
  <2>1. 1 \in Months
    BY BillingAssumption DEF Months
  <2>2. Amounts \subseteq Amount
    BY BillingAssumption
  <2> QED
    BY <1>2, <2>1, <2>2 DEF LegacyUsage, Usage
<1>5. resv \in [Reservations -> Resv]
      /\ \A r \in Reservations : resv[r].state # "none" => resv[r].key \in Keys
  <2>1. PICK f \in [Legacy \cap Reservations -> LegacyResv] :
           resv = [r \in Reservations |-> IF r \in Legacy THEN f[r] ELSE NoResv]
    BY DEF Init
  <2> QED
    BY <1>2, <1>3, <2>1 DEF NoResv
<1>6. usage \in [UsageIds -> Usage]
  <2>1. PICK f \in [Legacy \cap UsageEvents -> LegacyUsage] :
           usage = [e \in UsageIds |-> IF e \in Legacy \cap UsageEvents THEN f[e]
                                       ELSE NoUsage]
    BY DEF Init
  <2> QED
    BY <1>2, <1>4, <2>1
<1>7. ledger \in [Txns -> Amount]
  <2>1. PICK f \in [Legacy \cap TopUps -> Amounts] :
           ledger = [t \in Txns |-> IF t \in UsageIds THEN usage[t].cost
                                    ELSE IF t \in Legacy THEN f[t] ELSE 0]
    BY DEF Init
  <2>2. \A t \in UsageIds : usage[t].cost \in Amount
    BY <1>6 DEF Usage
  <2>3. \A t \in Txns : t \in Legacy /\ t \notin UsageIds => t \in Legacy \cap TopUps
    BY BillingAssumption DEF UsageIds
  <2>4. 0 \in Amount /\ Amounts \subseteq Amount
    BY BillingAssumption, MaxAmountAssumption DEF Amount
  <2> QED
    BY <2>1, <2>2, <2>3, <2>4
<1>8. ProjectionTypes
  BY MaxAmountAssumption DEF Init, ProjectionTypes, Amount, Balance
<1>9. TableTypes
  <2>1. review \in [Reviews -> Review] /\ audit \subseteq Reviews \X {1, 2} \X Actors
    BY <1>2 DEF Init
  <2>2. /\ enforce \in BOOLEAN /\ revoked \subseteq Keys
        /\ model \in [price : Prices, enabled : BOOLEAN]
    BY DEF Init
  <2>3. month \in Months
    BY BillingAssumption DEF Init, Months
  <2> QED
    BY <1>5, <1>6, <1>7, <2>1, <2>2, <2>3 DEF TableTypes
<1>10. RowsLinked
  BY <1>5 DEF Init, RowsLinked, NoReview
<1> QED
  BY <1>1, <1>8, <1>9, <1>10, TypeSplit DEF IInv

(***************************************************************************)
(* Every step of every handler preserves the invariant.                    *)
(***************************************************************************)
LEMMA NextInv == IInv /\ [Next]_vars => IInv'
<1> SUFFICES ASSUME IInv, [Next]_vars PROVE IInv'
  OBVIOUS
<1>1. ASSUME NEW r \in Reservations,
             \/ \E k \in Keys, q \in Requests, l \in Usages : ReserveMoney(r, k, q, l)
             \/ DispatchMoney(r)
             \/ ReleaseMoney(r)
             \/ UnresolvedMoney(r, Missing)
             \/ \E u \in Usages : \/ UnresolvedMoney(r, Over(u))
                                  \/ SettleMoney(r, u)
      PROVE  IInv'
  <2>1. Missing \in Completion /\ \A u \in Usages : Over(u) \in Completion
    BY DEF Missing, Over, Completion
  <2> QED
    BY <1>1, <2>1, ReservePreserves, DispatchPreserves, ReleasePreserves,
       UnresolvedPreserves, SettleMoneyPreserves
<1>2. ASSUME NEW e \in UsageEvents, NEW k \in Keys, NEW q \in Requests,
             NEW u \in Usages, NEW p \in Prices, NEW m \in 1 .. month,
             NEW ok \in BOOLEAN, RecordUsage(e, k, q, u, p, m, ok)
      PROVE  IInv'
  BY <1>2, RecordUsagePreserves
<1>3. ASSUME NEW t \in TopUps, NEW a \in Amounts, PostCredit(t, a)
      PROVE  IInv'
  <2>1. a \in Amount /\ a \in Int
    BY BillingAssumption, MaxAmountAssumption DEF Amount
  <2> QED
    BY <1>3, <2>1, PostPreserves DEF PostCredit
<1>4. ASSUME NEW t \in Debits, NEW a \in Amounts, PostRefund(t, a)
      PROVE  IInv'
  <2>1. a \in Amount /\ -a \in Int /\ t \notin TopUps
    BY BillingAssumption, MaxAmountAssumption DEF Amount
  <2>2. Account.balance + (-a) \in Balance
    <3>1. Account.balance \in Int
      BY ReadsAreHistory, HistoryType DEF IInv
    <3> QED
      BY <1>4, <2>1, <3>1, MaxAmountAssumption DEF PostRefund, Amount
  <2> QED
    BY <1>4, <2>1, <2>2, PostPreserves DEF PostRefund
<1>5. ASSUME NEW v \in Reviews, NEW actor \in Actors,
             \/ \E r \in Reservations :
                   \/ SubmitReview(v, r, actor, TRUE, None)
                   \/ \E u \in Usages : SubmitReview(v, r, actor, FALSE, u)
             \/ RejectReview(v, actor)
             \/ ApproveWaiver(v, actor)
             \/ ApproveEvidence(v, actor)
      PROVE  IInv'
  <2>1. ASSUME NEW r \in Reservations, SubmitReview(v, r, actor, TRUE, None)
        PROVE  IInv'
    BY <2>1, SubmitPreserves
  <2>2. ASSUME NEW r \in Reservations, NEW u \in Usages,
               SubmitReview(v, r, actor, FALSE, u)
        PROVE  IInv'
    BY <2>2, SubmitPreserves
  <2> QED
    BY <1>5, <2>1, <2>2, RejectPreserves, WaivePreserves, ApproveEvidencePreserves
<1> QED
  BY <1>1, <1>2, <1>3, <1>4, <1>5, OtherPreserves DEF Next

(***************************************************************************)
(* The tables always have their types: amounts are non-negative i64        *)
(* values, and no hold or spend counter is ever negative.                  *)
(***************************************************************************)
THEOREM TypeCorrect == Spec => []TypeOK
<1>1. IInv => TypeOK
  BY DEF IInv
<1> QED
  BY <1>1, InitInv, NextInv, PTL DEF Spec

(***************************************************************************)
(* Every projection row equals the history it summarises, for any number   *)
(* of reservations, keys, months, v1 events, credits and reviews, starting *)
(* from any history the migration finds.                                   *)
(***************************************************************************)
THEOREM ProjectionsCorrect == Spec => []ProjectionsAgree
<1>1. IInv => ProjectionsAgree
  BY DEF IInv
<1> QED
  BY <1>1, InitInv, NextInv, PTL DEF Spec

-----------------------------------------------------------------------------
(* The rows of record.                                                     *)

\* What a reservation was made on stays.
SameTerms(r) ==
    /\ resv'[r].key = resv[r].key /\ resv'[r].request = resv[r].request
    /\ resv'[r].limit = resv[r].limit /\ resv'[r].price = resv[r].price
    /\ resv'[r].reserved = resv[r].reserved /\ resv'[r].settled = resv[r].settled

\* One reservation moves on and nothing is charged.
Touches(r, from, to) ==
    /\ resv[r].state \in from /\ resv'[r].state = to
    /\ SameTerms(r)
    /\ \A x \in Reservations \ {r} : resv'[x] = resv[x]

\* One reservation is charged for the usage u.
Settles(r, u) ==
    LET amount == Cost(u, resv[r].price)
    IN  /\ resv[r].state = "dispatched" /\ Within(u, resv[r].limit)
        /\ resv'[r].state = "settled" /\ resv'[r].settled = amount
        /\ resv'[r].completion = Payload(u)
        /\ resv'[r].key = resv[r].key /\ resv'[r].request = resv[r].request
        /\ resv'[r].limit = resv[r].limit /\ resv'[r].price = resv[r].price
        /\ resv'[r].reserved = resv[r].reserved
        /\ usage'[r] = [key |-> resv[r].key, request |-> resv[r].request,
                        month |-> month, cost |-> amount]
        /\ \A x \in Reservations \ {r} : resv'[x] = resv[x]
        /\ \A e \in UsageIds \ {r} : usage'[e] = usage[e] /\ ledger'[e] = ledger[e]
        /\ ledger'[r] = amount

\* A hold is the cost of its limits at its frozen price; it has been charged
\* if and only if it is settled, and never in a month to come.
RowOK(r) ==
    /\ resv[r].state # "none" => resv[r].reserved = Cost(resv[r].limit, resv[r].price)
    /\ usage[r].month <= month
    /\ IF resv[r].state = "settled"
       THEN /\ usage[r].cost = resv[r].settled
            /\ usage[r].key = resv[r].key
            /\ usage[r].request = resv[r].request
            /\ resv[r].settled <= resv[r].reserved
            /\ resv[r].completion.kind = "settlement"
            /\ resv[r].settled = Cost(resv[r].completion.usage, resv[r].price)
       ELSE usage[r] = NoUsage /\ resv[r].settled = Null

LedgerOK == \A e \in UsageIds : ledger[e] = usage[e].cost

RowsInv == RequestPathsDisjoint /\ LedgerOK /\ \A r \in Reservations : RowOK(r)

\* ReviewsTakeEffect, and what the audit trail holds before a decision.
AuditOf(v) == {a \in audit : a[1] = v}

ReviewOK(v) ==
    LET r == review[v].reservation
    IN  /\ review[v].state = "settled" =>
              /\ resv[r].state = "settled"
              /\ resv[r].completion = Payload(review[v].usage)
        /\ review[v].state = "waived" => resv[r].state = "waived"
        /\ review[v].state = "none" => AuditOf(v) = {}
        /\ review[v].state = "submitted" => AuditOf(v) = {<<v, 1, review[v].submitter>>}
        /\ review[v].state \notin {"none", "submitted"} =>
              /\ review[v].reviewer # review[v].submitter
              /\ AuditOf(v) = {<<v, 1, review[v].submitter>>, <<v, 2, review[v].reviewer>>}

WaiversExplained ==
    \A r \in Reservations : resv[r].state = "waived" =>
        \E v \in Reviews : review[v].state = "waived" /\ review[v].reservation = r

ReviewsInv == (\A v \in Reviews : ReviewOK(v)) /\ WaiversExplained

\* Usage within the limits costs at most what the limits cost.
LEMMA CostMonotone ==
    ASSUME NEW u \in TokenPair, NEW l \in TokenPair, NEW p \in TokenPair, Within(u, l)
    PROVE  Cost(u, p) <= Cost(l, p)
<1>1. ASSUME NEW a \in Nat, NEW b \in Nat, NEW c \in Nat, a <= b
      PROVE  a * c <= b * c
  <2>1. PICK d \in Nat : b = a + d
    <3>1. b - a \in Nat /\ b = a + (b - a)
      BY <1>1
    <3> QED
      BY <3>1
  <2>2. b * c = a * c + d * c
    BY <2>1
  <2>3. d * c \in Nat /\ a * c \in Nat
    OBVIOUS
  <2> QED
    BY <2>2, <2>3
<1>2. /\ u.input \in Nat /\ u.output \in Nat /\ l.input \in Nat /\ l.output \in Nat
      /\ p.input \in Nat /\ p.output \in Nat /\ u.input <= l.input /\ u.output <= l.output
  BY DEF TokenPair, Within
<1>3. u.input * p.input <= l.input * p.input /\ u.output * p.output <= l.output * p.output
  BY <1>1, <1>2
<1>4. /\ u.input * p.input \in Nat /\ l.input * p.input \in Nat
      /\ u.output * p.output \in Nat /\ l.output * p.output \in Nat
  BY <1>2
<1> QED
  BY <1>3, <1>4 DEF Cost

\* The handlers that move one reservation without charging it.
LEMMA TouchingSteps ==
    ASSUME IInv, NEW r \in Reservations
    PROVE  /\ DispatchMoney(r) => Touches(r, {"reserved"}, "dispatched")
           /\ ReleaseMoney(r) => Touches(r, {"reserved"}, "released")
           /\ \A report : UnresolvedMoney(r, report) => Touches(r, {"dispatched"}, "dispatched")
           /\ \A v \in Reviews, actor \in Actors :
                 ApproveWaiver(v, actor) /\ review[v].reservation = r
                    => Touches(r, Held, "waived")
<1>1. resv \in [Reservations -> Resv] /\ resv[r] \in Resv
  BY DEF IInv, TypeOK
<1>2. ASSUME DispatchMoney(r) PROVE Touches(r, {"reserved"}, "dispatched")
  BY <1>1, <1>2 DEF DispatchMoney, Touches, SameTerms, Resv
<1>3. ASSUME ReleaseMoney(r) PROVE Touches(r, {"reserved"}, "released")
  BY <1>1, <1>3 DEF ReleaseMoney, Releasable, Touches, SameTerms, Resv
<1>4. ASSUME NEW report, UnresolvedMoney(r, report)
      PROVE  Touches(r, {"dispatched"}, "dispatched")
  BY <1>1, <1>4 DEF UnresolvedMoney, Touches, SameTerms, Resv
<1>5. ASSUME NEW v \in Reviews, NEW actor \in Actors, ApproveWaiver(v, actor),
             review[v].reservation = r
      PROVE  Touches(r, Held, "waived")
  BY <1>1, <1>5 DEF ApproveWaiver, Touches, SameTerms, Resv
<1> QED
  BY <1>2, <1>3, <1>4, <1>5

\* settle_locked ends one hold and writes its usage event and its debit.
LEMMA SettlingSteps ==
    ASSUME IInv, LedgerOK, NEW r \in Reservations, NEW u \in Usages, NEW decision,
           SettleLocked(r, u, decision)
    PROVE  Settles(r, u)
<1> DEFINE amount == Cost(u, resv[r].price)
<1>1. /\ resv \in [Reservations -> Resv] /\ resv[r] \in Resv
      /\ usage \in [UsageIds -> Usage] /\ ledger \in [Txns -> Amount]
      /\ r \in UsageIds /\ r \in Txns /\ UsageIds \subseteq Txns
  BY DEF IInv, TypeOK, UsageIds, Txns
<1>2. u \in TokenPair /\ resv[r].price \in TokenPair
  BY <1>1, BillingAssumption DEF Resv
<1>3. amount \in Nat
  BY <1>2, CostType
<1>4. ledger'[r] = amount /\ \A e \in UsageIds \ {r} : ledger'[e] = ledger[e]
  <2>1. CASE amount > 0
    <3>1. ledger' = [ledger EXCEPT ![r] = amount]
      BY <2>1 DEF SettleLocked, Post
    <3> HIDE DEF amount
    <3> QED
      BY <3>1, <1>1
  <2>2. CASE amount = 0
    <3>1. UNCHANGED ledger /\ usage[r] = NoUsage
      BY <2>2 DEF SettleLocked
    <3>2. ledger[r] = 0
      BY <3>1, <1>1 DEF LedgerOK, NoUsage
    <3> HIDE DEF amount
    <3> QED
      BY <3>1, <3>2, <2>2
  <2> HIDE DEF amount
  <2> QED
    BY <2>1, <2>2, <1>3
<1>5. /\ resv[r].state = "dispatched" /\ Within(u, resv[r].limit)
      /\ usage' = [usage EXCEPT ![r] = [key |-> resv[r].key, request |-> resv[r].request,
                                        month |-> month, cost |-> amount]]
      /\ resv' = [resv EXCEPT ![r].state = "settled", ![r].settled = amount,
                              ![r].completion = Payload(u)]
  BY DEF SettleLocked
<1>6. usage'[r] = [key |-> resv[r].key, request |-> resv[r].request,
                   month |-> month, cost |-> amount]
      /\ \A e \in UsageIds \ {r} : usage'[e] = usage[e]
  BY <1>1, <1>5
<1>7. /\ resv'[r].state = "settled" /\ resv'[r].settled = amount
      /\ resv'[r].completion = Payload(u)
      /\ resv'[r].key = resv[r].key /\ resv'[r].request = resv[r].request
      /\ resv'[r].limit = resv[r].limit /\ resv'[r].price = resv[r].price
      /\ resv'[r].reserved = resv[r].reserved
      /\ \A x \in Reservations \ {r} : resv'[x] = resv[x]
  <2> HIDE DEF amount
  <2> QED
    BY <1>1, <1>5 DEF Resv
<1> QED
  BY <1>4, <1>5, <1>6, <1>7 DEF Settles

(***************************************************************************)
(* The rows of record, step by step.                                       *)
(***************************************************************************)
LEMMA TouchKeepsRows ==
    ASSUME RowsInv, NEW r \in Reservations, NEW from \in SUBSET Held,
           NEW to \in {"dispatched", "released", "waived"}, Touches(r, from, to),
           UNCHANGED <<usage, ledger, month>>
    PROVE  RowsInv'
<1>1. \A x \in Reservations : RowOK(x)'
  BY DEF RowsInv, RowOK, Touches, SameTerms, Held
<1>2. RequestPathsDisjoint'
  <2>1. \A x \in Reservations : resv'[x].request = resv[x].request
    BY DEF Touches, SameTerms
  <2> QED
    BY <2>1 DEF RowsInv, RequestPathsDisjoint
<1> QED
  BY <1>1, <1>2 DEF RowsInv, LedgerOK

\* A settlement keeps the rows consistent with each other.
LEMMA SettleKeepsRows ==
    ASSUME IInv, RowsInv, NEW r \in Reservations, NEW u \in Usages, Settles(r, u),
           UNCHANGED month
    PROVE  RowsInv'
<1> DEFINE amount == Cost(u, resv[r].price)
<1>1. resv[r] \in Resv /\ month \in Months /\ u \in TokenPair
  BY BillingAssumption DEF IInv, TypeOK
<1>2. resv[r].reserved = Cost(resv[r].limit, resv[r].price)
  BY DEF RowsInv, RowOK, Settles
<1>3. amount <= resv[r].reserved
  <2>1. resv[r].limit \in TokenPair /\ resv[r].price \in TokenPair
    BY <1>1 DEF Resv
  <2> QED
    BY <1>1, <1>2, <2>1, CostMonotone DEF Settles
<1>4. /\ usage'[r].key = resv[r].key /\ usage'[r].request = resv[r].request
      /\ usage'[r].month = month /\ usage'[r].cost = amount /\ ledger'[r] = amount
  BY DEF Settles
<1>5. month <= month
  BY <1>1 DEF Months
<1>6. resv'[r].completion.kind = "settlement" /\ resv'[r].completion.usage = u
  BY DEF Settles, Payload
<1>7. RowOK(r)'
  BY <1>2, <1>3, <1>4, <1>5, <1>6 DEF RowOK, Settles
<1>8. \A x \in Reservations \ {r} : RowOK(x)'
  BY DEF RowOK, Settles, RowsInv, UsageIds
<1>9. LedgerOK'
  BY <1>4 DEF LedgerOK, RowsInv, Settles
<1>10. RequestPathsDisjoint'
  <2>1. \A x \in Reservations : resv'[x].request = resv[x].request
    BY DEF Settles
  <2>2. \A e \in UsageEvents : usage'[e] = usage[e]
    BY BillingAssumption DEF Settles, UsageIds
  <2> QED
    BY <2>1, <2>2 DEF RowsInv, RequestPathsDisjoint
<1> QED
  BY <1>7, <1>8, <1>9, <1>10 DEF RowsInv

\* A new hold keeps the rows consistent with each other.
LEMMA ReserveKeepsRows ==
    ASSUME IInv, RowsInv, NEW r \in Reservations, NEW k \in Keys, NEW q \in Requests,
           NEW l \in Usages, ReserveMoney(r, k, q, l)
    PROVE  RowsInv'
<1>1. resv \in [Reservations -> Resv]
  BY DEF IInv, TypeOK
<1>2. /\ resv'[r].state = "reserved" /\ resv'[r].request = q
      /\ resv'[r].reserved = Cost(resv'[r].limit, resv'[r].price)
      /\ resv'[r].settled = Null
      /\ \A x \in Reservations \ {r} : resv'[x] = resv[x]
  BY <1>1 DEF ReserveMoney
<1>3. /\ UNCHANGED <<usage, ledger, month>> /\ resv[r].state = "none"
      /\ NeverReserved(q) /\ \A e \in UsageIds : usage[e].request # q
  BY DEF ReserveMoney
<1>4. \A x \in Reservations : RowOK(x)'
  BY <1>2, <1>3 DEF RowsInv, RowOK
<1>5. RequestPathsDisjoint'
  BY <1>2, <1>3 DEF RowsInv, RequestPathsDisjoint, NeverReserved, UsageIds
<1> QED
  BY <1>3, <1>4, <1>5 DEF RowsInv, LedgerOK

\* A v1 usage event keeps the rows consistent with each other.
LEMMA RecordUsageKeepsRows ==
    ASSUME IInv, RowsInv, NEW e \in UsageEvents, NEW k \in Keys, NEW q \in Requests,
           NEW u \in Usages, NEW p \in Prices, NEW m, NEW ok \in BOOLEAN,
           RecordUsage(e, k, q, u, p, m, ok)
    PROVE  RowsInv'
<1> DEFINE cost == IF ok /\ u # Zero THEN Cost(u, p) ELSE 0
<1>1. /\ usage \in [UsageIds -> Usage] /\ ledger \in [Txns -> Amount]
      /\ e \in UsageIds /\ e \in Txns /\ UsageIds \subseteq Txns /\ e \notin Reservations
  BY BillingAssumption DEF IInv, TypeOK, UsageIds, Txns
<1>2. cost \in Nat
  BY BillingAssumption, CostType
<1>3. /\ usage[e] = NoUsage /\ NeverReserved(q) /\ UNCHANGED <<resv, month>>
      /\ usage' = [usage EXCEPT ![e] = [key |-> k, request |-> q, month |-> m, cost |-> cost]]
      /\ IF cost > 0 THEN Post(e, cost) ELSE UNCHANGED ledger
  BY DEF RecordUsage
<1> HIDE DEF cost
<1>4. /\ usage'[e].request = q /\ usage'[e].cost = cost
      /\ \A x \in UsageIds \ {e} : usage'[x] = usage[x]
  BY <1>1, <1>3
<1>5. ledger'[e] = cost /\ \A x \in UsageIds \ {e} : ledger'[x] = ledger[x]
  <2>1. CASE cost > 0
    BY <2>1, <1>1, <1>3 DEF Post
  <2>2. CASE cost = 0
    <3>1. ledger[e] = 0
      BY <1>1, <1>3 DEF RowsInv, LedgerOK, NoUsage
    <3> QED
      BY <2>2, <3>1, <1>3
  <2> QED
    BY <2>1, <2>2, <1>2
<1>6. \A r \in Reservations : RowOK(r)'
  BY <1>1, <1>3, <1>4 DEF RowsInv, RowOK, UsageIds
<1>7. RequestPathsDisjoint'
  BY <1>3, <1>4 DEF RowsInv, RequestPathsDisjoint, NeverReserved, UsageIds
<1>8. LedgerOK'
  BY <1>4, <1>5 DEF LedgerOK, RowsInv
<1> QED
  BY <1>6, <1>7, <1>8 DEF RowsInv

\* A step that leaves reservations, usage and debits alone keeps the rows
\* consistent, a new month included.
LEMMA OthersKeepRows ==
    ASSUME IInv, RowsInv, UNCHANGED <<resv, usage>>, \A e \in UsageIds : ledger'[e] = ledger[e],
           month' \in Months, month <= month'
    PROVE  RowsInv'
<1>1. \A r \in Reservations : usage[r].month \in Int /\ month \in Int /\ month' \in Int
  <2>1. \A r \in Reservations : usage[r] \in Usage
    BY DEF IInv, TypeOK, UsageIds
  <2> QED
    BY <2>1 DEF Usage, Months, IInv, TypeOK
<1>2. \A r \in Reservations : RowOK(r)'
  BY <1>1 DEF RowsInv, RowOK
<1> QED
  BY <1>2 DEF RowsInv, RequestPathsDisjoint, LedgerOK

(***************************************************************************)
(* What a step may do to the rows of record: reserve, move a reservation   *)
(* on, settle it, record a v1 event, or leave them alone.                  *)
(***************************************************************************)
Reserving == \E r \in Reservations, k \in Keys, q \in Requests, l \in Usages :
                ReserveMoney(r, k, q, l)

Touching == \E r \in Reservations, from \in SUBSET Held,
               to \in {"dispatched", "released", "waived"} :
               Touches(r, from, to) /\ UNCHANGED <<usage, ledger, month>>

Settling == \E r \in Reservations, u \in Usages : Settles(r, u) /\ UNCHANGED month

Recording == \E e \in UsageEvents, k \in Keys, q \in Requests, u \in Usages, p \in Prices,
                m \in 1 .. month, ok \in BOOLEAN : RecordUsage(e, k, q, u, p, m, ok)

Leaving == /\ UNCHANGED <<resv, usage>> /\ \A e \in UsageIds : ledger'[e] = ledger[e]
           /\ month' \in Months /\ month <= month'

\* What a step can do to the rows of record: five kinds.
LEMMA StepKinds ==
    ASSUME IInv, LedgerOK, [Next]_vars
    PROVE  Reserving \/ Touching \/ Settling \/ Recording \/ Leaving
<1>0. /\ month \in Months /\ month <= month /\ ledger \in [Txns -> Amount]
      /\ "reserved" \in Held /\ "dispatched" \in Held
  BY DEF IInv, TypeOK, Months, Held
<1>1. ASSUME NEW r \in Reservations,
             \/ \E k \in Keys, q \in Requests, l \in Usages : ReserveMoney(r, k, q, l)
             \/ DispatchMoney(r)
             \/ ReleaseMoney(r)
             \/ UnresolvedMoney(r, Missing)
             \/ \E u \in Usages : \/ UnresolvedMoney(r, Over(u))
                                  \/ SettleMoney(r, u)
      PROVE  Reserving \/ Touching \/ Settling
  <2>1. ASSUME DispatchMoney(r) PROVE Touching
    <3>1. Touches(r, {"reserved"}, "dispatched") /\ UNCHANGED <<usage, ledger, month>>
      BY <2>1, TouchingSteps DEF DispatchMoney
    <3> QED
      BY <3>1, <1>0 DEF Touching
  <2>2. ASSUME ReleaseMoney(r) PROVE Touching
    <3>1. Touches(r, {"reserved"}, "released") /\ UNCHANGED <<usage, ledger, month>>
      BY <2>2, TouchingSteps DEF ReleaseMoney
    <3> QED
      BY <3>1, <1>0 DEF Touching
  <2>3. ASSUME NEW report, UnresolvedMoney(r, report) PROVE Touching
    <3>1. Touches(r, {"dispatched"}, "dispatched") /\ UNCHANGED <<usage, ledger, month>>
      BY <2>3, TouchingSteps DEF UnresolvedMoney
    <3> QED
      BY <3>1, <1>0 DEF Touching
  <2>4. ASSUME NEW u \in Usages, SettleMoney(r, u) PROVE Settling
    <3>1. SettleLocked(r, u, {}) /\ UNCHANGED month
      BY <2>4 DEF SettleMoney, SettleLocked
    <3>2. Settles(r, u)
      BY <3>1, SettlingSteps
    <3> QED
      BY <3>1, <3>2 DEF Settling
  <2> QED
    BY <1>1, <2>1, <2>2, <2>3, <2>4 DEF Reserving
<1>2. ASSUME NEW t \in TopUps \cup Debits, NEW a, Post(t, a), UNCHANGED <<resv, usage, month>>
      PROVE  Leaving
  <2>1. t \notin UsageIds /\ UsageIds \subseteq Txns
    BY BillingAssumption DEF UsageIds, Txns
  <2>2. \A e \in UsageIds : ledger'[e] = ledger[e]
    BY <1>0, <1>2, <2>1 DEF Post
  <2> QED
    BY <1>0, <1>2, <2>2 DEF Leaving
<1>3. ASSUME NEW v \in Reviews, NEW actor \in Actors, ApproveWaiver(v, actor)
      PROVE  Touching
  <2>1. review[v].reservation \in Reservations
    BY <1>3 DEF IInv, RowsLinked, ApproveWaiver, Decide
  <2>2. Touches(review[v].reservation, Held, "waived") /\ UNCHANGED <<usage, ledger, month>>
    BY <1>3, <2>1, TouchingSteps DEF ApproveWaiver
  <2> QED
    BY <2>1, <2>2 DEF Touching
<1>4. ASSUME NEW v \in Reviews, NEW actor \in Actors, ApproveEvidence(v, actor)
      PROVE  Settling \/ Leaving
  <2>1. review[v].reservation \in Reservations /\ review[v].usage \in Usages
    BY <1>4 DEF IInv, RowsLinked, ApproveEvidence, Decide
  <2>2. CASE SettleLocked(review[v].reservation, review[v].usage, {<<"review.settled", v>>})
    <3>1. Settles(review[v].reservation, review[v].usage)
      BY <2>1, <2>2, SettlingSteps
    <3>2. UNCHANGED month
      BY <2>2 DEF SettleLocked
    <3> QED
      BY <2>1, <3>1, <3>2 DEF Settling
  <2>3. CASE UNCHANGED <<resv, usage, ledger, month>>
    BY <2>3, <1>0 DEF Leaving
  <2> QED
    BY <1>4, <2>2, <2>3 DEF ApproveEvidence
<1>5. ASSUME UNCHANGED <<resv, usage, ledger>>, UNCHANGED month
      PROVE  Leaving
  BY <1>0, <1>5 DEF Leaving
<1>6. ASSUME NextMonth
      PROVE  Leaving
  <2>1. month' = month + 1 /\ month < MaxMonth /\ UNCHANGED <<resv, usage, ledger>>
    BY <1>6 DEF NextMonth
  <2>2. month' \in Months /\ month <= month'
    BY <1>0, <2>1, BillingAssumption DEF Months
  <2> QED
    BY <2>1, <2>2 DEF Leaving
<1>7. ASSUME NEW v \in Reviews, NEW actor \in Actors,
             \/ \E r \in Reservations :
                   \/ SubmitReview(v, r, actor, TRUE, None)
                   \/ \E u \in Usages : SubmitReview(v, r, actor, FALSE, u)
             \/ RejectReview(v, actor)
      PROVE  Leaving
  BY <1>5, <1>7 DEF SubmitReview, RejectReview
<1>8. ASSUME \/ \E k \in Keys, m \in Months : \/ ProjectionRebuild(k, m)
                                              \/ ColdSpendRead(k, m)
             \/ ColdBalanceRead
             \/ \E flag \in BOOLEAN : UpdateBalancePolicy(flag)
             \/ \E k \in Keys : RevokeKey(k)
             \/ \E p \in Prices, enabled \in BOOLEAN : PutModel(p, enabled)
             \/ UNCHANGED vars
      PROVE  Leaving
  BY <1>5, <1>8 DEF ProjectionRebuild, ColdSpendRead, ColdBalanceRead, UpdateBalancePolicy,
                    RevokeKey, PutModel, vars
<1>9. ASSUME NEW t \in TopUps, NEW a \in Amounts, PostCredit(t, a) PROVE Leaving
  BY <1>2, <1>9 DEF PostCredit
<1>10. ASSUME NEW t \in Debits, NEW a \in Amounts, PostRefund(t, a) PROVE Leaving
  BY <1>2, <1>10 DEF PostRefund
<1> QED
  BY <1>1, <1>3, <1>4, <1>6, <1>7, <1>8, <1>9, <1>10 DEF Next, Recording

\* Every step keeps the rows consistent with each other.
LEMMA RowsStep == IInv /\ RowsInv /\ [Next]_vars => RowsInv'
<1> SUFFICES ASSUME IInv, RowsInv, [Next]_vars PROVE RowsInv'
  OBVIOUS
<1>1. Reserving \/ Touching \/ Settling \/ Recording \/ Leaving
  BY StepKinds DEF RowsInv
<1>2. ASSUME Reserving PROVE RowsInv'
  BY <1>2, ReserveKeepsRows DEF Reserving
<1>3. ASSUME Touching PROVE RowsInv'
  BY <1>3, TouchKeepsRows DEF Touching
<1>4. ASSUME Settling PROVE RowsInv'
  BY <1>4, SettleKeepsRows DEF Settling
<1>5. ASSUME Recording PROVE RowsInv'
  BY <1>5, RecordUsageKeepsRows DEF Recording
<1>6. ASSUME Leaving PROVE RowsInv'
  BY <1>6, OthersKeepRows DEF Leaving
<1> QED
  BY <1>1, <1>2, <1>3, <1>4, <1>5, <1>6

\* History as the migration finds it is consistent.
LEMMA RowsInit == Init => RowsInv
<1> SUFFICES ASSUME Init PROVE RowsInv
  OBVIOUS
<1>1. \A r \in Reservations : usage[r] = NoUsage
  <2>1. PICK f \in [Legacy \cap UsageEvents -> LegacyUsage] :
           usage = [e \in UsageIds |-> IF e \in Legacy \cap UsageEvents THEN f[e]
                                       ELSE NoUsage]
    BY DEF Init
  <2> QED
    BY <2>1, BillingAssumption DEF UsageIds
<1>2. LedgerOK
  <2>1. PICK f \in [Legacy \cap TopUps -> Amounts] :
           ledger = [t \in Txns |-> IF t \in UsageIds THEN usage[t].cost
                                    ELSE IF t \in Legacy THEN f[t] ELSE 0]
    BY DEF Init
  <2> QED
    BY <2>1 DEF LedgerOK, Txns
<1>3. \A r \in Reservations : resv[r] \in LegacyResv
  <2>1. PICK f \in [Legacy \cap Reservations -> LegacyResv] :
           resv = [r \in Reservations |-> IF r \in Legacy THEN f[r] ELSE NoResv]
    BY DEF Init
  <2>2. NoResv \in LegacyResv
    BY DEF LegacyResv
  <2> QED
    BY <2>1, <2>2
<1>4. \A row \in LegacyResv :
         /\ row.state # "none" => row.reserved = Cost(row.limit, row.price)
         /\ row.settled = Null /\ row.state \in Held \cup {"none"}
  BY DEF LegacyResv, NoResv
<1>5. \A r \in Reservations : RowOK(r)
  <2>1. NoUsage.month <= month
    BY DEF NoUsage, Init
  <2> QED
    BY <1>1, <1>3, <1>4, <2>1 DEF RowOK, Held
<1> QED
  BY <1>2, <1>5 DEF Init, RowsInv

-----------------------------------------------------------------------------
(* The budget.                                                             *)

LEMMA SpendShare ==
    ASSUME NEW k, NEW m
    PROVE  /\ ReservationSpend(k, m) \in Nat
           /\ ReservationSpend(k, m) <= HistoricalSpend(k, m)
<1>1. SpendRows(k, m) \cap Reservations \in SUBSET SpendRows(k, m)
      /\ SpendRows(k, m) \in SUBSET UsageIds
  BY DEF SpendRows
<1>2. IsFiniteSet(SpendRows(k, m)) /\ IsFiniteSet(SpendRows(k, m) \cap Reservations)
  BY <1>1, TablesFinite, FS_Subset
<1> QED
  BY <1>1, <1>2, TotalType, TotalSubset DEF ReservationSpend, HistoricalSpend

\* As long as no reservation's usage row changes, neither does their spend.
LEMMA SpendSame ==
    ASSUME \A r \in Reservations : usage'[r] = usage[r], NEW k, NEW m
    PROVE  ReservationSpend(k, m)' = ReservationSpend(k, m)
<1> DEFINE S == SpendRows(k, m) \cap Reservations
<1>1. S' = S
  BY DEF SpendRows, UsageIds
<1>2. \A r \in S : CostOf'[r] = CostOf[r]
  BY DEF CostOf, UsageIds
<1>3. Total(S, CostOf') = Total(S, CostOf)
  BY <1>2, TotalSame
<1> QED
  BY <1>1, <1>3 DEF ReservationSpend

\* A charge raises the spend of its own key and month by its cost.
LEMMA SpendSettles ==
    ASSUME TypeOK, TypeOK', NEW r \in Reservations, usage[r] = NoUsage,
           \A e \in UsageIds \ {r} : usage'[e] = usage[e],
           NEW k \in Keys, NEW m \in Months
    PROVE  ReservationSpend(k, m)' = ReservationSpend(k, m) + SpendOf(usage'[r], k, m)
<1> DEFINE S == SpendRows(k, m) \cap Reservations
           T == SpendRows(k, m)' \cap Reservations
<1>1. r \in UsageIds /\ usage'[r] \in Usage
  BY DEF UsageIds, TypeOK
<1>2. /\ \A x \in UsageIds : CostOf[x] = usage[x].cost
      /\ \A x \in UsageIds : CostOf'[x] = usage'[x].cost
  BY DEF CostOf
<1>3. r \notin S /\ S \ {r} = T \ {r}
  BY BillingAssumption DEF SpendRows, NoUsage, UsageIds
<1>4. IsFiniteSet(S) /\ IsFiniteSet(T)
  <2>1. S \in SUBSET Reservations /\ T \in SUBSET Reservations
    OBVIOUS
  <2> QED
    BY <2>1, TablesFinite, FS_Subset
<1>5. \A y \in S \ {r} : CostOf[y] = CostOf'[y]
  BY <1>2 DEF SpendRows
<1>6. CostOf'[r] \in Amount
  BY <1>1, <1>2 DEF Usage
<1>7. Part(S, CostOf, r) = 0 /\ Part(T, CostOf', r) = SpendOf(usage'[r], k, m)
  BY <1>1, <1>2, <1>3 DEF Part, SpendOf, SpendRows
<1>8. SpendOf(usage'[r], k, m) \in Int /\ Total(S, CostOf) \in Int
  BY <1>1, <1>4, TotalType, MaxAmountAssumption DEF SpendOf, Usage, Amount
<1> HIDE DEF S, T
<1>9. Total(T, CostOf') = Total(S, CostOf) - Part(S, CostOf, r) + Part(T, CostOf', r)
  BY <1>3, <1>4, <1>5, <1>6, TotalUpdate
<1> QED
  BY <1>7, <1>8, <1>9 DEF ReservationSpend, S, T

\* Moving one reservation moves the held sums by its own hold.
LEMMA HoldsMove ==
    ASSUME TypeOK, TypeOK', NEW r \in Reservations,
           \A x \in Reservations \ {r} : resv'[x] = resv[x]
    PROVE  /\ HistoricalHeld' = HistoricalHeld - HoldOf(resv[r]) + HoldOf(resv'[r])
           /\ \A k : HistoricalKeyHold(k)' =
                 HistoricalKeyHold(k) - KeyHoldOf(resv[r], k) + KeyHoldOf(resv'[r], k)
<1>1. resv' = [resv EXCEPT ![r] = resv'[r]] /\ resv'[r] \in Resv
  BY DEF TypeOK
<1> QED
  BY <1>1, ResvWrite

\* Every step keeps what a key spends and holds within its budget.
LEMMA BudgetStep == IInv /\ IInv' /\ RowsInv /\ BudgetHolds /\ [Next]_vars => BudgetHolds'
<1> SUFFICES ASSUME IInv, IInv', RowsInv, BudgetHolds, [Next]_vars,
                    NEW k \in Keys, Budget[k] > 0
             PROVE  (ReservationSpend(k, month) + HistoricalKeyHold(k) <= Budget[k])'
  BY DEF BudgetHolds
<1>0. /\ TypeOK /\ TypeOK' /\ month \in Months /\ Budget[k] \in Nat
      /\ HistoryFits /\ ProjectionsAgree /\ RowsLinked
  BY BillingAssumption DEF IInv, TypeOK
<1>n. PICK n \in Months : n = month'
  BY <1>0 DEF TypeOK
<1>m. ReservationSpend(k, month)' = ReservationSpend(k, n)'
  BY <1>n DEF ReservationSpend, SpendRows
<1> DEFINE spend == ReservationSpend(k, month)
           held == HistoricalKeyHold(k)
<1>1. spend \in Nat /\ held \in Nat /\ spend + held <= Budget[k]
  BY SpendShare, HistoryType DEF BudgetHolds
<1> HIDE DEF spend, held
<1>2. Reserving \/ Touching \/ Settling \/ Recording \/ Leaving
  BY StepKinds DEF RowsInv
<1>3. ASSUME NEW r \in Reservations, NEW j \in Keys, NEW q \in Requests, NEW l \in Usages,
             ReserveMoney(r, j, q, l)
      PROVE  ReservationSpend(k, n)' + HistoricalKeyHold(k)' <= Budget[k]
  <2> DEFINE amount == Cost(l, model.price)
  <2>1. /\ resv[r].state = "none" /\ UNCHANGED <<usage, month>>
        /\ WithinBudget(j, amount)
    BY <1>3 DEF ReserveMoney
  <2>2. /\ resv'[r].state = "reserved" /\ resv'[r].key = j /\ resv'[r].reserved = amount
        /\ \A x \in Reservations \ {r} : resv'[x] = resv[x]
    BY <1>0, <1>3 DEF ReserveMoney, TypeOK
  <2>3. amount \in Nat
    BY <1>0, CostType, BillingAssumption DEF TypeOK
  <2> HIDE DEF amount
  <2>4. HistoricalKeyHold(k)' = held - KeyHoldOf(resv[r], k) + KeyHoldOf(resv'[r], k)
    BY <1>0, <2>2, HoldsMove DEF held
  <2>5. KeyHoldOf(resv[r], k) = 0 /\ KeyHoldOf(resv'[r], k) = IF j = k THEN amount ELSE 0
    BY <2>1, <2>2 DEF KeyHoldOf, HoldOf, Held
  <2>6. ReservationSpend(k, n)' = spend
    BY <2>1, <1>n, SpendSame DEF spend
  <2>7. CASE j = k
    <3>1. Monthly(k, month).spent + KeyHold(k).held + amount <= Budget[k]
      BY <2>1, <2>7 DEF WithinBudget
    <3>2. Monthly(k, month).spent = HistoricalSpend(k, month) /\ KeyHold(k).held = held
      BY <1>0, ReadsAreHistory DEF held
    <3>3. spend <= HistoricalSpend(k, month) /\ HistoricalSpend(k, month) \in Nat
      BY SpendShare, HistoryType DEF spend
    <3> QED
      BY <1>0, <1>1, <2>3, <2>4, <2>5, <2>6, <2>7, <3>1, <3>2, <3>3
  <2>8. CASE j # k
    BY <1>1, <2>4, <2>5, <2>6, <2>8
  <2> QED
    BY <2>7, <2>8
<1>4. ASSUME NEW r \in Reservations, NEW from \in SUBSET Held,
             NEW to \in {"dispatched", "released", "waived"},
             Touches(r, from, to), UNCHANGED <<usage, ledger, month>>
      PROVE  ReservationSpend(k, n)' + HistoricalKeyHold(k)' <= Budget[k]
  <2>1. HistoricalKeyHold(k)' = held - KeyHoldOf(resv[r], k) + KeyHoldOf(resv'[r], k)
    BY <1>0, <1>4, HoldsMove DEF held, Touches
  <2>2. ReservationSpend(k, n)' = spend
    BY <1>4, <1>n, SpendSame DEF spend
  <2>3. /\ KeyHoldOf(resv[r], k) \in Nat
        /\ KeyHoldOf(resv'[r], k) \in {KeyHoldOf(resv[r], k), 0}
    <3>1. resv[r].reserved \in Nat
      BY <1>0, MaxAmountAssumption DEF TypeOK, Resv, Amount
    <3> QED
      BY <1>4, <3>1 DEF KeyHoldOf, HoldOf, Touches, SameTerms
  <2> QED
    BY <1>0, <1>1, <2>1, <2>2, <2>3
<1>5. ASSUME NEW r \in Reservations, NEW u \in Usages, Settles(r, u), UNCHANGED month
      PROVE  ReservationSpend(k, n)' + HistoricalKeyHold(k)' <= Budget[k]
  <2> DEFINE amount == Cost(u, resv[r].price)
  <2>1. HistoricalKeyHold(k)' = held - KeyHoldOf(resv[r], k) + KeyHoldOf(resv'[r], k)
    BY <1>0, <1>5, HoldsMove DEF held, Settles
  <2>2. usage[r] = NoUsage
    BY <1>5 DEF RowsInv, RowOK, Settles
  <2>3. ReservationSpend(k, n)' = spend + SpendOf(usage'[r], k, month)
    BY <1>0, <1>5, <1>n, <2>2, SpendSettles DEF Settles, spend
  <2>4. /\ SpendOf(usage'[r], k, month) = IF resv[r].key = k THEN amount ELSE 0
        /\ KeyHoldOf(resv[r], k) = IF resv[r].key = k THEN resv[r].reserved ELSE 0
        /\ KeyHoldOf(resv'[r], k) = 0
    BY <1>5 DEF SpendOf, KeyHoldOf, HoldOf, Held, Settles
  <2>5. amount <= resv[r].reserved /\ resv[r].reserved \in Nat /\ amount \in Nat
    <3>1. /\ resv[r].limit \in TokenPair /\ resv[r].price \in TokenPair /\ u \in TokenPair
          /\ resv[r].reserved \in Nat
      BY <1>0, BillingAssumption, MaxAmountAssumption DEF TypeOK, Resv, Amount
    <3>2. resv[r].reserved = Cost(resv[r].limit, resv[r].price) /\ Within(u, resv[r].limit)
      BY <1>5 DEF RowsInv, RowOK, Settles
    <3> QED
      BY <3>1, <3>2, CostMonotone, CostType
  <2> HIDE DEF amount
  <2> QED
    BY <1>0, <1>1, <2>1, <2>3, <2>4, <2>5
<1>6. ASSUME NEW e \in UsageEvents, NEW j \in Keys, NEW q \in Requests, NEW u \in Usages,
             NEW p \in Prices, NEW m \in 1 .. month, NEW ok \in BOOLEAN,
             RecordUsage(e, j, q, u, p, m, ok)
      PROVE  ReservationSpend(k, n)' + HistoricalKeyHold(k)' <= Budget[k]
  <2>1. UNCHANGED <<resv, month>> /\ \A r \in Reservations : usage'[r] = usage[r]
    BY <1>0, <1>6, BillingAssumption DEF RecordUsage, TypeOK, UsageIds
  <2>2. ReservationSpend(k, n)' = spend /\ HistoricalKeyHold(k)' = held
    BY <2>1, <1>n, SpendSame, SameHolds DEF spend, held
  <2> QED
    BY <1>1, <2>2
<1>7. ASSUME Leaving
      PROVE  ReservationSpend(k, n)' + HistoricalKeyHold(k)' <= Budget[k]
  <2>1. /\ \A m : ReservationSpend(k, m)' = ReservationSpend(k, m)
        /\ HistoricalKeyHold(k)' = held
    BY <1>7, SpendSame, SameHolds DEF Leaving, held
  <2>2. month <= n
    BY <1>7, <1>n DEF Leaving
  <2>3. CASE n = month
    BY <1>1, <2>1, <2>3 DEF spend
  <2>4. CASE n > month
    <3>1. SpendRows(k, n) \cap Reservations = {}
      <4>1. \A r \in Reservations : usage[r].month <= month /\ usage[r].month \in Int
        <5>1. \A r \in Reservations : usage[r] \in Usage
          BY <1>0 DEF TypeOK, UsageIds
        <5> QED
          BY <5>1 DEF RowsInv, RowOK, Usage, Months
      <4> QED
        BY <4>1, <2>4, <1>0 DEF SpendRows, Months
    <3>2. Units({}, CostOf) = {}
      BY DEF Units
    <3>3. ReservationSpend(k, n) = 0
      BY <3>1, <3>2, FS_EmptySet DEF ReservationSpend, Total
    <3>4. ReservationSpend(k, n)' = 0
      BY <2>1, <3>3
    <3> QED
      BY <1>0, <1>1, <2>1, <3>4
  <2> QED
    BY <1>0, <2>2, <2>3, <2>4 DEF Months
<1> QED
  BY <1>m, <1>2, <1>3, <1>4, <1>5, <1>6, <1>7 DEF Reserving, Touching, Settling, Recording

-----------------------------------------------------------------------------
(* The outbox.                                                             *)

Lifecycle == {"reservation.created", "reservation.dispatched", "reservation.released",
              "reservation.settled", "reservation.waived"}

\* A step that neither changes a state nor publishes a lifecycle event.
LEMMA OutboxSame ==
    ASSUME OutboxTellsState, \A x \in Reservations : resv'[x].state = resv[x].state,
           \A kind \in Lifecycle, x \in Reservations :
              <<kind, x>> \in outbox' <=> <<kind, x>> \in outbox
    PROVE  OutboxTellsState'
  BY DEF OutboxTellsState, Lifecycle

\* A step that changes one state and publishes the event of the change.
LEMMA OutboxMoves ==
    ASSUME OutboxTellsState, NEW r \in Reservations, NEW ev \in Lifecycle,
           \A x \in Reservations \ {r} : resv'[x].state = resv[x].state,
           \A kind \in Lifecycle, x \in Reservations :
              <<kind, x>> \in outbox' <=>
                 <<kind, x>> \in outbox \/ (x = r /\ kind = ev),
           LET from == resv[r].state  to == resv'[r].state IN
           \/ from = "none" /\ to = "reserved" /\ ev = "reservation.created"
           \/ from = "reserved" /\ to = "dispatched" /\ ev = "reservation.dispatched"
           \/ from = "reserved" /\ to = "released" /\ ev = "reservation.released"
           \/ from = "dispatched" /\ to = "settled" /\ ev = "reservation.settled"
           \/ from \in Held /\ to = "waived" /\ ev = "reservation.waived"
    PROVE  OutboxTellsState'
<1> DEFINE Happened(kind, x) == <<kind, x>> \in outbox
           Good(x, s) ==
              /\ Happened("reservation.created", x) <=> s # "none"
              /\ s = "dispatched" => Happened("reservation.dispatched", x)
              /\ s \in {"none", "reserved", "released"} =>
                    ~Happened("reservation.dispatched", x)
              /\ Happened("reservation.released", x) <=> s = "released"
              /\ Happened("reservation.settled", x) <=> s = "settled"
              /\ Happened("reservation.waived", x) <=> s = "waived"
<1>1. \A x \in Reservations : Good(x, resv[x].state)
  BY DEF OutboxTellsState
<1>2. \A x \in Reservations \ {r}, kind \in Lifecycle : Happened(kind, x)' <=> Happened(kind, x)
  OBVIOUS
<1>3. \A kind \in Lifecycle : Happened(kind, r)' <=> Happened(kind, r) \/ kind = ev
  OBVIOUS
<1> HIDE DEF Happened
<1>4. ASSUME NEW x \in Reservations \ {r}
      PROVE  Good(x, resv[x].state)'
  BY <1>1, <1>2 DEF Lifecycle
<1>5. Good(r, resv[r].state)'
  BY <1>1, <1>3 DEF Lifecycle, Held
<1>6. \A x \in Reservations : Good(x, resv[x].state)'
  BY <1>4, <1>5
<1> QED
  BY <1>6 DEF OutboxTellsState, Happened

\* Every step writes the lifecycle event of the change it makes.
LEMMA OutboxStep == IInv /\ OutboxTellsState /\ [Next]_vars => OutboxTellsState'
<1> SUFFICES ASSUME IInv, OutboxTellsState, [Next]_vars PROVE OutboxTellsState'
  OBVIOUS
<1>0. resv \in [Reservations -> Resv]
  BY DEF IInv, TypeOK
<1>1. ASSUME NEW r \in Reservations, NEW k \in Keys, NEW q \in Requests, NEW l \in Usages,
             ReserveMoney(r, k, q, l)
      PROVE  OutboxTellsState'
  <2>1. /\ resv[r].state = "none" /\ resv'[r].state = "reserved"
        /\ \A x \in Reservations \ {r} : resv'[x].state = resv[x].state
        /\ outbox' = outbox \cup {<<"reservation.created", r>>}
    BY <1>0, <1>1 DEF ReserveMoney, Publish
  <2> QED
    BY <2>1, OutboxMoves DEF Lifecycle
<1>2. ASSUME NEW r \in Reservations, DispatchMoney(r) PROVE OutboxTellsState'
  <2>1. Touches(r, {"reserved"}, "dispatched")
        /\ outbox' = outbox \cup {<<"reservation.dispatched", r>>}
    BY <1>2, TouchingSteps DEF DispatchMoney, Publish
  <2> QED
    BY <2>1, OutboxMoves DEF Lifecycle, Touches
<1>3. ASSUME NEW r \in Reservations, ReleaseMoney(r) PROVE OutboxTellsState'
  <2>1. Touches(r, {"reserved"}, "released")
        /\ outbox' = outbox \cup {<<"reservation.released", r>>}
    BY <1>3, TouchingSteps DEF ReleaseMoney, Publish
  <2> QED
    BY <2>1, OutboxMoves DEF Lifecycle, Touches
<1>4. ASSUME NEW r \in Reservations, NEW report, UnresolvedMoney(r, report)
      PROVE  OutboxTellsState'
  <2>1. Touches(r, {"dispatched"}, "dispatched")
        /\ outbox' = outbox \cup {<<"reservation.unresolved", r>>}
    BY <1>4, TouchingSteps DEF UnresolvedMoney, Publish
  <2>2. \A x \in Reservations : resv'[x].state = resv[x].state
    BY <2>1 DEF Touches
  <2> QED
    BY <2>1, <2>2, OutboxSame DEF Lifecycle
<1>5. ASSUME NEW r \in Reservations, NEW u \in Usages, NEW decision, SettleLocked(r, u, decision),
             \A kind \in Lifecycle : \A x : <<kind, x>> \notin decision
      PROVE  OutboxTellsState'
  <2>1. /\ resv[r].state = "dispatched" /\ resv'[r].state = "settled"
        /\ \A x \in Reservations \ {r} : resv'[x].state = resv[x].state
    BY <1>0, <1>5 DEF SettleLocked, Resv
  <2>2. \/ outbox' = outbox \cup ({<<"ledger.posted", r>>, <<"reservation.settled", r>>}
                                  \cup decision)
        \/ outbox' = outbox \cup ({<<"reservation.settled", r>>} \cup decision)
    BY <1>5 DEF SettleLocked, Publish
  <2>3. \A kind \in Lifecycle, x \in Reservations :
           <<kind, x>> \in outbox' <=>
              <<kind, x>> \in outbox \/ (x = r /\ kind = "reservation.settled")
    BY <1>5, <2>2 DEF Lifecycle
  <2>4. "reservation.settled" \in Lifecycle
    BY DEF Lifecycle
  <2> QED
    BY <2>1, <2>3, <2>4, OutboxMoves
<1>6. ASSUME NEW v \in Reviews, NEW actor \in Actors, ApproveWaiver(v, actor)
      PROVE  OutboxTellsState'
  <2>1. review[v].reservation \in Reservations
    BY <1>6 DEF IInv, RowsLinked, ApproveWaiver, Decide
  <2>2. /\ Touches(review[v].reservation, Held, "waived")
        /\ outbox' = outbox \cup {<<"reservation.waived", review[v].reservation>>,
                                  <<"review.waived", v>>}
    BY <1>6, <2>1, TouchingSteps DEF ApproveWaiver, Publish
  <2> QED
    BY <2>1, <2>2, OutboxMoves DEF Lifecycle, Touches
<1>7. ASSUME UNCHANGED resv, NEW kind, NEW x, kind \notin Lifecycle,
             outbox' = outbox \cup {<<kind, x>>} \/ UNCHANGED outbox
      PROVE  OutboxTellsState'
  BY <1>7, OutboxSame
<1>8. ASSUME NEW v \in Reviews, NEW actor \in Actors, ApproveEvidence(v, actor)
      PROVE  OutboxTellsState'
  <2>1. review[v].reservation \in Reservations /\ review[v].usage \in Usages
    BY <1>8 DEF IInv, RowsLinked, ApproveEvidence, Decide
  <2>2. CASE SettleLocked(review[v].reservation, review[v].usage, {<<"review.settled", v>>})
    <3>1. \A kind \in Lifecycle : \A x : <<kind, x>> \notin {<<"review.settled", v>>}
      BY DEF Lifecycle
    <3> QED
      BY <2>1, <2>2, <3>1, <1>5
  <2>3. CASE UNCHANGED resv /\ Publish({<<"review.settled", v>>})
    BY <2>3, <1>7 DEF Publish, Lifecycle
  <2> QED
    BY <1>8, <2>2, <2>3 DEF ApproveEvidence
<1>9. ASSUME NEW e \in UsageEvents, NEW k \in Keys, NEW q \in Requests, NEW u \in Usages,
             NEW p \in Prices, NEW m \in 1 .. month, NEW ok \in BOOLEAN,
             RecordUsage(e, k, q, u, p, m, ok)
      PROVE  OutboxTellsState'
  <2>1. UNCHANGED resv
        /\ (outbox' = outbox \cup {<<"ledger.posted", e>>} \/ UNCHANGED outbox)
    BY <1>9 DEF RecordUsage, Publish
  <2> QED
    BY <2>1, <1>7 DEF Lifecycle
<1>10. ASSUME NEW t, NEW a, PostCredit(t, a) \/ PostRefund(t, a)
       PROVE  OutboxTellsState'
  BY <1>7, <1>10 DEF PostCredit, PostRefund, Publish, Lifecycle
<1>11. ASSUME NEW v \in Reviews, NEW actor \in Actors,
              \/ \E r \in Reservations :
                    \/ SubmitReview(v, r, actor, TRUE, None)
                    \/ \E u \in Usages : SubmitReview(v, r, actor, FALSE, u)
              \/ RejectReview(v, actor)
       PROVE  OutboxTellsState'
  BY <1>7, <1>11 DEF SubmitReview, RejectReview, Publish, Lifecycle
<1>12. ASSUME \/ \E k \in Keys, m \in Months : \/ ProjectionRebuild(k, m)
                                               \/ ColdSpendRead(k, m)
              \/ ColdBalanceRead
              \/ \E flag \in BOOLEAN : UpdateBalancePolicy(flag)
              \/ \E k \in Keys : RevokeKey(k)
              \/ \E p \in Prices, enabled \in BOOLEAN : PutModel(p, enabled)
              \/ NextMonth
              \/ UNCHANGED vars
       PROVE  OutboxTellsState'
  BY <1>7, <1>12 DEF ProjectionRebuild, ColdSpendRead, ColdBalanceRead, UpdateBalancePolicy,
                     RevokeKey, PutModel, NextMonth, vars, Publish, Lifecycle
<1>13. ASSUME NEW r \in Reservations, NEW u \in Usages, SettleMoney(r, u)
       PROVE  OutboxTellsState'
  BY <1>5, <1>13 DEF SettleMoney
<1> QED
  BY <1>1, <1>2, <1>3, <1>4, <1>6, <1>8, <1>9, <1>10, <1>11, <1>12, <1>13 DEF Next

\* The outbox is right at the start.
LEMMA OutboxInit == Init => OutboxTellsState
<1> SUFFICES ASSUME Init PROVE OutboxTellsState
  OBVIOUS
<1>1. \A r \in Reservations : resv[r].state \in {"none", "reserved", "dispatched"}
  <2>1. PICK f \in [Legacy \cap Reservations -> LegacyResv] :
           resv = [r \in Reservations |-> IF r \in Legacy THEN f[r] ELSE NoResv]
    BY DEF Init
  <2>2. \A row \in LegacyResv : row.state \in {"none", "reserved", "dispatched"}
    BY DEF LegacyResv, NoResv, Held
  <2> QED
    BY <2>1, <2>2 DEF NoResv
<1>2. outbox = UNION {StateEvents(r) : r \in Reservations}
  BY DEF Init
<1>3. ASSUME NEW r \in Reservations, NEW kind
      PROVE  <<kind, r>> \in outbox <=> <<kind, r>> \in StateEvents(r)
  <2>1. \A x \in Reservations : <<kind, r>> \in StateEvents(x) => x = r
    BY DEF StateEvents
  <2> QED
    BY <1>2, <2>1
<1>4. ASSUME NEW r \in Reservations
      PROVE  /\ <<"reservation.created", r>> \in outbox <=> resv[r].state # "none"
             /\ <<"reservation.dispatched", r>> \in outbox <=> resv[r].state = "dispatched"
             /\ \A kind \in Lifecycle \ {"reservation.created", "reservation.dispatched"} :
                   <<kind, r>> \notin outbox
  <2>1. CASE resv[r].state = "none"
    <3>1. StateEvents(r) = {}
      BY <2>1 DEF StateEvents
    <3> QED
      BY <1>3, <2>1, <3>1
  <2>2. CASE resv[r].state = "reserved"
    <3>1. StateEvents(r) = {<<"reservation.created", r>>}
      BY <2>2 DEF StateEvents
    <3> QED
      BY <1>3, <2>2, <3>1
  <2>3. CASE resv[r].state = "dispatched"
    <3>1. StateEvents(r) = {<<"reservation.created", r>>, <<"reservation.dispatched", r>>}
      BY <2>3 DEF StateEvents
    <3> QED
      BY <1>3, <2>3, <3>1
  <2> QED
    BY <1>1, <2>1, <2>2, <2>3
<1> QED
  BY <1>1, <1>4 DEF OutboxTellsState, Lifecycle

-----------------------------------------------------------------------------
(* The reviews.                                                            *)

\* Settled and waived reservations are final: no step outside a decision
\* touches one, or waives another.
FinalRowsStay ==
    /\ \A r \in Reservations : resv[r].state \in {"settled", "waived"} => resv'[r] = resv[r]
    /\ \A r \in Reservations : resv'[r].state = "waived" => resv[r].state = "waived"

\* Steps that decide nothing keep what the reviews promise.
LEMMA ReviewsStay ==
    ASSUME IInv, ReviewsInv, UNCHANGED <<review, audit>>, FinalRowsStay
    PROVE  ReviewsInv'
<1>1. ASSUME NEW v \in Reviews PROVE ReviewOK(v)'
  <2>1. review[v].state # "none" => review[v].reservation \in Reservations
    BY DEF IInv, RowsLinked
  <2>2. AuditOf(v)' = AuditOf(v)
    BY DEF AuditOf
  <2>3. ReviewOK(v)
    BY DEF ReviewsInv
  <2> QED
    BY <2>1, <2>2, <2>3 DEF ReviewOK, FinalRowsStay
<1>2. WaiversExplained'
  BY DEF ReviewsInv, WaiversExplained, FinalRowsStay
<1> QED
  BY <1>1, <1>2 DEF ReviewsInv

\* A decision writes its review and adds the second line of its audit trail.
LEMMA DecisionWrites ==
    ASSUME IInv, ReviewsInv, NEW v \in Reviews, NEW actor \in Actors, NEW outcome,
           Decide(v, actor, outcome)
    PROVE  /\ review'[v].state = outcome /\ review'[v].reviewer = actor
           /\ review'[v].submitter = review[v].submitter /\ review[v].submitter # actor
           /\ review'[v].reservation = review[v].reservation
           /\ review'[v].usage = review[v].usage
           /\ \A w \in Reviews \ {v} : review'[w] = review[w] /\ AuditOf(w)' = AuditOf(w)
           /\ AuditOf(v)' = {<<v, 1, review[v].submitter>>, <<v, 2, actor>>}
<1>1. review \in [Reviews -> Review] /\ review[v] \in Review
  BY DEF IInv, TypeOK
<1>2. /\ review' = [review EXCEPT ![v].state = outcome, ![v].reviewer = actor]
      /\ audit' = audit \cup {<<v, 2, actor>>}
      /\ review[v].state = "submitted" /\ review[v].submitter # actor
  BY DEF Decide
<1>3. /\ review'[v].state = outcome /\ review'[v].reviewer = actor
      /\ review'[v].submitter = review[v].submitter
      /\ review'[v].reservation = review[v].reservation
      /\ review'[v].usage = review[v].usage
      /\ \A w \in Reviews \ {v} : review'[w] = review[w]
  BY <1>1, <1>2 DEF Review
<1>4. \A w \in Reviews \ {v} : AuditOf(w)' = AuditOf(w)
  BY <1>2 DEF AuditOf
<1>5. AuditOf(v)' = AuditOf(v) \cup {<<v, 2, actor>>}
  BY <1>2 DEF AuditOf
<1>6. AuditOf(v) = {<<v, 1, review[v].submitter>>}
  BY <1>2 DEF ReviewsInv, ReviewOK
<1> QED
  BY <1>2, <1>3, <1>4, <1>5, <1>6

\* A decision keeps what the reviews promise if it has the effect it records.
LEMMA DecisionTakesEffect ==
    ASSUME IInv, ReviewsInv, NEW v \in Reviews, NEW actor \in Actors,
           NEW outcome \in {"rejected", "settled", "waived"}, Decide(v, actor, outcome),
           NEW r, r = review[v].reservation,
           \A x \in Reservations : resv[x].state \in {"settled", "waived"} => resv'[x] = resv[x],
           outcome = "settled" => /\ resv'[r].state = "settled"
                                  /\ resv'[r].completion = Payload(review[v].usage),
           outcome = "waived" => resv'[r].state = "waived",
           \A x \in Reservations : resv'[x].state = "waived" =>
              resv[x].state = "waived" \/ (outcome = "waived" /\ x = r)
    PROVE  ReviewsInv'
<1>0. review[v].state = "submitted"
  BY DEF Decide
<1>1. /\ review'[v].state = outcome /\ review'[v].reviewer = actor
      /\ review'[v].submitter = review[v].submitter /\ review[v].submitter # actor
      /\ review'[v].reservation = r
      /\ review'[v].usage = review[v].usage
      /\ \A w \in Reviews \ {v} : review'[w] = review[w] /\ AuditOf(w)' = AuditOf(w)
      /\ AuditOf(v)' = {<<v, 1, review[v].submitter>>, <<v, 2, actor>>}
  BY DecisionWrites
<1>2. ReviewOK(v)'
  BY <1>1 DEF ReviewOK
<1>3. ASSUME NEW w \in Reviews \ {v} PROVE ReviewOK(w)'
  <2>1. review[w].state # "none" => review[w].reservation \in Reservations
    BY DEF IInv, RowsLinked
  <2>2. ReviewOK(w) /\ review'[w] = review[w] /\ AuditOf(w)' = AuditOf(w)
    BY <1>1 DEF ReviewsInv
  <2> QED
    BY <2>1, <2>2 DEF ReviewOK
<1>4. ASSUME NEW x \in Reservations, resv'[x].state = "waived"
      PROVE  \E w \in Reviews : review'[w].state = "waived" /\ review'[w].reservation = x
  <2>1. CASE resv[x].state = "waived"
    <3>1. PICK w \in Reviews : review[w].state = "waived" /\ review[w].reservation = x
      BY <2>1 DEF ReviewsInv, WaiversExplained
    <3> QED
      BY <3>1, <1>0, <1>1
  <2>2. CASE outcome = "waived" /\ x = r
    BY <2>2, <1>1
  <2> QED
    BY <1>4, <2>1, <2>2
<1> QED
  BY <1>2, <1>3, <1>4 DEF ReviewsInv, WaiversExplained

\* A submitted review starts its audit trail.
LEMMA SubmitKeepsReviews ==
    ASSUME IInv, ReviewsInv, NEW v \in Reviews, NEW r \in Reservations, NEW actor \in Actors,
           NEW waiver, NEW u, SubmitReview(v, r, actor, waiver, u)
    PROVE  ReviewsInv'
<1>1. review \in [Reviews -> Review]
  BY DEF IInv, TypeOK
<1>2. /\ review[v].state = "none" /\ audit' = audit \cup {<<v, 1, actor>>} /\ UNCHANGED resv
      /\ review'[v].state = "submitted" /\ review'[v].submitter = actor
      /\ \A w \in Reviews \ {v} : review'[w] = review[w]
  BY <1>1 DEF SubmitReview
<1>3. AuditOf(v) = {} /\ AuditOf(v)' = AuditOf(v) \cup {<<v, 1, actor>>}
  BY <1>2 DEF AuditOf, ReviewsInv, ReviewOK
<1>4. ReviewOK(v)'
  BY <1>2, <1>3 DEF ReviewOK
<1>5. ASSUME NEW w \in Reviews \ {v} PROVE ReviewOK(w)'
  <2>1. AuditOf(w)' = AuditOf(w)
    BY <1>2 DEF AuditOf
  <2> QED
    BY <1>2, <2>1 DEF ReviewsInv, ReviewOK
<1>6. WaiversExplained'
  BY <1>2 DEF WaiversExplained, ReviewsInv
<1> QED
  BY <1>4, <1>5, <1>6 DEF ReviewsInv

\* Every step keeps the reviews and their audit trail in agreement.
LEMMA ReviewsStep == IInv /\ LedgerOK /\ ReviewsInv /\ [Next]_vars => ReviewsInv'
<1> SUFFICES ASSUME IInv, LedgerOK, ReviewsInv, [Next]_vars PROVE ReviewsInv'
  OBVIOUS
<1>0. resv \in [Reservations -> Resv]
  BY DEF IInv, TypeOK
<1>1. ASSUME NEW r \in Reservations, NEW from \in SUBSET Held, NEW to \in {"dispatched", "released"},
             Touches(r, from, to), UNCHANGED <<review, audit>>
      PROVE  ReviewsInv'
  <2>1. FinalRowsStay
    BY <1>1 DEF FinalRowsStay, Touches, Held
  <2> QED
    BY <1>1, <2>1, ReviewsStay
<1>2. ASSUME NEW r \in Reservations, NEW k \in Keys, NEW q \in Requests, NEW l \in Usages,
             ReserveMoney(r, k, q, l)
      PROVE  ReviewsInv'
  <2>1. UNCHANGED <<review, audit>> /\ FinalRowsStay
    BY <1>0, <1>2 DEF ReserveMoney, FinalRowsStay
  <2> QED
    BY <2>1, ReviewsStay
<1>3. ASSUME NEW r \in Reservations,
             \/ DispatchMoney(r) \/ ReleaseMoney(r)
             \/ \E report : UnresolvedMoney(r, report)
      PROVE  ReviewsInv'
  <2>0. {"reserved"} \in SUBSET Held /\ {"dispatched"} \in SUBSET Held
    BY DEF Held
  <2>1. UNCHANGED <<review, audit>>
    BY <1>3 DEF DispatchMoney, ReleaseMoney, UnresolvedMoney
  <2>2. \/ Touches(r, {"reserved"}, "dispatched") \/ Touches(r, {"reserved"}, "released")
        \/ Touches(r, {"dispatched"}, "dispatched")
    BY <1>3, TouchingSteps
  <2> QED
    BY <1>1, <2>0, <2>1, <2>2
<1>4. ASSUME NEW r \in Reservations, NEW u \in Usages, SettleMoney(r, u)
      PROVE  ReviewsInv'
  <2>1. Settles(r, u) /\ UNCHANGED <<review, audit>>
    BY <1>4, SettlingSteps DEF SettleMoney
  <2>2. FinalRowsStay
    BY <2>1 DEF Settles, FinalRowsStay
  <2> QED
    BY <2>1, <2>2, ReviewsStay
<1>5. ASSUME NEW v \in Reviews, NEW actor \in Actors, RejectReview(v, actor)
      PROVE  ReviewsInv'
  <2>1. Decide(v, actor, "rejected") /\ UNCHANGED resv
    BY <1>5 DEF RejectReview
  <2> QED
    BY <2>1, DecisionTakesEffect
<1>6. ASSUME NEW v \in Reviews, NEW actor \in Actors, ApproveWaiver(v, actor)
      PROVE  ReviewsInv'
  <2>1. review[v].reservation \in Reservations
    BY <1>6 DEF IInv, RowsLinked, ApproveWaiver, Decide
  <2>2. PICK r \in Reservations : r = review[v].reservation
    BY <2>1
  <2>3. Touches(r, Held, "waived") /\ Decide(v, actor, "waived")
    BY <1>6, <2>2, TouchingSteps DEF ApproveWaiver
  <2>4. \A x \in Reservations :
           /\ resv[x].state \in {"settled", "waived"} => resv'[x] = resv[x]
           /\ resv'[x].state = "waived" => resv[x].state = "waived" \/ x = r
    BY <2>3 DEF Touches, Held
  <2>5. resv'[r].state = "waived"
    BY <2>3 DEF Touches
  <2> QED
    BY <2>2, <2>3, <2>4, <2>5, DecisionTakesEffect
<1>7. ASSUME NEW v \in Reviews, NEW actor \in Actors, ApproveEvidence(v, actor)
      PROVE  ReviewsInv'
  <2>1. /\ review[v].reservation \in Reservations /\ review[v].usage \in Usages
        /\ Decide(v, actor, "settled")
    BY <1>7 DEF IInv, RowsLinked, ApproveEvidence, Decide
  <2>2. PICK r \in Reservations : r = review[v].reservation
    BY <2>1
  <2>3. /\ \A x \in Reservations :
              /\ resv[x].state \in {"settled", "waived"} => resv'[x] = resv[x]
              /\ resv'[x].state = "waived" => resv[x].state = "waived"
        /\ resv'[r].state = "settled" /\ resv'[r].completion = Payload(review[v].usage)
    <3>1. CASE SettleLocked(r, review[v].usage, {<<"review.settled", v>>})
      <4>1. Settles(r, review[v].usage)
        BY <2>1, <3>1, SettlingSteps
      <4> QED
        BY <4>1 DEF Settles
    <3>2. CASE /\ resv[r].state = "settled" /\ resv[r].completion = Payload(review[v].usage)
               /\ UNCHANGED resv
      BY <3>2
    <3> QED
      BY <1>7, <2>2, <3>1, <3>2 DEF ApproveEvidence
  <2> QED
    BY <2>1, <2>2, <2>3, DecisionTakesEffect
<1>8. ASSUME UNCHANGED <<resv, review, audit>> PROVE ReviewsInv'
  <2>1. FinalRowsStay
    BY <1>8 DEF FinalRowsStay
  <2> QED
    BY <1>8, <2>1, ReviewsStay
<1>9. ASSUME \/ \E e \in UsageEvents, k \in Keys, q \in Requests, u \in Usages, p \in Prices,
                   m \in 1 .. month, ok \in BOOLEAN : RecordUsage(e, k, q, u, p, m, ok)
             \/ \E t \in TopUps, a \in Amounts : PostCredit(t, a)
             \/ \E t \in Debits, a \in Amounts : PostRefund(t, a)
             \/ \E k \in Keys, m \in Months : ProjectionRebuild(k, m) \/ ColdSpendRead(k, m)
             \/ ColdBalanceRead
             \/ \E flag \in BOOLEAN : UpdateBalancePolicy(flag)
             \/ \E k \in Keys : RevokeKey(k)
             \/ \E p \in Prices, enabled \in BOOLEAN : PutModel(p, enabled)
             \/ NextMonth
             \/ UNCHANGED vars
      PROVE  ReviewsInv'
  <2>1. ASSUME NEW e \in UsageEvents, NEW k \in Keys, NEW q \in Requests, NEW u \in Usages,
               NEW p \in Prices, NEW m \in 1 .. month, NEW ok \in BOOLEAN,
               RecordUsage(e, k, q, u, p, m, ok)
        PROVE  UNCHANGED <<resv, review, audit>>
    BY <2>1 DEF RecordUsage
  <2>2. ASSUME NEW t, NEW a, PostCredit(t, a) \/ PostRefund(t, a)
        PROVE  UNCHANGED <<resv, review, audit>>
    BY <2>2 DEF PostCredit, PostRefund
  <2>3. ASSUME NEW k, NEW m, ProjectionRebuild(k, m) \/ ColdSpendRead(k, m)
        PROVE  UNCHANGED <<resv, review, audit>>
    BY <2>3 DEF ProjectionRebuild, ColdSpendRead
  <2>4. ASSUME \/ ColdBalanceRead
               \/ \E flag \in BOOLEAN : UpdateBalancePolicy(flag)
               \/ \E k \in Keys : RevokeKey(k)
               \/ \E p \in Prices, enabled \in BOOLEAN : PutModel(p, enabled)
               \/ NextMonth
               \/ UNCHANGED vars
        PROVE  UNCHANGED <<resv, review, audit>>
    BY <2>4 DEF ColdBalanceRead, UpdateBalancePolicy, RevokeKey, PutModel, NextMonth, vars
  <2>5. UNCHANGED <<resv, review, audit>>
    BY <1>9, <2>1, <2>2, <2>3, <2>4
  <2> QED
    BY <2>5, <1>8
<1> QED
  BY <1>2, <1>3, <1>4, <1>5, <1>6, <1>7, <1>9, SubmitKeepsReviews DEF Next

\* No review is recorded at the start.
LEMMA ReviewsInit == Init => ReviewsInv
<1> SUFFICES ASSUME Init PROVE ReviewsInv
  OBVIOUS
<1>1. \A v \in Reviews : review[v].state = "none" /\ AuditOf(v) = {}
  BY DEF Init, NoReview, AuditOf
<1>2. \A r \in Reservations : resv[r].state # "waived"
  <2>1. PICK f \in [Legacy \cap Reservations -> LegacyResv] :
           resv = [r \in Reservations |-> IF r \in Legacy THEN f[r] ELSE NoResv]
    BY DEF Init
  <2>2. NoResv.state # "waived" /\ \A row \in LegacyResv : row.state # "waived"
    BY DEF LegacyResv, NoResv, Held
  <2> QED
    BY <2>1, <2>2
<1> QED
  BY <1>1, <1>2 DEF ReviewsInv, ReviewOK, WaiversExplained

-----------------------------------------------------------------------------
(* The prepaid balance.                                                    *)

\* What a step does to the available balance, and that a step that lowers it
\* passed the check of the handler.
LEMMA CoverageStep ==
    IInv /\ IInv' /\ LedgerOK /\ [Next]_vars
       => (enforce /\ Available' < Available => Available' >= 0)
<1> SUFFICES ASSUME IInv, IInv', LedgerOK, [Next]_vars, enforce
             PROVE  Available' < Available => Available' >= 0
  OBVIOUS
<1>i. Available \in Int /\ Available' \in Int
  <2>1. \A x \in Balance : x \in Int
    BY MaxAmountAssumption DEF Balance
  <2>2. \A x \in Amount : x \in Int
    BY MaxAmountAssumption DEF Amount
  <2>3. HistoricalBalance' \in Balance /\ HistoricalHeld' \in Amount
    BY DEF IInv, HistoryFits
  <2> QED
    BY <2>1, <2>2, <2>3, HistoryType DEF Available
<1> SUFFICES Available' >= Available \/ Available' >= 0
  BY <1>i
<1> DEFINE B == HistoricalBalance
           H == HistoricalHeld
<1>0. /\ TypeOK /\ TypeOK' /\ B \in Int /\ H \in Nat
      /\ Account.balance = B /\ Account.held = H
  BY HistoryType, ReadsAreHistory DEF IInv
<1>1. Available = B - H /\ Available' = B' - H'
  BY DEF Available
<1>2. ASSUME UNCHANGED <<resv, ledger>> PROVE Available' >= Available
  <2>1. B' = B /\ H' = H
    BY <1>2, SameHolds, SameBalance
  <2> HIDE DEF B, H
  <2> QED
    BY <2>1, <1>0, <1>1
<1>3. ASSUME NEW r \in Reservations, NEW from \in SUBSET Held,
             NEW to \in {"dispatched", "released", "waived"},
             Touches(r, from, to), UNCHANGED ledger
      PROVE  Available' >= Available
  <2>1. B' = B /\ H' = H - HoldOf(resv[r]) + HoldOf(resv'[r])
    BY <1>0, <1>3, HoldsMove, SameBalance DEF Touches
  <2>2. HoldOf(resv[r]) \in Nat /\ HoldOf(resv'[r]) \in {HoldOf(resv[r]), 0}
    <3>1. resv[r].reserved \in Nat
      BY <1>0, MaxAmountAssumption DEF TypeOK, Resv, Amount
    <3> QED
      BY <1>3, <3>1 DEF HoldOf, Touches, SameTerms
  <2> HIDE DEF B, H
  <2> QED
    BY <2>1, <2>2, <1>0, <1>1
<1>4. ASSUME NEW r \in Reservations, NEW k \in Keys, NEW q \in Requests, NEW l \in Usages,
             ReserveMoney(r, k, q, l)
      PROVE  Available' >= 0
  <2> DEFINE amount == Cost(l, model.price)
  <2>1. /\ resv[r].state = "none" /\ UNCHANGED ledger /\ B - H - amount >= 0
        /\ resv'[r].state = "reserved" /\ resv'[r].reserved = amount
        /\ \A x \in Reservations \ {r} : resv'[x] = resv[x]
    BY <1>0, <1>4 DEF ReserveMoney, Covered, TypeOK
  <2>2. amount \in Nat
    BY <1>0, CostType, BillingAssumption DEF TypeOK
  <2> HIDE DEF amount
  <2>3. B' = B /\ H' = H - HoldOf(resv[r]) + HoldOf(resv'[r])
    BY <1>0, <2>1, HoldsMove, SameBalance
  <2>4. HoldOf(resv[r]) = 0 /\ HoldOf(resv'[r]) = amount
    BY <2>1 DEF HoldOf, Held
  <2> HIDE DEF B, H
  <2> QED
    BY <1>0, <1>1, <2>1, <2>2, <2>3, <2>4
<1>5. ASSUME NEW r \in Reservations, NEW u \in Usages, NEW decision, SettleLocked(r, u, decision)
      PROVE  Available' >= Available \/ Available' >= 0
  <2> DEFINE amount == Cost(u, resv[r].price)
             n == resv[r].reserved
  <2>1. Settles(r, u)
    BY <1>5, SettlingSteps
  <2>2. n \in Nat /\ amount \in Nat /\ amount \in Amount /\ r \in Txns /\ r \notin TopUps
    <3>1. resv[r].price \in TokenPair /\ u \in TokenPair /\ n \in Nat
      BY <1>0, BillingAssumption, MaxAmountAssumption DEF TypeOK, Resv, Amount
    <3>2. amount \in Nat
      BY <3>1, CostType
    <3>3. amount <= MaxAmount
      BY <1>5 DEF SettleLocked, Affordable
    <3> HIDE DEF amount
    <3> QED
      BY <3>1, <3>2, <3>3, BillingAssumption, MaxAmountAssumption DEF Amount, Txns, UsageIds
  <2>3. \/ amount = 0 /\ UNCHANGED ledger
        \/ Covered(H - n, amount) /\ Post(r, amount)
    BY <1>0, <1>5, <2>2 DEF SettleLocked
  <2> HIDE DEF amount
  <2>4. H' = H - n
    <3>1. H' = H - HoldOf(resv[r]) + HoldOf(resv'[r])
      BY <1>0, <2>1, HoldsMove DEF Settles
    <3>2. HoldOf(resv[r]) = n /\ HoldOf(resv'[r]) = 0
      BY <2>1 DEF HoldOf, Held, Settles
    <3> HIDE DEF H, n
    <3> QED
      BY <3>1, <3>2, <1>0, <2>2
  <2>5. CASE amount = 0 /\ UNCHANGED ledger
    <3>1. B' = B
      BY <2>5, SameBalance
    <3> HIDE DEF B, H, n
    <3> QED
      BY <3>1, <2>2, <2>4, <1>0, <1>1
  <2>6. CASE Covered(H - n, amount) /\ Post(r, amount)
    <3>1. B' = B + (-amount)
      BY <1>0, <2>2, <2>6, LedgerPost
    <3>2. B - (H - n) - amount >= 0
      BY <1>0, <2>6 DEF Covered
    <3> HIDE DEF B, H, n
    <3> QED
      BY <3>1, <3>2, <2>2, <2>4, <1>0, <1>1
  <2> QED
    BY <2>3, <2>5, <2>6
<1>6. ASSUME NEW t \in Txns, NEW a \in Amount, Post(t, a), UNCHANGED resv,
             t \notin TopUps => Covered(H, a)
      PROVE  Available' >= Available \/ Available' >= 0
  <2>1. H' = H /\ B' = B + (IF t \in TopUps THEN a ELSE -a)
    BY <1>0, <1>6, LedgerPost, SameHolds
  <2>2. a \in Nat
    BY MaxAmountAssumption DEF Amount
  <2>3. t \notin TopUps => B - H - a >= 0
    BY <1>0, <1>6 DEF Covered
  <2> HIDE DEF B, H
  <2> QED
    BY <2>1, <2>2, <2>3, <1>0, <1>1
<1>7. ASSUME NEW e \in UsageEvents, NEW k \in Keys, NEW q \in Requests, NEW u \in Usages,
             NEW p \in Prices, NEW m \in 1 .. month, NEW ok \in BOOLEAN,
             RecordUsage(e, k, q, u, p, m, ok)
      PROVE  Available' >= Available \/ Available' >= 0
  <2> DEFINE cost == IF ok /\ u # Zero THEN Cost(u, p) ELSE 0
  <2>1. cost \in Nat
    BY BillingAssumption, CostType
  <2>2. /\ cost <= MaxAmount /\ UNCHANGED resv
        /\ IF cost > 0 THEN Covered(H, cost) /\ Post(e, cost) ELSE UNCHANGED ledger
    BY <1>0, <1>7 DEF RecordUsage
  <2> HIDE DEF cost
  <2>3. cost \in Amount /\ e \in Txns
    BY <2>1, <2>2, MaxAmountAssumption DEF Amount, Txns, UsageIds
  <2> QED
    BY <2>2, <2>3, <1>2, <1>6
<1>8. ASSUME NEW t \in TopUps, NEW a \in Amounts, PostCredit(t, a)
      PROVE  Available' >= Available \/ Available' >= 0
  BY <1>6, <1>8, BillingAssumption DEF PostCredit, Txns
<1>9. ASSUME NEW t \in Debits, NEW a \in Amounts, PostRefund(t, a)
      PROVE  Available' >= Available \/ Available' >= 0
  <2>1. t \in Txns /\ a \in Amount /\ Covered(H, a) /\ Post(t, a) /\ UNCHANGED resv
    BY <1>0, <1>9, BillingAssumption DEF PostRefund, Txns
  <2> QED
    BY <2>1, <1>6
<1>10. ASSUME NEW r \in Reservations,
              \/ DispatchMoney(r) \/ ReleaseMoney(r)
              \/ \E report : UnresolvedMoney(r, report)
       PROVE  Available' >= Available
  <2>0. {"reserved"} \in SUBSET Held /\ {"dispatched"} \in SUBSET Held
    BY DEF Held
  <2>1. UNCHANGED ledger
    BY <1>10 DEF DispatchMoney, ReleaseMoney, UnresolvedMoney
  <2>2. \/ Touches(r, {"reserved"}, "dispatched") \/ Touches(r, {"reserved"}, "released")
        \/ Touches(r, {"dispatched"}, "dispatched")
    BY <1>10, TouchingSteps
  <2> QED
    BY <1>3, <2>0, <2>1, <2>2
<1>11. ASSUME NEW v \in Reviews, NEW actor \in Actors, ApproveWaiver(v, actor)
       PROVE  Available' >= Available
  <2>1. review[v].reservation \in Reservations
    BY <1>11 DEF IInv, RowsLinked, ApproveWaiver, Decide
  <2>2. Touches(review[v].reservation, Held, "waived") /\ UNCHANGED ledger
    BY <1>11, <2>1, TouchingSteps DEF ApproveWaiver
  <2> QED
    BY <1>3, <2>1, <2>2
<1>12. ASSUME NEW v \in Reviews, NEW actor \in Actors, ApproveEvidence(v, actor)
       PROVE  Available' >= Available \/ Available' >= 0
  <2>1. review[v].reservation \in Reservations /\ review[v].usage \in Usages
    BY <1>12 DEF IInv, RowsLinked, ApproveEvidence, Decide
  <2>2. \/ SettleLocked(review[v].reservation, review[v].usage, {<<"review.settled", v>>})
        \/ UNCHANGED <<resv, ledger>>
    BY <1>12 DEF ApproveEvidence
  <2> QED
    BY <1>2, <1>5, <2>1, <2>2
<1>13. ASSUME NEW v \in Reviews, NEW actor \in Actors,
              \/ \E r \in Reservations :
                    \/ SubmitReview(v, r, actor, TRUE, None)
                    \/ \E u \in Usages : SubmitReview(v, r, actor, FALSE, u)
              \/ RejectReview(v, actor)
       PROVE  Available' >= Available
  BY <1>2, <1>13 DEF SubmitReview, RejectReview
<1>14. ASSUME \/ \E k \in Keys, m \in Months : \/ ProjectionRebuild(k, m)
                                               \/ ColdSpendRead(k, m)
              \/ ColdBalanceRead
              \/ \E flag \in BOOLEAN : UpdateBalancePolicy(flag)
              \/ \E k \in Keys : RevokeKey(k)
              \/ \E p \in Prices, enabled \in BOOLEAN : PutModel(p, enabled)
              \/ NextMonth
              \/ UNCHANGED vars
       PROVE  Available' >= Available
  BY <1>2, <1>14 DEF ProjectionRebuild, ColdSpendRead, ColdBalanceRead, UpdateBalancePolicy,
                     RevokeKey, PutModel, NextMonth, vars
<1>15. ASSUME NEW r \in Reservations, NEW u \in Usages, SettleMoney(r, u)
       PROVE  Available' >= Available \/ Available' >= 0
  BY <1>5, <1>15 DEF SettleMoney
<1> QED
  BY <1>4, <1>7, <1>8, <1>9, <1>10, <1>11, <1>12, <1>13, <1>14, <1>15 DEF Next

-----------------------------------------------------------------------------
(* The theorems about the rows of record.                                  *)

\* The inductive invariant of the money protocol.
MoneyInv == IInv /\ RowsInv /\ BudgetHolds /\ OutboxTellsState /\ ReviewsInv

\* The invariant of the whole money protocol holds in every reachable state.
LEMMA MoneyInvariant == Spec => []MoneyInv
<1>1. Init => MoneyInv
  BY InitInv, RowsInit, OutboxInit, ReviewsInit DEF MoneyInv, Init
<1>2. MoneyInv /\ [Next]_vars => MoneyInv'
  BY NextInv, RowsStep, BudgetStep, OutboxStep, ReviewsStep DEF MoneyInv, RowsInv
<1> QED
  BY <1>1, <1>2, PTL DEF Spec

(***************************************************************************)
(* Every hold is charged exactly once and never beyond itself, however     *)
(* the gateway's settlement races the reviews (settle_locked), and no      *)
(* request is charged both by a reservation and by a v1 event              *)
(* (reserve_money, record_usage).                                          *)
(***************************************************************************)
THEOREM ChargesCorrect == Spec => []ChargedOnce
<1>1. MoneyInv => ChargedOnce
  BY DEF MoneyInv, RowsInv, LedgerOK, RowOK, ChargedOnce
<1> QED
  BY <1>1, MoneyInvariant, PTL

(***************************************************************************)
(* What reservations cost a key in a month, with what it holds, never      *)
(* exceeds the budget reserve_money admitted them against.                 *)
(***************************************************************************)
THEOREM BudgetCorrect == Spec => []BudgetHolds
<1>1. MoneyInv => BudgetHolds
  BY DEF MoneyInv
<1> QED
  BY <1>1, MoneyInvariant, PTL

(***************************************************************************)
(* The outbox holds exactly the lifecycle events of every reservation      *)
(* (append_event in the transaction of the change).                        *)
(***************************************************************************)
THEOREM OutboxCorrect == Spec => []OutboxTellsState
<1>1. MoneyInv => OutboxTellsState
  BY DEF MoneyInv
<1> QED
  BY <1>1, MoneyInvariant, PTL

(***************************************************************************)
(* A decided review took effect, by a second person, with both steps in    *)
(* its audit trail (decide_billing_review).                                *)
(***************************************************************************)
THEOREM ReviewsCorrect == Spec => []ReviewsTakeEffect
<1>1. MoneyInv => ReviewsTakeEffect
  BY DEF MoneyInv, ReviewsInv, ReviewOK, AuditOf, WaiversExplained, ReviewsTakeEffect
<1> QED
  BY <1>1, MoneyInvariant, PTL

(***************************************************************************)
(* While a balance is enforced, no step lowers what is available below     *)
(* zero (insert_balanced_entries, reserve_money).                          *)
(***************************************************************************)
THEOREM CoverageCorrect == Spec => EnforcedStepsAreCovered
<1>1. MoneyInv /\ MoneyInv' /\ [Next]_vars
        => [enforce /\ Available' < Available => Available' >= 0]_vars
  BY CoverageStep DEF MoneyInv, RowsInv
<1> QED
  BY <1>1, MoneyInvariant, PTL DEF Spec, EnforcedStepsAreCovered
=============================================================================
