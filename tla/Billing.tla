------------------------------- MODULE Billing -------------------------------
(***************************************************************************)
(* The money protocol of one billing account (one project): reservations,  *)
(* settlement, the v1 usage path, the ledger, the incremental projections  *)
(* and the two-person review of holds whose usage is unknown.              *)
(*                                                                         *)
(* A handler that moves money runs in one database transaction that takes  *)
(* the account row lock (`lock_account`) before it reads and keeps it      *)
(* until COMMIT, so each is one atomic action.  The balance policy is a    *)
(* single unlocked UPDATE of the account row; key, catalog and calendar    *)
(* changes do not touch the account at all.  A request that is refused     *)
(* rolls its transaction back, and a replay commits without a write: both  *)
(* leave the tables alone and are the stuttering steps of this             *)
(* specification.                                                          *)
(* Accounts share no row, so one account stands for all of them.           *)
(* X_Variant defines a faulty form of X.                                   *)
(***************************************************************************)
EXTENDS Totals

CONSTANTS
    Reservations,   \* reservation identities chosen by the gateways
    UsageEvents,    \* event identities of the v1 usage path
    TopUps,         \* idempotency keys of credits
    Debits,         \* idempotency keys of refund debits
    Keys,           \* API keys of the project
    Requests,       \* request identities
    Reviews,        \* review identities
    Actors,         \* people who submit and decide reviews
    Usages,         \* token counts: limits, reports and evidence
    Prices,         \* price versions of the model
    Amounts,        \* amounts of credits and refunds
    Budget,         \* monthly budget of each key, 0 for none
    MaxContext,     \* max_context_tokens of the model
    MaxMonth,       \* bound on the calendar
    Legacy,         \* rows older than the projections (migration 000007)
    None            \* an absent value (NULL)

TokenPair == [input : Nat, output : Nat]

ASSUME BillingAssumption ==
    /\ Keys # {}
    /\ IsFiniteSet(Reservations) /\ IsFiniteSet(UsageEvents)
    /\ IsFiniteSet(TopUps) /\ IsFiniteSet(Debits)
    /\ Reservations \cap UsageEvents = {}
    /\ (Reservations \cup UsageEvents) \cap (TopUps \cup Debits) = {}
    /\ TopUps \cap Debits = {}
    /\ \A u \in Usages : u \in TokenPair
    /\ \A p \in Prices : p \in TokenPair
    /\ \A k \in Keys : k \in DOMAIN Budget /\ Budget[k] \in Nat
    /\ \A a \in Amounts : a \in Amount \ {0}
    /\ Legacy \subseteq Reservations \cup UsageEvents \cup TopUps
    /\ MaxContext \in Nat
    /\ MaxMonth \in Nat \ {0}
    /\ None \notin Keys /\ None \notin Requests /\ None \notin Actors
    /\ None \notin Reservations /\ None \notin Usages

VARIABLES
    resv,       \* billing_reservations, by identity
    usage,      \* usage_events; a reservation's event has its identity
    ledger,     \* customer_balance amount posted under an idempotency key
    review,     \* billing_reviews
    audit,      \* billing_review_audits: <<review, sequence, actor>>
    account,    \* billing_balances row of the account
    keyHold,    \* billing_key_holds rows
    monthSpend, \* billing_month_spend rows
    enforce,    \* billing_accounts.enforce_balance
    revoked,    \* keys that are revoked or expired
    model,      \* the active catalog row: price and enabled
    month,      \* the calendar month of Utc::now()
    outbox      \* billing_events: <<kind, aggregate>>

vars == <<resv, usage, ledger, review, audit, account, keyHold, monthSpend,
          enforce, revoked, model, month, outbox>>

-----------------------------------------------------------------------------
(* Tables.                                                                 *)

Months == 1 .. MaxMonth

\* A settlement's usage row is keyed evt-reservation-{id}, a v1 row by the
\* event identity its gateway chose.
UsageIds == Reservations \cup UsageEvents

\* Ledger idempotency keys: reservation:{id}, usage:{event}, and the caller's.
Txns == UsageIds \cup TopUps \cup Debits

States == {"none", "reserved", "dispatched", "released", "settled", "waived"}
Held == {"reserved", "dispatched"}
Final == {"released", "settled", "waived"}

\* The completion column: nothing yet, the release reason, an unresolved
\* report, or the settlement payload.
NoCompletion == [kind |-> "none", usage |-> None]
Released == [kind |-> "not_dispatched", usage |-> None]
Missing == [kind |-> "usage_missing", usage |-> None]
Over(u) == [kind |-> "usage_over_limit", usage |-> u]
Payload(u) == [kind |-> "settlement", usage |-> u]

Completion == [kind : {"none", "not_dispatched", "usage_missing",
                       "usage_over_limit", "settlement"},
               usage : Usages \cup {None}]

Resv == [state : States, key : Keys \cup {None}, request : Requests \cup {None},
         limit : TokenPair, price : TokenPair, reserved : Amount,
         settled : Amount \cup {-1}, completion : Completion]

Usage == [key : Keys \cup {None}, request : Requests \cup {None},
          month : Months \cup {0}, cost : Amount]

Review == [state : {"none", "submitted", "rejected", "settled", "waived"},
           reservation : Reservations \cup {None}, waiver : BOOLEAN,
           usage : Usages \cup {None}, submitter : Actors \cup {None},
           reviewer : Actors \cup {None}]

\* A signed i64: a postpaid balance may be negative.
Balance == -MaxAmount - 1 .. MaxAmount

\* settled_microunits is NULL until the hold is settled.
Null == -1
Zero == [input |-> 0, output |-> 0]

NoResv == [state |-> "none", key |-> None, request |-> None, limit |-> Zero,
           price |-> Zero, reserved |-> 0, settled |-> Null,
           completion |-> NoCompletion]
NoUsage == [key |-> None, request |-> None, month |-> 0, cost |-> 0]
NoReview == [state |-> "none", reservation |-> None, waiver |-> FALSE,
             usage |-> None, submitter |-> None, reviewer |-> None]

TypeOK ==
    /\ resv \in [Reservations -> Resv]
    /\ usage \in [UsageIds -> Usage]
    /\ ledger \in [Txns -> Amount]
    /\ review \in [Reviews -> Review]
    /\ audit \subseteq Reviews \X {1, 2} \X Actors
    /\ account \in [known : BOOLEAN, balance : Balance, held : Amount]
    /\ keyHold \in [Keys -> [known : BOOLEAN, held : Amount]]
    /\ monthSpend \in [Keys -> [Months -> [known : BOOLEAN, spent : Amount]]]
    /\ enforce \in BOOLEAN
    /\ revoked \subseteq Keys
    /\ model \in [price : Prices, enabled : BOOLEAN]
    /\ month \in Months

-----------------------------------------------------------------------------
(* History: what the rows of record add up to.                             *)

ReservedOf == [r \in Reservations |-> resv[r].reserved]
CostOf == [e \in UsageIds |-> usage[e].cost]

HeldRows == {r \in Reservations : resv[r].state \in Held}
KeyHeldRows(k) == {r \in HeldRows : resv[r].key = k}
SpendRows(k, m) == {e \in UsageIds : usage[e].key = k /\ usage[e].month = m}

HistoricalBalance == Total(TopUps, ledger) - Total(UsageIds \cup Debits, ledger)
HistoricalHeld == Total(HeldRows, ReservedOf)
HistoricalKeyHold(k) == Total(KeyHeldRows(k), ReservedOf)
HistoricalSpend(k, m) == Total(SpendRows(k, m), CostOf)

-----------------------------------------------------------------------------
(* Projections: a missing row is backfilled from history before it is      *)
(* used; afterwards it is changed by checked i64 additions.                *)

Account_MissingIsZero == IF account.known THEN account
                         ELSE [known |-> TRUE, balance |-> 0, held |-> 0]
Account == IF account.known THEN account
           ELSE [known |-> TRUE, balance |-> HistoricalBalance,
                 held |-> HistoricalHeld]

KeyHold_MissingIsZero(k) == IF keyHold[k].known THEN keyHold[k]
                            ELSE [known |-> TRUE, held |-> 0]
KeyHold(k) == IF keyHold[k].known THEN keyHold[k]
              ELSE [known |-> TRUE, held |-> HistoricalKeyHold(k)]

Monthly(k, m) == IF monthSpend[k][m].known THEN monthSpend[k][m]
                 ELSE [known |-> TRUE, spent |-> HistoricalSpend(k, m)]

\* change_hold: the account's and the key's hold move together.
ChangeHold(k, delta) ==
    /\ Account.held + delta \in Amount
    /\ KeyHold(k).held + delta \in Amount
    /\ keyHold' = [keyHold EXCEPT ![k] =
                      [known |-> TRUE, held |-> KeyHold(k).held + delta]]

ChangeSpend_Unchecked(k, m, delta) ==
    monthSpend' = [monthSpend EXCEPT ![k][m] =
                      [known |-> TRUE, spent |-> Monthly(k, m).spent + delta]]
ChangeSpend(k, m, delta) ==
    /\ Monthly(k, m).spent + delta \in Amount
    /\ monthSpend' = [monthSpend EXCEPT ![k][m] =
                         [known |-> TRUE, spent |-> Monthly(k, m).spent + delta]]

\* insert_balanced_entries: a debit of a prepaid account must be covered by
\* what is not held; `held` is the hold this transaction leaves.
Covered_IgnoresHolds(held, amount) == enforce => Account.balance - amount >= 0
Covered(held, amount) == enforce => Account.balance - held - amount >= 0

\* The account row after a change of its hold and of its balance.
AccountRow(heldDelta, balanceDelta) ==
    [known |-> TRUE, balance |-> Account.balance + balanceDelta,
     held |-> Account.held + heldDelta]

\* The idempotency key of a ledger transaction is unique.
Post(t, amount) ==
    /\ ledger[t] = 0
    /\ ledger' = [ledger EXCEPT ![t] = amount]

\* usage_cost_microunits: overflow refuses the request.
Cost(u, p) == u.input * p.input + u.output * p.output
Affordable(u, p) == Cost(u, p) <= MaxAmount

\* Each count is bounded by its own limit.
Within_InTotal(u, limit) == u.input + u.output <= limit.input + limit.output
Within(u, limit) == u.input <= limit.input /\ u.output <= limit.output

Publish(events) == outbox' = outbox \cup events

-----------------------------------------------------------------------------
(* The reservation protocol.                                               *)

\* Older unresolved holds count against the budget of the current month.
WithinBudget(k, amount) ==
    Budget[k] > 0 => Monthly(k, month).spent + KeyHold(k).held + amount <= Budget[k]

\* No reservation of the project, open or closed, carries this request.
NeverReserved(q) == \A r \in Reservations : resv[r].request # q

ReserveMoney(r, k, q, l) ==
    LET amount == Cost(l, model.price)
    IN  /\ resv[r].state = "none"
        /\ k \notin revoked
        /\ model.enabled
        /\ l.input + l.output \in 1 .. MaxContext
        /\ NeverReserved(q)
        /\ \A e \in UsageIds : usage[e].request # q
        /\ Affordable(l, model.price)
        /\ Covered(Account.held, amount)
        /\ WithinBudget(k, amount)
        /\ ChangeHold(k, amount)
        /\ account' = AccountRow(amount, 0)
        /\ monthSpend' = IF Budget[k] > 0
                         THEN [monthSpend EXCEPT ![k][month] = Monthly(k, month)]
                         ELSE monthSpend
        /\ resv' = [resv EXCEPT ![r] =
              [state |-> "reserved", key |-> k, request |-> q, limit |-> l,
               price |-> model.price, reserved |-> amount, settled |-> Null,
               completion |-> NoCompletion]]
        /\ Publish({<<"reservation.created", r>>})
        /\ UNCHANGED <<usage, ledger, review, audit, enforce, revoked, model, month>>

DispatchMoney(r) ==
    /\ resv[r].state = "reserved"
    /\ resv' = [resv EXCEPT ![r].state = "dispatched"]
    /\ Publish({<<"reservation.dispatched", r>>})
    /\ UNCHANGED <<usage, ledger, review, audit, account, keyHold, monthSpend,
                   enforce, revoked, model, month>>

\* Only a request that was never dispatched gives its hold back unpaid.
Releasable_AnyHold(r) == resv[r].state \in Held
Releasable(r) == resv[r].state = "reserved"

ReleaseMoney(r) ==
    /\ Releasable(r)
    /\ ChangeHold(resv[r].key, -resv[r].reserved)
    /\ account' = AccountRow(-resv[r].reserved, 0)
    /\ resv' = [resv EXCEPT ![r].state = "released", ![r].completion = Released]
    /\ Publish({<<"reservation.released", r>>})
    /\ UNCHANGED <<usage, ledger, review, audit, monthSpend, enforce, revoked,
                   model, month>>

\* The gateway could not tell the usage, or it exceeds the limits: the report
\* is stored and the hold stays.
UnresolvedMoney(r, report) ==
    /\ resv[r].state = "dispatched"
    /\ resv[r].completion = NoCompletion
    /\ resv' = [resv EXCEPT ![r].completion = report]
    /\ Publish({<<"reservation.unresolved", r>>})
    /\ UNCHANGED <<usage, ledger, review, audit, account, keyHold, monthSpend,
                   enforce, revoked, model, month>>

\* settle_locked, shared by the gateway's settlement and an approved review;
\* `decision` is what the review publishes in the same transaction.
SettleLocked(r, u, decision) ==
    LET amount == Cost(u, resv[r].price)
        k == resv[r].key
    IN  /\ resv[r].state = "dispatched"
        /\ Within(u, resv[r].limit)
        /\ Affordable(u, resv[r].price)
        /\ ChangeHold(k, -resv[r].reserved)
        /\ ChangeSpend(k, month, amount)
        /\ usage[r] = NoUsage
        /\ usage' = [usage EXCEPT ![r] = [key |-> k, request |-> resv[r].request,
                                          month |-> month, cost |-> amount]]
        /\ resv' = [resv EXCEPT ![r].state = "settled", ![r].settled = amount,
                                ![r].completion = Payload(u)]
        /\ account' = AccountRow(-resv[r].reserved, -amount)
        /\ IF amount > 0
           THEN /\ Covered(Account.held - resv[r].reserved, amount)
                /\ Account.balance - amount \in Balance
                /\ Post(r, amount)
                /\ Publish({<<"ledger.posted", r>>, <<"reservation.settled", r>>}
                           \cup decision)
           ELSE /\ UNCHANGED ledger
                /\ Publish({<<"reservation.settled", r>>} \cup decision)
        /\ UNCHANGED <<enforce, revoked, model, month>>

SettleMoney(r, u) == SettleLocked(r, u, {}) /\ UNCHANGED <<review, audit>>

-----------------------------------------------------------------------------
(* The v1 usage path: charged after the fact, without a reservation.       *)

RecordUsage(e, k, q, u, p, m, succeeded) ==
    LET chargeable == succeeded /\ u # Zero
        cost == IF chargeable THEN Cost(u, p) ELSE 0
    IN  /\ cost <= MaxAmount
        /\ NeverReserved(q)
        /\ usage[e] = NoUsage
        /\ usage' = [usage EXCEPT ![e] = [key |-> k, request |-> q,
                                          month |-> m, cost |-> cost]]
        /\ ChangeSpend(k, m, cost)
        /\ IF cost > 0
           THEN /\ Covered(Account.held, cost)
                /\ Account.balance - cost \in Balance
                /\ account' = AccountRow(0, -cost)
                /\ Post(e, cost)
                /\ Publish({<<"ledger.posted", e>>})
           ELSE UNCHANGED <<account, ledger, outbox>>
        /\ UNCHANGED <<resv, review, audit, keyHold, enforce, revoked, model, month>>

-----------------------------------------------------------------------------
(* Credits and refund debits: what the payment flows post to the ledger.   *)

PostCredit(t, amount) ==
    /\ Account.balance + amount \in Balance
    /\ account' = AccountRow(0, amount)
    /\ Post(t, amount)
    /\ Publish({<<"ledger.posted", t>>})
    /\ UNCHANGED <<resv, usage, review, audit, keyHold, monthSpend, enforce,
                   revoked, model, month>>

PostRefund(t, amount) ==
    /\ Covered(Account.held, amount)
    /\ Account.balance - amount \in Balance
    /\ account' = AccountRow(0, -amount)
    /\ Post(t, amount)
    /\ Publish({<<"ledger.posted", t>>})
    /\ UNCHANGED <<resv, usage, review, audit, keyHold, monthSpend, enforce,
                   revoked, model, month>>

-----------------------------------------------------------------------------
(* Two-person review of a hold whose usage is unknown.                     *)

\* Evidence proposes a usage for a dispatched request; a waiver (usage None)
\* gives up a hold the platform absorbs.
SubmitReview(v, r, actor, waiver, u) ==
    /\ review[v].state = "none"
    /\ \/ resv[r].state = "dispatched"
       \/ waiver /\ resv[r].state = "reserved"
    /\ review' = [review EXCEPT ![v] =
          [state |-> "submitted", reservation |-> r, waiver |-> waiver,
           usage |-> u, submitter |-> actor, reviewer |-> None]]
    /\ audit' = audit \cup {<<v, 1, actor>>}
    /\ Publish({<<"review.submitted", v>>})
    /\ UNCHANGED <<resv, usage, ledger, account, keyHold, monthSpend, enforce,
                   revoked, model, month>>

\* What every decision does to the review itself.
Decide_Alone(v, actor, outcome) ==
    /\ review[v].state = "submitted"
    /\ review' = [review EXCEPT ![v].state = outcome, ![v].reviewer = actor]
    /\ audit' = audit \cup {<<v, 2, actor>>}
Decide(v, actor, outcome) ==
    /\ review[v].state = "submitted"
    /\ review[v].submitter # actor
    /\ review' = [review EXCEPT ![v].state = outcome, ![v].reviewer = actor]
    /\ audit' = audit \cup {<<v, 2, actor>>}

RejectReview(v, actor) ==
    /\ Decide(v, actor, "rejected")
    /\ Publish({<<"review.rejected", v>>})
    /\ UNCHANGED <<resv, usage, ledger, account, keyHold, monthSpend, enforce,
                   revoked, model, month>>

ApproveWaiver(v, actor) ==
    LET r == review[v].reservation
    IN  /\ Decide(v, actor, "waived")
        /\ review[v].waiver
        /\ resv[r].state \in Held
        /\ ChangeHold(resv[r].key, -resv[r].reserved)
        /\ account' = AccountRow(-resv[r].reserved, 0)
        /\ resv' = [resv EXCEPT ![r].state = "waived"]
        /\ Publish({<<"reservation.waived", r>>, <<"review.waived", v>>})
        /\ UNCHANGED <<usage, ledger, monthSpend, enforce, revoked, model, month>>

\* Approved evidence settles the hold; if the gateway's own settlement with
\* the same payload got there first, only the review is closed.
ApproveEvidence(v, actor) ==
    LET r == review[v].reservation
        u == review[v].usage
    IN  /\ Decide(v, actor, "settled")
        /\ ~review[v].waiver
        /\ \/ SettleLocked(r, u, {<<"review.settled", v>>})
           \/ /\ resv[r].state = "settled"
              /\ resv[r].completion = Payload(u)
              /\ Publish({<<"review.settled", v>>})
              /\ UNCHANGED <<resv, usage, ledger, account, keyHold, monthSpend,
                             enforce, revoked, model, month>>

-----------------------------------------------------------------------------
(* Maintenance, cold reads, configuration and the calendar.                *)

\* POST projections/rebuild for one key and one month.
ProjectionRebuild(k, m) ==
    /\ account' = [known |-> TRUE, balance |-> HistoricalBalance,
                   held |-> HistoricalHeld]
    /\ keyHold' = [keyHold EXCEPT ![k] =
                      [known |-> TRUE, held |-> HistoricalKeyHold(k)]]
    /\ monthSpend' = [monthSpend EXCEPT ![k][m] =
                         [known |-> TRUE, spent |-> HistoricalSpend(k, m)]]
    /\ Publish({<<"projection.rebuilt", k>>})
    /\ UNCHANGED <<resv, usage, ledger, review, audit, enforce, revoked, model, month>>

\* project_balance / billing_position on an account without a row.
ColdBalanceRead ==
    /\ ~account.known
    /\ account' = Account
    /\ UNCHANGED <<resv, usage, ledger, review, audit, keyHold, monthSpend,
                   enforce, revoked, model, month, outbox>>

\* projected_spend of a key and month without a row.
ColdSpendRead(k, m) ==
    /\ ~monthSpend[k][m].known
    /\ monthSpend' = [monthSpend EXCEPT ![k][m] = Monthly(k, m)]
    /\ UNCHANGED <<resv, usage, ledger, review, audit, account, keyHold,
                   enforce, revoked, model, month, outbox>>

\* One UPDATE of the account row, which waits for a transaction that has the
\* row locked but takes no lock of its own: an enforced account may have no
\* projection row.  The balance in the answer is a ColdBalanceRead later on.
UpdateBalancePolicy(flag) ==
    /\ flag # enforce
    /\ enforce' = flag
    /\ UNCHANGED <<resv, usage, ledger, review, audit, account, keyHold,
                   monthSpend, revoked, model, month, outbox>>

RevokeKey(k) ==
    /\ revoked' = revoked \cup {k}
    /\ UNCHANGED <<resv, usage, ledger, review, audit, account, keyHold,
                   monthSpend, enforce, model, month, outbox>>

\* A catalog write: another price version, or the model switched on or off.
PutModel(p, enabled) ==
    /\ model' = [price |-> p, enabled |-> enabled]
    /\ UNCHANGED <<resv, usage, ledger, review, audit, account, keyHold,
                   monthSpend, enforce, revoked, month, outbox>>

NextMonth ==
    /\ month < MaxMonth
    /\ month' = month + 1
    /\ UNCHANGED <<resv, usage, ledger, review, audit, account, keyHold,
                   monthSpend, enforce, revoked, model, outbox>>

-----------------------------------------------------------------------------
(* Migration 000007 creates the projection tables empty over whatever      *)
(* history there is: open holds of older reservations, older v1 charges    *)
(* and credits, of an account that may already enforce its balance.        *)

LegacyResv ==
    {NoResv} \cup
    {row \in [state : Held, key : Keys, request : Requests,
              limit : {l \in Usages : l.input + l.output \in 1 .. MaxContext},
              price : Prices, reserved : Amount, settled : {Null},
              completion : {NoCompletion}] :
        row.reserved = Cost(row.limit, row.price)}

LegacyUsage ==
    {NoUsage} \cup [key : Keys, request : Requests, month : {1}, cost : Amounts]

(***************************************************************************)
(* A request is reserved at most once, or reported by v1 events, never     *)
(* both, so no request is charged on both paths: reserve_money and         *)
(* record_usage each check the other's table under the account lock,       *)
(* released and settled reservations included.                             *)
(***************************************************************************)
RequestPathsDisjoint ==
    \A r \in Reservations : resv[r].request # None =>
        /\ \A x \in Reservations \ {r} : resv[x].request # resv[r].request
        /\ \A e \in UsageEvents : usage[e].request # resv[r].request

\* Every sum of history is an i64.
HistoryFits ==
    /\ HistoricalBalance \in Balance
    /\ HistoricalHeld \in Amount
    /\ \A k \in Keys : HistoricalKeyHold(k) \in Amount
    /\ \A k \in Keys, m \in Months : HistoricalSpend(k, m) \in Amount

\* What reservations cost a key in a month.
ReservationSpend(k, m) == Total(SpendRows(k, m) \cap Reservations, CostOf)

(***************************************************************************)
(* reserve_money admits a request against the key's monthly budget; later  *)
(* settlements, month changes, late reports, reviews and price changes     *)
(* never let what reservations cost the key this month plus what it still  *)
(* holds exceed that budget.                                               *)
(***************************************************************************)
BudgetHolds ==
    \A k \in Keys : Budget[k] > 0 =>
        ReservationSpend(k, month) + HistoricalKeyHold(k) <= Budget[k]

\* The lifecycle events of a reservation in a given state.
StateEvents(r) ==
    IF resv[r].state = "none" THEN {}
    ELSE {<<"reservation.created", r>>} \cup
         (IF resv[r].state = "dispatched" THEN {<<"reservation.dispatched", r>>}
          ELSE {})

Init ==
    /\ \E f \in [Legacy \cap Reservations -> LegacyResv] :
          resv = [r \in Reservations |-> IF r \in Legacy THEN f[r] ELSE NoResv]
    /\ \E f \in [Legacy \cap UsageEvents -> LegacyUsage] :
          usage = [e \in UsageIds |-> IF e \in Legacy \cap UsageEvents THEN f[e]
                                      ELSE NoUsage]
    /\ \E f \in [Legacy \cap TopUps -> Amounts] :
          ledger = [t \in Txns |-> IF t \in UsageIds THEN usage[t].cost
                                   ELSE IF t \in Legacy THEN f[t] ELSE 0]
    /\ review = [v \in Reviews |-> NoReview]
    /\ audit = {}
    /\ account = [known |-> FALSE, balance |-> 0, held |-> 0]
    /\ keyHold = [k \in Keys |-> [known |-> FALSE, held |-> 0]]
    /\ monthSpend = [k \in Keys |-> [m \in Months |-> [known |-> FALSE, spent |-> 0]]]
    /\ enforce \in BOOLEAN
    /\ revoked = {}
    /\ model \in [price : Prices, enabled : {TRUE}]
    /\ month = 1
    /\ outbox = UNION {StateEvents(r) : r \in Reservations}
    /\ RequestPathsDisjoint /\ HistoryFits /\ BudgetHolds

Next ==
    \/ \E r \in Reservations :
          \/ \E k \in Keys, q \in Requests, l \in Usages : ReserveMoney(r, k, q, l)
          \/ DispatchMoney(r)
          \/ ReleaseMoney(r)
          \/ UnresolvedMoney(r, Missing)
          \/ \E u \in Usages : \/ UnresolvedMoney(r, Over(u))
                               \/ SettleMoney(r, u)
    \/ \E e \in UsageEvents, k \in Keys, q \in Requests, u \in Usages,
          p \in Prices, m \in 1 .. month, ok \in BOOLEAN :
             RecordUsage(e, k, q, u, p, m, ok)
    \/ \E t \in TopUps, a \in Amounts : PostCredit(t, a)
    \/ \E t \in Debits, a \in Amounts : PostRefund(t, a)
    \/ \E v \in Reviews, actor \in Actors :
          \/ \E r \in Reservations :
                \/ SubmitReview(v, r, actor, TRUE, None)
                \/ \E u \in Usages : SubmitReview(v, r, actor, FALSE, u)
          \/ RejectReview(v, actor)
          \/ ApproveWaiver(v, actor)
          \/ ApproveEvidence(v, actor)
    \/ \E k \in Keys, m \in Months : \/ ProjectionRebuild(k, m)
                                     \/ ColdSpendRead(k, m)
    \/ ColdBalanceRead
    \/ \E flag \in BOOLEAN : UpdateBalancePolicy(flag)
    \/ \E k \in Keys : RevokeKey(k)
    \/ \E p \in Prices, enabled \in BOOLEAN : PutModel(p, enabled)
    \/ NextMonth

Spec == Init /\ [][Next]_vars

-----------------------------------------------------------------------------
(* Properties.                                                             *)

(***************************************************************************)
(* A projection row that exists equals the sum over the rows of record it  *)
(* stands for, whatever the order of reservations, settlements, v1 events, *)
(* reviews, rebuilds and first reads: the backfill happens before the      *)
(* history changes and no delta is applied twice or lost                   *)
(* (billing_projection.rs).                                                *)
(***************************************************************************)
ProjectionsAgree ==
    /\ account.known => /\ account.balance = HistoricalBalance
                        /\ account.held = HistoricalHeld
    /\ \A k \in Keys : keyHold[k].known => keyHold[k].held = HistoricalKeyHold(k)
    /\ \A k \in Keys, m \in Months :
          monthSpend[k][m].known => monthSpend[k][m].spent = HistoricalSpend(k, m)

(***************************************************************************)
(* A hold is charged exactly once and never beyond itself: a reservation   *)
(* has a usage row exactly when it is settled; its cost is the price of    *)
(* the accepted payload at the price frozen when it was reserved, is what  *)
(* the reservation records, is at most what was held, and is posted to the *)
(* ledger once, under every race of the gateway's settlement with reviews  *)
(* (settle_locked); and no request is charged on both paths.               *)
(***************************************************************************)
ChargedOnce ==
    /\ RequestPathsDisjoint
    /\ \A e \in UsageIds : ledger[e] = usage[e].cost
    /\ \A r \in Reservations :
          IF resv[r].state = "settled"
          THEN /\ usage[r].cost = resv[r].settled
               /\ usage[r].key = resv[r].key
               /\ usage[r].request = resv[r].request
               /\ resv[r].settled <= resv[r].reserved
               /\ resv[r].completion.kind = "settlement"
               /\ resv[r].settled = Cost(resv[r].completion.usage, resv[r].price)
          ELSE usage[r] = NoUsage /\ resv[r].settled = Null

(***************************************************************************)
(* A decided review took effect, and only a second person can decide: an   *)
(* approved review left its reservation settled with exactly the reviewed  *)
(* usage, or waived; a waived reservation has an approved waiver by        *)
(* somebody other than its submitter; both steps are in the audit trail    *)
(* (decide_billing_review).                                                *)
(***************************************************************************)
ReviewsTakeEffect ==
    /\ \A v \in Reviews :
          LET r == review[v].reservation
          IN  /\ review[v].state = "settled" =>
                    /\ resv[r].state = "settled"
                    /\ resv[r].completion = Payload(review[v].usage)
              /\ review[v].state = "waived" => resv[r].state = "waived"
              /\ review[v].state \notin {"none", "submitted"} =>
                    /\ review[v].reviewer # review[v].submitter
                    /\ {<<v, 1, review[v].submitter>>, <<v, 2, review[v].reviewer>>}
                          = {a \in audit : a[1] = v}
    /\ \A r \in Reservations : resv[r].state = "waived" =>
          \E v \in Reviews : review[v].state = "waived" /\ review[v].reservation = r

(***************************************************************************)
(* A consumer of the outbox reconstructs every reservation: its lifecycle  *)
(* events are exactly those of the path it took (append_event in the       *)
(* transaction of the change).                                             *)
(***************************************************************************)
OutboxTellsState ==
    \A r \in Reservations :
        LET happened(kind) == <<kind, r>> \in outbox
            s == resv[r].state
        IN  /\ happened("reservation.created") <=> s # "none"
            /\ s = "dispatched" => happened("reservation.dispatched")
            /\ s \in {"none", "reserved", "released"} =>
                  ~happened("reservation.dispatched")
            /\ happened("reservation.released") <=> s = "released"
            /\ happened("reservation.settled") <=> s = "settled"
            /\ happened("reservation.waived") <=> s = "waived"

Available == HistoricalBalance - HistoricalHeld

(***************************************************************************)
(* While the account enforces its balance, no step takes money that is not *)
(* there: whatever lowers the available balance leaves it non-negative.    *)
(***************************************************************************)
EnforcedStepsAreCovered ==
    [][enforce /\ Available' < Available => Available' >= 0]_vars
=============================================================================
