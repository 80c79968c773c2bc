------------------------------- MODULE Payments -------------------------------
(***************************************************************************)
(* Alipay top-ups and refunds of one project's account: checkout, verified *)
(* trade evidence, refunds that are debited before any money leaves, and   *)
(* their completion from verified evidence.                                *)
(*                                                                         *)
(* The provider is external.  What it ever reported stays verifiable, so   *)
(* evidence may arrive late, twice and out of order, by notification,      *)
(* query or upload.  Handlers are one transaction under the order, payment *)
(* or refund row lock and then the account lock, except that checkout      *)
(* calls the provider between two transactions.  Amounts are minor units;  *)
(* the ledger scales all of them by the same factor.                       *)
(* X_Variant defines a faulty form of X.                                   *)
(***************************************************************************)
EXTENDS Totals

CONSTANTS
    Orders,         \* top-up orders
    OrderAmount,    \* amount of each order
    Trades,         \* trades the provider may open
    Refunds,        \* refund identities (out_request_no)
    RefundAmounts,  \* amounts asked back
    Clients,        \* concurrent checkout requests
    MaxUsage,       \* bound: what inference holds and costs altogether
    None            \* no order

ASSUME PaymentsAssumption ==
    /\ IsFiniteSet(Orders) /\ IsFiniteSet(Trades) /\ IsFiniteSet(Refunds)
    /\ \A o \in Orders : o \in DOMAIN OrderAmount /\ OrderAmount[o] \in Amount \ {0}
    /\ \A a \in RefundAmounts : a \in Amount \ {0}
    /\ MaxUsage \in Nat
    /\ None \notin Orders

VARIABLES
    profile,    \* merchant and environment of the running configuration
    order,      \* billing_orders.status
    checkout,   \* payment_checkouts
    call,       \* the order of each checkout between its two transactions
    trade,      \* the provider's trades (external)
    evidence,   \* verified states the provider reported: <<trade, state>>
    receipt,    \* provider_receipts of trades
    payment,    \* payments, by the trade they are derived from
    refund,     \* refunds
    submitted,  \* refunds sent to the provider
    returned,   \* refunds the provider carried out (external)
    ledger,     \* balances of the ledger accounts
    held        \* held_microunits of the account

vars == <<profile, order, checkout, call, trade, evidence, receipt, payment,
          refund, submitted, returned, ledger, held>>

Profiles == {"production", "sandbox"}

NoCheckout == [state |-> "none", profile |-> "sandbox", qr |-> FALSE]
NoTrade == [order |-> None, profile |-> "sandbox", state |-> "none"]
NoRefund == [status |-> "none", trade |-> None, amount |-> 0]

Paid == {"TRADE_SUCCESS", "TRADE_FINISHED"}

\* A double entry: the customer's balance changes by delta, the other
\* account by its opposite.
Post(delta, other) ==
    [ledger EXCEPT !["customer_balance"] = @ + delta, ![other] = @ - delta]

Available == ledger["customer_balance"] - held

-----------------------------------------------------------------------------
(* Orders and checkout.                                                    *)

CreateOrder(o) ==
    /\ order[o] = "none"
    /\ order' = [order EXCEPT ![o] = "pending"]
    /\ UNCHANGED <<profile, checkout, call, trade, evidence, receipt, payment,
                   refund, submitted, returned, ledger, held>>

\* The first transaction binds the order to the merchant and environment.  A
\* checkout that already has its QR code is answered from the row.
CheckoutBegin(c, o) ==
    /\ call[c] = None
    /\ order[o] = "pending"
    /\ \/ /\ checkout[o].state = "none"
          /\ checkout' = [checkout EXCEPT ![o] =
                 [state |-> "creating", profile |-> profile, qr |-> FALSE]]
       \/ /\ checkout[o].state # "none"
          /\ checkout[o].profile = profile /\ ~checkout[o].qr
          /\ UNCHANGED checkout
    /\ call' = [call EXCEPT ![c] = o]
    /\ UNCHANGED <<profile, order, trade, evidence, receipt, payment, refund,
                   submitted, returned, ledger, held>>

\* The provider opens a trade for a request of a checkout, which may reach it
\* when nobody waits for the answer any more.
Precreate(o) ==
    /\ checkout[o].state # "none"
    /\ \E t \in Trades :
         /\ trade[t] = NoTrade
         /\ trade' = [trade EXCEPT ![t] =
                [order |-> o, profile |-> checkout[o].profile, state |-> "WAIT_BUYER_PAY"]]
         /\ evidence' = evidence \cup {<<t, "WAIT_BUYER_PAY">>}
    /\ UNCHANGED <<profile, order, checkout, call, receipt, payment, refund,
                   submitted, returned, ledger, held>>

\* The state written by the second transaction, which read the row anew.
StateAfterPrecreate(s) == IF s = "creating" THEN "pending" ELSE s

CheckoutFinish(c) ==
    LET o == call[c] IN
    /\ o # None /\ \E t \in Trades : trade[t].order = o
    /\ checkout' = [checkout EXCEPT ![o].state = StateAfterPrecreate(@),
                                    ![o].qr = TRUE]
    /\ call' = [call EXCEPT ![c] = None]
    /\ UNCHANGED <<profile, order, trade, evidence, receipt, payment, refund,
                   submitted, returned, ledger, held>>

\* The outcome of the call is unknown: no second transaction.
CheckoutUnknown(c) ==
    /\ call[c] # None
    /\ call' = [call EXCEPT ![c] = None]
    /\ UNCHANGED <<profile, order, checkout, trade, evidence, receipt, payment,
                   refund, submitted, returned, ledger, held>>

-----------------------------------------------------------------------------
(* accept_alipay_trade, for a notification or a query.                     *)

\* Evidence verifies under the keys of its own merchant, and must match the
\* checkout the order is bound to.
Bound(t) ==
    /\ trade[t].order # None
    /\ trade[t].profile = profile
    /\ checkout[trade[t].order].state # "none"
    /\ checkout[trade[t].order].profile = profile

Keep(t, s) == receipt' = receipt \cup {<<t, s>>}

Observe(t, s) ==
    /\ <<t, s>> \in evidence /\ Bound(t)
    /\ profile # "production"
    /\ Keep(t, s)
    /\ UNCHANGED <<profile, order, checkout, call, trade, evidence, payment,
                   refund, submitted, returned, ledger, held>>

\* A late closed notification does not touch an order that is paid.
Closes(t, s) == s = "TRADE_CLOSED" /\ order[trade[t].order] = "pending"

AcceptUnpaid(t, s) ==
    /\ <<t, s>> \in evidence /\ Bound(t)
    /\ profile = "production" /\ s \notin Paid
    /\ Keep(t, s)
    /\ checkout' = IF Closes(t, s)
                   THEN [checkout EXCEPT ![trade[t].order].state = "closed"]
                   ELSE checkout
    /\ UNCHANGED <<profile, order, call, trade, evidence, payment, refund,
                   submitted, returned, ledger, held>>

\* Evidence of a payment that is already booked.
AcceptDuplicate(t, s) ==
    /\ <<t, s>> \in evidence /\ Bound(t)
    /\ profile = "production" /\ s \in Paid
    /\ payment[t]
    /\ Keep(t, s)
    /\ UNCHANGED <<profile, order, checkout, call, trade, evidence, payment,
                   refund, submitted, returned, ledger, held>>

Payable_Reopened(o) == order[o] # "none"

Payable(o) == order[o] = "pending"

\* Payment, credit, order and checkout in one transaction; paid evidence for
\* an order paid by another trade is refused and leaves nothing.
AcceptPaid(t, s) ==
    LET o == trade[t].order IN
    /\ <<t, s>> \in evidence /\ Bound(t)
    /\ profile = "production" /\ s \in Paid
    /\ ~payment[t] /\ Payable(o)
    /\ Keep(t, s)
    /\ payment' = [payment EXCEPT ![t] = TRUE]
    /\ ledger' = Post(OrderAmount[o], "cash_clearing")
    /\ order' = [order EXCEPT ![o] = "paid"]
    /\ checkout' = [checkout EXCEPT ![o].state = "paid"]
    /\ UNCHANGED <<profile, call, trade, evidence, refund, submitted, returned, held>>

-----------------------------------------------------------------------------
(* Refunds.                                                                *)

RefundsOf(t, statuses) ==
    {f \in Refunds : refund[f].trade = t /\ refund[f].status \in statuses}

RefundAmount == [f \in Refunds |-> refund[f].amount]

\* What a payment still covers.  Pending refunds count.
WithinCapture(t, a) ==
    Total(RefundsOf(t, {"pending", "succeeded"}), RefundAmount) + a
        <= OrderAmount[trade[t].order]

Refundable_Balance(a) == ledger["customer_balance"] >= a

Refundable(a) == Available >= a

PrepareRefund(f, t, a) ==
    /\ payment[t]
    /\ profile = "production" /\ checkout[trade[t].order].profile = profile
    /\ refund[f].status = "none"
    /\ WithinCapture(t, a)
    /\ Refundable(a)
    /\ refund' = [refund EXCEPT ![f] = [status |-> "pending", trade |-> t, amount |-> a]]
    /\ ledger' = Post(-a, "refund_pending")
    /\ UNCHANGED <<profile, order, checkout, call, trade, evidence, receipt,
                   payment, submitted, returned, held>>

Submittable(f) == refund[f].status = "pending"

\* alipay_refund_operation with submit: the answer changes nothing here, so a
\* lost one is the same as none, and the same refund may be sent again.
SubmitRefund(f) ==
    /\ Submittable(f) /\ profile = "production"
    /\ submitted' = submitted \cup {f}
    /\ UNCHANGED <<profile, order, checkout, call, trade, evidence, receipt,
                   payment, refund, returned, ledger, held>>

\* query_refund or an uploaded response, both verified: only REFUND_SUCCESS
\* of this very refund completes it, and only once.
Completable_Again(f) == refund[f].status # "none"

Completable(f) == refund[f].status = "pending"

CompleteRefund(f) ==
    /\ f \in returned
    /\ profile = "production" /\ Completable(f)
    /\ refund' = [refund EXCEPT ![f].status = "succeeded"]
    /\ ledger' = [ledger EXCEPT !["refund_pending"] = @ - refund[f].amount,
                                !["cash_clearing"] = @ + refund[f].amount]
    /\ UNCHANGED <<profile, order, checkout, call, trade, evidence, receipt,
                   payment, submitted, returned, held>>

-----------------------------------------------------------------------------
(* The provider, inference on the account, and the deployment.             *)

Report(t, s) ==
    /\ trade' = [trade EXCEPT ![t].state = s]
    /\ evidence' = evidence \cup {<<t, s>>}

\* The buyer pays or lets the trade expire; a paid trade is finished, or
\* closed once it is fully refunded.
TradeMoves(t) ==
    /\ \/ trade[t].state = "WAIT_BUYER_PAY" /\ Report(t, "TRADE_SUCCESS")
       \/ trade[t].state = "WAIT_BUYER_PAY" /\ Report(t, "TRADE_CLOSED")
       \/ trade[t].state = "TRADE_SUCCESS" /\ Report(t, "TRADE_FINISHED")
       \/ /\ trade[t].state = "TRADE_SUCCESS"
          /\ \E f \in returned : refund[f].trade = t
          /\ Report(t, "TRADE_CLOSED")
    /\ UNCHANGED <<profile, order, checkout, call, receipt, payment, refund,
                   submitted, returned, ledger, held>>

\* The provider carries out a refund it received, once per identity.
ProviderRefunds(f) ==
    /\ f \in submitted \ returned
    /\ returned' = returned \cup {f}
    /\ UNCHANGED <<profile, order, checkout, call, trade, evidence, receipt,
                   payment, refund, submitted, ledger, held>>

\* Holds of the money protocol and what becomes of them, one unit at a time.
\* An account is postpaid unless it enforces its balance: neither a hold nor a
\* charge needs money that is available.
Hold ==
    /\ held + ledger["usage_revenue"] < MaxUsage
    /\ held' = held + 1
    /\ UNCHANGED <<profile, order, checkout, call, trade, evidence, receipt,
                   payment, refund, submitted, returned, ledger>>

ReleaseHold ==
    /\ held > 0
    /\ held' = held - 1
    /\ UNCHANGED <<profile, order, checkout, call, trade, evidence, receipt,
                   payment, refund, submitted, returned, ledger>>

Charge ==
    /\ held > 0
    /\ held' = held - 1
    /\ ledger' = Post(-1, "usage_revenue")
    /\ UNCHANGED <<profile, order, checkout, call, trade, evidence, receipt,
                   payment, refund, submitted, returned>>

\* The control plane is redeployed with the other Alipay configuration, and
\* requests that are under way end.
Redeploy ==
    /\ profile' \in Profiles \ {profile}
    /\ call' = [c \in Clients |-> None]
    /\ UNCHANGED <<order, checkout, trade, evidence, receipt, payment, refund,
                   submitted, returned, ledger, held>>

-----------------------------------------------------------------------------

Init ==
    /\ profile \in Profiles
    /\ order = [o \in Orders |-> "none"]
    /\ checkout = [o \in Orders |-> NoCheckout]
    /\ call = [c \in Clients |-> None]
    /\ trade = [t \in Trades |-> NoTrade]
    /\ evidence = {} /\ receipt = {}
    /\ payment = [t \in Trades |-> FALSE]
    /\ refund = [f \in Refunds |-> NoRefund]
    /\ submitted = {} /\ returned = {}
    /\ ledger = [x \in {"customer_balance", "cash_clearing", "refund_pending",
                        "usage_revenue"} |-> 0]
    /\ held = 0

Accept(t, s) ==
    \/ Observe(t, s) \/ AcceptUnpaid(t, s) \/ AcceptDuplicate(t, s) \/ AcceptPaid(t, s)

Next ==
    \/ \E o \in Orders : CreateOrder(o) \/ Precreate(o)
    \/ \E c \in Clients : \/ \E o \in Orders : CheckoutBegin(c, o)
                          \/ CheckoutFinish(c) \/ CheckoutUnknown(c)
    \/ \E e \in evidence : Accept(e[1], e[2])
    \/ \E f \in Refunds : \/ \E t \in Trades, a \in RefundAmounts : PrepareRefund(f, t, a)
                          \/ SubmitRefund(f) \/ CompleteRefund(f) \/ ProviderRefunds(f)
    \/ \E t \in Trades : TradeMoves(t)
    \/ Hold \/ ReleaseHold \/ Charge
    \/ Redeploy

Spec == Init /\ [][Next]_vars

-----------------------------------------------------------------------------
(* Properties.                                                             *)

Booked == {t \in Trades : payment[t]}

TradeAmount == [t \in Trades |->
    IF trade[t].order = None THEN 0 ELSE OrderAmount[trade[t].order]]

\* accept_alipay_trade: an order is credited by exactly one trade that was
\* really paid in production, and by none before, whatever notifications
\* and queries repeat, overtake each other or straddle a redeployment; its
\* checkout says so too, although the second transaction of alipay_checkout
\* may come after the payment.
CreditedOnce ==
    /\ \A o \in Orders :
        /\ Cardinality({t \in Booked : trade[t].order = o}) = IF order[o] = "paid" THEN 1 ELSE 0
        /\ checkout[o].state = "paid" <=> order[o] = "paid"
    /\ \A t \in Booked : /\ trade[t].profile = "production"
                         /\ \E s \in Paid : <<t, s>> \in receipt

\* insert_balanced_entries and complete_alipay_refund: cash_clearing is what
\* the provider holds for the platform by the evidence so far, and
\* refund_pending is what was debited and has no evidence yet.
ClearingMatchesEvidence ==
    /\ ledger["cash_clearing"] =
         Total({f \in Refunds : refund[f].status = "succeeded"}, RefundAmount)
            - Total(Booked, TradeAmount)
    /\ ledger["refund_pending"] =
         Total({f \in Refunds : refund[f].status = "pending"}, RefundAmount)

\* What the provider paid back was debited before, and is within what the
\* refund's trade captured.
PaidBackIsDebited ==
    /\ \A f \in returned : refund[f].status \in {"pending", "succeeded"}
    /\ \A t \in Trades :
        Total({f \in returned : refund[f].trade = t}, RefundAmount) <= TradeAmount[t]

\* Money set aside for a refund is not spent, not held and not credit.
RefundTakesOwnMoney ==
    ledger["refund_pending"]' > ledger["refund_pending"] => Available' >= 0

\* prepare_alipay_refund: the debit precedes any movement of money, so all
\* the provider ever paid back is debited and within what it captured; and
\* "refunds must never use credit allowance, even if inference is postpaid":
\* although holds and charges may have driven the account below zero before
\* and may do so later, no step sets money aside for a refund that the
\* account does not have beyond its holds.
MoneyOutIsCovered == []PaidBackIsDebited /\ [][RefundTakesOwnMoney]_vars
=============================================================================
