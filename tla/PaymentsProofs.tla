---------------------------- MODULE PaymentsProofs ----------------------------
(***************************************************************************)
(* Proofs about Payments, for any set of orders, trades, refunds and       *)
(* checkout requests and any amounts.  The invariant keeps three books in  *)
(* step: which trade paid which order, what the ledger's clearing accounts *)
(* sum up to, and what of a payment its refunds have used up.              *)
(***************************************************************************)
EXTENDS Payments, TotalsTheorems

TradeStates == {"none", "WAIT_BUYER_PAY", "TRADE_SUCCESS", "TRADE_FINISHED", "TRADE_CLOSED"}
Accounts == {"customer_balance", "cash_clearing", "refund_pending", "usage_revenue"}

Checkout == [state : {"none", "creating", "pending", "closed", "paid"},
             profile : Profiles, qr : BOOLEAN]
Trade == [order : Orders \cup {None}, profile : Profiles, state : TradeStates]
Refund == [status : {"none", "pending", "succeeded"}, trade : Trades \cup {None},
           amount : Amount]

Types ==
    /\ profile \in Profiles
    /\ order \in [Orders -> {"none", "pending", "paid"}]
    /\ checkout \in [Orders -> Checkout]
    /\ call \in [Clients -> Orders \cup {None}]
    /\ trade \in [Trades -> Trade]
    /\ evidence \subseteq Trades \X TradeStates
    /\ payment \in [Trades -> BOOLEAN]
    /\ refund \in [Refunds -> Refund]
    /\ submitted \subseteq Refunds /\ returned \subseteq submitted
    /\ ledger \in [Accounts -> Int]
    /\ held \in Nat

\* A booked trade paid its order, in production, by evidence that was kept.
TradeBooked(t) ==
    /\ trade[t].order \in Orders /\ order[trade[t].order] = "paid"
    /\ trade[t].profile = "production"
    /\ \E s \in Paid : <<t, s>> \in receipt

\* An order is paid by one trade, and its checkout says so.
OrderPaid(o) ==
    /\ \A t, u \in Booked : trade[t].order = o /\ trade[u].order = o => t = u
    /\ order[o] = "paid" => \E t \in Booked : trade[t].order = o
    /\ checkout[o].state = "paid" <=> order[o] = "paid"

\* Open and completed refunds stay within what their trade captured.
Captured(t) == Total(RefundsOf(t, {"pending", "succeeded"}), RefundAmount) <= TradeAmount[t]

\* A refund is debited before it is sent.
SentIsDebited == \A f \in submitted : refund[f].status \in {"pending", "succeeded"}

IInv ==
    /\ Types
    /\ \A t \in Booked : TradeBooked(t)
    /\ \A o \in Orders : OrderPaid(o)
    /\ ClearingMatchesEvidence
    /\ SentIsDebited
    /\ \A t \in Trades : Captured(t)

-----------------------------------------------------------------------------
(* Amounts and sums.                                                       *)

LEMMA AmountTypes ==
    ASSUME Types
    PROVE  /\ \A t \in Trades : TradeAmount[t] \in Amount
           /\ \A f \in Refunds : RefundAmount[f] = refund[f].amount /\ RefundAmount[f] \in Amount
           /\ \A x \in Amount : x \in Nat
<1>1. 0 \in Amount /\ \A x \in Amount : x \in Nat
  BY MaxAmountAssumption DEF Amount
<1>2. \A t \in Trades : trade[t].order \in Orders \cup {None}
  BY DEF Types, Trade
<1>3. \A f \in Refunds : refund[f] \in Refund
  BY DEF Types
<1> QED
  BY <1>1, <1>2, <1>3, PaymentsAssumption DEF TradeAmount, RefundAmount, Refund

\* The rows of every sum of this module are finitely many.
LEMMA RowsFinite ==
    /\ \A S \in SUBSET Refunds : IsFiniteSet(S)
    /\ \A S \in SUBSET Trades : IsFiniteSet(S)
  BY PaymentsAssumption, FS_Subset

RefundsIn(status) == {f \in Refunds : refund[f].status = status}

\* What writing one refund row does to a sum of refunds.
LEMMA RefundWrite ==
    ASSUME Types, Types', NEW f \in Refunds, NEW S \in SUBSET Refunds, NEW T \in SUBSET Refunds,
           S \ {f} = T \ {f}, \A x \in Refunds \ {f} : refund'[x] = refund[x]
    PROVE  /\ Total(T, RefundAmount') = Total(S, RefundAmount)
                - (IF f \in S THEN refund[f].amount ELSE 0)
                + (IF f \in T THEN refund'[f].amount ELSE 0)
           /\ Total(S, RefundAmount) \in Nat
<1>1. IsFiniteSet(S) /\ IsFiniteSet(T)
  BY RowsFinite
<1>2. \A x \in Refunds : RefundAmount[x] = refund[x].amount /\ RefundAmount[x] \in Amount
  BY AmountTypes
<1>3. \A x \in Refunds : RefundAmount'[x] = refund'[x].amount /\ RefundAmount'[x] \in Amount
  <2>1. \A x \in Refunds : refund'[x] \in Refund
    BY DEF Types
  <2> QED
    BY <2>1 DEF RefundAmount, Refund
<1>4. \A y \in S \ {f} : RefundAmount[y] = RefundAmount'[y]
  BY <1>2, <1>3
<1>5. Total(T, RefundAmount') = Total(S, RefundAmount)
        - Part(S, RefundAmount, f) + Part(T, RefundAmount', f)
  BY <1>1, <1>2, <1>3, <1>4, TotalUpdate
<1>6. /\ Part(S, RefundAmount, f) = IF f \in S THEN refund[f].amount ELSE 0
      /\ Part(T, RefundAmount', f) = IF f \in T THEN refund'[f].amount ELSE 0
  BY <1>2, <1>3 DEF Part
<1> QED
  BY <1>1, <1>5, <1>6, TotalType

-----------------------------------------------------------------------------
(* Steps that book nothing.                                                *)

Quiet ==
    /\ UNCHANGED <<payment, refund, ledger, held>>
    /\ receipt \subseteq receipt'
    /\ \A o \in Orders : /\ order'[o] = "paid" <=> order[o] = "paid"
                         /\ checkout'[o].state = "paid" <=> checkout[o].state = "paid"
    /\ \A t \in Trades :
          \/ trade'[t].order = trade[t].order /\ trade'[t].profile = trade[t].profile
          \/ trade[t].order = None
    /\ \A f \in submitted' : refund[f].status \in {"pending", "succeeded"}

\* A step that books nothing keeps the books.
LEMMA QuietStep ==
    ASSUME IInv, Types', Quiet
    PROVE  IInv'
<1>1. Booked' = Booked
  BY DEF Quiet, Booked
<1>2. \A t \in Booked : /\ trade'[t].order = trade[t].order
                        /\ trade'[t].profile = trade[t].profile
  BY PaymentsAssumption DEF IInv, TradeBooked, Quiet, Booked
<1>3. \A t \in Booked : TradeBooked(t)'
  BY <1>2 DEF IInv, TradeBooked, Quiet
<1>4. \A o \in Orders : OrderPaid(o)'
  BY <1>1, <1>2 DEF IInv, OrderPaid, Quiet
<1>5. RefundAmount' = RefundAmount /\ \A t, st : RefundsOf(t, st)' = RefundsOf(t, st)
  BY DEF RefundAmount, RefundsOf, Quiet
<1>6. \A t \in Trades : TradeAmount'[t] = TradeAmount[t] \/ TradeAmount[t] = 0
  BY DEF Quiet, TradeAmount
<1>7. ClearingMatchesEvidence'
  <2>1. \A t \in Booked : TradeAmount'[t] = TradeAmount[t]
    BY <1>2 DEF TradeAmount, Booked
  <2>2. Total(Booked, TradeAmount') = Total(Booked, TradeAmount)
    BY <2>1, TotalSame
  <2> QED
    BY <1>1, <1>5, <2>2 DEF IInv, ClearingMatchesEvidence, Quiet
<1>8. ASSUME NEW t \in Trades PROVE Captured(t)'
  <2>1. TradeAmount'[t] \in Nat
    <3>1. \A x \in Amount : x \in Nat
      BY MaxAmountAssumption DEF Amount
    <3>2. trade'[t].order \in Orders \cup {None}
      BY DEF Types, Trade
    <3> QED
      BY <3>1, <3>2, PaymentsAssumption DEF TradeAmount
  <2> DEFINE n == Total(RefundsOf(t, {"pending", "succeeded"}), RefundAmount)
  <2>2. n \in Nat /\ n <= TradeAmount[t]
    <3>1. RefundsOf(t, {"pending", "succeeded"}) \in SUBSET Refunds
      BY DEF RefundsOf
    <3> QED
      BY <3>1, RowsFinite, TotalType DEF IInv, Captured
  <2>3. Captured(t)' <=> n <= TradeAmount'[t]
    BY <1>5 DEF Captured
  <2> HIDE DEF n
  <2> QED
    BY <1>6, <2>1, <2>2, <2>3
<1>9. SentIsDebited'
  BY DEF IInv, SentIsDebited, Quiet
<1> QED
  BY <1>1, <1>3, <1>4, <1>7, <1>8, <1>9 DEF IInv

\* create_payment_order keeps the invariant.
LEMMA CreateOrderKeeps ==
    ASSUME IInv, NEW o \in Orders, CreateOrder(o) PROVE IInv'
<1>1. Types
  BY DEF IInv
<1>2. Types'
  BY <1>1 DEF CreateOrder, Types
<1>3. Quiet
  BY <1>1 DEF CreateOrder, Quiet, Types, IInv, SentIsDebited
<1> QED
  BY <1>2, <1>3, QuietStep

\* The first half of alipay_checkout keeps the invariant.
LEMMA CheckoutBeginKeeps ==
    ASSUME IInv, NEW c \in Clients, NEW o \in Orders, CheckoutBegin(c, o) PROVE IInv'
<1>1. Types
  BY DEF IInv
<1>2. call' \in [Clients -> Orders \cup {None}]
  BY <1>1 DEF CheckoutBegin, Types
<1>3. checkout' \in [Orders -> Checkout]
  <2>1. [state |-> "creating", profile |-> profile, qr |-> FALSE] \in Checkout
    BY <1>1 DEF Checkout, Types
  <2> QED
    BY <1>1, <2>1 DEF CheckoutBegin, Types
<1>4. \A x \in Orders : checkout'[x].state = "paid" <=> checkout[x].state = "paid"
  BY <1>1 DEF CheckoutBegin, Types
<1>5. Types'
  BY <1>1, <1>2, <1>3 DEF Types, CheckoutBegin
<1>6. Quiet
  BY <1>1, <1>4 DEF CheckoutBegin, Quiet, IInv, SentIsDebited
<1> QED
  BY <1>2, <1>5, <1>6, QuietStep

\* The provider's precreate keeps the invariant.
LEMMA PrecreateKeeps ==
    ASSUME IInv, NEW o \in Orders, Precreate(o) PROVE IInv'
<1>1. Types
  BY DEF IInv
<1>2. PICK t \in Trades :
        /\ trade[t] = NoTrade
        /\ trade' = [trade EXCEPT ![t] =
               [order |-> o, profile |-> checkout[o].profile, state |-> "WAIT_BUYER_PAY"]]
        /\ evidence' = evidence \cup {<<t, "WAIT_BUYER_PAY">>}
  BY DEF Precreate
<1>3. [order |-> o, profile |-> checkout[o].profile, state |-> "WAIT_BUYER_PAY"] \in Trade
  <2>1. checkout[o] \in Checkout
    BY <1>1 DEF Types
  <2> QED
    BY <2>1 DEF Trade, Checkout, TradeStates
<1>4. /\ trade' \in [Trades -> Trade] /\ evidence' \subseteq Trades \X TradeStates
      /\ \A u \in Trades :
            \/ trade'[u].order = trade[u].order /\ trade'[u].profile = trade[u].profile
            \/ trade[u].order = None
  BY <1>1, <1>2, <1>3 DEF Types, TradeStates, NoTrade
<1>5. Types'
  BY <1>1, <1>4 DEF Types, Precreate
<1>6. Quiet
  BY <1>1, <1>4 DEF Precreate, Quiet, IInv, SentIsDebited
<1> QED
  BY <1>5, <1>6, QuietStep

\* The late write of alipay_checkout keeps the invariant.
LEMMA CheckoutFinishKeeps ==
    ASSUME IInv, NEW c \in Clients, CheckoutFinish(c) PROVE IInv'
<1>1. Types /\ call[c] \in Orders
  BY DEF IInv, Types, CheckoutFinish
<1>2. call' \in [Clients -> Orders \cup {None}]
  BY <1>1 DEF CheckoutFinish, Types
<1>3. /\ checkout' \in [Orders -> Checkout]
      /\ \A x \in Orders : checkout'[x].state = "paid" <=> checkout[x].state = "paid"
  <2>1. checkout[call[c]] \in Checkout
    BY <1>1 DEF Types
  <2> QED
    BY <1>1, <2>1 DEF CheckoutFinish, Types, StateAfterPrecreate, Checkout
<1>4. Types'
  BY <1>1, <1>2, <1>3 DEF Types, CheckoutFinish
<1>5. Quiet
  BY <1>1, <1>3 DEF CheckoutFinish, Quiet, IInv, SentIsDebited
<1> QED
  BY <1>2, <1>4, <1>5, QuietStep

\* A call that ends unanswered, and a redeployment.
LEMMA CallsEndKeeps ==
    ASSUME IInv, (\E c \in Clients : CheckoutUnknown(c)) \/ Redeploy PROVE IInv'
<1>1. Types
  BY DEF IInv
<1>3. call' \in [Clients -> Orders \cup {None}] /\ profile' \in Profiles
  BY <1>1 DEF CheckoutUnknown, Redeploy, Types
<1>4. Types'
  BY <1>1, <1>3 DEF Types, CheckoutUnknown, Redeploy
<1>5. Quiet
  BY <1>1 DEF CheckoutUnknown, Redeploy, Quiet, IInv, SentIsDebited
<1> QED
  BY <1>3, <1>4, <1>5, QuietStep

\* Evidence that books nothing: observed, unpaid or a duplicate.
LEMMA KeepingKeeps ==
    ASSUME IInv, NEW t \in Trades, NEW s,
           Observe(t, s) \/ AcceptUnpaid(t, s) \/ AcceptDuplicate(t, s)
    PROVE  IInv'
<1>1. Types
  BY DEF IInv
<1>2. /\ receipt \subseteq receipt'
      /\ UNCHANGED <<profile, order, call, trade, evidence, payment, refund, submitted,
                     returned, ledger, held>>
  BY DEF Observe, AcceptUnpaid, AcceptDuplicate, Keep
<1>3. trade[t].order \in Orders
  <2>1. trade[t] \in Trade /\ trade[t].order # None
    BY <1>1 DEF Types, Observe, AcceptUnpaid, AcceptDuplicate, Bound
  <2> QED
    BY <2>1 DEF Trade
<1>4. \/ UNCHANGED checkout
      \/ /\ checkout' = [checkout EXCEPT ![trade[t].order].state = "closed"]
         /\ order[trade[t].order] = "pending"
  BY DEF Observe, AcceptUnpaid, AcceptDuplicate, Closes
<1>5. /\ checkout' \in [Orders -> Checkout]
      /\ \A x \in Orders : checkout'[x].state = "paid" <=> checkout[x].state = "paid"
  <2>1. checkout[trade[t].order] \in Checkout /\ checkout \in [Orders -> Checkout]
    BY <1>1, <1>3 DEF Types
  <2>2. order[trade[t].order] = "pending" => checkout[trade[t].order].state # "paid"
    BY <1>3 DEF IInv, OrderPaid
  <2> QED
    BY <1>3, <1>4, <2>1, <2>2 DEF Checkout
<1>6. Types'
  BY <1>1, <1>2, <1>5 DEF Types
<1>7. Quiet
  BY <1>1, <1>2, <1>5 DEF Quiet, IInv, SentIsDebited
<1> QED
  BY <1>6, <1>7, QuietStep

\* The provider moving a trade keeps the invariant.
LEMMA TradeMovesKeeps ==
    ASSUME IInv, NEW t \in Trades, TradeMoves(t) PROVE IInv'
<1>1. Types /\ trade[t] \in Trade
  BY DEF IInv, Types
<1>2. PICK s \in TradeStates : /\ trade' = [trade EXCEPT ![t].state = s]
                               /\ evidence' = evidence \cup {<<t, s>>}
  BY DEF TradeMoves, Report, TradeStates
<1>3. /\ trade' \in [Trades -> Trade] /\ evidence' \subseteq Trades \X TradeStates
      /\ \A x \in Trades : trade'[x].order = trade[x].order /\ trade'[x].profile = trade[x].profile
  BY <1>1, <1>2 DEF Types, Trade
<1>4. Types'
  BY <1>1, <1>3 DEF TradeMoves, Types
<1>5. Quiet
  BY <1>1, <1>3 DEF TradeMoves, Quiet, IInv, SentIsDebited
<1> QED
  BY <1>4, <1>5, QuietStep

\* A refund on its way to the provider, and carried out there.
LEMMA SendingKeeps ==
    ASSUME IInv, NEW f \in Refunds, SubmitRefund(f) \/ ProviderRefunds(f) PROVE IInv'
<1>1. Types
  BY DEF IInv
<1>2. Types'
  BY <1>1 DEF SubmitRefund, ProviderRefunds, Types
<1>3. Quiet
  BY <1>1 DEF SubmitRefund, Submittable, ProviderRefunds, Quiet, IInv, SentIsDebited
<1> QED
  BY <1>2, <1>3, QuietStep

-----------------------------------------------------------------------------
(* Steps that move money.                                                  *)

\* What is booked, but for the customer's balance.
Books ==
    /\ \A t \in Booked : TradeBooked(t)
    /\ \A o \in Orders : OrderPaid(o)
    /\ ClearingMatchesEvidence
    /\ SentIsDebited
    /\ \A t \in Trades : Captured(t)

\* A step that touches neither evidence nor clearing accounts keeps the books.
LEMMA BooksStay ==
    ASSUME IInv, UNCHANGED <<order, checkout, trade, receipt, payment, refund, submitted>>,
           ledger'["cash_clearing"] = ledger["cash_clearing"],
           ledger'["refund_pending"] = ledger["refund_pending"]
    PROVE  Books'
<1>1. Booked' = Booked /\ TradeAmount' = TradeAmount /\ RefundAmount' = RefundAmount
  BY DEF Booked, TradeAmount, RefundAmount
<1>2. \A t \in Booked : TradeBooked(t)'
  BY DEF IInv, TradeBooked
<1>3. \A o \in Orders : OrderPaid(o)'
  BY <1>1 DEF IInv, OrderPaid
<1>4. ClearingMatchesEvidence'
  BY <1>1 DEF IInv, ClearingMatchesEvidence
<1>5. SentIsDebited'
  BY DEF IInv, SentIsDebited
<1>6. \A t \in Trades : Captured(t)'
  BY <1>1 DEF IInv, Captured, RefundsOf
<1> QED
  BY <1>1, <1>2, <1>3, <1>4, <1>5, <1>6 DEF Books

\* Inference taking a hold or giving it back keeps the invariant.
LEMMA HoldKeeps == ASSUME IInv, Hold \/ ReleaseHold PROVE IInv'
<1>1. Types
  BY DEF IInv
<1>2. held' \in Nat
  BY <1>1 DEF Hold, ReleaseHold, Types
<1>3. UNCHANGED <<profile, order, checkout, call, trade, evidence, receipt, payment, refund,
                  submitted, returned, ledger>>
  BY DEF Hold, ReleaseHold
<1>4. Types'
  BY <1>1, <1>2, <1>3 DEF Types
<1>5. Books'
  BY <1>3, BooksStay
<1> QED
  BY <1>4, <1>5 DEF IInv, Books

\* Inference charging a hold keeps the invariant.
LEMMA ChargeKeeps == ASSUME IInv, Charge PROVE IInv'
<1>1. Types /\ held > 0 /\ held' = held - 1
  BY DEF IInv, Charge
<1>2. ledger \in [Accounts -> Int] /\ held \in Nat
  BY <1>1 DEF Types
<1>3. /\ ledger' \in [Accounts -> Int] /\ held' \in Nat
      /\ ledger'["cash_clearing"] = ledger["cash_clearing"]
      /\ ledger'["refund_pending"] = ledger["refund_pending"]
  BY <1>1, <1>2 DEF Charge, Post, Accounts
<1>4. UNCHANGED <<profile, order, checkout, call, trade, evidence, receipt, payment, refund,
                  submitted, returned>>
  BY DEF Charge
<1>5. Types'
  BY <1>1, <1>3, <1>4 DEF Types
<1>6. Books'
  BY <1>3, <1>4, BooksStay
<1> QED
  BY <1>5, <1>6 DEF IInv, Books

(***************************************************************************)
(* The payment of an order: its trade was not booked and its order not     *)
(* paid, so that the trade is the only one booked for it.                  *)
(***************************************************************************)
LEMMA AcceptPaidKeeps ==
    ASSUME IInv, NEW t \in Trades, NEW s, AcceptPaid(t, s) PROVE IInv'
<1> DEFINE o == trade[t].order
           n == OrderAmount[o]
<1>1. /\ Types /\ ~payment[t] /\ order[o] = "pending" /\ s \in Paid
      /\ trade[t].profile = "production"
  BY DEF IInv, AcceptPaid, Payable, Bound
<1>2. o \in Orders
  <2>1. trade[t] \in Trade /\ o # None
    BY <1>1 DEF Types, AcceptPaid, Bound
  <2> QED
    BY <2>1 DEF Trade
<1>3. n \in Amount /\ n \in Nat /\ TradeAmount[t] = n
  <2>1. n \in Amount /\ o # None
    BY <1>2, PaymentsAssumption
  <2> QED
    BY <2>1, <1>1, AmountTypes DEF TradeAmount
<1>4. /\ payment' = [payment EXCEPT ![t] = TRUE]
      /\ receipt' = receipt \cup {<<t, s>>}
      /\ order' = [order EXCEPT ![o] = "paid"]
      /\ checkout' = [checkout EXCEPT ![o].state = "paid"]
      /\ UNCHANGED <<profile, call, trade, evidence, refund, submitted, returned, held>>
  BY DEF AcceptPaid, Keep
<1>5. /\ ledger' \in [Accounts -> Int]
      /\ ledger'["customer_balance"] = ledger["customer_balance"] + n
      /\ ledger'["cash_clearing"] = ledger["cash_clearing"] - n
      /\ ledger'["refund_pending"] = ledger["refund_pending"]
  <2>1. ledger' = [ledger EXCEPT !["customer_balance"] = @ + n, !["cash_clearing"] = @ - n]
    BY DEF AcceptPaid, Post
  <2>2. ledger \in [Accounts -> Int]
    BY <1>1 DEF Types
  <2> HIDE DEF n
  <2> QED
    BY <1>3, <2>1, <2>2 DEF Accounts
<1> HIDE DEF n
<1>6. Booked' = Booked \cup {t} /\ t \notin Booked /\ Booked \in SUBSET Trades
  BY <1>1, <1>4 DEF Booked, Types
<1>7. Types'
  <2>1. checkout' \in [Orders -> Checkout]
    <3>1. checkout[o] \in Checkout /\ checkout \in [Orders -> Checkout]
      BY <1>1, <1>2 DEF Types
    <3> QED
      BY <1>4, <3>1 DEF Checkout
  <2>2. order' \in [Orders -> {"none", "pending", "paid"}] /\ payment' \in [Trades -> BOOLEAN]
    BY <1>1, <1>4 DEF Types
  <2> QED
    BY <1>1, <1>4, <1>5, <2>1, <2>2 DEF Types
<1>8. /\ order'[o] = "paid" /\ \A x \in Orders \ {o} : order'[x] = order[x]
      /\ checkout'[o].state = "paid" /\ \A x \in Orders \ {o} : checkout'[x] = checkout[x]
  <2>1. checkout[o] \in Checkout /\ checkout \in [Orders -> Checkout]
        /\ order \in [Orders -> {"none", "pending", "paid"}]
    BY <1>1, <1>2 DEF Types
  <2> QED
    BY <1>2, <1>4, <2>1 DEF Checkout
<1>9. \A u \in Booked : trade[u].order # o
  BY <1>1 DEF IInv, TradeBooked
<1>10. \A u \in Booked' : TradeBooked(u)'
  <2>1. TradeBooked(t)'
    BY <1>1, <1>2, <1>4, <1>8 DEF TradeBooked
  <2>2. \A u \in Booked : TradeBooked(u)'
    BY <1>4, <1>8, <1>9 DEF IInv, TradeBooked
  <2> QED
    BY <1>6, <2>1, <2>2
<1>11. \A x \in Orders : OrderPaid(x)'
  <2>1. ASSUME NEW x \in Orders, x = o PROVE OrderPaid(x)'
    BY <1>4, <1>6, <1>8, <1>9, <2>1 DEF OrderPaid
  <2>2. \A x \in Orders \ {o} : OrderPaid(x)'
    BY <1>4, <1>6, <1>8 DEF IInv, OrderPaid
  <2> QED
    BY <2>1, <2>2
<1>12. RefundAmount' = RefundAmount /\ TradeAmount' = TradeAmount
  BY <1>4 DEF RefundAmount, TradeAmount
<1>13. ClearingMatchesEvidence'
  <2>1. Total(Booked \cup {t}, TradeAmount) = Total(Booked, TradeAmount) + n
    BY <1>3, <1>6, RowsFinite, TotalInsert
  <2>2. Total(Booked', TradeAmount') = Total(Booked, TradeAmount) + n
    BY <1>6, <1>12, <2>1
  <2> DEFINE S == Total({f \in Refunds : refund[f].status = "succeeded"}, RefundAmount)
  <2>3. S \in Nat /\ Total(Booked, TradeAmount) \in Nat
    <3>1. {f \in Refunds : refund[f].status = "succeeded"} \in SUBSET Refunds
      OBVIOUS
    <3> QED
      BY <1>6, <3>1, RowsFinite, TotalType
  <2>4. ledger["cash_clearing"] = S - Total(Booked, TradeAmount) /\ S' = S
    BY <1>4, <1>12 DEF IInv, ClearingMatchesEvidence
  <2>5. ledger'["cash_clearing"] = S' - Total(Booked', TradeAmount')
    <3> HIDE DEF S
    <3> QED
      BY <1>3, <1>5, <2>2, <2>3, <2>4
  <2> QED
    BY <1>4, <1>5, <1>12, <2>5 DEF IInv, ClearingMatchesEvidence
<1>14. SentIsDebited' /\ \A u \in Trades : Captured(u)'
  BY <1>4, <1>12 DEF IInv, SentIsDebited, Captured, RefundsOf
<1> QED
  BY <1>7, <1>10, <1>11, <1>13, <1>14 DEF IInv

(***************************************************************************)
(* The debit of a refund: within what its trade captured and what is not   *)
(* held.                                                                   *)
(***************************************************************************)
LEMMA PrepareRefundKeeps ==
    ASSUME IInv, NEW f \in Refunds, NEW t \in Trades, NEW a \in RefundAmounts,
           PrepareRefund(f, t, a)
    PROVE  IInv'
<1>1. /\ Types /\ payment[t] /\ refund[f].status = "none"
      /\ WithinCapture(t, a)
      /\ refund' = [refund EXCEPT ![f] = [status |-> "pending", trade |-> t, amount |-> a]]
      /\ UNCHANGED <<profile, order, checkout, call, trade, evidence, receipt, payment,
                     submitted, returned, held>>
  BY DEF IInv, PrepareRefund
<1>2. a \in Amount /\ a \in Nat
  BY PaymentsAssumption, MaxAmountAssumption DEF Amount
<1>3. /\ refund' \in [Refunds -> Refund]
      /\ refund'[f].status = "pending" /\ refund'[f].trade = t /\ refund'[f].amount = a
      /\ \A x \in Refunds \ {f} : refund'[x] = refund[x]
  <2>1. [status |-> "pending", trade |-> t, amount |-> a] \in Refund
    BY <1>2 DEF Refund
  <2> QED
    BY <1>1, <2>1 DEF Types
<1>4. /\ ledger' \in [Accounts -> Int]
      /\ ledger'["customer_balance"] = ledger["customer_balance"] - a
      /\ ledger'["refund_pending"] = ledger["refund_pending"] + a
      /\ ledger'["cash_clearing"] = ledger["cash_clearing"]
  <2>1. ledger \in [Accounts -> Int]
    BY <1>1 DEF Types
  <2> QED
    BY <1>2, <2>1 DEF PrepareRefund, Post, Accounts
<1>5. Types'
  BY <1>1, <1>3, <1>4 DEF Types
<1>6. Booked' = Booked /\ TradeAmount' = TradeAmount
  BY <1>1 DEF Booked, TradeAmount
<1>7. ClearingMatchesEvidence'
  <2>1. RefundsIn("succeeded") \ {f} = RefundsIn("succeeded")' \ {f}
        /\ RefundsIn("pending") \ {f} = RefundsIn("pending")' \ {f}
        /\ f \notin RefundsIn("succeeded") /\ f \notin RefundsIn("succeeded")'
        /\ f \notin RefundsIn("pending") /\ f \in RefundsIn("pending")'
    BY <1>1, <1>3 DEF RefundsIn
  <2>2. \A st : RefundsIn(st) \in SUBSET Refunds /\ RefundsIn(st)' \in SUBSET Refunds
    BY DEF RefundsIn
  <2>3. Total(RefundsIn("succeeded")', RefundAmount') =
           Total(RefundsIn("succeeded"), RefundAmount) - 0 + 0
        /\ Total(RefundsIn("succeeded"), RefundAmount) \in Nat
    BY <1>1, <1>3, <1>5, <2>1, <2>2, RefundWrite
  <2>4. Total(RefundsIn("pending")', RefundAmount') =
           Total(RefundsIn("pending"), RefundAmount) - 0 + a
        /\ Total(RefundsIn("pending"), RefundAmount) \in Nat
    BY <1>1, <1>3, <1>5, <2>1, <2>2, RefundWrite
  <2>5. /\ ledger["cash_clearing"] =
              Total(RefundsIn("succeeded"), RefundAmount) - Total(Booked, TradeAmount)
        /\ ledger["refund_pending"] = Total(RefundsIn("pending"), RefundAmount)
    BY DEF IInv, ClearingMatchesEvidence, RefundsIn
  <2>6. /\ ledger'["cash_clearing"] =
              Total(RefundsIn("succeeded")', RefundAmount') - Total(Booked', TradeAmount')
        /\ ledger'["refund_pending"] = Total(RefundsIn("pending")', RefundAmount')
    BY <1>2, <1>4, <1>6, <2>3, <2>4, <2>5
  <2> QED
    BY <2>6 DEF ClearingMatchesEvidence, RefundsIn
<1>8. ASSUME NEW u \in Trades PROVE Captured(u)'
  <2> DEFINE open == {"pending", "succeeded"}
  <2>1. /\ f \notin RefundsOf(u, open) /\ RefundsOf(u, open) \ {f} = RefundsOf(u, open)' \ {f}
        /\ f \in RefundsOf(u, open)' <=> u = t
    BY <1>1, <1>3 DEF RefundsOf
  <2>2. RefundsOf(u, open) \in SUBSET Refunds /\ RefundsOf(u, open)' \in SUBSET Refunds
    BY DEF RefundsOf
  <2> HIDE DEF open
  <2>3. /\ Total(RefundsOf(u, open)', RefundAmount') =
             Total(RefundsOf(u, open), RefundAmount) - 0 + (IF u = t THEN a ELSE 0)
        /\ Total(RefundsOf(u, open), RefundAmount) \in Nat
    BY <1>1, <1>3, <1>5, <2>1, <2>2, RefundWrite
  <2>4. Total(RefundsOf(u, open), RefundAmount) <= TradeAmount[u]
    BY DEF IInv, Captured, open
  <2>5. u = t => Total(RefundsOf(u, open), RefundAmount) + a <= TradeAmount[u]
    <3>1. trade[t].order \in Orders
      BY <1>1 DEF IInv, Booked, TradeBooked
    <3>2. TradeAmount[t] = OrderAmount[trade[t].order]
      BY <3>1, PaymentsAssumption DEF TradeAmount
    <3> QED
      BY <1>1, <3>2 DEF WithinCapture, open
  <2>6. Total(RefundsOf(u, open)', RefundAmount') <= TradeAmount'[u]
    BY <1>2, <1>6, <2>3, <2>4, <2>5
  <2> QED
    BY <2>6 DEF Captured, open
<1>9. SentIsDebited'
  BY <1>1, <1>3 DEF IInv, SentIsDebited, Types
<1>10. (\A u \in Booked : TradeBooked(u))' /\ \A x \in Orders : OrderPaid(x)'
  <2>1. \A u \in Booked : TradeBooked(u)'
    BY <1>1 DEF IInv, TradeBooked
  <2>2. \A x \in Orders : OrderPaid(x)'
    BY <1>1, <1>6 DEF IInv, OrderPaid
  <2> QED
    BY <1>6, <2>1, <2>2
<1> QED
  BY <1>5, <1>7, <1>8, <1>9, <1>10 DEF IInv

(***************************************************************************)
(* The completion of a refund moves its amount between the two clearing    *)
(* accounts, and its row between the two sums.                             *)
(***************************************************************************)
LEMMA CompleteRefundKeeps ==
    ASSUME IInv, NEW f \in Refunds, CompleteRefund(f) PROVE IInv'
<1> DEFINE a == refund[f].amount
<1>1. /\ Types /\ refund[f].status = "pending"
      /\ refund' = [refund EXCEPT ![f].status = "succeeded"]
      /\ UNCHANGED <<profile, order, checkout, call, trade, evidence, receipt, payment,
                     submitted, returned, held>>
  BY DEF IInv, CompleteRefund, Completable
<1>2. refund[f] \in Refund /\ refund \in [Refunds -> Refund] /\ a \in Nat
  BY <1>1, MaxAmountAssumption DEF Types, Refund, Amount
<1>3. /\ refund' \in [Refunds -> Refund]
      /\ refund'[f].status = "succeeded" /\ refund'[f].trade = refund[f].trade
      /\ refund'[f].amount = a
      /\ \A x \in Refunds \ {f} : refund'[x] = refund[x]
  BY <1>1, <1>2 DEF Refund
<1>4. /\ ledger' \in [Accounts -> Int]
      /\ ledger'["customer_balance"] = ledger["customer_balance"]
      /\ ledger'["refund_pending"] = ledger["refund_pending"] - a
      /\ ledger'["cash_clearing"] = ledger["cash_clearing"] + a
  <2>1. ledger \in [Accounts -> Int]
    BY <1>1 DEF Types
  <2>2. ledger' = [ledger EXCEPT !["refund_pending"] = @ - a, !["cash_clearing"] = @ + a]
    BY DEF CompleteRefund
  <2> HIDE DEF a
  <2> QED
    BY <1>2, <2>1, <2>2 DEF Accounts
<1> HIDE DEF a
<1>5. Types'
  BY <1>1, <1>3, <1>4 DEF Types
<1>6. Booked' = Booked /\ TradeAmount' = TradeAmount
  BY <1>1 DEF Booked, TradeAmount
<1>7. ClearingMatchesEvidence'
  <2>1. RefundsIn("succeeded") \ {f} = RefundsIn("succeeded")' \ {f}
        /\ RefundsIn("pending") \ {f} = RefundsIn("pending")' \ {f}
        /\ f \notin RefundsIn("succeeded") /\ f \in RefundsIn("succeeded")'
        /\ f \in RefundsIn("pending") /\ f \notin RefundsIn("pending")'
    BY <1>1, <1>3 DEF RefundsIn
  <2>2. \A st : RefundsIn(st) \in SUBSET Refunds /\ RefundsIn(st)' \in SUBSET Refunds
    BY DEF RefundsIn
  <2>3. Total(RefundsIn("succeeded")', RefundAmount') =
           Total(RefundsIn("succeeded"), RefundAmount) - 0 + a
        /\ Total(RefundsIn("succeeded"), RefundAmount) \in Nat
    BY <1>1, <1>3, <1>5, <2>1, <2>2, RefundWrite
  <2>4. Total(RefundsIn("pending")', RefundAmount') =
           Total(RefundsIn("pending"), RefundAmount) - a + 0
        /\ Total(RefundsIn("pending"), RefundAmount) \in Nat
    BY <1>1, <1>3, <1>5, <2>1, <2>2, RefundWrite DEF a
  <2>5. /\ ledger["cash_clearing"] =
              Total(RefundsIn("succeeded"), RefundAmount) - Total(Booked, TradeAmount)
        /\ ledger["refund_pending"] = Total(RefundsIn("pending"), RefundAmount)
    BY DEF IInv, ClearingMatchesEvidence, RefundsIn
  <2>6. Total(Booked, TradeAmount) \in Nat
    <3>1. Booked \in SUBSET Trades
      BY DEF Booked
    <3> QED
      BY <3>1, RowsFinite, TotalType
  <2>7. /\ ledger'["cash_clearing"] =
              Total(RefundsIn("succeeded")', RefundAmount') - Total(Booked', TradeAmount')
        /\ ledger'["refund_pending"] = Total(RefundsIn("pending")', RefundAmount')
    BY <1>2, <1>4, <1>6, <2>3, <2>4, <2>5, <2>6
  <2> QED
    BY <2>7 DEF ClearingMatchesEvidence, RefundsIn
<1>8. ASSUME NEW u \in Trades PROVE Captured(u)'
  <2> DEFINE open == {"pending", "succeeded"}
  <2>1. RefundsOf(u, open)' = RefundsOf(u, open)
    BY <1>1, <1>3 DEF RefundsOf
  <2>2. \A x \in RefundsOf(u, open) : RefundAmount'[x] = RefundAmount[x]
    BY <1>3 DEF RefundsOf, RefundAmount, a
  <2> HIDE DEF open
  <2>3. Total(RefundsOf(u, open)', RefundAmount') = Total(RefundsOf(u, open), RefundAmount)
    BY <2>1, <2>2, TotalSame
  <2> QED
    BY <1>6, <2>3 DEF IInv, Captured, open
<1>9. SentIsDebited'
  BY <1>1, <1>3 DEF IInv, SentIsDebited, Types
<1>10. (\A u \in Booked : TradeBooked(u))' /\ \A x \in Orders : OrderPaid(x)'
  <2>1. \A u \in Booked : TradeBooked(u)'
    BY <1>1 DEF IInv, TradeBooked
  <2>2. \A x \in Orders : OrderPaid(x)'
    BY <1>1, <1>6 DEF IInv, OrderPaid
  <2> QED
    BY <1>6, <2>1, <2>2
<1> QED
  BY <1>5, <1>7, <1>8, <1>9, <1>10 DEF IInv

-----------------------------------------------------------------------------
(* The theorems.                                                           *)

LEMMA InitInv == Init => IInv
<1> SUFFICES ASSUME Init PROVE IInv
  OBVIOUS
<1>1. Types
  <2>1. NoCheckout \in Checkout /\ NoTrade \in Trade /\ NoRefund \in Refund
    BY MaxAmountAssumption DEF NoCheckout, NoTrade, NoRefund, Checkout, Trade, Refund,
                               Profiles, TradeStates, Amount
  <2> QED
    BY <2>1 DEF Init, Types, Accounts
<1>2. SentIsDebited
  BY DEF Init, SentIsDebited
<1>3. Booked = {} /\ \A o \in Orders : OrderPaid(o)
  BY DEF Init, Booked, OrderPaid, NoCheckout
<1>4. \A f : Total({}, f) = 0
  <2>1. \A f : Units({}, f) = {}
    BY DEF Units
  <2> QED
    BY <2>1, FS_EmptySet DEF Total
<1>5. ClearingMatchesEvidence
  <2>1. /\ {f \in Refunds : refund[f].status = "succeeded"} = {}
        /\ {f \in Refunds : refund[f].status = "pending"} = {}
        /\ ledger["cash_clearing"] = 0 /\ ledger["refund_pending"] = 0
    BY DEF Init, NoRefund
  <2>2. Total({}, RefundAmount) = 0 /\ Total({}, TradeAmount) = 0
    BY <1>4
  <2> QED
    BY <1>3, <2>1, <2>2 DEF ClearingMatchesEvidence
<1>6. \A t \in Trades : Captured(t)
  <2>1. \A t \in Trades : RefundsOf(t, {"pending", "succeeded"}) = {} /\ TradeAmount[t] = 0
    BY DEF Init, RefundsOf, NoRefund, TradeAmount, NoTrade
  <2> QED
    BY <1>4, <2>1 DEF Captured
<1> QED
  BY <1>1, <1>2, <1>3, <1>5, <1>6 DEF IInv

\* Every step keeps the inductive invariant.
LEMMA NextInv == IInv /\ [Next]_vars => IInv'
<1> SUFFICES ASSUME IInv, [Next]_vars PROVE IInv'
  OBVIOUS
<1>1. ASSUME NEW e \in evidence, Accept(e[1], e[2]) PROVE IInv'
  <2>1. e[1] \in Trades
    BY DEF IInv, Types
  <2> QED
    BY <1>1, <2>1, KeepingKeeps, AcceptPaidKeeps DEF Accept
<1>2. CASE UNCHANGED vars
  <2>1. Types'
    BY <1>2 DEF IInv, Types, vars
  <2>2. Quiet
    BY <1>2 DEF Quiet, vars, IInv, SentIsDebited
  <2> QED
    BY <2>1, <2>2, QuietStep
<1>3. ASSUME NEW c \in Clients,
             \/ \E o \in Orders : CheckoutBegin(c, o)
             \/ CheckoutFinish(c) \/ CheckoutUnknown(c)
      PROVE  IInv'
  BY <1>3, CheckoutBeginKeeps, CheckoutFinishKeeps, CallsEndKeeps
<1>4. ASSUME NEW f \in Refunds,
             \/ \E t \in Trades, a \in RefundAmounts : PrepareRefund(f, t, a)
             \/ SubmitRefund(f) \/ CompleteRefund(f) \/ ProviderRefunds(f)
      PROVE  IInv'
  BY <1>4, PrepareRefundKeeps, SendingKeeps, CompleteRefundKeeps
<1> QED
  BY <1>1, <1>2, <1>3, <1>4, CreateOrderKeeps, PrecreateKeeps, TradeMovesKeeps, HoldKeeps,
     ChargeKeeps, CallsEndKeeps DEF Next

\* The inductive invariant holds in every reachable state.
LEMMA Invariant == Spec => []IInv
  BY InitInv, NextInv, PTL DEF Spec

(***************************************************************************)
(* An order is credited by exactly one trade, really paid in production,   *)
(* whatever notifications, queries and redeployments do                    *)
(* (accept_alipay_trade), and its checkout says so although alipay_checkout *)
(* may write it after the payment.                                         *)
(***************************************************************************)
THEOREM CreditsCorrect == Spec => []CreditedOnce
<1>1. ASSUME IInv PROVE CreditedOnce
  <2>1. ASSUME NEW o \in Orders
        PROVE  Cardinality({t \in Booked : trade[t].order = o}) = IF order[o] = "paid" THEN 1 ELSE 0
    <3>1. OrderPaid(o)
      BY <1>1 DEF IInv
    <3>2. CASE order[o] = "paid"
      <4>1. PICK t \in Booked : trade[t].order = o
        BY <3>1, <3>2 DEF OrderPaid
      <4>2. {u \in Booked : trade[u].order = o} = {t}
        BY <3>1, <4>1 DEF OrderPaid
      <4> QED
        BY <3>2, <4>2, FS_Singleton
    <3>3. CASE order[o] # "paid"
      <4>1. {u \in Booked : trade[u].order = o} = {}
        BY <1>1, <3>3 DEF IInv, TradeBooked
      <4> QED
        BY <3>3, <4>1, FS_EmptySet
    <3> QED
      BY <3>2, <3>3
  <2> QED
    BY <1>1, <2>1 DEF CreditedOnce, IInv, TradeBooked, OrderPaid
<1> QED
  BY <1>1, Invariant, PTL

(***************************************************************************)
(* cash_clearing and refund_pending are what the evidence so far says      *)
(* (insert_balanced_entries, complete_alipay_refund).                      *)
(***************************************************************************)
THEOREM ClearingCorrect == Spec => []ClearingMatchesEvidence
<1>1. IInv => ClearingMatchesEvidence
  BY DEF IInv
<1> QED
  BY <1>1, Invariant, PTL

(***************************************************************************)
(* refund_pending grows only by the debit of prepare_alipay_refund, which  *)
(* leaves the account what it holds: every other step leaves the account   *)
(* alone or takes from it.                                                 *)
(***************************************************************************)
LEMMA RefundDebits == IInv /\ [Next]_vars => [RefundTakesOwnMoney]_vars
<1> SUFFICES ASSUME IInv, [Next]_vars PROVE RefundTakesOwnMoney
  OBVIOUS
<1> DEFINE pending == ledger["refund_pending"]
<1>1. /\ ledger \in [Accounts -> Int] /\ held \in Nat /\ refund \in [Refunds -> Refund]
      /\ pending \in Int /\ pending' \in Int
  <2>1. IInv'
    BY NextInv
  <2> QED
    BY <2>1 DEF IInv, Types, Accounts
<1>2. ASSUME NEW f \in Refunds, NEW t \in Trades, NEW a \in RefundAmounts, PrepareRefund(f, t, a)
      PROVE  Available' >= 0
  <2>1. a \in Nat /\ ledger["customer_balance"] \in Int
    BY <1>1, PaymentsAssumption, MaxAmountAssumption DEF Amount, Accounts
  <2>2. ledger'["customer_balance"] = ledger["customer_balance"] - a
    BY <1>1, <1>2, <2>1 DEF PrepareRefund, Post, Accounts
  <2> QED
    BY <1>1, <1>2, <2>1, <2>2 DEF PrepareRefund, Refundable, Available
<1>3. ASSUME NEW f \in Refunds, CompleteRefund(f)
      PROVE  pending' <= pending
  <2>1. refund[f].amount \in Nat
    BY <1>1, MaxAmountAssumption DEF Refund, Amount
  <2> QED
    BY <1>1, <1>3, <2>1 DEF CompleteRefund, Accounts
<1>4. ASSUME NEW t, NEW s, AcceptPaid(t, s)
      PROVE  pending' = pending
  BY <1>1, <1>4 DEF AcceptPaid, Post, Accounts
<1>5. CASE Charge
  BY <1>1, <1>5 DEF Charge, Post, Accounts, RefundTakesOwnMoney
<1>6. ASSUME NEW c \in Clients,
             \/ \E o \in Orders : CheckoutBegin(c, o)
             \/ CheckoutFinish(c) \/ CheckoutUnknown(c)
      PROVE  pending' = pending
  BY <1>6 DEF CheckoutBegin, CheckoutFinish, CheckoutUnknown
<1>7. ASSUME NEW e \in evidence, Accept(e[1], e[2])
      PROVE  pending' = pending
  BY <1>4, <1>7 DEF Accept, Observe, AcceptUnpaid, AcceptDuplicate
<1>8. ASSUME \/ \E o \in Orders : CreateOrder(o) \/ Precreate(o)
             \/ \E f \in Refunds : SubmitRefund(f) \/ ProviderRefunds(f)
             \/ \E t \in Trades : TradeMoves(t)
             \/ Hold \/ ReleaseHold \/ Redeploy
             \/ UNCHANGED vars
      PROVE  pending' = pending
  BY <1>8 DEF CreateOrder, Precreate, SubmitRefund, ProviderRefunds, TradeMoves, Hold,
              ReleaseHold, Redeploy, vars
<1>9. CASE pending' <= pending
  BY <1>1, <1>9 DEF RefundTakesOwnMoney
<1>10. CASE Available' >= 0
  BY <1>10 DEF RefundTakesOwnMoney
<1>11. pending' = pending => pending' <= pending
  BY <1>1
<1> HIDE DEF pending
<1> QED
  BY <1>2, <1>3, <1>5, <1>6, <1>7, <1>8, <1>9, <1>10, <1>11 DEF Next

(***************************************************************************)
(* What the provider paid back is debited and within what its trade        *)
(* captured, and no refund takes what inference holds or credit allowance, *)
(* on a postpaid account too (prepare_alipay_refund).                      *)
(***************************************************************************)
THEOREM RefundsCorrect == Spec => MoneyOutIsCovered
<1>1. ASSUME IInv PROVE PaidBackIsDebited
  <2>1. Types /\ returned \subseteq Refunds
        /\ \A f \in returned : refund[f].status \in {"pending", "succeeded"}
    BY <1>1 DEF IInv, Types, SentIsDebited
  <2>2. ASSUME NEW t \in Trades
        PROVE  Total({f \in returned : refund[f].trade = t}, RefundAmount) <= TradeAmount[t]
    <3> DEFINE S == {f \in returned : refund[f].trade = t}
               T == RefundsOf(t, {"pending", "succeeded"})
    <3>1. S \in SUBSET T /\ T \in SUBSET Refunds /\ S \in SUBSET Refunds
      BY <2>1 DEF RefundsOf
    <3>2. Total(S, RefundAmount) <= Total(T, RefundAmount)
          /\ Total(S, RefundAmount) \in Nat /\ Total(T, RefundAmount) \in Nat
      <4> HIDE DEF S, T
      <4> QED
        BY <3>1, RowsFinite, TotalSubset, TotalType
    <3>3. Total(T, RefundAmount) <= TradeAmount[t] /\ TradeAmount[t] \in Nat
      BY <1>1, <2>1, AmountTypes DEF IInv, Captured
    <3> QED
      BY <3>2, <3>3
  <2> QED
    BY <2>1, <2>2 DEF PaidBackIsDebited
<1>2. Spec => []PaidBackIsDebited
  BY <1>1, Invariant, PTL
<1>3. Spec => [][RefundTakesOwnMoney]_vars
  BY RefundDebits, Invariant, PTL DEF Spec
<1> QED
  BY <1>2, <1>3, PTL DEF MoneyOutIsCovered
=============================================================================
