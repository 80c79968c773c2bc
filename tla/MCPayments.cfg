SPECIFICATION Spec
CONSTANTS
    Orders = {o1, o2}
    OrderAmount <- TwoUnits
    Trades = {t1, t2}
    Refunds = {f1, f2}
    RefundAmounts = {1, 2}
    Clients = {c1, c2}
    MaxUsage = 1
    MaxAmount = 4
    None = None
SYMMETRY AllSymmetry
INVARIANTS CreditedOnce ClearingMatchesEvidence
PROPERTIES MoneyOutIsCovered
