SPECIFICATION Spec
CONSTANTS
  MaxAmount = 6
  None = None
  Reservations = {r1, r2}
  UsageEvents = {e1}
  TopUps = {t1}
  Debits = {}
  Keys = {k1, k2}
  Requests = {q1, q2}
  Reviews = {}
  Actors = {}
  Legacy = {r1, e1, t1}
  Amounts = {4}
  MaxContext = 2
  MaxMonth = 2
  Usages <- OneCount
  Prices <- OnePrice
  Budget <- KeyBudget
SYMMETRY HoldSymmetry
INVARIANTS TypeOK ProjectionsAgree BudgetHolds
PROPERTIES EnforcedStepsAreCovered
