SPECIFICATION Spec
CONSTANTS
  MaxAmount = 5
  None = None
  Reservations = {r1}
  UsageEvents = {e1}
  TopUps = {t1}
  Debits = {d1}
  Keys = {k1}
  Requests = {q1}
  Reviews = {v1, v2}
  Actors = {alice, bob}
  Legacy = {}
  Amounts = {4}
  MaxContext = 2
  MaxMonth = 1
  Usages <- TokenCounts
  Prices <- TokenPrices
  Budget <- NoBudget
INVARIANTS ReviewsTakeEffect ChargedOnce OutboxTellsState
SYMMETRY ReviewSymmetry
