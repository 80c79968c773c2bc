SPECIFICATION Spec
CONSTANTS
    Models = {"m1", "m2"}
    Routed = "m1"
    Pools = {"p1", "p2"}
    Bootstrap <- StartUp
    Registrations <- Registered
    Offers <- Offered
    Specs <- OneCanary
    Keys = {"k1"}
    Operators = {o1, o2}
    Gateways = {g1}
    Cohorts = {"c1", "c2"}
    None = None
    MaxChanges = 5
INVARIANTS HistoryExplains PausedMeansStable PolicyIsServable PriceIsEvidence
PROPERTIES ReleasesArrive
CHECK_DEADLOCK FALSE
