SPECIFICATION Spec
CONSTANTS
    Sessions = {s1}
    Requests = {r1}
    Protocol = 2
    Setups <- Pools
    MaxGeneration = 5
INVARIANTS OperationOwnsPool DrainedIsUnused AckIsInstalled
PROPERTIES ShrinksUnused
CHECK_DEADLOCK FALSE
