SPECIFICATION FairSpec
CONSTANTS
    Workers = {w1, w2}
    MaxEvents = 3
    Limit = 2
    LeaseSeconds = 2
    MaxAttempts = 3
    MaxEpoch = 9
    Poison <- LastIsPoison
INVARIANTS EffectsMatchAck NoLostWakeup
PROPERTIES LeaseIsRespected ImplementsOrderedConsumption EveryEventSettles
CHECK_DEADLOCK FALSE
