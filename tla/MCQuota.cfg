SPECIFICATION Spec
CONSTANTS
    MaxAmount = 3
    Requests = {r1, r2}
    Gateways = {g1, g2, g3}
    Distributed = {g1, g2}
    Asks = {2}
    Actuals = {1, 3}
    Limits <- TwoKeys
    ChannelSize = 1
    MaxMinute = 2
    None = None
SYMMETRY QuotaSymmetry
INVARIANTS LimitsHold CountersAgree AdmittedIsCounted
CHECK_DEADLOCK FALSE
