SPECIFICATION AdmissionFairSpec
CONSTANTS
    Requests = {r1, r2}
    Capacity = 2
    AdmissionQueue = 1
    AdmissionWorkers = 1
INVARIANTS MoneyFollowsInference WorkHasSlot DeliveredIsRecorded
PROPERTIES AdmissionEnds
CHECK_DEADLOCK FALSE
