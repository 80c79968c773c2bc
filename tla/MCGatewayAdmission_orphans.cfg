SPECIFICATION AdmissionSpec
CONSTANTS
    Requests = {r1}
    Capacity = 1
    AdmissionQueue = 1
    AdmissionWorkers = 1
INVARIANTS OrphansAreListed
CHECK_DEADLOCK FALSE
