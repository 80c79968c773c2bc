SPECIFICATION FairSpec
CONSTANTS
    Sessions = {s1}
    Requests = {}
    Protocol = 2
    Setups <- KedaOnly
    MaxGeneration = 5
PROPERTIES ScaleDownReopens
CHECK_DEADLOCK FALSE
