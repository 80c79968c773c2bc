SPECIFICATION OperatorSpec
CONSTANTS
    Specs <- Scalings
    Edits <- Switches
    MaxGeneration = 2
    MaxUpsets = 2
INVARIANTS StatusIsBacked OneScalingWriter
PROPERTIES NothingForeignTouched Converges
CHECK_DEADLOCK FALSE
