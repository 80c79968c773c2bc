SPECIFICATION Spec
CONSTANTS
    Names = {"n1", "n2"}
    Agents = {a1, a2}
    Shapes <- TwoObjects
    MaxVersion = 2
    MaxFaults = 2
INVARIANTS AckedIsApplied
PROPERTIES WritesAreFenced DesiredIsReached
CHECK_DEADLOCK FALSE
