SPECIFICATION FeedSpec
CONSTANTS
    Pollers = {p1, p2}
    Limits = {1, 2}
    MaxEvents = 3
SYMMETRY PollerSymmetry
INVARIANTS WatermarksOrdered
PROPERTIES FeedImplementsOrderedConsumption
