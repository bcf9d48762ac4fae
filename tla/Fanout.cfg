CONSTANTS
    s1 = s1
    s2 = s2
    both = both
    one = one
    none = none
    Sinks = {s1, s2}
    Calls = {both, one, none}
    Destinations <- DestinationsOf
    Capacity = 1
SPECIFICATION FairSpec
INVARIANTS
    OkMeansDelivered
    AckExact
PROPERTY
    NoCallHangs
CHECK_DEADLOCK FALSE
