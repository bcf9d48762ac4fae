CONSTANTS
    a = a
    b = b
    Chunk = 4
    Topics = {a, b}
    KeySizes = {0, 1, 5}
    PayloadSizes = {0, 1, 3}
    BatchSize = 3
    MaxMessages = 4
SPECIFICATION IntakeSpec
INVARIANTS
    TopicsExact
    AllocationsBounded
    ArenaBounded
CHECK_DEADLOCK FALSE
