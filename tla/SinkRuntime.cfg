CONSTANTS
    big = big
    small1 = small1
    small3 = small3
    Envelopes = {big, small1, small3}
    EventsOf <- SizeInEvents
    BytesOf <- SizeInBytes
    Capacity = 2
    MaxEvents = 3
    MaxBytes = 3
    ConcurrentWrites = {1, 2}
    MaxAttempts = 2
    InitialBackoff = 1
    MaxBackoff = 2
SPECIFICATION FairSpec
INVARIANTS
    DeliveredIsStored
    EnvelopesConserved
    Bounded
    CleanExit
    SequentialOrder
PROPERTIES
    EveryBranchAnswered
    ShutdownEnds
CHECK_DEADLOCK FALSE
