CONSTANTS
    p = p
    TP <- OnePartition
    Log <- GappedLog
    BatchSize = 2
    MaxInFlightBatches = 2
    MaxInFlightBytes = 3
    Bytes <- SumBytes
    MaxBatchBytes = 4
    MaxGenerations = 2
    MaxRestarts = 1
SPECIFICATION FairSpec
INVARIANTS
    CommitSafe
    NoBatchLost
    ByteAccounting
    ResidentBounded
    EventsAccounted
    SourceInv
PROPERTIES
    Implements
    EventuallyAcked
    EventuallyCommitted
CHECK_DEADLOCK FALSE
