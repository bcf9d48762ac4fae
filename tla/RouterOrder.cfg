CONSTANTS
    p = p
    s1 = s1
    s2 = s2
    TP <- OnePartition
    Log <- GappedLog
    BatchSize = 1
    MaxInFlightBatches = 2
    MaxInFlightBytes = 2
    Bytes <- Len
    MaxBatchBytes = 1
    MaxGenerations = 2
    MaxRestarts = 0
    Sinks = {s1, s2}
    Capacity = 1
    MaxConcurrentWrites = 1
    MaxBatches = 2
SPECIFICATION RouterSpec
INVARIANTS
    BatchesInOrder
CHECK_DEADLOCK FALSE
