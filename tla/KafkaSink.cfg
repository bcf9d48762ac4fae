CONSTANTS
    one = one
    three = three
    empty = empty
    Writes = {one, three, empty}
    Total <- RecordsOf
    QueueLimit = 2
    Errors = {timed_out, purged}
    None = None
SPECIFICATION FairSpec
INVARIANTS
    OkMeansWritten
    FirstErrorReported
    NothingOutstanding
    CountExact
PROPERTY
    WriteReturns
CHECK_DEADLOCK FALSE
