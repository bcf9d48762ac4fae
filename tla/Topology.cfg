CONSTANT
    Configs <- AllConfigs
SPECIFICATION FairSpec
INVARIANTS
    CleanResult
    Runnable
PROPERTY
    FailureEndsRun
CHECK_DEADLOCK FALSE
