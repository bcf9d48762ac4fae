CONSTANT
    Configs <- GoodConfigs
SPECIFICATION Spec
INVARIANT
    InFlightWritesFinish
CHECK_DEADLOCK FALSE
