CONSTANTS
    Symbols <- AllSymbols
    EventLists <- SmallGroups
    ColumnSets <- SomeColumns
SPECIFICATION Spec
INVARIANTS
    RowsStandAlone
    KeysSurvive
    DroppedForCause
    OkMeansStored
CHECK_DEADLOCK FALSE
