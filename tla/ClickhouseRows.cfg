CONSTANTS
    Symbols <- AllSymbols
    EventLists <- SmallGroups
    ColumnSets <- SomeColumns
SPECIFICATION Spec
INVARIANT
    EveryRowIsAnObject
CHECK_DEADLOCK FALSE
