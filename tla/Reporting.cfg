CONSTANTS
    SinkCounters <- TheSinkCounters
    Clients <- TheClients
    Every = 2
    Settings <- OneObserver
    Runs = {0, 1, 3}
    MaxEvents = 4
    MaxCount = 1
SPECIFICATION FairSpec
INVARIANTS
    ThroughputExact
    LoggedOnce
PROPERTIES
    ScrapesNeverFall
    EventuallyLogged
CHECK_DEADLOCK FALSE
