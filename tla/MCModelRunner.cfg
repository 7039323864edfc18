SPECIFICATION FairSpec
INVARIANTS
    ReadyIsOwn
    NothingLeft
    ServerStopsLast
    ZeroMeansDone
PROPERTIES
    Ends
    ImplementsSupervisor
CHECK_DEADLOCK FALSE
