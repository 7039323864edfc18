SPECIFICATION FairSpec
CONSTANT MayHang = {"client"}
INVARIANTS
    ServerStopsLast
    NothingLeftRunning
    ClientIsAsked
PROPERTIES
    Ends
    ImplementsSupervisor
CHECK_DEADLOCK FALSE
