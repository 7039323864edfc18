SPECIFICATION FairSpec
CONSTANTS
    s1 = s1
    s2 = s2
    s3 = s3
    r1 = r1
    r2 = r2
    Sessions = {s1}
    Requests = {r1, r2}
    Home <- MCHome
    Slots = 1
    Model = "nemotron-3-super"
    Bodies <- MCBodies
    None = None
    Profile = 3
    Args <- MCArgs
    Adverts <- MCUsable
    MinContext = 2
    MaxRestarts = 0
    MaxSignals = 3
INVARIANTS
    SlotsAddUp
    AdapterOutlivesCodex
    AnsweredOnce
    SelectedLevelArrives
PROPERTIES
    ImplementsGateway
    SessionEnds
CHECK_DEADLOCK FALSE
