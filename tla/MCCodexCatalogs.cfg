SPECIFICATION FairSpec
CONSTANTS
    s1 = s1
    s2 = s2
    s3 = s3
    r1 = r1
    r2 = r2
    Sessions = {s1, s2, s3}
    Requests = {}
    Home <- MCHome
    Slots = 1
    Model = "nemotron-3-super"
    Bodies <- MCBodies
    None = None
    Profile = 3
    Args <- MCOtherArgs
    Adverts <- MCAdverts
    MinContext = 2
    MaxRestarts = 1
    MaxSignals = 2
INVARIANTS
    CatalogsIntact
CHECK_DEADLOCK FALSE
