SPECIFICATION Spec
CONSTANTS
    g1 = g1
    g2 = g2
    e1 = e1
    e2 = e2
    r1 = r1
    t1 = t1
    t2 = t2
    None = None
    Generators = {g1, g2}
    Evaluators = {e1}
    Reporters = {}
    Tasks = {t1, t2}
    Suite = "livecodebench"
    AllTasks <- MCAllTasks
    PilotTasks <- MCPilotTasks
    Endings = {"generated"}
    Answers = {"pass"}
    MaxStarts = 3
    MaxSignals = 1
    MaxStops = 1
INVARIANTS
    OneRunPerDirectory
    GradedWhatWasSaved
    FailedAttemptIsJournaled
PROPERTIES
    SavedStays
SYMMETRY Interchangeable
CHECK_DEADLOCK FALSE
