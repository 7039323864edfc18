SPECIFICATION Spec
CONSTANTS
    g1 = g1
    g2 = g2
    e1 = e1
    e2 = e2
    r1 = r1
    t1 = t1
    t2 = t2
    None = None
    Generators = {g1}
    Evaluators = {}
    Reporters = {}
    Tasks = {t1, t2}
    Suite = "livecodebench"
    AllTasks <- MCAllTasks
    PilotTasks <- MCPilotTasks
    Endings = {"generated"}
    Answers = {"pass"}
    MaxStarts = 2
    MaxSignals = 0
    MaxStops = 1
INVARIANTS
    ResumeNotBlocked
CHECK_DEADLOCK FALSE
