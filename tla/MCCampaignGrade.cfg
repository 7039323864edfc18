SPECIFICATION Spec
CONSTANTS
    g1 = g1
    g2 = g2
    e1 = e1
    e2 = e2
    r1 = r1
    t1 = t1
    t2 = t2
    None = None
    Generators = {g1}
    Evaluators = {e1, e2}
    Reporters = {r1}
    Tasks = {t1, t2}
    Suite = "terminal-bench"
    AllTasks <- MCAllTasks
    PilotTasks <- MCPilotTasks
    Endings = {"generated"}
    Answers = {"pass", "fail"}
    MaxStarts = 4
    MaxSignals = 0
    MaxStops = 1
INVARIANTS
    GradedAfterCoverage
    ReportIsFinal
PROPERTIES
    ImplementsLedger
SYMMETRY Interchangeable
CHECK_DEADLOCK FALSE
