\* Every limit within reach of three lines, lines it does not accept, one interrupt.
SPECIFICATION FairSpec
CONSTANTS
    Events <- MCEvents
    MaxRequests = 2
    MaxTools = 2
    MaxTokens = 3
    MaxLines = 2
    MayStall = FALSE
    MaxWritten = 3
    MaxSignals = 1
INVARIANTS PatchIsFinal LimitsHold NothingRuns TrajectoryIsGenuine
PROPERTY Bounded
CHECK_DEADLOCK FALSE
