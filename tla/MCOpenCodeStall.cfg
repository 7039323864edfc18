\* OpenCode may stop in the middle of a line.
SPECIFICATION FairSpec
CONSTANTS
    Events <- MCStep
    MaxRequests = 2
    MaxTools = 2
    MaxTokens = 3
    MaxLines = 2
    MayStall = TRUE
    MaxWritten = 2
    MaxSignals = 0
PROPERTY Bounded
CHECK_DEADLOCK FALSE
