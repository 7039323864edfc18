\* An answer of two events, lines in parts, one retry of the connection.
SPECIFICATION FairSpec
CONSTANTS
    Deltas = 2
    MaxRetries = 1
    ConnectTimeout <- MCConnectTimeout
    ReadTimeout <- MCReadTimeout
    TotalTimeout = 3
    Grain <- MCGrain
    MaxLines = 6
    MaxParts = 1
    MaxComments = 1
INVARIANTS OnlyWholeAnswers AskedOnce DeadlineKept
PROPERTY CallEnds
CHECK_DEADLOCK FALSE
