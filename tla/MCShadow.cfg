SPECIFICATION Spec
CONSTANTS
    None = None
    Published <- TwoRuns
    Scores = {0, 92, 98}
    Stored = {{"narrative"}}
    Histories <- SmallHistories
    Today = 40
    Threshold = 10
    MinSamples = 5
    BatchSize = 2
    MaxAttempts = 2
    MaxPuts = 3
INVARIANT EveryRunIsJudgedAgain
CHECK_DEADLOCK FALSE
