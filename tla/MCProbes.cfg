SPECIFICATION Spec
CONSTANTS
    None = None
    Scores <- AllScores
    PassingScores <- Accepted
    Months <- ThreeMonths
    Baseline <- Placeholders
    Missing = {"2025-12"}
    MaxPolls = 3
    LambdaPolls = 4
    Invocations = 2
    Cases <- SomeCases
    Expects <- Outcomes
    MaxTries = 2
    Ends = {"SUCCEEDED", "FAILED"}
INVARIANTS
    OneAtATime
    PromptRunsAreAllReported
    ReturnedCanaryIsComplete
    UnhealthyRunsDrift
    VerdictsAreEarned
PROPERTY ProbesEnd
CHECK_DEADLOCK FALSE
