\* One monthly execution, every error and retry, alone with its run id.
SPECIFICATION FairSpec
CONSTANTS
    e1 = e1
    e2 = e2
    Nil = Nil
    Exec <- OnlyE1
    Run <- OneRun
    RunOf <- AllInRunA
    Monthly <- OneRun
    Rule = {"R1", "R6"}
    Critical = {"R1"}
    Name <- Names
    DbLike <- DbLikeNames
    Quotable <- QuotableNames
    Within <- SameName
    Control = {"ISM-1545", "ISM-1546"}
    Snapshot <- SoloSnapshots
    Hash = {"h1", "h2"}
    HashOf <- SoloHash
    Evaluate <- SoloEvaluate
    Draft <- SoloDrafts
    Scores <- SoloScores
    WeakClaims <- SoloClaims
    Decision = {"false_positive"}
    MaxAttempts = 3
INVARIANTS
    TypeOK
    SucceededWasVerified
    HashCoversFindings
    CompleteWhenPublished
    ReportAttestsRun
PROPERTIES
    RecordIsFinal
    DecisionsSurvive
    EveryRunEnds
    ImplementsAuditRun
CHECK_DEADLOCK FALSE
