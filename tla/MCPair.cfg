\* Two weekly executions that share a run id.
SPECIFICATION Spec
CONSTANTS
    e1 = e1
    e2 = e2
    Nil = Nil
    Exec <- BothExecs
    Run <- OneRun
    RunOf <- AllInRunA
    Monthly = {}
    Rule = {"R6"}
    Critical = {}
    Name <- Names
    DbLike <- DbLikeNames
    Quotable <- QuotableNames
    Within <- SameName
    Control = {"ISM-1545", "ISM-1546"}
    Snapshot <- PairSnapshots
    Hash = {"h1", "h2"}
    HashOf <- PairHash
    Evaluate <- PairEvaluate
    Draft <- PairDrafts
    Scores <- GoodScore
    WeakClaims <- NoClaims
    Decision = {}
    MaxAttempts = 0
INVARIANTS
    OwnChecksPassed
    RowBeforeFindings
SYMMETRY SwapExecs
CHECK_DEADLOCK FALSE
