\* What was judged is not what is published.
SPECIFICATION Spec
CONSTANTS
    e1 = e1
    e2 = e2
    Nil = Nil
    Exec <- BothExecs
    Run <- OneRun
    RunOf <- AllInRunA
    Monthly = {}
    Rule = {"R6"}
    Critical = {}
    Name <- Names
    DbLike <- DbLikeNames
    Quotable <- QuotableNames
    Within <- SameName
    Control = {"ISM-1545", "ISM-1546"}
    Snapshot <- CalmSnapshots
    Hash = {"h1", "h2"}
    HashOf <- PairHash
    Evaluate <- PairEvaluate
    Draft <- PairDrafts
    Scores <- GoodScore
    WeakClaims <- NoClaims
    Decision = {}
    MaxAttempts = 0
INVARIANT SucceededWasVerified
SYMMETRY SwapExecs
CHECK_DEADLOCK FALSE
