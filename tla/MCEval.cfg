SPECIFICATION Spec
CONSTANTS
    None = None
    Job <- Jobs
    PullRequest = {"pr"}
    BranchOf <- Branches
    Rule <- TwoRules
    Principal = {"x", "y"}
    Suite <- Suites
    Expected <- SomeExpected
INVARIANTS
    NoPartialResults
    BaselineIsMains
    PerfectMeansSameFindings
    GateBoundsTheLoss
CHECK_DEADLOCK FALSE
