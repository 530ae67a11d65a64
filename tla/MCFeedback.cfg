SPECIFICATION Spec
CONSTANTS
    Finding <- Findings
    SeverityOf <- Severed
    Decision = {"false_positive", "confirmed_risk"}
    BatchSize = 2
    MaxRetry = 1
    Week = 2
    FirstDue = 1
    PageSize = 3
    MaxDelay = 1
    MaxChange = 3
    Horizon = 3
    Nil = Nil
INVARIANTS
    QueueReflectsTable
    BoundedDuplicates
    DigestsLeaveNoGap
PROPERTY StreamIsWorkedOff
CHECK_DEADLOCK FALSE
