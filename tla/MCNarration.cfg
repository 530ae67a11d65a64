SPECIFICATION NarrationSpec
CONSTANTS
    Rule = {"R1", "R6"}
    Critical = {"R1"}
    Name <- Names
    DbLike <- DbLikeNames
    Quotable <- Names
    Within <- SameName
    Control = {"ISM-1546"}
    Key <- SmallKeys
    ExtraRuns = 2
    None = None
    Raised <- SmallRaised
    Draft <- SmallDraft
INVARIANTS
    AcceptedNarrativeIsSound
    AcceptedCriticalRunsAgree
    BlipsDoNotQuarantine
    WellNamedContextIsGrounded
PROPERTY NarrationEnds
CHECK_DEADLOCK FALSE
