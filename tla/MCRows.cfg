SPECIFICATION Spec
CONSTANTS
    None = None
    SharedName <- Shared
    EnvTags <- EnvTag
    Config <- TwoServers
    Logins <- TwoLogins
    Estate <- Estates
    Synthetic <- Golden
    RolePart <- Parts
    Clock = {0, 1, 2, 160, 161, 400}
    MaxRetries = 3
INVARIANTS
    CompleteExtract
    EncodingHidesNothing
    AdministratorsAreRaised
    SodBreachOnPlainServers
    ScenariosMeetTheirClaims
    CounterfactualsIsolate
CHECK_DEADLOCK FALSE
