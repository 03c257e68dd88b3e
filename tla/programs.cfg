SPECIFICATION ProgramsSpec
CONSTANTS
    Prices = {1, 2, 3}
    MaxOrders = 4
    MaxStarts = 3
    MaxCycles = 2
    Contracts <- ThreeContracts
    Idempotent = TRUE
    MaxScripts = 4
    Estimator = {e1, e2}
    Costs = {10, 11, 20}
    Tolerance = 10
    CacheTtl = 2
    MaxClock = 4
    Submit = {s1, s2}
    MaxOps = 3
    MaxAdds = 3
    Asset <- SomeAssets
    Dashed <- SomeReasons
    Schema <- SomeSchemas
    Type <- TheirTypes
    Sanitize <- Identifiers
    Manual = {"Position"}
    MaxSchemas = 2
    MaxFetches = 5
    MaxAhead = 2
    MaxVersion = 3
    Item = {i1, i2}
    Value = {1, 2}
    MaxPresses = 4
    Filter = {"all", "mint"}
    DateRange = {"any", "month"}
    NoDates = "any"
    Pages <- SomePages
    PagerSize = 5
    Addr = {a, b, c, d}
    Powers = {0, 1, 2}
    MaxI128 = 4
    User = {u1, u2}
    Sender = {u1}
    Policies <- EverythingOrRules
    TicksPerDay = 2
    Instants <- CenturyEnd
    KycRecords <- SomeRecords
    RuleTerms <- SomeRules
    SetUps <- AsSeededOrTwoUpdated
    DefaultLimits <- SomeDefaults
    GrantedLimits <- SomeGrants
    RiskScores = {5}
    Amounts <- EitherSign
    MaxChanges = 2
    MaxReturned = 1
INVARIANTS
    BookIsSound
    StatusIsTrue
    DeployedOnceUnlessCutShort
    ReportsWhatItSent
    GuidedAnswersArrive
    ModuleIsClosed
    RetryRepeatsWhatFailed
    EmptyPageNeedsCause
    TotalsMatch
    DepthIsOne
    CapacityIsExact
    HighestPriorityDecides
PROPERTIES
    AnswersAreCurrent
    BackOnlyByOverlap
CHECK_DEADLOCK FALSE
