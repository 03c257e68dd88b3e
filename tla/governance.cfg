SPECIFICATION HostSpec
CONSTANTS
    a = a
    b = b
    c = c
    Account = {a, b, c}
    OwnerList <- ThreeOwners
    Threshold = 2
    Timelock = 1
    Review <- Reviews
    EmergencyLife = 2
    MinQuorumBps = 2000
    Calls = {"unfreeze"}
    EmergencyReviews = {0}
    Councils <- TwoCouncils
    MinBalances = {1}
    Stakes = {1}
    MaxProposals = 2
    MaxTime = 4
    Unfreeze = "unfreeze"
INVARIANTS
    ExecutedWasApproved
PROPERTIES
    TermsAreFixed
    FreezeOutlastsMinority
    RefinesLifecycle
