SPECIFICATION Spec
CONSTANTS
    al = al
    bo = bo
    Holder = {al, bo}
    Holdings <- UnevenHoldings
    Supply = 3
    Batches <- Pair
    Windows = {2}
    Lockers = {bo}
    Flags = {TRUE}
    Configs <- HalfFee
    MaxFeeRate = 5000
    Scale = 2
    One = 4
    Tiers = {8}
    MaxBoosts = {8}
    Snapshots = {bo}
    Reinvestors = {bo}
    Vwaps = {2}
    Rates = {1}
    Moves <- AlToBo
    MaxDistributions = 2
    MaxTime = 2
PROPERTIES
    FrozenPoolPaysNothing
