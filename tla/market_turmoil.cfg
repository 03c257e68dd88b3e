SPECIFICATION Spec
CONSTANTS
    al = al
    bo = bo
    Trader = {al, bo}
    Market = Market
    FeeRecipient = FeeRecipient
    Deposit <- DeepDeposit
    Sides = {"sell"}
    Prices = {1, 3}
    Amounts = {1}
    MinFills = {0}
    Lifetimes = {1}
    Conditions <- ProfitAtTwo
    Slices = {}
    Configs <- PausedOrOpen
    Tiers = {}
    Breakers <- ThresholdBreaker
    OraclePrices = {1}
    Standings = {"unverified", "cleared"}
    Reviewed = {al}
    Evictable = {1}
    MinOrderSize = 1
    MaxDeviationBps = 1000
    OracleStale = 1
    MaxConditional = 1
    MaxOrders = 3
    MaxTime = 1
INVARIANTS
    EscrowCoversOrders
PROPERTIES
    CooldownStopsTrading
