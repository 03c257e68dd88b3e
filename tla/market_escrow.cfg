SPECIFICATION Spec
CONSTANTS
    al = al
    bo = bo
    Trader = {al, bo}
    Market = Market
    FeeRecipient = FeeRecipient
    Deposit <- EqualDeposit
    Sides = {"buy", "sell"}
    Prices = {1, 2}
    Amounts = {1, 2}
    MinFills = {0}
    Lifetimes = {1}
    Conditions <- StopAtOne
    Slices = {2}
    Configs <- RebateOrFee
    Tiers <- HalfTier
    Breakers = {}
    OraclePrices = {}
    Standings = {}
    Reviewed = {}
    Evictable = {1}
    MinOrderSize = 1
    MaxDeviationBps = 1000
    OracleStale = 1
    MaxConditional = 1
    MaxOrders = 2
    MaxTime = 1
PROPERTIES
    EscrowAccountedFor
    MakersTradeAtTheirPrice
