\* A log at its bound, a call that raised and targets that are sized end the behaviour.
SPECIFICATION MCSpec
CONSTANTS
    Sids = {1, 2}
    NoSid = 0
    InitialCash = 20
    Prices <- MCPrices
    ShareCounts <- MCShareCounts
    CostAmounts <- MCCosts
    SplitRatios <- MCSplitRatios
    MaxEvents = 5
    Names = {1, 2, 3}
    Scores <- MCScores
    Volatilities <- MCVolatilities
    Common = 4
    SizingPrices <- MCSizingPrices
    Configs <- MCConfigs
    Unit = 30
    Value = 100
    None = None
CHECK_DEADLOCK FALSE
INVARIANT AccountingIdentity
PROPERTY SplitKeepsValue
INVARIANT WithinLimits
PROPERTY LimitsEnd
