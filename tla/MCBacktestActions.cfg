SPECIFICATION FairSpec
CONSTANTS
    Sids = {1, 2}
    NoSid = 0
    InitialCash = 100
    LastDay = 7
    ImpactWindow = 2
    MinorUnits = 10
    CommissionBps = 5
    CommissionMin = 5
    SpreadBps = 10
    StampBps = 5
    ImpactBps = 50
    Bps = 100
    StampExempt = {2}
    Start = 1
    Sessions <- MCSessions
    RebalanceDays = {1, 4}
    StaleExitDays = 2
    TargetShares = {0, 1, 3}
    Markets <- ActionMarkets
INVARIANT NoPhantomPosition
INVARIANT OnlyKnowableActions
INVARIANT EffectiveDividendsCredited
PROPERTY Terminates
