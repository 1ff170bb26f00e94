SPECIFICATION MCSpec
CONSTANTS
    ConsecutiveRevertsPause = 2
    RevertWindow = 2
    CompetitiveAlertPct = 90
    DailyLossHalt = 1
    MaxDailyVolume = 3
    MaxSingleTrade = 2
    MaxGas = 1
    MinETHBalance = 1
    MinTip = 1
    MaxTip = 3
    MinProfits <- MCOne
    DayLength = 2
    Volumes <- MCVolumes
    PnLs <- MCPnLs
    MaxTime = 3
    MaxReverts = 3
    VolumeBound = 3
    PnLBound = 3
    Arbs <- MCArbs
    Builders = {b1, b2}
    GasPrices <- MCOne
    Balances <- MCOne
    TipShares <- MCOne
    RoutingMode = "fanout"
    ShadowEnv = FALSE
    BackrunEnv = "live_only"
    MaxArbs = 3
INVARIANT
    RealizedLossHalts
