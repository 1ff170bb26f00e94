SPECIFICATION FairEngineSpec
CONSTANTS
    Pools = {"static", "fresh"}
    Tokens = {"weth", "usdc", "dai"}
    token0 <- mcToken0
    token1 <- mcToken1
    V3 = {"fresh"}
    Static = {"static"}
    Thin = {2}
    Void = {0, 3}
    QueueCap = 2
    InitialVertices = 2
    Workloads <- mcWorkloads
INVARIANTS ScannedOrDirty RegistrationSafe
PROPERTY PricesCatchUp
CHECK_DEADLOCK FALSE
