SPECIFICATION EngineSpec
CONSTANTS
    Pools = {"static", "fresh"}
    Tokens = {"weth", "usdc", "dai"}
    token0 <- mcToken0
    token1 <- mcToken1
    V3 = {"fresh"}
    Static = {}
    Thin = {2}
    Void = {0, 3}
    QueueCap = 2
    InitialVertices = 2
    Workloads <- mcWorkloads
INVARIANT IndexAgrees
CHECK_DEADLOCK FALSE
