SPECIFICATION MCSpec
CONSTANTS
    MinTip = 80
    MaxTip = 99
    WindowSize = 3
    MaxResults = 8
    ChainStart = 1
    MaxIssued = 3
    MaxChain = 4
    W = W
    T = T
    Tokens = {W, T}
    Requests <- MCRequests
    Premiums = {1}
    Floors = {0, 2}
    Switched = {2}
    MaxBalance = 4
    Zero = Zero
    Accounts = {alice, bob}
    Roles = {"ADMIN"}
    Registry = {5}
    Routers = {vault1, vault2}
    Deployed = vault1
    Day = 1
    MaxTime = 5
INVARIANT
    EngineStepsTrade
CHECK_DEADLOCK FALSE
