SPECIFICATION ServicesSpec
CONSTANTS
    Sides = {"poll", "routing", "gate", "stream", "ledger", "life", "recon"}
    PollBundles = {b1, b2}
    PollDelay = 1
    GiveUpAfter = 2
    PollMaxTime = 5
    Order <- MCOrder
    RoutedProfits = {1, 3}
    PriorAttempts = 1
    FloorNum = 3
    FloorDen = 20
    MaxRounds = 2
    Victims = {v1, v2, v3}
    Blocks = {7, 8}
    GateProfits = {0, 1}
    TipShares = {1, 2}
    MaxSkew = 1
    MinProfit = 1
    MaxTipShare = 1
    MaxVictimFreshness = 1
    MaxInflight = 2
    Expiry = 1
    Word = 16
    GateMaxTime = 2
    MaxApprovals = 3
    StreamProfits = {1, 2}
    Ring = 2
    Buffer = 1
    MaxArbs = 3
    LedgerBundles = {b1}
    LedgerCapacity = 1
    LedgerMaxInflight = 2
    Loops = {nonceSync, gasUpdate, inclusionPoll}
    StreamLoop = arbStream
    Predictions = {p1, p2}
    Window = 1
    ReconCapacity = 1
    MaxHead = 4
INVARIANTS
    SubmissionSound
    SharesSound
    StreamFaithful
    LedgerBalanced
    OutcomesSound
PROPERTIES
    BundlesSettle
    FirstOutcomeStands
    ServicesProgress
CHECK_DEADLOCK FALSE
