SPECIFICATION MCSpec
CONSTANTS
    MinInput = 0
    MaxInput = 8
    Iterations = 4
    Curves <- MCCurves
INVARIANTS
    ScanSound
    PeakBracketed
    ArbsSound
    ViewsAgree
    PoolsAdmitted
    DiscoveryCovers
PROPERTIES
    CycleCompletes
    SnapshotsAdvance
CHECK_DEADLOCK FALSE
