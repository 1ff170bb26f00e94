SPECIFICATION MCSpec
INVARIANTS
    FeedsExact
    SwapsDecoded
    BackrunsSound
    BootSound
PROPERTIES
    FeedsProgress
CHECK_DEADLOCK FALSE
