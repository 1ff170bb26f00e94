SPECIFICATION MCSpec
INVARIANT
    SwapsReachEngine
CHECK_DEADLOCK FALSE
