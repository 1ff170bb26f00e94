SPECIFICATION TriangleSpec
CONSTANTS
    MinInput = 0
    MaxInput = 8
    Iterations = 4
    Curves <- MCCurves
INVARIANT TrianglesFound
CHECK_DEADLOCK FALSE
