SPECIFICATION Spec
CONSTANTS
    Requests <- Crossing
    MaxChunk = 2
    Boundary = 8
    Faults = {}
INVARIANT NeverCrosses
CHECK_DEADLOCK FALSE
