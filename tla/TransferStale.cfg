SPECIFICATION Spec
CONSTANTS
    Requests <- OneByte
    MaxChunk = 2
    Boundary = 16
    Faults = {"down"}
INVARIANT NumIsMoved
CHECK_DEADLOCK FALSE
