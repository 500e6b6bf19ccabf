SPECIFICATION FairSpec
CONSTANTS
    Requests <- OneByte
    MaxChunk = 2
    Boundary = 16
    Faults = {"hook"}
PROPERTIES CallEnds
CHECK_DEADLOCK FALSE
