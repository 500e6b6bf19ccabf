SPECIFICATION FairSpec
CONSTANTS
    Requests <- BytesAndWords
    MaxChunk = 2
    Boundary = 16
    Faults = {"kill", "down", "stuck"}
INVARIANTS ReportedIsMoved ShortHasReason IdleAfterSuccess NeverCrosses
PROPERTIES CallEnds
CHECK_DEADLOCK FALSE
