SPECIFICATION FairSpec
CONSTANTS
    Kinds <- AllKinds
    MaxWords = 5
    Fifo = 12
    MaxOld = 2
    Faults <- AllFaults
INVARIANTS FifoBounded NoErrorMeansDone ReadPrefix
PROPERTIES WriteSettles CallEnds
