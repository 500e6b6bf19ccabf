SPECIFICATION FairSpec
CONSTANTS
    Files = {"f1"}
    Pid <- OnePid
    Vme = {1}
    Ext = {8}
    Mbx = 20
    Lemo = 16
    Active = {1, 20}
    Vectors = {0, 1}
    Masks <- OneMasks
    AutoMasks = {{1}}
    Sigs = {1}
    Faults = {"preempt", "noclear"}
PROPERTIES VectorKept Served
CHECK_DEADLOCK FALSE
