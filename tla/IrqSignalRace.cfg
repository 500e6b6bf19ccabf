SPECIFICATION Spec
CONSTANTS
    Files = {"f1", "f2"}
    Pid <- FilePid
    Vme = {1}
    Active = {1, 8}
    Ext = {8}
    Mbx = 20
    Lemo = 16
    Vectors = {0}
    Masks <- FileMasks
    AutoMasks = {{}}
    Sigs = {1}
    Faults = {"preempt"}
INVARIANT SignalFollows

CHECK_DEADLOCK FALSE
