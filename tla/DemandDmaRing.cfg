SPECIFICATION Spec
CONSTANTS
    t1 = t1
    t2 = t2
    f1 = f1
    f2 = f2
    None = None
    NumBlocks = 3
    TagMod = 3
    Threads = {t1}
    Fds = {f1}
    FdOf <- OneProcess
    StopWaitsForIntr = TRUE
    AbortMayFail = TRUE
    DummyAllocMayFail = FALSE
    MarkOutrunsFill = FALSE
    AtomicPending = FALSE
    AckBeforeMark = FALSE
CHECK_DEADLOCK FALSE
INVARIANTS
    HookSane
    NoOverwrite
    StoppedIsIdle
    MuxReleased
PROPERTIES
    InOrderDelivery
