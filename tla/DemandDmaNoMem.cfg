SPECIFICATION Spec
CONSTANTS
    t1 = t1
    t2 = t2
    f1 = f1
    f2 = f2
    None = None
    NumBlocks = 2
    TagMod = 1
    Threads = {t1}
    Fds = {f1}
    FdOf <- OneProcess
    StopWaitsForIntr = TRUE
    AbortMayFail = FALSE
    DummyAllocMayFail = TRUE
    MarkOutrunsFill = TRUE
    AtomicPending = TRUE
    AckBeforeMark = TRUE
CHECK_DEADLOCK FALSE
INVARIANTS
    MuxReleased
