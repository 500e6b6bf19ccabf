SPECIFICATION Spec
CONSTANTS
    t1 = t1
    t2 = t2
    f1 = f1
    f2 = f2
    None = None
    NumBlocks = 2
    TagMod = 1
    Threads = {t1, t2}
    Fds = {f1, f2}
    FdOf <- TwoProcesses
    StopWaitsForIntr = TRUE
    AbortMayFail = FALSE
    DummyAllocMayFail = FALSE
    MarkOutrunsFill = TRUE
    AtomicPending = TRUE
    AckBeforeMark = TRUE
CHECK_DEADLOCK FALSE
INVARIANTS
    BlockedIsAnnounced
    OwnerIsOpen
    SpinNeverLeaked
SYMMETRY
    Swap
