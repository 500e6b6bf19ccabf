\* Two cards are probed at once: both may take one place.
SPECIFICATION Spec
CHECK_DEADLOCK FALSE
CONSTANTS
    Cards = {c1, c2}
    Busy = {c1}
    NoCard = NoCard
    MaxCards = 2
    Procs = {p1}
    SerialProbes = FALSE
INVARIANTS NothingLeft
