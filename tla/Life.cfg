\* Two cards want the one place in sis1100_devdata.  A card that is lost ends the run.
SPECIFICATION FairSpec
CHECK_DEADLOCK FALSE
CONSTANTS
    Cards = {c1, c2}
    Busy = {c1}
    NoCard = NoCard
    MaxCards = 1
    Procs = {p1, p2}
    SerialProbes = TRUE
INVARIANTS TypeOK CardIsThere NothingLeft
PROPERTY TeardownEnds
