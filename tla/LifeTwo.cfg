\* Two cards, each with its place, one of them quiet.
SPECIFICATION Spec
CHECK_DEADLOCK FALSE
CONSTANTS
    Cards = {c1, c2}
    Busy = {c1}
    NoCard = NoCard
    MaxCards = 2
    Procs = {p1}
    SerialProbes = TRUE
INVARIANTS TypeOK CardIsThere NothingLeft
