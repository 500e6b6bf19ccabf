SPECIFICATION Spec
CONSTANTS
    vme = vme
    f1 = f1
    Handler = Handler
    Alien = Alien
    Invalid = Invalid
    Fds = {f1}
    Types = {vme}
    Races = {"clear"}
CHECK_DEADLOCK FALSE
INVARIANTS
    DownIsTold
