SPECIFICATION Spec
CONSTANTS
    Files = {f1}
    Subdevs <- FourSubdevs
    Remotes <- ThreeRemotes
    RamSize = 4
    Limit = 4
    Broken = {1}
    Concurrent = FALSE
INVARIANTS TypeOK SwapSettles RetryIsSafe Restores SameAnswer
