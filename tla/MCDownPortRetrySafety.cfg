SPECIFICATION Spec
CONSTANTS
    h1 = h1  h2 = h2
    Hashes = {h1, h2}
    NoDown = NoDown
    NoRetry = NoRetry
    NoWake = NoWake
    Second = 2
    Fast = 4
    Slow = 7
    Window = 5
    ErrorWait = 3
    MaxFast = 2
    MaxStale = 0
    MaxChanges = 2
    MaxFaults = 1
    MaxCrashes = 1
SYMMETRY Symmetry
INVARIANTS
    TypeOK
    FastRetriesBounded
    NoOversleep
PROPERTIES
    ResendSpacing
