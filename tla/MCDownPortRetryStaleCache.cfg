SPECIFICATION Spec
CONSTANTS
    h1 = h1  h2 = h2
    Hashes = {h1}
    NoDown = NoDown
    NoRetry = NoRetry
    NoWake = NoWake
    Second = 2
    Fast = 4
    Slow = 7
    Window = 5
    ErrorWait = 3
    MaxFast = 2
    MaxStale = 1
    MaxChanges = 0
    MaxFaults = 0
    MaxCrashes = 0
INVARIANTS
    FastRetriesAsDocumented
