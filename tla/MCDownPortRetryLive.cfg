SPECIFICATION FairSpec
CONSTANTS
    h1 = h1  h2 = h2
    Hashes = {h1}
    NoDown = NoDown
    NoRetry = NoRetry
    NoWake = NoWake
    Second = 2
    Fast = 3
    Slow = 5
    Window = 4
    ErrorWait = 2
    MaxFast = 2
    MaxStale = 0
    MaxChanges = 2
    MaxFaults = 1
    MaxCrashes = 0
PROPERTIES
    KeepsResending
    StatusSettles
