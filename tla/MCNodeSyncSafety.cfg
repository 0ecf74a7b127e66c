SPECIFICATION Spec
CONSTANTS
    c1 = c1  c2 = c2  v1 = v1  v2 = v2  n1 = n1  n2 = n2  p = p  a = a  b = b
    CRs = {c1, c2}
    VMs = {v1, v2}
    Names <- MCNames
    Providers = {p}
    ProviderOf <- OneProvider
    VmsOf <- Overlapping
    ServerName <- Named
    Ifaces = {a, b}
    NoIface = NoIface
    Selected <- OtherSubnets
    NoRecord = NoRecord
    NoHash = NoHash
    NoCR = NoCR
    InventoryOn = TRUE
    LateApply = TRUE
    ViolaFaults = TRUE
    Standby = TRUE
    Persistent = TRUE
    MaxChanges = 1
    MaxFaults = 1
    MaxCrashes = 1
SYMMETRY Symmetry
INVARIANTS
    TypeOK
    RecordedWasAcked
    SkipIsSound
    CacheFollowsInventory
    RecordsAreCoherent
    SentAsNeeded
    ReadyMeansApplied
