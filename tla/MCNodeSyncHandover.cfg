SPECIFICATION FairSpec
CONSTANTS
    c1 = c1  c2 = c2  v1 = v1  v2 = v2  n1 = n1  n2 = n2  p = p  a = a  b = b
    CRs = {c1}
    VMs = {v1}
    Names <- MCNames
    Providers = {p}
    ProviderOf <- OneProvider
    VmsOf <- Single
    ServerName <- Named
    Ifaces = {a, b}
    NoIface = NoIface
    Selected <- AllPorts
    NoRecord = NoRecord
    NoHash = NoHash
    NoCR = NoCR
    InventoryOn = TRUE
    LateApply = FALSE
    ViolaFaults = FALSE
    Standby = TRUE
    Persistent = TRUE
    MaxChanges = 2
    MaxFaults = 0
    MaxCrashes = 1
PROPERTIES
    AnsweredConverges
