SPECIFICATION Spec
CONSTANTS
    Keys <- MCKeys
    InstanceOf <- MCInstanceOf
    Clients = {reconcile, http}
    Nobody = Nobody
    MaxUpserts = 3
    MaxCrashes = 1
SYMMETRY Symmetry
INVARIANTS
    TypeOK
    FileLoads
    AckedIsDurable
    IdleMatchesFile
    ServedSurvives
    CatalogIsComplete
    CatalogCanBeFollowed
PROPERTIES
    FileNeverGoesBack
    ImplementsDurableMap
