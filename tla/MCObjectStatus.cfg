SPECIFICATION FairSpec
CONSTANTS
    Blank = Blank  Unparsable = Unparsable  NoRef = NoRef  NoObject = NoObject
    DefaultRef = DefaultRef  EnvViola = EnvViola
    named = named  half = half  right = right  wrong = wrong  garbled = garbled
    url = url  near = near  far = far  here = here
    Specs <- MCSpecs
    SecretStates <- MCSecretStates
    Catalogs <- MCCatalogs
    Scenarios <- MCScenarios
    RightKey = right
    PaddingFits = {garbled}
    MaxChanges = 2
    MaxFaults = 1
    MaxCrashes = 1
INVARIANTS
    TypeOK
    NeverForgotten
    RestIsCurrent
    EndpointIsNearest
PROPERTIES
    StatusTellsTruth
    DeletedIsDropped
CHECK_DEADLOCK FALSE
