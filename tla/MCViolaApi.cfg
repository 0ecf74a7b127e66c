SPECIFICATION Spec
CONSTANTS
    r1 = r1  r2 = r2
    Requests = {r1, r2}
    Bodies <- MCBodies
    Providers = {"p1", "p2"}
    NoProvider = NoProvider
    NodeNames = {"n1", "n2", "N2"}
    Blank = Blank
    Ifaces = {"a", "b"}
    Sanitized <- MCSanitized
    Files = {"none", "strict", "default", "broken"}
    RoutingOf <- MCRoutingOf
    Unset = "unset"
    Namespace = "ns"
    NoTarget = NoTarget
    NoRequest = NoRequest
    NoObject = NoObject
    MaxFaults = 2
    MaxCrashes = 1
SYMMETRY Symmetry
INVARIANTS
    RefusedAsAWhole
    KeepsToItsRoute
PROPERTIES
    AppliedWhenAnswered
    ImplementsAppliedConfigs
CHECK_DEADLOCK FALSE
