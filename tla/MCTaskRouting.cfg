SPECIFICATION RoutingSpec
CONSTANTS
    luna = luna
    terra = terra
    sol = sol
    Absent = Absent
    Model = {luna, terra, sol}
    Policies <- MCPolicies
    TaskSpecs <- MCTaskSpecs
    Failure = {"verification_failed", "timeout"}
    Backend = {"codex", "claude", "other"}
INVARIANTS RoutingTypeOK RouteFitsTask
PROPERTY EveryRouteIsAllowed
