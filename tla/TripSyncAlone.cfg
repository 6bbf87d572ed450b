SPECIFICATION Spec
CONSTANTS
    Trips = {1, 2}
    Regions = {"x", "y"}
    Verdicts = {"promoted", "awaiting_times", "needs_review", "duplicate_ambiguous", "dead"}
    ChurnPercent = 50
    Runners = {r1}
    Forgettable = {1}
    Faulty = TRUE
    RouteOf <- MCRouteOf
    RegionsOf <- MCRegionsOf
INVARIANTS CanonIsReport HeldBackIsKnown ExpiredIsStale LossBounded
