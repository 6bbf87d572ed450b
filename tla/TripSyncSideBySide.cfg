SPECIFICATION Spec
CONSTANTS
    Trips = {1, 2}
    Regions = {"x"}
    Verdicts = {"promoted", "awaiting_times"}
    ChurnPercent = 100
    Runners = {r1, r2}
    Forgettable = {1}
    Faulty = FALSE
    RouteOf <- MCRouteOf
    RegionsOf <- MCRegionsOneX
PROPERTIES OnlyFromSource
