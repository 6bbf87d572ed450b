SPECIFICATION ServicesSpec
CONSTANTS
    c1 = c1
    c2 = c2
    Plans = {"p1", "p2"}
    Canon <- MCCanon
    Unverified <- MCUnverified
    Ambiguous <- MCAmbiguous
    Code <- MCCode
    Region <- MCRegion
    Station <- MCStation
    HasCoords = {1, 2, 5, 7}
    ChunkSize = 1
    MaxPoints = 2
    Legacy = {1, 2, 3}
    Resembles <- MCResembles
    Remote = {2}
    Starts = 3
    Buckets = {1, 2}
    Rate <- MCRate
    Burst <- MCBurst
    Unit = 2
    Ticks = 4
    Clients = {c1, c2}
    Queries = {"omsk", "tara"}
    Surroundings = {"around"}
    Seeded = {"tara"}
    TtlVerified = 3
    TtlDisputed = 2
    StationsTtl = 1
    Attempts = 2
    Quota = 3
    Hours = 4
    Readers = {c1, c2}
    Trips = {1, 2}
    Route <- MCRoute
    TripCode <- MCTripCode
    Editions <- MCEditions
    Whens <- MCWhens
    HoursOfDay = 2
    Week = 2
    MaxWrites = 2
    Callers = {c1, c2}
    Emails = {"ann"}
    MaxId = 4
SYMMETRY Symmetric
INVARIANT RunsOnTheDay
CHECK_DEADLOCK FALSE
