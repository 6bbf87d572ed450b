SPECIFICATION AlgorithmsSpec
CONSTANTS
    Enquiries <- MCEnquiries
    Window = 6
    Grid = 1
    Later = 1
    Tries = 3
    Tall = 3
    Wide = 2
    Square = 5
    Day = 6
    Week = 3
    TopSpeed = 120
    AllWeek = {0, 1, 2}
    July = 5
    ChurnLimit = 30
    Noise = {"av", "g", "station"}
    Openers = {"g"}
    Facilities = {"av"}
    Adjectives <- MCAdjectives
    Threshold = 6000
    Margin = 1000
    Ambiguity = 500
    GeoThreshold = 500
    MaxSpeed = 200
    Cell = 55500
    Churn = 20
    Rural = {}
    Signals <- MCSignals
    Contrasts = {"summer"}
    JoinCell = 55000
    JoinThreshold = 6000
    JoinMargin = 1000
    JoinAmbiguity = 500
    CollapseWithin = 300
    Midnight = 100
INVARIANTS
    HonoursTime VillageLast IndexFindsAll LinksComplete RunsKeepTime ServedOnItsDays
    VerifiedHasGround PromotedIsDrivable ClustersAreChains PagesAreTheJoin
    ImportConverges ExportKeepsRides HopsOfTheirTrips
CHECK_DEADLOCK FALSE
