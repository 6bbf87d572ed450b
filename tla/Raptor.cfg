SPECIFICATION RaptorSpec
CONSTANTS
    a = a
    b = b
    c = c
    d = d
    t1 = t1
    t2 = t2
    t3 = t3
    r1 = r1
    r2 = r2
    OnFoot = OnFoot
    None = None
    Day = 12
    NoLimit = 100
    Implausible = FALSE
    Provisional = TRUE
    Overnight = TRUE
    Stops <- MCStops
    Trips <- MCTrips
    Routes <- MCRoutes
    Requests <- MCRequests
INVARIANTS
    ItineraryConnects
    StepsOfTheTimetable
PROPERTIES
    AnswerComes
CHECK_DEADLOCK FALSE
