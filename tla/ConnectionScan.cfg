SPECIFICATION TravelSpec
CONSTANTS
    a = a
    b = b
    c = c
    d = d
    t1 = t1
    t2 = t2
    t3 = t3
    OnFoot = OnFoot
    None = None
    Day = 12
    Stops <- MCStops
    Trips <- MCTrips
    Horizon <- MCHorizon
    Requests <- MCRequests
INVARIANTS
    ItineraryConnects
    StepsTakeable
    EarliestArrival
PROPERTIES
    AnswerComes
CHECK_DEADLOCK FALSE
