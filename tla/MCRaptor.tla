------------------------------ MODULE MCRaptor ------------------------------
(***************************************************************************)
(* Small networks for the round-based engine: two routes, one of them with *)
(* two trips, that cross at b and c.                                       *)
(***************************************************************************)
EXTENDS Raptor, TLC

CONSTANTS a, b, c, d, t1, t2, t3, r1, r2,
    Implausible,    \* whether the data has a hop that is too fast
    Provisional,    \* whether the data has a provisional stop
    Overnight       \* whether the data has a trip that runs past midnight

MCStops == {a, b, c, d}
MCTrips == {t1, t2, t3}
MCRoutes == {r1, r2}

Runs(path, start, hop, halt) ==
    [i \in DOMAIN path |->
        LET arrival == start + (i - 1) * (hop + halt)
        IN  [stop |-> path[i], arr |-> arrival % Day,
             dep |-> (arrival + halt) % Day]]

\* t1 and t2 are trips of one route; t3 is of the other.
Timetables ==
    {(t1 :> Runs(<<a, b, d>>, s1, h1, 1)) @@ (t2 :> Runs(<<a, b, d>>, s2, 1, 0))
        @@ (t3 :> Runs(p3, s3, h3, 0)) :
        s1 \in (IF Overnight THEN {1, 9} ELSE {1}), h1 \in {1, 4}, s2 \in {0, 3},
        p3 \in {<<b, c, d>>, <<a, c, b, d>>, <<c, d, b>>},
        s3 \in {2, 5}, h3 \in {1, 2}}

MCRoute == t1 :> r1 @@ t2 :> r1 @@ t3 :> r2

Footpaths ==
    {<<>>,
     <<b, c>> :> 2 @@ <<c, b>> :> 2,
     <<a, c>> :> 3 @@ <<c, b>> :> 1 @@ <<b, a>> :> 1 @@ <<c, d>> :> 5}

MCRequests ==
    {[timetable |-> timetable, route |-> MCRoute,
      conns |-> Connections(timetable), walk |-> walk,
      provisional |-> IF Provisional THEN {b} ELSE {}, excluded |-> excluded,
      tooFast |-> IF Implausible THEN {Hop(t3, timetable[t3], 1)} ELSE {},
      from |-> a, to |-> d, depart |-> 1, limit |-> limit] :
        timetable \in Timetables, walk \in Footpaths,
        excluded \in {{}, {t1}}, limit \in {-1, 0}}
=============================================================================
