-------------------------- MODULE MCConnectionScan --------------------------
(***************************************************************************)
(* Small networks for the connection scan: four stops, three trips whose   *)
(* paths cross at b and c, footpaths that lead around a trip or in a ring, *)
(* provisional stops, excluded trips and implausible hops.                 *)
(***************************************************************************)
EXTENDS Traveller, Timetable, TLC

CONSTANTS a, b, c, d, t1, t2, t3

MCStops == {a, b, c, d}
MCTrips == {t1, t2, t3}
MCHorizon == 12

\* A trip along a path, every hop and every halt of one length.  Stop times
\* are of the day, so that a late trip runs past midnight.
Runs(path, start, hop, halt) ==
    [i \in DOMAIN path |->
        LET arrival == start + (i - 1) * (hop + halt)
        IN  [stop |-> path[i], arr |-> arrival % Day,
             dep |-> (arrival + halt) % Day]]

Timetables ==
    {(t1 :> Runs(<<a, b, d>>, s1, 2, 1)) @@ (t2 :> Runs(p2, s2, h2, 0))
        @@ (t3 :> Runs(p3, 6, 2, 0)) :
        s1 \in {1, 9}, p2 \in {<<b, c, d>>, <<a, c, b>>},
        s2 \in {2, 5}, h2 \in {1, 2}, p3 \in {<<c, d>>, <<c, b, d>>}}

Footpaths ==
    {<<>>,
     <<b, c>> :> 2 @@ <<c, b>> :> 2,
     <<a, b>> :> 3 @@ <<b, c>> :> 1 @@ <<c, a>> :> 1 @@ <<d, c>> :> 1}

\* What the request or the data leaves out: nothing, a stop to change at, a
\* trip of a mode that is not allowed, a hop that is too fast.
Kept == [provisional |-> {}, excluded |-> {}, fast |-> FALSE]
LeftOut == {Kept, [Kept EXCEPT !.provisional = {b}],
            [Kept EXCEPT !.excluded = {t3}], [Kept EXCEPT !.fast = TRUE],
            [Kept EXCEPT !.fast = TRUE, !.provisional = {b}]}

Request(timetable, walk, out, limit) ==
    [conns |-> Connections(timetable), walk |-> walk,
     provisional |-> out.provisional, excluded |-> out.excluded,
     tooFast |-> IF out.fast THEN {Hop(t1, timetable[t1], Len(timetable[t1]) - 1)}
                ELSE {},
     from |-> a, to |-> d, depart |-> 1, limit |-> limit]

MCRequests ==
    {Request(timetable, walk, out, limit) :
        timetable \in Timetables, walk \in Footpaths, out \in LeftOut, limit \in {-1, 1}}
=============================================================================
