----------------------------- MODULE Timetable -----------------------------
(***************************************************************************)
(* How LoadNetwork (internal/store/postgres/store.go) turns the stop times *)
(* of a day's trips into connections.  Stop times are minutes since        *)
(* midnight, a stop time of a later stop that is smaller is of the next    *)
(* day.                                                                    *)
(***************************************************************************)
EXTENDS Naturals, Sequences

CONSTANT Day            \* the minutes of a day
ASSUME DayAssumption == Day \in Nat \ {0}

\* The hop from the i-th stop of a trip to the next one.
Hop(trip, times, i) ==
    LET dep == times[i].dep
        arr == times[i + 1].arr
    IN  [trip |-> trip, from |-> times[i].stop, to |-> times[i + 1].stop,
         dep |-> dep, arr |-> IF arr < dep THEN arr + Day ELSE arr]

Connections(timetable) ==
    UNION {{Hop(trip, timetable[trip], i) : i \in 1..(Len(timetable[trip]) - 1)} :
                trip \in DOMAIN timetable}

\* A stop time moved on by whole days until it is not before a given time.
NotBefore(time, bound) ==
    IF time >= bound THEN time
    ELSE time + Day * ((bound - time + Day - 1) \div Day)
=============================================================================
