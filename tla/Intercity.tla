----------------------------- MODULE Intercity -----------------------------
(***************************************************************************)
(* The network the provider of intercity buses builds for a day from the   *)
(* register's schedules: build of internal/providers/intercity.go, and     *)
(* what model/validate.go finds wrong with it.                             *)
(*                                                                         *)
(* Times are minutes of a Day, the days of the calendar numbers whose      *)
(* weekday is the rest by Week.  A question has the schedules, services,   *)
(* the places of the stops on a line of kilometres, and the day.  A        *)
(* schedule lists stops with a winter and a summer block of times, one for *)
(* each run; a block that is absent is one without times.                  *)
(***************************************************************************)
EXTENDS Enquiry, FiniteSetsExt, Functions

CONSTANTS Day, Week, TopSpeed

NoTime == -1

(* A time is one of the clock's, of any day (ParseTimeMinutes).            *)
ClockTimes(block) ==
    \A list \in {block.arr, block.dep} : \A run \in DOMAIN list :
        list[run] \in {NoTime} \cup 0..(Day - 1)

ASSUME IntercityAssumption ==
    /\ Day \in Nat \ {0} /\ Week \in Nat \ {0} /\ TopSpeed \in Nat \ {0}
    /\ \A q \in Enquiries.intercity : \A i \in DOMAIN q.schedules :
        LET stops == q.schedules[i].stops
        IN /\ stops \in Seq(Range(stops))
           /\ \A n \in DOMAIN stops : ClockTimes(stops[n].winter) /\ ClockTimes(stops[n].summer)

Unlocated == -10000

Distance(a, b) == IF a >= b THEN a - b ELSE b - a

(* A run is of a service on the days of its range; the first exception for *)
(* the day decides, then the weekdays if there are any.                    *)
Exceptions(service) ==
    {i \in DOMAIN service.exceptions : service.exceptions[i].date = question.day}

Active(id) ==
    id \notin DOMAIN question.services \/
    LET s == question.services[id]
    IN /\ question.day \in s.from..s.to
       /\ IF Exceptions(s) # {}
          THEN s.exceptions[Min(Exceptions(s))].added
          ELSE s.days = {} \/ question.day % Week \in s.days

-----------------------------------------------------------------------------
(* The runs of a schedule.                                                 *)

HasTimes(block) ==
    \E t \in {block.arr[i] : i \in DOMAIN block.arr}
             \cup {block.dep[i] : i \in DOMAIN block.dep} : t # NoTime

(* The period: winter where any stop has a time for it, summer otherwise.  *)
Period(schedule) ==
    IF \E i \in DOMAIN schedule.stops : HasTimes(schedule.stops[i].winter)
    THEN [i \in DOMAIN schedule.stops |-> schedule.stops[i].winter]
    ELSE [i \in DOMAIN schedule.stops |-> schedule.stops[i].summer]

RunsCount(blocks) ==
    Max({1} \cup {Len(blocks[i].arr) : i \in DOMAIN blocks}
            \cup {Len(blocks[i].dep) : i \in DOMAIN blocks})

TimeAt(list, run) == IF run \in DOMAIN list THEN list[run] ELSE NoTime

(* Mutant: one midnight is all that is looked for.                         *)
NotBeforeOnce(time, previous) == IF time >= previous THEN time ELSE time + Day

(* The first time of the clock not before another: whole days are added.   *)
NotBefore(time, previous) ==
    time + Day * (IF time >= previous THEN 0
                  ELSE (previous - time + Day - 1) \div Day)

(* One more call: a time that is missing is the other one.  The departure  *)
(* is looked for from the day of the arrival on.                           *)
WithCall(calls, stop, arr, dep) ==
    LET last == IF calls = <<>> THEN -1 ELSE calls[Len(calls)].dep
        clock == IF arr = NoTime THEN dep ELSE arr
        a == NotBefore(clock, last)
        d == NotBefore((IF dep = NoTime THEN arr ELSE dep) + (a - clock), a)
    IN Append(calls, [stop |-> stop, arr |-> a, dep |-> d])

(* The calls of the first n stops in a run; a stop without both times is   *)
(* passed by.                                                              *)
Calls(schedule, run) ==
    LET blocks == Period(schedule)
        arr(i) == TimeAt(blocks[i].arr, run)
        dep(i) == TimeAt(blocks[i].dep, run)
        calls[n \in 0..Len(blocks)] ==
            IF n = 0 THEN <<>>
            ELSE IF arr(n) = NoTime /\ dep(n) = NoTime THEN calls[n - 1]
            ELSE WithCall(calls[n - 1], schedule.stops[n].stop, arr(n), dep(n))
    IN calls[Len(blocks)]

(* A run of one call is none.  The name of a trip is that of the route,    *)
(* the direction and the run.                                              *)
RunsOf(schedule) ==
    {r \in {[trip |-> <<schedule.route, schedule.direction, run>>,
             calls |-> Calls(schedule, run)] :
                run \in 1..RunsCount(Period(schedule))} : Len(r.calls) >= 2}

ActiveSchedules ==
    {question.schedules[i] : i \in {j \in DOMAIN question.schedules :
                                        Active(question.schedules[j].service)}}

Runs == UNION {RunsOf(s) : s \in ActiveSchedules}

HopsOfRun(r) ==
    {[trip |-> r.trip, from |-> r.calls[i].stop, to |-> r.calls[i + 1].stop,
      dep |-> r.calls[i].dep, arr |-> r.calls[i + 1].arr] :
        i \in 1..(Len(r.calls) - 1)}

(* Too fast between stops that are known and not near.                     *)
Implausible(h) ==
    LET a == question.places[h.from]
        b == question.places[h.to]
    IN /\ a # Unlocated /\ b # Unlocated
       /\ h.arr > h.dep /\ Distance(a, b) >= 5
       /\ Distance(a, b) * 60 > TopSpeed * (h.arr - h.dep)

(* Of two trips of one name the later schedule's is kept, or any of them   *)
(* where there are so many that they are built side by side; the hops of   *)
(* all are.                                                                *)
Trips ==
    {t \in SUBSET Runs :
        \A r \in Runs : Cardinality({k \in t : k.trip = r.trip}) = 1}

(* Stops at one place are linked, both ways; those nowhere are not.        *)
Links ==
    {l \in (DOMAIN question.places) \X (DOMAIN question.places) :
        /\ l[1] # l[2] /\ question.places[l[1]] # Unlocated
        /\ question.places[l[1]] = question.places[l[2]]}

(* What is wrong with a stop, a trip or a hop (ValidateNetwork): the stops *)
(* without a place are those a planner may leave out.                      *)
Issues(trips, hops) ==
    [unlocated |-> {s \in DOMAIN question.places : question.places[s] = Unlocated},
     fast |-> {h \in hops :
                /\ h.arr > h.dep
                /\ Distance(question.places[h.from], question.places[h.to]) <= 800
                /\ Distance(question.places[h.from], question.places[h.to]) > 10
                /\ Distance(question.places[h.from], question.places[h.to]) * 120
                    > TopSpeed * 3 * (h.arr - h.dep)},
     far |-> {h \in hops :
                Distance(question.places[h.from], question.places[h.to]) > 800}]

BuildNetwork ==
    /\ Asked("intercity")
    /\ \E trips \in Trips :
        LET hops == {h \in UNION {HopsOfRun(r) : r \in Runs} : ~Implausible(h)}
        IN Reply([trips |-> trips, hops |-> hops, links |-> Links,
                  issues |-> Issues(trips, hops)])

-----------------------------------------------------------------------------

(***************************************************************************)
(* However many midnights a run goes through, each is counted once: no     *)
(* time is before the one that comes before it, and none a day or more     *)
(* after.  What is ridden is what is shown: a hop is of a trip of its name *)
(* and, where no other run has that name, joins two calls that follow one  *)
(* another in it; and the trip has every hop that is not too fast          *)
(* (addRun; the planner rides the hops and shows the trips).               *)
(***************************************************************************)
OneOfEachName == \A r, s \in Runs : r.trip = s.trip => r = s

RunsKeepTime ==
    Replied("intercity") =>
        /\ \A t \in Told.trips : \A i \in DOMAIN t.calls :
            /\ t.calls[i].dep - t.calls[i].arr \in 0..(Day - 1)
            /\ i > 1 => t.calls[i].arr - t.calls[i - 1].dep \in 0..(Day - 1)
        /\ \A h \in Told.hops :
            /\ h.arr - h.dep \in 0..(Day - 1)
            /\ \E t \in Told.trips : t.trip = h.trip /\ (OneOfEachName => h \in HopsOfRun(t))
        /\ \A t \in Told.trips : \A h \in HopsOfRun(t) : h \in Told.hops \/ Implausible(h)
=============================================================================
