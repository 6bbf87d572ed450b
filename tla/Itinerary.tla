----------------------------- MODULE Itinerary -----------------------------
(***************************************************************************)
(* What the two journey engines of the planner (internal/planner) share:   *)
(* the request and the day's network they search, the labels they leave on *)
(* stops, and the way both turn labels into an answer (reconstruct,        *)
(* buildLegs, and the check of the transfer limit).                        *)
(*                                                                         *)
(* Times are minutes since the midnight of the day the network was built   *)
(* for; a stop, a trip and a route are model values.  A request carries    *)
(* its network, because every search runs on a network of its own that     *)
(* nothing changes meanwhile.  Coordinates, fares and names are left out:  *)
(* what they decide is in the request (the two stops, the connections that *)
(* are barred, the minutes of each walk).                                  *)
(***************************************************************************)
EXTENDS Integers, Sequences, FiniteSets

CONSTANTS
    Stops,      \* the stops of the network
    Trips,      \* the trips of the network
    OnFoot,     \* stands for the trip of a step that is walked
    None,       \* no predecessor
    Requests    \* the requests a search may be asked to answer

(***************************************************************************)
(* A connection is one hop of a trip between two consecutive stops.  The   *)
(* engines skip the trips of a mode the request does not allow (excluded)  *)
(* and the hops that are implausibly fast (tooFast).  walk gives the       *)
(* minutes of the footpaths.                                               *)
(***************************************************************************)
Hops == [trip : Trips, from : Stops, to : Stops, dep : Nat, arr : Nat]

IsRequest(r) ==
    /\ r.conns \subseteq Hops /\ IsFiniteSet(r.conns)
    /\ \A c \in r.conns : c.dep <= c.arr
    /\ r.excluded \subseteq Trips /\ r.tooFast \subseteq r.conns
    /\ DOMAIN r.walk \subseteq Stops \X Stops
    /\ \A p \in DOMAIN r.walk : r.walk[p] \in Nat
    /\ r.provisional \subseteq Stops
    /\ r.from \in Stops /\ r.to \in Stops
    /\ r.depart \in Nat /\ r.limit \in Int

ASSUME RequestsAssumption == \A r \in Requests : IsRequest(r)

\* What leads to a stop: a ride on a hop, or a walk.
Steps == [trip : Trips \cup {OnFoot}, from : Stops, to : Stops,
          dep : Nat, arr : Nat]

ASSUME TokensAssumption == OnFoot \notin Trips /\ None \notin Steps

VARIABLES
    request,    \* what is searched
    phase,      \* what the search is doing
    reached,    \* the stops that have a label: the keys of arr
    arr,        \* the earliest known arrival; 0, Go's zero time, without a label
    pred,       \* the step that gave a stop its label
    stop,       \* reconstruct: how far back the trace has come
    steps       \* reconstruct: the steps from there to the target

labels == <<reached, arr, pred>>
trace == <<stop, steps>>

Usable == {c \in request.conns :
                c.trip \notin request.excluded /\ c \notin request.tooFast}

\* The labels a search starts from: the stop asked for, at the time asked for.
StartArr(r) == [s \in Stops |-> IF s = r.from THEN r.depart ELSE 0]
StartPred == [s \in Stops |-> None]

\* The label an arrival at s at time t would leave is better than what s has.
Improves(s, t) == s \notin reached \/ t < arr[s]

\* The step of a footpath.  Its times are those of the two labels.
Foot(a, b) == [trip |-> OnFoot, from |-> a, to |-> b, dep |-> 0, arr |-> 0]
Walked(e) == e.trip = OnFoot

\* A step starts and ends as buildLegs prints it: a ride by the timetable, a
\* walk by the labels of its two ends, as they are when the search is over.
Starts(e) == IF Walked(e) THEN arr[e.from] ELSE e.dep
Ends(e) == IF Walked(e) THEN arr[e.to] ELSE e.arr

(***************************************************************************)
(* reconstruct follows the predecessors from the target back, and stops at *)
(* the start or at a stop that has none.                                   *)
(***************************************************************************)
AtTheEnd == stop = request.from \/ pred[stop] = None

StepBack ==
    /\ phase = "trace"
    /\ ~AtTheEnd
    /\ steps' = <<pred[stop]>> \o steps
    /\ stop' = pred[stop].from
    /\ UNCHANGED <<request, phase, labels>>

(***************************************************************************)
(* buildLegs starts a leg at a step unless it rides on in the same trip.   *)
(* A negative limit is no limit; a longer itinerary is refused.            *)
(***************************************************************************)
Legs == {i \in DOMAIN steps :
            \/ i = 1
            \/ Walked(steps[i])
            \/ steps[i].trip # steps[i - 1].trip}

TooManyTransfers ==
    request.limit >= 0 /\ Cardinality(Legs) - 1 > request.limit

Answer ==
    /\ phase = "trace"
    /\ AtTheEnd
    /\ phase' = IF TooManyTransfers THEN "refused" ELSE "found"
    /\ UNCHANGED <<request, labels, trace>>

(***************************************************************************)
(* When a search has no label left to improve it traces the target, or     *)
(* reports that it was not reached.                                        *)
(***************************************************************************)
Answered == {"found", "refused", "none"}

TypeOK ==
    /\ IsRequest(request)
    /\ reached \subseteq Stops
    /\ arr \in [Stops -> Nat]
    /\ pred \in [Stops -> Steps \cup {None}]
    /\ stop \in Stops
    /\ steps \in Seq(Steps)

-----------------------------------------------------------------------------
(***************************************************************************)
(* An answer is an itinerary that can be travelled: it leads from the stop *)
(* asked for, not before the time asked for, to the target; every step     *)
(* begins where and not before the one before it ended.  The labels an     *)
(* itinerary is read from are improved, one by one, until the search ends: *)
(* a label that is improved after another was derived from it, and a step  *)
(* taken from a stop without one, are what could go wrong.                 *)
(***************************************************************************)
Follows(i) ==
    /\ steps[i].to = steps[i + 1].from
    /\ Ends(steps[i]) <= Starts(steps[i + 1])

ItineraryConnects ==
    phase = "found" =>
        /\ steps # <<>>
        /\ steps[1].from = request.from
        /\ request.depart <= Starts(steps[1])
        /\ steps[Len(steps)].to = request.to
        /\ \A i \in 1..(Len(steps) - 1) : Follows(i)

(***************************************************************************)
(* Every step of an answer is one the request allows on its day: a ride is *)
(* a hop of that day's timetable, of an allowed mode and a plausible       *)
(* speed; a walk is not shorter than its footpath and touches no           *)
(* provisional stop, where nobody changes.                                 *)
(***************************************************************************)
Takeable(e) ==
    IF Walked(e)
    THEN /\ <<e.from, e.to>> \in DOMAIN request.walk
         /\ {e.from, e.to} \cap request.provisional = {}
         /\ Starts(e) + request.walk[<<e.from, e.to>>] <= Ends(e)
    ELSE e \in Usable

StepsTakeable ==
    phase = "found" => \A i \in DOMAIN steps : Takeable(steps[i])
=============================================================================
