------------------------------- MODULE Raptor -------------------------------
(***************************************************************************)
(* The round-based engine, raptor of internal/planner/raptor.go: in every  *)
(* round each route is ridden once, by the trip that can be boarded first  *)
(* from a stop that the round before improved.  When the target has no     *)
(* predecessor after the last round it falls back to the connection scan.  *)
(* A request names its timetable (the stop times of each trip) and the     *)
(* route of each trip beside what the connection scan needs.               *)
(***************************************************************************)
EXTENDS ConnectionScan, Timetable

CONSTANTS
    Routes,
    NoLimit     \* the limit that a negative one stands for: 100

StopTimes == [stop : Stops, arr : Nat, dep : Nat]

\* The connections are those of the timetable.
ASSUME RaptorAssumption ==
    \A r \in Requests :
        /\ \A t \in DOMAIN r.timetable : r.timetable[t] \in Seq(StopTimes)
        /\ r.conns = Connections(r.timetable)

VARIABLES
    round,      \* the number of the round
    marked,     \* the stops the round before improved
    improved,   \* the stops this round improved: newMarked
    waiting,    \* the routes this round has not ridden yet
    aboard      \* the trip that is being ridden, and from which of its stops

rounds == <<round, marked, improved, waiting, aboard>>

Limit == IF request.limit < 0 THEN NoLimit ELSE request.limit

(***************************************************************************)
(* The footpaths of one stop, tried once: relax puts what it improves on   *)
(* the caller's queue and never comes back to it.  Provisional stops are   *)
(* not looked at.                                                          *)
(***************************************************************************)
FootTo(L, s) ==
    {t \in Stops :
        /\ <<s, t>> \in DOMAIN request.walk
        /\ \/ t \notin L.reached
           \/ L.arr[s] + request.walk[<<s, t>>] < L.arr[t]}

OneWalk(L, s) ==
    [reached |-> L.reached \cup FootTo(L, s),
     arr |-> [t \in Stops |-> IF t \in FootTo(L, s)
                              THEN L.arr[s] + request.walk[<<s, t>>]
                              ELSE L.arr[t]],
     pred |-> [t \in Stops |-> IF t \in FootTo(L, s) THEN Foot(s, t)
                               ELSE L.pred[t]]]

Becomes(L) == reached' = L.reached /\ arr' = L.arr /\ pred' = L.pred

\* The first walks improve labels without marking the stops they lead to.
RaptorInit ==
    LET first == OneWalk([reached |-> {request.from}, arr |-> StartArr(request),
                          pred |-> StartPred], request.from)
    IN  /\ request \in Requests
        /\ phase = "rounds"
        /\ reached = first.reached /\ arr = first.arr /\ pred = first.pred
        /\ stop = request.to /\ steps = <<>>
        /\ pending = {} /\ left = {}
        /\ round = 0 /\ marked = {request.from} /\ improved = {}
        /\ waiting = Routes /\ aboard = None

(***************************************************************************)
(* A trip can be boarded at the first of its stops that is marked, on the  *)
(* first day it leaves there not before the label.  The route is ridden by *)
(* the trip that leaves first, by any of those that leave first.           *)
(***************************************************************************)
Ridden(r) == {t \in DOMAIN request.timetable :
                request.route[t] = r /\ t \notin request.excluded}

FirstMarked(times) ==
    {i \in DOMAIN times :
        /\ times[i].stop \in marked
        /\ \A j \in 1..(i - 1) : times[j].stop \notin marked}

Boardings(r) ==
    UNION {{t} \X FirstMarked(request.timetable[t]) : t \in Ridden(r)}

BoardTime(b) ==
    LET st == request.timetable[b[1]][b[2]]
    IN  NotBefore(NotBefore(st.dep, request.depart), arr[st.stop])

Boards(b) == IF b[2] = Len(request.timetable[b[1]]) THEN None ELSE b

\* Mutant: the round comes back to a route it has ridden.
WaitingStill(r) == waiting

WaitingAfter(r) == waiting \ {r}

PickTrip ==
    /\ phase = "rounds" /\ aboard = None
    /\ \E r \in waiting :
        \/ /\ Boardings(r) = {}
           /\ waiting' = WaitingAfter(r)
           /\ UNCHANGED aboard
        \/ \E b \in Boardings(r) :
            /\ \A other \in Boardings(r) : BoardTime(b) <= BoardTime(other)
            /\ waiting' = WaitingAfter(r)
            /\ aboard' = Boards(b)
    /\ UNCHANGED <<request, phase, labels, trace, scan, round, marked, improved>>

(***************************************************************************)
(* From the stop it was boarded at to its last the trip is ridden hop by   *)
(* hop, each on the first day it leaves not before the label of its stop.  *)
(* A stop without a label counts as the zero time: nothing holds the hop   *)
(* back.  A hop that does not improve a label or is implausibly fast is    *)
(* left out, and the ride goes on from the next stop all the same.         *)
(***************************************************************************)
HopHere == Hop(aboard[1], request.timetable[aboard[1]], aboard[2])

\* Mutant: rides a hop that left before the stop was reached.
DepartsAsPrinted == HopHere.dep

Departs == NotBefore(HopHere.dep, arr[HopHere.from])

\* Mutant: moves on the departure of a hop and not its arrival.
NextHopTorn == [HopHere EXCEPT !.dep = Departs]

NextHop == [HopHere EXCEPT !.dep = Departs, !.arr = @ + (Departs - HopHere.dep)]

RideOn ==
    /\ phase = "rounds" /\ aboard # None
    /\ aboard' = IF aboard[2] + 1 = Len(request.timetable[aboard[1]]) THEN None
                 ELSE <<aboard[1], aboard[2] + 1>>
    /\ IF Improves(NextHop.to, NextHop.arr) /\ HopHere \notin request.tooFast
       THEN LET ridden == [reached |-> reached \cup {NextHop.to},
                           arr |-> [arr EXCEPT ![NextHop.to] = NextHop.arr],
                           pred |-> [pred EXCEPT ![NextHop.to] = NextHop]]
            IN  /\ Becomes(OneWalk(ridden, NextHop.to))
                /\ improved' = improved \cup {NextHop.to}
                                        \cup FootTo(ridden, NextHop.to)
       ELSE UNCHANGED <<labels, improved>>
    /\ UNCHANGED <<request, phase, trace, scan, round, marked, waiting>>

(***************************************************************************)
(* A round that improved nothing is the last, as is the one after as many  *)
(* as the limit allows transfers.  Then the target is traced, or, when it  *)
(* has no predecessor, everything is searched again by csa.                *)
(***************************************************************************)
RoundOver == phase = "rounds" /\ aboard = None /\ waiting = {}
LastRound == improved = {} \/ round = Limit + 1

NextRound ==
    /\ RoundOver /\ ~LastRound
    /\ round' = round + 1
    /\ marked' = improved
    /\ improved' = {}
    /\ waiting' = Routes
    /\ UNCHANGED <<request, phase, labels, trace, scan, aboard>>

EndRounds ==
    /\ RoundOver /\ LastRound
    /\ IF pred[request.to] # None
       THEN phase' = "trace" /\ UNCHANGED <<labels, scan>>
       ELSE /\ phase' = "scan"
            /\ reached' = {request.from}
            /\ arr' = StartArr(request)
            /\ pred' = StartPred
            /\ pending' = {request.from}
            /\ left' = request.conns
    /\ UNCHANGED <<request, trace, rounds>>

Rounds == PickTrip \/ RideOn \/ NextRound \/ EndRounds

RaptorNext == Rounds \/ (Search /\ UNCHANGED rounds)
raptorVars == <<vars, rounds>>
RaptorSpec == RaptorInit /\ [][RaptorNext]_raptorVars /\ WF_raptorVars(RaptorNext)

(***************************************************************************)
(* What a round-based answer is made of: hops of the timetable, of allowed *)
(* modes and plausible speeds, moved on by whole days, and walks no        *)
(* shorter than their footpaths.  Rides are built anew from stop times     *)
(* while labels move them on hop by hop, so that a hop could be torn from  *)
(* its timetable.                                                          *)
(***************************************************************************)
SomeDay(e) ==
    \E c \in Usable :
        /\ [e EXCEPT !.dep = 0, !.arr = e.arr - e.dep]
               = [c EXCEPT !.dep = 0, !.arr = c.arr - c.dep]
        /\ e.dep >= c.dep
        /\ (e.dep - c.dep) % Day = 0

StepsOfTheTimetable ==
    phase = "found" => \A i \in DOMAIN steps :
        IF Walked(steps[i])
        THEN LET walk == <<steps[i].from, steps[i].to>>
             IN  /\ walk \in DOMAIN request.walk
                 /\ Starts(steps[i]) + request.walk[walk] <= Ends(steps[i])
        ELSE SomeDay(steps[i])
=============================================================================
