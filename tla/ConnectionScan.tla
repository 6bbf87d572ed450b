-------------------------- MODULE ConnectionScan --------------------------
(***************************************************************************)
(* The connection scan engine, csa of internal/planner/planner.go: one     *)
(* pass over the connections in the order of their departures, and after   *)
(* every label it improves the footpaths from there.  The search is        *)
(* sequential; its steps are the iterations of its two loops.              *)
(***************************************************************************)
EXTENDS Itinerary

VARIABLES
    pending,    \* relax's queue: stops whose footpaths are still to be tried
    left        \* the connections that are still to be scanned

scan == <<pending, left>>
vars == <<request, phase, labels, trace, scan>>

Init ==
    /\ request \in Requests
    /\ phase = "scan"
    /\ reached = {request.from}
    /\ arr = StartArr(request)
    /\ pred = StartPred
    /\ stop = request.to
    /\ steps = <<>>
    /\ pending = {request.from}
    /\ left = request.conns

(***************************************************************************)
(* relax takes a stop off its queue and walks every footpath from it that  *)
(* improves a label.  Nobody changes vehicles at a provisional stop: it is *)
(* neither walked from nor walked to.  The queue is kept as a set, so that *)
(* its stops are taken in any order.                                       *)
(***************************************************************************)
Walks(s) == {t \in Stops :
                /\ <<s, t>> \in DOMAIN request.walk
                /\ t \notin request.provisional
                /\ Improves(t, arr[s] + request.walk[<<s, t>>])}

\* Mutant: changes at a provisional stop.
RelaxAnyStop(s) == Walks(s)

Relaxable(s) == IF s \in request.provisional THEN {} ELSE Walks(s)

\* Mutant: does not take the stop off the queue.
QueueKeeps(s) == pending \cup Relaxable(s)

QueueAfter(s) == (pending \ {s}) \cup Relaxable(s)

Relax ==
    /\ phase = "scan"
    /\ \E s \in pending :
        /\ reached' = reached \cup Relaxable(s)
        /\ arr' = [t \in Stops |-> IF t \in Relaxable(s)
                                   THEN arr[s] + request.walk[<<s, t>>]
                                   ELSE arr[t]]
        /\ pred' = [t \in Stops |-> IF t \in Relaxable(s) THEN Foot(s, t)
                                    ELSE pred[t]]
        /\ pending' = QueueAfter(s)
    /\ UNCHANGED <<request, phase, trace, left>>

(***************************************************************************)
(* The connections come sorted by departure; the sort is not stable, so    *)
(* that those of one minute come in any order.                             *)
(***************************************************************************)
\* Mutant: the connections are taken as they come.
DueAnyTime(c) == c \in left

Due(c) == \A d \in left : c.dep <= d.dep

\* Mutant: boards a connection that has left.
BoardableLate(c) ==
    /\ c \in Usable
    /\ c.from \in reached
    /\ Improves(c.to, c.arr)

Boardable(c) ==
    /\ c \in Usable
    /\ c.from \in reached
    /\ arr[c.from] <= c.dep
    /\ Improves(c.to, c.arr)

Recorded(c) == reached \cup {c.to}

Ride ==
    /\ phase = "scan"
    /\ pending = {}
    /\ \E c \in left :
        /\ Due(c)
        /\ left' = left \ {c}
        /\ IF Boardable(c)
           THEN /\ reached' = Recorded(c)
                /\ arr' = [arr EXCEPT ![c.to] = c.arr]
                /\ pred' = [pred EXCEPT ![c.to] = c]
                /\ pending' = {c.to}
           ELSE UNCHANGED <<labels, pending>>
    /\ UNCHANGED <<request, phase, trace>>

ScanEnds ==
    /\ phase = "scan"
    /\ pending = {}
    /\ left = {}
    /\ phase' = IF pred[request.to] = None THEN "none" ELSE "trace"
    /\ UNCHANGED <<request, labels, trace, scan>>

Search ==
    \/ Relax
    \/ Ride
    \/ ScanEnds
    \/ StepBack /\ UNCHANGED scan
    \/ Answer /\ UNCHANGED scan

Spec == Init /\ [][Search]_vars /\ WF_vars(Search)

ScanTypeOK ==
    /\ TypeOK
    /\ phase \in {"scan", "trace"} \cup Answered
    /\ pending \subseteq reached
    /\ left \subseteq request.conns

(***************************************************************************)
(* Every search ends with an answer: relax stops queueing stops, and the   *)
(* trace does not run in a circle of predecessors.                         *)
(***************************************************************************)
AnswerComes == <>(phase \in Answered)
=============================================================================
