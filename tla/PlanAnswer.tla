----------------------------- MODULE PlanAnswer -----------------------------
(***************************************************************************)
(* What the planner makes of its search engine: planWithStops of           *)
(* internal/planner/planner.go once the two stops are chosen, with the     *)
(* search backwards from an arrival (planArrival), the gap on foot, the    *)
(* later alternatives (paretoAlternatives) and the choice among them.      *)
(*                                                                         *)
(* The engine is taken by what it promises (ConnectionScan): of the rides  *)
(* between the two stops that leave not before a time it finds one that    *)
(* arrives first, and then refuses it if it has too many legs.             *)
(***************************************************************************)
EXTENDS Enquiry

CONSTANTS
    Window,     \* the 24 hours before a deadline that are searched
    Grid,       \* the half hour between departures tried blindly
    Later,      \* the hour between the alternatives
    Tries       \* how many alternatives are tried: six

(***************************************************************************)
(* A question says whether its time is a deadline, how far the stops are   *)
(* from the two ends (access, egress) and from each other on foot (gap;    *)
(* gapAllowed is allow_gap within the limit of walking), and which of the  *)
(* trips' departures from the first stop there are on a day.  A ride leaves*)
(* and arrives and has so many legs.                                       *)
(***************************************************************************)
ASSUME PlanAnswerAssumption ==
    /\ Window \in Nat \ {0} /\ Grid \in Nat \ {0} /\ Later \in Nat /\ Tries \in Nat
    /\ \A q \in Enquiries.plan :
        /\ q.time \in Int /\ q.access \in Nat /\ q.egress \in Nat /\ q.gap \in Nat
        /\ \A r \in q.rides : r.dep \in Nat /\ r.arr \in Nat /\ r.dep <= r.arr
        /\ q.departures \subseteq 0..(Window - 1)

VARIABLES
    stage,      \* what is being done
    first,      \* the journey of the question's own time
    offset,     \* how many alternatives were tried
    found       \* the first and the alternatives found, by arrival and transfers

planVars == <<enquiry, stage, first, offset, found>>

NoJourney == [dep |-> 0, arr |-> 0, transfers |-> -1, doors |-> FALSE]

-----------------------------------------------------------------------------
(* The engine.                                                             *)

Minimum(S) == CHOOSE n \in S : \A m \in S : n <= m

Earliest(t) ==
    {r \in question.rides :
        /\ r.dep >= t
        /\ \A q \in question.rides : q.dep >= t => r.arr <= q.arr}

Allowed(r) == question.limit < 0 \/ r.legs - 1 <= question.limit

(* planArrival tries the departures of the last day before the deadline,   *)
(* or a grid of times if there are none, and takes the last one that is    *)
(* not too late.                                                           *)
Latest(deadline) == deadline - question.egress
WindowStart(deadline) ==
    IF deadline - Window > Latest(deadline) THEN Latest(deadline) ELSE deadline - Window

Departures(deadline) ==
    {t \in (WindowStart(deadline) + 1)..Latest(deadline) : t % Window \in question.departures}

BlindTimes(deadline) ==
    {t \in WindowStart(deadline)..Latest(deadline) : (Latest(deadline) - t) % Grid = 0}

Tried(deadline) ==
    IF Departures(deadline) # {} THEN Departures(deadline) ELSE BlindTimes(deadline)

(* Mutant: the walk from the last stop is forgotten.                       *)
InTimeAtStop(r, deadline) == Allowed(r) /\ r.arr <= deadline

InTime(r, deadline) == Allowed(r) /\ r.arr <= Latest(deadline)

(* The ride found for a departure may be of no use, for there is none or   *)
(* the one that is taken is too late or has too many legs.                 *)
MayMiss(t, deadline) ==
    \/ Earliest(t) = {}
    \/ \E r \in Earliest(t) : ~InTime(r, deadline)

(* What the search may find for a time: a departure from the first stop    *)
(* and a ride.                                                             *)
ByArrival(deadline) ==
    {p \in Tried(deadline) \X question.rides :
        /\ p[2] \in Earliest(p[1])
        /\ InTime(p[2], deadline)
        /\ \A t \in Tried(deadline) : t > p[1] => MayMiss(t, deadline)}

ByDeparture(t) ==
    {p \in {t + question.access} \X Earliest(t + question.access) : Allowed(p[2])}

Search(time) == IF question.byArrival THEN ByArrival(time) ELSE ByDeparture(time)

MayFail(time) ==
    IF question.byArrival
    THEN \A t \in Tried(time) : MayMiss(t, time)
    ELSE \/ Earliest(time + question.access) = {}
         \/ \E r \in Earliest(time + question.access) : ~Allowed(r)

-----------------------------------------------------------------------------
(* The journey.                                                            *)

(* From door to door: the walks to the first stop and from the last belong *)
(* to it.                                                                  *)
DoorToDoor(p) ==
    [dep |-> IF question.byArrival THEN p[1] - question.access ELSE question.time,
     arr |-> p[2].arr + question.egress, transfers |-> p[2].legs - 1, doors |-> TRUE]

(* An alternative has the legs of its ride only; its times are those of    *)
(* the doors all the same.                                                 *)
StopToStop(r) ==
    [dep |-> r.dep - question.access, arr |-> r.arr + question.egress,
     transfers |-> r.legs - 1, doors |-> FALSE]

(* The gap: no ride, a walk between the two stops.                         *)
OnFoot ==
    IF question.byArrival
    THEN [dep |-> Latest(question.time) - question.gap - question.access, arr |-> question.time,
          transfers |-> 0, doors |-> TRUE]
    ELSE [dep |-> question.time, arr |-> question.time + question.access + question.gap + question.egress,
          transfers |-> 0, doors |-> TRUE]

(* Two journeys of one arrival and one number of transfers are the same.   *)
Same(j, k) == j.arr = k.arr /\ j.transfers = k.transfers

(* The order of the list of journeys.                                      *)
FewerTransfers(j, k) ==
    \/ j.transfers < k.transfers
    \/ j.transfers = k.transfers /\ j.arr < k.arr

EarlierArrival(j, k) ==
    \/ j.arr < k.arr
    \/ j.arr = k.arr /\ j.transfers < k.transfers

Before(j, k) ==
    IF question.preference = "transfers" THEN FewerTransfers(j, k) ELSE EarlierArrival(j, k)

(* The n first of a set of journeys no two of which are the same.          *)
Top(S, n) == {j \in S : Cardinality({k \in S : Before(k, j)}) < n}

PlanInit ==
    /\ EnquiryInit
    /\ stage = "search" /\ first = NoJourney /\ offset = 0 /\ found = {}

(* The search of the question's own time.                                  *)
FindFirst ==
    /\ Asked("plan") /\ stage = "search"
    /\ \/ \E p \in Search(question.time) : first' = DoorToDoor(p)
       \/ MayFail(question.time) /\ question.gapAllowed /\ first' = OnFoot
    /\ found' = {first'}
    /\ stage' = "others"
    /\ UNCHANGED <<enquiry, offset>>

FindNone ==
    /\ Asked("plan") /\ stage = "search"
    /\ MayFail(question.time) /\ ~question.gapAllowed
    /\ Reply([journey |-> NoJourney, others |-> {}])
    /\ UNCHANGED <<stage, first, offset, found>>

Add(j) == IF \E k \in found : Same(j, k) THEN found ELSE found \cup {j}

(* The next alternative, an hour later: a departure or a deadline.         *)
LaterTime == question.time + (offset + 1) * Later

FindAlternative ==
    /\ Asked("plan") /\ stage = "others" /\ offset < Tries
    /\ offset' = offset + 1
    /\ \/ \E p \in Search(LaterTime) : found' = Add(StopToStop(p[2]))
       \/ MayFail(LaterTime) /\ UNCHANGED found
    /\ UNCHANGED <<enquiry, stage, first>>

Alternatives == Top({j \in Top(found, 3) : ~Same(j, first)}, 2)

(* When fewer transfers are preferred an alternative takes the place of    *)
(* the first journey: the last of the list that has the fewest transfers   *)
(* and is the first of them or arrives before the first journey.           *)
Fewest == Minimum({j.transfers : j \in Alternatives \cup {first}})

Improving ==
    {j \in Alternatives :
        /\ j.transfers = Fewest
        /\ \/ j.arr < first.arr
           \/ /\ Fewest < first.transfers
              /\ \A k \in Alternatives : ~FewerTransfers(k, j)}

TakesPlace(j) ==
    /\ question.preference = "transfers"
    /\ j \in Improving
    /\ \A k \in Improving : ~FewerTransfers(j, k)

ChooseAnswer ==
    /\ Asked("plan") /\ stage = "others" /\ offset = Tries
    /\ \/ \E j \in Alternatives :
            /\ TakesPlace(j)
            /\ Reply([journey |-> j, others |-> {first} \cup (Alternatives \ {j})])
       \/ /\ \A j \in Alternatives : ~TakesPlace(j)
          /\ Reply([journey |-> first, others |-> Alternatives])
    /\ UNCHANGED <<stage, first, offset, found>>

PlanNext == FindFirst \/ FindNone \/ FindAlternative \/ ChooseAnswer

-----------------------------------------------------------------------------
(* What an answer promises (planner.go:337-408, :411-521).                 *)

Answered == Replied("plan") /\ Told.journey # NoJourney

(* A journey is found while searching backwards exactly because it reaches *)
(* the door by the deadline: with the earliest arrival preferred the       *)
(* answer keeps it, and no answer to a departure leaves before it          *)
(* (planWithStops, planArrival).                                           *)
HonoursTime ==
    Answered =>
        IF question.byArrival
        THEN question.preference = "arrival" => Told.journey.arr <= question.time
        ELSE Told.journey.dep >= question.time
=============================================================================
