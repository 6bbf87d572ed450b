------------------------ MODULE ConnectionScanProofs ------------------------
(***************************************************************************)
(* Proofs about the connection scan, for every network and every request.  *)
(*                                                                         *)
(* What holds whatever the timetable is that every label can be traced     *)
(* back to the start (Witnessed, Traced).  What holds when every ride      *)
(* takes time is that the labels are closed under everything scanned so    *)
(* far (ClosedRides, ClosedWalks); the order of the departures keeps them  *)
(* so, because an improved label is always later than every departure that *)
(* was scanned (Late).  When the scan is over the labels are closed under  *)
(* all rides and walks, and then no traveller can leave them behind.       *)
(***************************************************************************)
EXTENDS Traveller, TLAPS

Scanned == request.conns \ left

Typed == TravellerTypeOK /\ request \in Requests

(***************************************************************************)
(* Why a stop has its label: it is the start, or a ride or a walk led      *)
(* there from a stop that has one.                                         *)
(***************************************************************************)
RideWitness(s) ==
    /\ pred[s] \in Usable
    /\ pred[s].to = s /\ pred[s].from \in reached
    /\ arr[pred[s].from] <= pred[s].dep
    /\ arr[s] = pred[s].arr

WalkWitness(s) ==
    \E t \in reached :
        /\ pred[s] = Foot(t, s)
        /\ <<t, s>> \in DOMAIN request.walk
        /\ t \notin request.provisional /\ s \notin request.provisional
        /\ arr[t] + request.walk[<<t, s>>] <= arr[s]

AtStart ==
    /\ request.from \in reached
    /\ pred[request.from] = None
    /\ arr[request.from] = request.depart

Witnessed ==
    /\ AtStart
    /\ \A s \in reached : request.depart <= arr[s]
    /\ \A s \in reached \ {request.from} : RideWitness(s) \/ WalkWitness(s)
    /\ \A s \in Stops \ reached : pred[s] = None

Chained ==
    /\ steps[1].from = stop
    /\ arr[stop] <= Starts(steps[1])
    /\ steps[Len(steps)].to = request.to
    /\ \A i \in 1..(Len(steps) - 1) : Follows(i)
    /\ \A i \in 1..Len(steps) : Takeable(steps[i])

Traced ==
    /\ phase = "scan" => steps = <<>> /\ stop = request.to
    /\ phase \in {"trace", "found", "refused"} =>
            /\ stop \in reached
            /\ IF steps = <<>> THEN stop = request.to /\ pred[stop] # None
               ELSE Chained
    /\ phase \in {"found", "refused"} => AtTheEnd

Sound == Typed /\ Witnessed /\ Traced

(***************************************************************************)
(* The connections scanned so far leave not later than those to come, and  *)
(* before every label that still has footpaths to be tried.                *)
(***************************************************************************)
InOrder == \A c \in Scanned, d \in left : c.dep <= d.dep
Late == \A c \in Scanned, s \in pending : c.dep < arr[s]

ClosedRides ==
    \A c \in Usable \ left :
        c.from \in reached /\ arr[c.from] <= c.dep
            => c.to \in reached /\ arr[c.to] <= c.arr

ClosedWalks ==
    \A s \in reached \ pending, t \in Stops :
        /\ <<s, t>> \in DOMAIN request.walk
        /\ s \notin request.provisional /\ t \notin request.provisional
        => t \in reached /\ arr[t] <= arr[s] + request.walk[<<s, t>>]

Over == phase # "scan" => pending = {} /\ left = {}

Complete ==
    /\ InOrder /\ Late /\ ClosedRides /\ ClosedWalks /\ Over
    /\ phase = "scan" => at = request.from /\ clock = request.depart
    /\ EarliestArrival

-----------------------------------------------------------------------------
(* Types *)

Everything == <<vars, traveller>>

\* What is known of a request that is searched.
LEMMA RequestFacts ==
    ASSUME Typed
    PROVE  /\ IsRequest(request)
           /\ request.from \in Stops /\ request.to \in Stops
           /\ request.depart \in Nat
           /\ \A c \in request.conns : c \in Hops /\ c.dep <= c.arr
           /\ \A q \in DOMAIN request.walk : request.walk[q] \in Nat
           /\ Usable \subseteq request.conns
  BY RequestsAssumption DEF Typed, IsRequest, Usable

\* A footpath and a hop are both steps, and neither is "no predecessor".
LEMMA StepFacts ==
    /\ \A s, t \in Stops : Foot(s, t) \in Steps
    /\ Hops \subseteq Steps
    /\ None \notin Steps
  BY TokensAssumption DEF Foot, Steps, Hops

LEMMA InitTyped == TravelInit => Typed
  <1> SUFFICES ASSUME TravelInit PROVE Typed
    OBVIOUS
  <1>1. IsRequest(request) /\ request \in Requests
    BY RequestsAssumption DEF TravelInit, Init
  <1>2. request.from \in Stops /\ request.to \in Stops /\ request.depart \in Nat
    BY <1>1 DEF IsRequest
  <1>3. arr \in [Stops -> Nat] /\ pred \in [Stops -> Steps \cup {None}]
    BY <1>2 DEF TravelInit, Init, StartArr, StartPred
  <1>4. QED
    BY <1>1, <1>2, <1>3 DEF TravelInit, Init, Typed, TravellerTypeOK, ScanTypeOK,
       TypeOK

LEMMA RelaxTyped == Typed /\ Relax /\ UNCHANGED traveller => Typed'
  <1> SUFFICES ASSUME Typed, Relax, UNCHANGED traveller PROVE Typed'
    OBVIOUS
  <1> USE DEF Typed, TravellerTypeOK, ScanTypeOK, TypeOK
  <1>1. PICK s \in pending :
            /\ reached' = reached \cup Relaxable(s)
            /\ arr' = [t \in Stops |-> IF t \in Relaxable(s)
                            THEN arr[s] + request.walk[<<s, t>>] ELSE arr[t]]
            /\ pred' = [t \in Stops |-> IF t \in Relaxable(s) THEN Foot(s, t)
                            ELSE pred[t]]
            /\ pending' = QueueAfter(s)
    BY DEF Relax
  <1>2. s \in Stops /\ arr[s] \in Nat
    BY <1>1
  <1>3. Relaxable(s) \subseteq Stops
        /\ \A t \in Relaxable(s) : request.walk[<<s, t>>] \in Nat
    BY RequestFacts DEF Relaxable, Walks
  <1>4. arr' \in [Stops -> Nat]
    BY <1>1, <1>2, <1>3
  <1>5. pred' \in [Stops -> Steps \cup {None}]
    BY <1>1, <1>2, <1>3, StepFacts
  <1>6. pending' \subseteq reached'
    BY <1>1 DEF QueueAfter
  <1>7. UNCHANGED <<request, phase, stop, steps, left, at, clock>>
    BY DEF Relax, trace, traveller
  <1>8. QED
    BY <1>1, <1>3, <1>4, <1>5, <1>6, <1>7 DEF IsRequest

LEMMA RideTyped == Typed /\ Ride /\ UNCHANGED traveller => Typed'
  <1> SUFFICES ASSUME Typed, Ride, UNCHANGED traveller PROVE Typed'
    OBVIOUS
  <1> USE DEF Typed, TravellerTypeOK, ScanTypeOK, TypeOK
  <1>1. PICK c \in left :
            /\ left' = left \ {c}
            /\ IF Boardable(c)
               THEN /\ reached' = Recorded(c)
                    /\ arr' = [arr EXCEPT ![c.to] = c.arr]
                    /\ pred' = [pred EXCEPT ![c.to] = c]
                    /\ pending' = {c.to}
               ELSE UNCHANGED <<labels, pending>>
    BY DEF Ride
  <1>2. c \in Steps /\ c.to \in Stops /\ c.arr \in Nat
    BY RequestFacts, StepFacts DEF Hops
  <1>3. UNCHANGED <<request, phase, stop, steps, at, clock>>
    BY DEF Ride, trace, traveller
  <1>4. CASE Boardable(c)
    BY <1>1, <1>2, <1>3, <1>4 DEF Recorded, IsRequest
  <1>5. CASE ~Boardable(c)
    BY <1>1, <1>3, <1>5 DEF labels, IsRequest
  <1>6. QED
    BY <1>4, <1>5

LEMMA ScanEndsTyped == Typed /\ ScanEnds /\ UNCHANGED traveller => Typed'
  BY DEF Typed, TravellerTypeOK, ScanTypeOK, TypeOK, ScanEnds, labels, trace,
     scan, traveller, Answered, IsRequest

LEMMA StepBackTyped ==
    Typed /\ StepBack /\ UNCHANGED scan /\ UNCHANGED traveller => Typed'
  <1> SUFFICES ASSUME Typed, StepBack, UNCHANGED scan, UNCHANGED traveller
               PROVE  Typed'
    OBVIOUS
  <1> USE DEF Typed, TravellerTypeOK, ScanTypeOK, TypeOK
  <1>1. pred[stop] \in Steps
    BY DEF StepBack, AtTheEnd
  <1>2. steps' \in Seq(Steps) /\ stop' \in Stops
    BY <1>1 DEF StepBack, Steps
  <1>3. QED
    BY <1>2 DEF StepBack, labels, scan, traveller, IsRequest

LEMMA AnswerTyped ==
    Typed /\ Answer /\ UNCHANGED scan /\ UNCHANGED traveller => Typed'
  BY DEF Typed, TravellerTypeOK, ScanTypeOK, TypeOK, Answer, labels, trace,
     scan, traveller, Answered, IsRequest

LEMMA TravelTyped == Typed /\ Travel => Typed'
  <1> SUFFICES ASSUME Typed, Travel PROVE Typed'
    OBVIOUS
  <1>1. at' \in Stops /\ clock' \in Nat
    <2>1. CASE Board
      BY <2>1, RequestFacts DEF Board, Hops
    <2>2. CASE WalkOn
      BY <2>2, RequestFacts DEF WalkOn, Typed, TravellerTypeOK
    <2>3. QED
      BY <2>1, <2>2 DEF Travel
  <1>2. QED
    BY <1>1 DEF Typed, TravellerTypeOK, ScanTypeOK, TypeOK, Travel, vars, labels,
       trace, scan, IsRequest

LEMMA StutterTyped == Typed /\ UNCHANGED Everything => Typed'
  BY DEF Typed, TravellerTypeOK, ScanTypeOK, TypeOK, Everything, vars, labels,
     trace, scan, traveller, IsRequest

LEMMA NextTyped == Typed /\ [TravelNext]_Everything => Typed'
  BY RelaxTyped, RideTyped, ScanEndsTyped, StepBackTyped, AnswerTyped,
     TravelTyped, StutterTyped DEF TravelNext, Search

(***************************************************************************)
(* Labels, predecessors and queue keep their types: every stop the scan    *)
(* queues has a label, whatever the network.                               *)
(***************************************************************************)
THEOREM TypeCorrect == TravelSpec => []TravellerTypeOK
  <1>1. TravelInit => Typed
    BY InitTyped
  <1>2. Typed /\ [TravelNext]_Everything => Typed'
    BY NextTyped
  <1>3. Typed => TravellerTypeOK
    BY DEF Typed
  <1>4. QED
    BY <1>1, <1>2, <1>3, PTL DEF TravelSpec, Everything

-----------------------------------------------------------------------------
(* Every label has a witness *)

LEMMA InitWitnessed == TravelInit /\ Typed => Witnessed
  <1> SUFFICES ASSUME TravelInit, Typed PROVE Witnessed
    OBVIOUS
  <1>1. request.from \in Stops /\ request.depart \in Nat
    BY RequestFacts
  <1>2. QED
    BY <1>1 DEF TravelInit, Init, Witnessed, AtStart, StartArr, StartPred

(***************************************************************************)
(* A label that is improved, and recorded with its predecessor, leaves the *)
(* witnesses of the others alone: what led there only moved to an earlier  *)
(* time.                                                                   *)
(***************************************************************************)
LEMMA ImprovedKeepsWitness ==
    ASSUME Typed, Typed', Witnessed, request' = request,
           reached \subseteq reached',
           \A s \in reached : arr'[s] <= arr[s],
           NEW s \in reached \ {request.from},
           arr'[s] = arr[s], pred'[s] = pred[s]
    PROVE  RideWitness(s)' \/ WalkWitness(s)'
  <1> USE DEF Typed, TravellerTypeOK, ScanTypeOK, TypeOK
  <1>1. CASE RideWitness(s)
    <2>1. pred[s].from \in reached /\ pred[s] \in Hops
      BY <1>1, RequestFacts DEF RideWitness
    <2>2. arr'[pred[s].from] \in Nat /\ arr[pred[s].from] \in Nat
          /\ pred[s].dep \in Nat
      BY <2>1 DEF Hops
    <2>3. arr'[pred[s].from] <= pred[s].dep
      BY <1>1, <2>1, <2>2 DEF RideWitness
    <2>4. QED
      BY <1>1, <2>1, <2>3 DEF RideWitness, Usable
  <1>2. CASE WalkWitness(s)
    <2>1. PICK t \in reached :
            /\ pred[s] = Foot(t, s)
            /\ <<t, s>> \in DOMAIN request.walk
            /\ t \notin request.provisional /\ s \notin request.provisional
            /\ arr[t] + request.walk[<<t, s>>] <= arr[s]
      BY <1>2 DEF WalkWitness
    <2>2. arr'[t] \in Nat /\ arr[t] \in Nat /\ request.walk[<<t, s>>] \in Nat
          /\ arr[s] \in Nat
      BY <2>1, RequestFacts
    <2>3. arr'[t] + request.walk[<<t, s>>] <= arr'[s]
      BY <2>1, <2>2
    <2>4. QED
      BY <2>1, <2>3 DEF WalkWitness, Foot
  <1>3. QED
    BY <1>1, <1>2 DEF Witnessed

LEMMA RelaxWitnessed ==
    Typed /\ Typed' /\ Witnessed /\ Relax => Witnessed'
  <1> SUFFICES ASSUME Typed, Typed', Witnessed, Relax PROVE Witnessed'
    OBVIOUS
  <1> USE DEF Typed, TravellerTypeOK, ScanTypeOK, TypeOK
  <1>1. PICK s \in pending :
            /\ reached' = reached \cup Relaxable(s)
            /\ arr' = [t \in Stops |-> IF t \in Relaxable(s)
                            THEN arr[s] + request.walk[<<s, t>>] ELSE arr[t]]
            /\ pred' = [t \in Stops |-> IF t \in Relaxable(s) THEN Foot(s, t)
                            ELSE pred[t]]
    BY DEF Relax
  <1>2. request' = request
    BY DEF Relax
  <1>3. s \in reached /\ arr[s] \in Nat /\ request.depart \in Nat
        /\ request.depart <= arr[s] /\ request.from \in Stops
    BY <1>1, RequestFacts DEF Witnessed
  <1>4. \A t \in Relaxable(s) :
            /\ t \in Stops /\ request.walk[<<s, t>>] \in Nat
            /\ <<s, t>> \in DOMAIN request.walk
            /\ s \notin request.provisional /\ t \notin request.provisional
            /\ Improves(t, arr[s] + request.walk[<<s, t>>])
    BY RequestFacts DEF Relaxable, Walks
  <1>5. s \notin Relaxable(s)
    <2> SUFFICES ASSUME s \in Relaxable(s) PROVE FALSE
      OBVIOUS
    <2>1. request.walk[<<s, s>>] \in Nat /\ Improves(s, arr[s] + request.walk[<<s, s>>])
      BY <1>4
    <2>2. QED
      BY <1>3, <2>1 DEF Improves
  <1>6. request.from \notin Relaxable(s)
    <2> SUFFICES ASSUME request.from \in Relaxable(s) PROVE FALSE
      OBVIOUS
    <2> DEFINE w == request.walk[<<s, request.from>>]
    <2>1. w \in Nat /\ Improves(request.from, arr[s] + w)
      BY <1>4
    <2>2. request.from \in reached /\ arr[request.from] = request.depart
      BY DEF Witnessed, AtStart
    <2> HIDE DEF w
    <2>3. QED
      BY <1>3, <2>1, <2>2 DEF Improves
  <1>7. \A t \in reached : arr'[t] <= arr[t]
    BY <1>1, <1>3, <1>4 DEF Improves
  <1>8. AtStart'
    BY <1>1, <1>2, <1>3, <1>6 DEF AtStart, Witnessed
  <1>9. \A t \in reached' : request'.depart <= arr'[t]
    BY <1>1, <1>2, <1>3, <1>4 DEF Witnessed
  <1>10. ASSUME NEW t \in reached' \ {request'.from}
         PROVE  RideWitness(t)' \/ WalkWitness(t)'
    <2>1. CASE t \in Relaxable(s)
      <3>1. pred'[t] = Foot(s, t) /\ arr'[s] = arr[s]
            /\ arr'[t] = arr[s] + request.walk[<<s, t>>]
        BY <1>1, <1>3, <1>4, <1>5, <2>1
      <3>2. s \in reached' /\ <<s, t>> \in DOMAIN request'.walk
            /\ s \notin request'.provisional /\ t \notin request'.provisional
            /\ arr'[s] + request'.walk[<<s, t>>] <= arr'[t]
        BY <1>1, <1>2, <1>3, <1>4, <2>1, <3>1
      <3> HIDE DEF Typed
      <3>3. WalkWitness(t)'
        BY <3>1, <3>2 DEF WalkWitness, Foot
      <3>4. QED
        BY <3>3
    <2>2. CASE t \notin Relaxable(s)
      <3>1. t \in reached \ {request.from} /\ arr'[t] = arr[t] /\ pred'[t] = pred[t]
        BY <1>1, <1>2, <2>2
      <3>2. QED
        BY <1>1, <1>2, <1>7, <3>1, ImprovedKeepsWitness
    <2>3. QED
      BY <2>1, <2>2
  <1>11. \A t \in Stops \ reached' : pred'[t] = None
    BY <1>1 DEF Witnessed
  <1>12. QED
    BY <1>8, <1>9, <1>10, <1>11 DEF Witnessed

LEMMA RideWitnessed ==
    Typed /\ Typed' /\ Witnessed /\ Ride => Witnessed'
  <1> SUFFICES ASSUME Typed, Typed', Witnessed, Ride PROVE Witnessed'
    OBVIOUS
  <1> USE DEF Typed, TravellerTypeOK, ScanTypeOK, TypeOK
  <1>1. PICK c \in left :
            IF Boardable(c)
            THEN /\ reached' = Recorded(c)
                 /\ arr' = [arr EXCEPT ![c.to] = c.arr]
                 /\ pred' = [pred EXCEPT ![c.to] = c]
            ELSE UNCHANGED labels
    BY DEF Ride, labels
  <1>2. request' = request
    BY DEF Ride
  <1>3. CASE ~Boardable(c)
    BY <1>1, <1>2, <1>3 DEF labels, Witnessed, AtStart, RideWitness, WalkWitness,
       Usable, Foot
  <1>4. CASE Boardable(c)
    <2>1. c \in Hops /\ c.dep <= c.arr /\ c \in Usable /\ c.from \in reached
          /\ arr[c.from] <= c.dep /\ Improves(c.to, c.arr)
      BY <1>4, RequestFacts DEF Boardable
    <2>2. c.to \in Stops /\ c.from \in Stops /\ c.dep \in Nat /\ c.arr \in Nat
          /\ arr[c.from] \in Nat /\ request.depart \in Nat
          /\ request.depart <= arr[c.from]
      BY <2>1, RequestFacts DEF Hops, Witnessed
    <2> HIDE DEF Typed
    <2>3. c.to # c.from
      BY <2>1, <2>2 DEF Improves
    <2>4. c.to # request.from
      BY <2>1, <2>2 DEF Improves, Witnessed, AtStart
    <2> USE DEF Typed
    <2>5. /\ reached' = reached \cup {c.to}
          /\ arr' = [arr EXCEPT ![c.to] = c.arr]
          /\ pred' = [pred EXCEPT ![c.to] = c]
      BY <1>1, <1>4 DEF Recorded
    <2>6. \A t \in reached : arr'[t] <= arr[t]
      BY <2>1, <2>2, <2>5 DEF Improves
    <2>7. AtStart'
      BY <1>2, <2>4, <2>5, RequestFacts DEF AtStart, Witnessed
    <2>8. \A t \in reached' : request'.depart <= arr'[t]
      BY <1>2, <2>1, <2>2, <2>5 DEF Witnessed
    <2>9. ASSUME NEW t \in reached' \ {request'.from}
          PROVE  RideWitness(t)' \/ WalkWitness(t)'
      <3>1. CASE t = c.to
        <4>1. pred'[t] = c /\ arr'[t] = c.arr /\ arr'[c.from] = arr[c.from]
          BY <2>2, <2>3, <2>5, <3>1
        <4>2. RideWitness(t)'
          BY <1>2, <2>1, <2>5, <3>1, <4>1 DEF RideWitness, Usable
        <4>3. QED
          BY <4>2
      <3>2. CASE t # c.to
        <4>1. t \in reached \ {request.from} /\ arr'[t] = arr[t]
              /\ pred'[t] = pred[t]
          BY <1>2, <2>5, <3>2
        <4>2. QED
          BY <1>2, <2>5, <2>6, <4>1, ImprovedKeepsWitness
      <3>3. QED
        BY <3>1, <3>2
    <2>10. \A t \in Stops \ reached' : pred'[t] = None
      BY <2>5 DEF Witnessed
    <2>11. QED
      BY <2>7, <2>8, <2>9, <2>10 DEF Witnessed
  <1>5. QED
    BY <1>3, <1>4

LEMMA FrozenWitnessed ==
    Witnessed /\ UNCHANGED <<request, labels>> => Witnessed'
  BY DEF labels, Witnessed, AtStart, RideWitness, WalkWitness, Usable, Foot

LEMMA NextWitnessed ==
    Typed /\ Typed' /\ Witnessed /\ [TravelNext]_Everything => Witnessed'
  <1> SUFFICES ASSUME Typed, Typed', Witnessed, [TravelNext]_Everything
               PROVE  Witnessed'
    OBVIOUS
  <1>1. CASE Relax
    BY <1>1, RelaxWitnessed
  <1>2. CASE Ride
    BY <1>2, RideWitnessed
  <1>3. CASE UNCHANGED <<request, labels>>
    BY <1>3, FrozenWitnessed
  <1>4. QED
    BY <1>1, <1>2, <1>3 DEF TravelNext, Search, ScanEnds, StepBack, Answer, Travel,
       Everything, vars

-----------------------------------------------------------------------------
(* What is traced is an itinerary *)

LEMMA Prepending ==
    ASSUME NEW S, NEW e \in S, NEW q \in Seq(S)
    PROVE  /\ <<e>> \o q \in Seq(S)
           /\ Len(<<e>> \o q) = Len(q) + 1
           /\ (<<e>> \o q)[1] = e
           /\ \A i \in 1..Len(q) : (<<e>> \o q)[i + 1] = q[i]
  OBVIOUS

(***************************************************************************)
(* The step that gave a stop its label is one that can be taken: it ends   *)
(* with that label and starts with, or after, the label it came from.      *)
(***************************************************************************)
LEMMA WitnessIsTakeable ==
    ASSUME Typed, Witnessed, NEW s \in reached, pred[s] # None
    PROVE  /\ pred[s] \in Steps
           /\ s # request.from
           /\ pred[s].to = s /\ pred[s].from \in reached
           /\ Takeable(pred[s])
           /\ arr[pred[s].from] <= Starts(pred[s])
           /\ Ends(pred[s]) = arr[s]
  <1> USE DEF Typed, TravellerTypeOK, ScanTypeOK, TypeOK
  <1>1. s # request.from /\ pred[s] \in Steps
    BY DEF Witnessed, AtStart
  <1>2. CASE RideWitness(s)
    <2>1. pred[s] \in Usable /\ ~Walked(pred[s])
      BY <1>2, RequestFacts, TokensAssumption DEF RideWitness, Walked, Hops
    <2>2. QED
      BY <1>1, <1>2, <2>1 DEF RideWitness, Takeable, Starts, Ends
  <1>3. CASE WalkWitness(s)
    <2>1. PICK t \in reached :
            /\ pred[s] = Foot(t, s)
            /\ <<t, s>> \in DOMAIN request.walk
            /\ t \notin request.provisional /\ s \notin request.provisional
            /\ arr[t] + request.walk[<<t, s>>] <= arr[s]
      BY <1>3 DEF WalkWitness
    <2>2. Walked(pred[s]) /\ pred[s].from = t /\ pred[s].to = s
      BY <2>1 DEF Foot, Walked
    <2>3. arr[t] \in Nat
      BY <2>1
    <2>4. QED
      BY <1>1, <2>1, <2>2, <2>3 DEF Takeable, Starts, Ends
  <1>4. QED
    BY <1>1, <1>2, <1>3 DEF Witnessed

LEMMA InitTraced == TravelInit => Traced
  BY DEF TravelInit, Init, Traced

LEMMA ScanningTraced ==
    Traced /\ phase = "scan" /\ UNCHANGED <<request, phase, trace>> => Traced'
  BY DEF Traced, trace

LEMMA ScanEndsTraced ==
    Typed /\ Witnessed /\ Traced /\ ScanEnds => Traced'
  <1> SUFFICES ASSUME Typed, Witnessed, Traced, ScanEnds PROVE Traced'
    OBVIOUS
  <1>1. pred[request.to] # None => request.to \in reached
    BY RequestFacts DEF Witnessed
  <1>2. QED
    BY <1>1 DEF Traced, ScanEnds, labels, trace, scan

LEMMA StepBackTraced ==
    Typed /\ Typed' /\ Witnessed /\ Traced /\ StepBack => Traced'
  <1> SUFFICES ASSUME Typed, Typed', Witnessed, Traced, StepBack PROVE Traced'
    OBVIOUS
  <1> DEFINE e == pred[stop]
  <1>1. UNCHANGED <<request, phase, reached, arr, pred>> /\ phase = "trace"
        /\ steps' = <<e>> \o steps /\ stop' = e.from /\ e # None
    BY DEF StepBack, AtTheEnd, labels
  <1>2. stop \in reached
        /\ IF steps = <<>> THEN stop = request.to ELSE Chained
    BY <1>1 DEF Traced
  <1>3. e \in Steps /\ e.to = stop /\ e.from \in reached /\ Takeable(e)
        /\ arr[e.from] <= Starts(e) /\ Ends(e) = arr[stop]
    BY <1>1, <1>2, WitnessIsTakeable
  <1>4. steps \in Seq(Steps)
    BY DEF Typed, TravellerTypeOK, ScanTypeOK, TypeOK
  <1>5. /\ Len(steps') = Len(steps) + 1 /\ Len(steps) \in Nat
        /\ steps'[1] = e
        /\ \A i \in 1..Len(steps) : steps'[i + 1] = steps[i]
    BY <1>1, <1>3, <1>4, Prepending
  <1> HIDE DEF e
  <1>6. /\ Starts(steps[1])' = Starts(e) /\ Ends(steps[1])' = Ends(e)
        /\ Takeable(steps[1])' <=> Takeable(e)
    BY <1>1, <1>5 DEF Starts, Ends, Takeable, Usable
  <1>7. \A i \in 1..Len(steps) :
            /\ Starts(steps[i + 1])' = Starts(steps[i])
            /\ Ends(steps[i + 1])' = Ends(steps[i])
            /\ Takeable(steps[i + 1])' <=> Takeable(steps[i])
    BY <1>1, <1>5 DEF Starts, Ends, Takeable, Usable
  <1>8. CASE steps = <<>>
    <2>1. Len(steps') = 1
      BY <1>5, <1>8
    <2>2. Chained'
      BY <1>1, <1>2, <1>3, <1>5, <1>6, <1>8, <2>1 DEF Chained, Follows
    <2>3. QED
      BY <1>1, <1>3, <2>1, <2>2 DEF Traced
  <1>9. CASE steps # <<>>
    <2>1. Len(steps) >= 1
      BY <1>4, <1>9
    <2>2. Chained
      BY <1>2, <1>9
    <2>3. (steps[1].from = stop)' /\ (arr[stop] <= Starts(steps[1]))'
      BY <1>1, <1>3, <1>5, <1>6
    <2>4. steps'[Len(steps')].to = request'.to
      BY <1>1, <1>5, <2>1, <2>2 DEF Chained
    <2>5. ASSUME NEW i \in 1..(Len(steps') - 1) PROVE Follows(i)'
      <3>1. CASE i = 1
        <4>1. steps'[2] = steps[1]
          BY <1>5, <2>1
        <4>2. Starts(steps[2])' = Starts(steps[1])
          BY <1>7, <2>1
        <4>3. arr[stop] <= Starts(steps[1]) /\ steps[1].from = stop
          BY <2>2 DEF Chained
        <4>4. QED
          BY <1>3, <1>5, <1>6, <3>1, <4>1, <4>2, <4>3 DEF Follows
      <3>2. CASE i > 1
        <4>1. i - 1 \in 1..(Len(steps) - 1)
          BY <1>5, <2>1, <3>2
        <4>2. steps'[i] = steps[i - 1] /\ steps'[i + 1] = steps[i]
          BY <1>5, <2>1, <3>2
        <4>3. Follows(i - 1) /\ (i - 1) + 1 = i
          BY <2>2, <4>1 DEF Chained
        <4>4. Starts(steps[i + 1])' = Starts(steps[i])
              /\ Ends(steps[i])' = Ends(steps[i - 1])
          BY <1>7, <4>1, <4>3
        <4>5. QED
          BY <4>2, <4>3, <4>4 DEF Follows
      <3>3. QED
        BY <3>1, <3>2
    <2>6. ASSUME NEW i \in 1..Len(steps') PROVE Takeable(steps[i])'
      <3>1. CASE i = 1
        BY <1>3, <1>5, <1>6, <3>1
      <3>2. CASE i > 1
        <4>1. i - 1 \in 1..Len(steps) /\ (i - 1) + 1 = i
          BY <1>5, <2>1, <3>2
        <4>2. Takeable(steps[i])' <=> Takeable(steps[i - 1])
          BY <1>7, <4>1
        <4>3. QED
          BY <2>2, <4>1, <4>2 DEF Chained
      <3>3. QED
        BY <3>1, <3>2
    <2>7. Chained'
      BY <2>3, <2>4, <2>5, <2>6 DEF Chained
    <2>8. steps' # <<>>
      BY <1>5, <2>1
    <2>9. QED
      BY <1>1, <1>3, <2>7, <2>8 DEF Traced
  <1>10. QED
    BY <1>8, <1>9

LEMMA FrozenTraced ==
    /\ Traced /\ UNCHANGED <<request, labels, trace>>
    /\ \/ phase' = phase
       \/ phase = "trace" /\ AtTheEnd /\ phase' \in {"found", "refused"}
    => Traced'
  BY DEF Traced, Chained, AtTheEnd, Follows, Takeable, Starts, Ends, Usable,
     labels, trace

LEMMA NextTraced ==
    Typed /\ Typed' /\ Witnessed /\ Traced /\ [TravelNext]_Everything => Traced'
  <1> SUFFICES ASSUME Typed, Typed', Witnessed, Traced, [TravelNext]_Everything
               PROVE  Traced'
    OBVIOUS
  <1>1. CASE Relax \/ Ride
    BY <1>1, ScanningTraced DEF Relax, Ride
  <1>2. CASE ScanEnds
    BY <1>2, ScanEndsTraced
  <1>3. CASE StepBack
    BY <1>3, StepBackTraced
  <1>4. CASE Answer
    BY <1>4, FrozenTraced DEF Answer
  <1>5. CASE Travel \/ UNCHANGED Everything
    BY <1>5, FrozenTraced DEF Travel, Everything, vars
  <1>6. QED
    BY <1>1, <1>2, <1>3, <1>4, <1>5 DEF TravelNext, Search

LEMMA SoundInvariant == TravelSpec => []Sound
  <1>1. TravelInit => Sound
    BY InitTyped, InitWitnessed, InitTraced DEF Sound
  <1>2. Sound /\ [TravelNext]_Everything => Sound'
    BY NextTyped, NextWitnessed, NextTraced DEF Sound
  <1>3. QED
    BY <1>1, <1>2, PTL DEF TravelSpec, Everything

(***************************************************************************)
(* An answer leads from the stop asked for, not before the time asked for, *)
(* to the target, and every step follows the one before it: improving a    *)
(* label never tears the itineraries that were derived from it.            *)
(***************************************************************************)
THEOREM AnswersConnect == TravelSpec => []ItineraryConnects
  <1>1. Sound => ItineraryConnects
    <2> SUFFICES ASSUME Sound, phase = "found"
                 PROVE  /\ steps # <<>>
                        /\ steps[1].from = request.from
                        /\ request.depart <= Starts(steps[1])
                        /\ steps[Len(steps)].to = request.to
                        /\ \A i \in 1..(Len(steps) - 1) : Follows(i)
      BY DEF ItineraryConnects
    <2>1. stop \in reached /\ AtTheEnd
          /\ IF steps = <<>> THEN pred[stop] # None ELSE Chained
      BY DEF Sound, Traced
    <2>2. stop = request.from
      <3> SUFFICES ASSUME stop # request.from PROVE pred[stop] # None
        BY <2>1 DEF AtTheEnd
      <3>1. CASE RideWitness(stop)
        BY <3>1, StepFacts, RequestFacts DEF RideWitness, Sound
      <3>2. CASE WalkWitness(stop)
        <4>1. PICK t \in reached : pred[stop] = Foot(t, stop)
          BY <3>2 DEF WalkWitness
        <4>2. QED
          BY <2>1, <4>1, StepFacts DEF Sound, Typed, TravellerTypeOK, ScanTypeOK,
             TypeOK
      <3>3. QED
        BY <2>1, <3>1, <3>2 DEF Sound, Witnessed
    <2>3. steps # <<>> /\ Chained
      BY <2>1, <2>2 DEF Sound, Witnessed, AtStart
    <2>4. arr[stop] = request.depart
      BY <2>2 DEF Sound, Witnessed, AtStart
    <2>5. QED
      BY <2>2, <2>3, <2>4 DEF Chained
  <1>2. QED
    BY <1>1, SoundInvariant, PTL

(***************************************************************************)
(* Every step of an answer is one the request allows: no barred hop, no    *)
(* walk at a provisional stop, no walk shorter than its footpath.          *)
(***************************************************************************)
THEOREM AnswersAreTakeable == TravelSpec => []StepsTakeable
  <1>1. Sound => StepsTakeable
    BY DEF Sound, Traced, Chained, StepsTakeable, Typed, TravellerTypeOK,
       ScanTypeOK, TypeOK
  <1>2. QED
    BY <1>1, SoundInvariant, PTL

-----------------------------------------------------------------------------
(* Nobody arrives earlier *)

LEMMA InitComplete == TravelInit /\ Typed => Complete
  <1> SUFFICES ASSUME TravelInit, Typed PROVE Complete
    OBVIOUS
  <1>1. Scanned = {} /\ Usable \ left = {} /\ reached \ pending = {}
    BY DEF TravelInit, Init, Scanned, Usable
  <1>2. QED
    BY <1>1 DEF TravelInit, Init, Complete, InOrder, Late, ClosedRides, ClosedWalks,
       Over, EarliestArrival

LEMMA RelaxComplete ==
    Typed /\ Typed' /\ Complete /\ Relax /\ UNCHANGED traveller => Complete'
  <1> SUFFICES ASSUME Typed, Typed', Complete, Relax, UNCHANGED traveller
               PROVE  Complete'
    OBVIOUS
  <1>1. PICK s \in pending :
            /\ reached' = reached \cup Relaxable(s)
            /\ arr' = [t \in Stops |-> IF t \in Relaxable(s)
                            THEN arr[s] + request.walk[<<s, t>>] ELSE arr[t]]
            /\ pending' = (pending \ {s}) \cup Relaxable(s)
    BY DEF Relax, QueueAfter
  <1>2. UNCHANGED <<request, phase, left, at, clock>> /\ phase = "scan"
    BY DEF Relax, traveller
  <1>3. s \in reached /\ reached \subseteq Stops /\ pending \subseteq reached
        /\ \A t \in Stops : arr[t] \in Nat /\ arr'[t] \in Nat
    BY <1>1 DEF Typed, TravellerTypeOK, ScanTypeOK, TypeOK
  <1>4. \A t \in Relaxable(s) :
            /\ t \in Stops /\ request.walk[<<s, t>>] \in Nat
            /\ Improves(t, arr[s] + request.walk[<<s, t>>])
            /\ arr'[t] = arr[s] + request.walk[<<s, t>>]
    BY <1>1, RequestFacts DEF Relaxable, Walks
  <1>5. \A t \in Stops \ Relaxable(s) : arr'[t] = arr[t]
    BY <1>1
  <1>6. ASSUME NEW t \in Relaxable(s)
        PROVE  arr[s] <= arr'[t] /\ (t \in reached => arr'[t] < arr[t])
    <2> DEFINE w == request.walk[<<s, t>>]
    <2>1. w \in Nat /\ Improves(t, arr[s] + w) /\ arr'[t] = arr[s] + w
      BY <1>4
    <2>2. arr[s] \in Nat
      BY <1>3
    <2> HIDE DEF w
    <2>3. QED
      BY <2>1, <2>2 DEF Improves
  <1>7. \A c \in Scanned : c.dep \in Nat /\ c.arr \in Nat /\ c.to \in Stops
                            /\ c.from \in Stops /\ c.dep < arr[s]
    BY <1>1, RequestFacts DEF Complete, Late, Scanned, Hops
  <1>8. Scanned' = Scanned /\ Usable' = Usable /\ Usable \ left \subseteq Scanned
    BY <1>2 DEF Scanned, Usable
  <1>9. InOrder'
    BY <1>2, <1>8 DEF Complete, InOrder
  <1>10. ASSUME NEW c \in Scanned, NEW t \in pending' PROVE c.dep < arr'[t]
    <2>1. CASE t \in Relaxable(s)
      <3>1. c.dep < arr[s] /\ arr[s] <= arr'[t] /\ c.dep \in Nat
            /\ arr[s] \in Nat /\ arr'[t] \in Nat
        BY <1>3, <1>4, <1>6, <1>7, <2>1
      <3>2. QED
        BY <3>1
    <2>2. CASE t \notin Relaxable(s)
      <3>1. t \in pending /\ arr'[t] = arr[t]
        BY <1>1, <1>3, <1>5, <2>2
      <3>2. QED
        BY <3>1 DEF Complete, Late
    <2>3. QED
      BY <2>1, <2>2
  <1>11. ASSUME NEW c \in Usable \ left, c.from \in reached', arr'[c.from] <= c.dep
         PROVE  c.to \in reached' /\ arr'[c.to] <= c.arr
    <2>1. c \in Scanned
      BY <1>8
    <2>2. c.from \notin Relaxable(s)
      <3> SUFFICES ASSUME c.from \in Relaxable(s) PROVE FALSE
        OBVIOUS
      <3>1. c.dep < arr[s] /\ arr[s] <= arr'[c.from] /\ c.dep \in Nat
            /\ arr[s] \in Nat /\ arr'[c.from] \in Nat
        BY <1>3, <1>6, <1>7, <2>1
      <3>2. QED
        BY <1>11, <3>1
    <2>3. c.from \in reached /\ arr[c.from] <= c.dep
      BY <1>1, <1>3, <1>5, <1>11, <2>2
    <2>4. c.to \in reached /\ arr[c.to] <= c.arr
      BY <2>3 DEF Complete, ClosedRides
    <2>5. QED
      BY <1>1, <1>3, <1>4, <1>5, <1>6, <1>7, <2>1, <2>4
  <1>12. ASSUME NEW u \in reached' \ pending', NEW t \in Stops,
                <<u, t>> \in DOMAIN request.walk,
                u \notin request.provisional, t \notin request.provisional
         PROVE  t \in reached' /\ arr'[t] <= arr'[u] + request.walk[<<u, t>>]
    <2>1. u \in reached /\ u \notin Relaxable(s) /\ arr'[u] = arr[u]
          /\ request.walk[<<u, t>>] \in Nat
      BY <1>1, <1>3, <1>5, <1>12, RequestFacts
    <2>2. CASE u = s
      <3>1. CASE t \in Relaxable(s)
        BY <1>1, <1>3, <1>4, <2>1, <2>2, <3>1
      <3>2. CASE t \notin Relaxable(s)
        <4>1. ~Improves(t, arr[s] + request.walk[<<s, t>>])
          BY <1>12, <2>2, <3>2 DEF Relaxable, Walks
        <4>2. t \in reached /\ arr'[t] = arr[t] /\ arr'[u] = arr[s]
              /\ ~(arr[t] > arr[s] + request.walk[<<s, t>>])
          BY <1>5, <2>1, <2>2, <3>2, <4>1 DEF Improves
        <4> DEFINE w == request.walk[<<s, t>>]
        <4>3. arr[t] \in Nat /\ arr[s] \in Nat /\ w \in Nat
          BY <1>3, <2>1, <2>2
        <4>4. t \in reached'
          BY <1>1, <4>2
        <4>5. arr'[t] <= arr'[u] + w
          BY <4>2, <4>3
        <4>6. QED
          BY <2>2, <4>4, <4>5
      <3>3. QED
        BY <3>1, <3>2
    <2>3. CASE u # s
      <3>1. u \in reached \ pending
        BY <1>1, <1>12, <2>1, <2>3
      <3>2. t \in reached /\ arr[t] <= arr[u] + request.walk[<<u, t>>]
        BY <1>12, <3>1 DEF Complete, ClosedWalks
      <3>3. t \in reached' /\ arr'[t] <= arr[t]
        BY <1>1, <1>3, <1>5, <1>6, <3>2
      <3>4. QED
        BY <1>3, <2>1, <3>2, <3>3
    <2>4. QED
      BY <2>2, <2>3
  <1>13. QED
    BY <1>2, <1>8, <1>9, <1>10, <1>11, <1>12 DEF Complete, Late, ClosedRides,
       ClosedWalks, Over, EarliestArrival

LEMMA RideComplete ==
    ASSUME RidesTakeTime, Typed, Typed', Complete, Ride, UNCHANGED traveller
    PROVE  Complete'
  <1>1. PICK c \in left :
            /\ Due(c)
            /\ left' = left \ {c}
            /\ IF Boardable(c)
               THEN /\ reached' = reached \cup {c.to}
                    /\ arr' = [arr EXCEPT ![c.to] = c.arr]
                    /\ pending' = {c.to}
               ELSE UNCHANGED <<labels, pending>>
    BY DEF Ride, Recorded
  <1>2. UNCHANGED <<request, phase, at, clock>> /\ phase = "scan" /\ pending = {}
    BY DEF Ride, traveller
  <1>3. /\ reached \subseteq Stops /\ left \subseteq request.conns
        /\ \A t \in Stops : arr[t] \in Nat /\ arr'[t] \in Nat
    BY DEF Typed, TravellerTypeOK, ScanTypeOK, TypeOK
  <1>4. \A x \in request.conns : x.dep \in Nat /\ x.arr \in Nat
            /\ x.from \in Stops /\ x.to \in Stops /\ x.dep < x.arr
    BY RequestFacts DEF Hops, RidesTakeTime, Typed
  <1>5. c \in request.conns
    BY <1>1, <1>3
  <1>6. Scanned' = Scanned \cup {c} /\ Usable' = Usable
        /\ Scanned \subseteq request.conns /\ Usable \subseteq request.conns
    BY <1>1, <1>2, <1>5 DEF Scanned, Usable
  <1>7. \A x \in Scanned : x.dep <= c.dep
    BY <1>1 DEF Complete, InOrder
  <1>8. InOrder'
    BY <1>1, <1>6 DEF Complete, InOrder, Due
  <1>9. CASE ~Boardable(c)
    <2>1. UNCHANGED <<reached, arr, pending>>
      BY <1>1, <1>9 DEF labels
    <2>2. ASSUME NEW x \in Usable \ left', x.from \in reached, arr[x.from] <= x.dep
          PROVE  x.to \in reached /\ arr[x.to] <= x.arr
      <3>1. CASE x = c
        BY <1>3, <1>4, <1>5, <1>9, <2>2, <3>1 DEF Boardable, Improves
      <3>2. CASE x # c
        BY <1>1, <2>2, <3>2 DEF Complete, ClosedRides
      <3>3. QED
        BY <3>1, <3>2
    <2>3. QED
      BY <1>2, <1>6, <1>8, <2>1, <2>2 DEF Complete, Late, ClosedRides, ClosedWalks,
         Over, EarliestArrival
  <1>10. CASE Boardable(c)
    <2>1. reached' = reached \cup {c.to} /\ arr' = [arr EXCEPT ![c.to] = c.arr]
          /\ pending' = {c.to} /\ Improves(c.to, c.arr)
      BY <1>1, <1>10 DEF Boardable
    <2>2. arr'[c.to] = c.arr /\ (c.to \in reached => c.arr < arr[c.to])
          /\ \A t \in Stops \ {c.to} : arr'[t] = arr[t]
      BY <1>3, <1>4, <1>5, <2>1 DEF Improves, Typed, TravellerTypeOK, ScanTypeOK,
         TypeOK
    <2>3. \A x \in Scanned' : x.dep < arr'[c.to]
      BY <1>4, <1>5, <1>6, <1>7, <2>2
    <2>4. Late'
      BY <2>1, <2>3 DEF Late
    <2>5. ASSUME NEW x \in Usable \ left', x.from \in reached', arr'[x.from] <= x.dep
          PROVE  x.to \in reached' /\ arr'[x.to] <= x.arr
      <3>1. x \in Scanned' /\ x \in request.conns
        BY <1>1, <1>6, <2>5 DEF Scanned
      <3>2. x.from # c.to
        BY <1>3, <1>4, <2>3, <2>5, <3>1
      <3>3. x.from \in reached /\ arr[x.from] <= x.dep
        BY <1>4, <2>1, <2>2, <2>5, <3>1, <3>2
      <3>4. CASE x = c
        BY <1>4, <1>5, <2>1, <2>2, <3>4
      <3>5. CASE x # c
        <4>1. x.to \in reached /\ arr[x.to] <= x.arr
          BY <1>1, <2>5, <3>3, <3>5 DEF Complete, ClosedRides
        <4>2. arr'[x.to] <= arr[x.to]
          BY <1>3, <1>4, <1>5, <2>2, <3>1, <4>1
        <4>3. QED
          BY <1>3, <1>4, <2>1, <3>1, <4>1, <4>2
      <3>6. QED
        BY <3>4, <3>5
    <2>6. ASSUME NEW u \in reached' \ pending', NEW t \in Stops,
                 <<u, t>> \in DOMAIN request.walk,
                 u \notin request.provisional, t \notin request.provisional
          PROVE  t \in reached' /\ arr'[t] <= arr'[u] + request.walk[<<u, t>>]
      <3>1. u \in reached \ pending /\ u # c.to /\ arr'[u] = arr[u]
            /\ u \in Stops /\ request.walk[<<u, t>>] \in Nat
        BY <1>2, <1>3, <2>1, <2>2, <2>6, RequestFacts
      <3>2. t \in reached /\ arr[t] <= arr[u] + request.walk[<<u, t>>]
        BY <2>6, <3>1 DEF Complete, ClosedWalks
      <3>3. arr'[t] <= arr[t]
        BY <1>3, <1>4, <1>5, <2>2, <3>2
      <3>4. QED
        BY <1>3, <2>1, <3>1, <3>2, <3>3
    <2>7. QED
      BY <1>2, <1>6, <1>8, <2>4, <2>5, <2>6 DEF Complete, ClosedRides, ClosedWalks,
         Over, EarliestArrival
  <1>11. QED
    BY <1>9, <1>10

LEMMA ScanEndsComplete ==
    Typed /\ Witnessed /\ Complete /\ ScanEnds /\ UNCHANGED traveller => Complete'
  <1> SUFFICES ASSUME Typed, Witnessed, Complete, ScanEnds, UNCHANGED traveller
               PROVE  Complete'
    OBVIOUS
  <1>1. UNCHANGED <<request, reached, arr, pred, pending, left, at, clock>>
        /\ phase = "scan" /\ phase' # "scan" /\ pending = {} /\ left = {}
    BY DEF ScanEnds, labels, scan, traveller
  <1>2. at = request.from /\ clock = request.depart
    BY <1>1 DEF Complete
  <1>3. at \in reached /\ arr[at] <= clock
    BY <1>2, RequestFacts DEF Witnessed, AtStart
  <1>4. QED
    BY <1>1, <1>3 DEF Complete, InOrder, Late, ClosedRides, ClosedWalks, Over,
       EarliestArrival, Scanned, Usable

(***************************************************************************)
(* The traveller rides and walks on from a label that is early enough, and *)
(* the labels are closed under both.                                       *)
(***************************************************************************)
LEMMA TravelComplete == Typed /\ Complete /\ Travel => Complete'
  <1> SUFFICES ASSUME Typed, Complete, Travel PROVE Complete'
    OBVIOUS
  <1>1. UNCHANGED <<request, phase, reached, arr, pending, left>> /\ phase # "scan"
    BY DEF Travel, vars, labels, scan
  <1>2. pending = {} /\ left = {} /\ at \in reached /\ arr[at] <= clock
    BY <1>1 DEF Complete, Over, EarliestArrival
  <1>3. clock \in Nat /\ at \in Stops /\ \A s \in Stops : arr[s] \in Nat
    BY DEF Typed, TravellerTypeOK, ScanTypeOK, TypeOK
  <1>4. CASE Board
    <2>1. PICK c \in Usable : c.from = at /\ clock <= c.dep /\ at' = c.to
                              /\ clock' = c.arr
      BY <1>4 DEF Board
    <2>2. c.dep \in Nat /\ c.arr \in Nat
      BY RequestFacts DEF Hops
    <2>3. c.from \in reached /\ arr[c.from] <= c.dep
      BY <1>2, <1>3, <2>1, <2>2
    <2>4. c.to \in reached /\ arr[c.to] <= c.arr
      BY <1>2, <2>3 DEF Complete, ClosedRides
    <2>5. at' \in reached' /\ arr'[at'] <= clock'
      BY <1>1, <2>1, <2>4
    <2>6. QED
      BY <1>1, <2>5 DEF Complete, InOrder, Late, ClosedRides, ClosedWalks, Over,
         EarliestArrival, Scanned, Usable
  <1>5. CASE WalkOn
    <2>1. PICK s \in Stops :
              /\ <<at, s>> \in DOMAIN request.walk
              /\ at \notin request.provisional /\ s \notin request.provisional
              /\ at' = s /\ clock' = clock + request.walk[<<at, s>>]
      BY <1>5 DEF WalkOn
    <2>2. request.walk[<<at, s>>] \in Nat
      BY <2>1, RequestFacts
    <2>3. s \in reached /\ arr[s] <= arr[at] + request.walk[<<at, s>>]
      BY <1>2, <2>1 DEF Complete, ClosedWalks
    <2>4. arr[s] <= clock + request.walk[<<at, s>>]
      BY <1>2, <1>3, <2>2, <2>3
    <2>5. at' \in reached' /\ arr'[at'] <= clock'
      BY <1>1, <2>1, <2>3, <2>4
    <2>6. QED
      BY <1>1, <2>5 DEF Complete, InOrder, Late, ClosedRides, ClosedWalks, Over,
         EarliestArrival, Scanned, Usable
  <1>6. QED
    BY <1>4, <1>5 DEF Travel

LEMMA AfterScanComplete ==
    /\ Complete /\ phase # "scan" /\ phase' # "scan"
    /\ UNCHANGED <<request, labels, scan, traveller>>
    => Complete'
  BY DEF Complete, InOrder, Late, ClosedRides, ClosedWalks, Over, EarliestArrival,
     Scanned, Usable, labels, scan, traveller

LEMMA StutterComplete == Complete /\ UNCHANGED Everything => Complete'
  BY DEF Complete, InOrder, Late, ClosedRides, ClosedWalks, Over, EarliestArrival,
     Scanned, Usable, Everything, vars, labels, scan, traveller

(***************************************************************************)
(* Where every ride takes time, nobody who travels the network arrives     *)
(* anywhere before the scan says one can, however many rides and walks the *)
(* journey takes: the single pass over the connections is enough.  With    *)
(* rides that take no time a stop in reach may not be found.               *)
(***************************************************************************)
THEOREM NobodyArrivesEarlier ==
    ASSUME RidesTakeTime
    PROVE  TravelSpec => []EarliestArrival
  <1>1. TravelInit => Complete
    BY InitTyped, InitComplete
  <1>2. Sound /\ Sound' /\ Complete /\ [TravelNext]_Everything => Complete'
    <2> SUFFICES ASSUME Sound, Sound', Complete, [TravelNext]_Everything
                 PROVE  Complete'
      OBVIOUS
    <2> USE DEF Sound
    <2>1. CASE Relax /\ UNCHANGED traveller
      BY <2>1, RelaxComplete
    <2>2. CASE Ride /\ UNCHANGED traveller
      BY <2>2, RideComplete, RidesTakeTime
    <2>3. CASE ScanEnds /\ UNCHANGED traveller
      BY <2>3, ScanEndsComplete
    <2>4. CASE StepBack /\ UNCHANGED scan /\ UNCHANGED traveller
      BY <2>4, AfterScanComplete DEF StepBack
    <2>5. CASE Answer /\ UNCHANGED scan /\ UNCHANGED traveller
      BY <2>5, AfterScanComplete DEF Answer
    <2>6. CASE Travel
      BY <2>6, TravelComplete
    <2>7. CASE UNCHANGED Everything
      BY <2>7, StutterComplete
    <2>8. QED
      BY <2>1, <2>2, <2>3, <2>4, <2>5, <2>6, <2>7 DEF TravelNext, Search
  <1>3. Complete => EarliestArrival
    BY DEF Complete
  <1>4. QED
    BY <1>1, <1>2, <1>3, SoundInvariant, PTL DEF TravelSpec, Everything
=============================================================================
