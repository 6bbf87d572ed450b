---------------------------- MODULE RaptorProofs ----------------------------
(***************************************************************************)
(* What is proved of the round-based engine, for every network and every   *)
(* request: the steps of an answer are those of the timetable and of the   *)
(* footpaths; and where no hop is implausibly fast, they connect.          *)
(*                                                                         *)
(* Labels are improved by a ride or by the walks from one stop, in the     *)
(* rounds and in the scan they fall back to.  Either keeps every label     *)
(* grounded in a step that gave it (Grounded) and, from a stop that has a  *)
(* label itself, rooted in the start (Rooted).                             *)
(***************************************************************************)
EXTENDS Raptor, TLAPS

Now == [reached |-> reached, arr |-> arr, pred |-> pred]

LabelsTyped(L) ==
    /\ L.reached \subseteq Stops
    /\ L.arr \in [Stops -> Nat]
    /\ L.pred \in [Stops -> Steps \cup {None}]

(* Why a stop has a predecessor: a walk from a stop with a label, or a hop *)
(* of the timetable that arrives when the label says.                      *)
WalkedTo(L, e) ==
    /\ e = Foot(e.from, e.to)
    /\ e.from \in L.reached /\ <<e.from, e.to>> \in DOMAIN request.walk
    /\ L.arr[e.from] + request.walk[<<e.from, e.to>>] <= L.arr[e.to]

GroundedAt(L, s) ==
    /\ s \in L.reached /\ L.pred[s].to = s
    /\ IF Walked(L.pred[s]) THEN WalkedTo(L, L.pred[s])
       ELSE SomeDay(L.pred[s]) /\ L.pred[s].arr = L.arr[s]

Grounded(L) == \A s \in Stops : L.pred[s] # None => GroundedAt(L, s)

(* Labels lead back to the start.                                          *)
RootedAt(L, s) ==
    /\ L.pred[s] # None /\ L.pred[s].from \in L.reached
    /\ ~Walked(L.pred[s]) => L.arr[L.pred[s].from] <= L.pred[s].dep

Rooted(L) ==
    /\ request.from \in L.reached /\ L.pred[request.from] = None
    /\ L.arr[request.from] = request.depart
    /\ \A s \in L.reached : request.depart <= L.arr[s]
    /\ \A s \in L.reached \ {request.from} : RootedAt(L, s)

-----------------------------------------------------------------------------
(* Arithmetic of days.                                                     *)
LEMMA WholeDays ==
    ASSUME NEW d \in Nat \ {0}, NEW n \in Nat
    PROVE  /\ (n + d - 1) \div d \in Nat
           /\ d * ((n + d - 1) \div d) \in Nat
           /\ d * ((n + d - 1) \div d) >= n
           /\ (d * ((n + d - 1) \div d)) % d = 0
<1> DEFINE q == (n + d - 1) \div d
<1>1. q \in Nat
  OBVIOUS
<1>2. d * q >= n /\ d * q \in Nat
  OBVIOUS
<1>3. (d * q) % d = 0
  <2> HIDE DEF q
  <2> QED BY <1>1
<1> QED
  BY <1>1, <1>2, <1>3

LEMMA NotBeforeIsLater ==
    ASSUME NEW time \in Nat, NEW bound \in Nat
    PROVE  /\ NotBefore(time, bound) \in Nat
           /\ NotBefore(time, bound) >= time /\ NotBefore(time, bound) >= bound
           /\ (NotBefore(time, bound) - time) % Day = 0
<1>1. CASE time >= bound
  BY <1>1, DayAssumption DEF NotBefore
<1>2. CASE time < bound
  <2> DEFINE n == bound - time
             m == Day * ((n + Day - 1) \div Day)
  <2>1. n \in Nat
    BY <1>2
  <2>2. m \in Nat /\ m >= n /\ m % Day = 0
    BY <2>1, DayAssumption, WholeDays
  <2>3. NotBefore(time, bound) = time + m
    BY <1>2 DEF NotBefore
  <2> HIDE DEF m
  <2> QED
    BY <2>2, <2>3
<1> QED
  BY <1>1, <1>2

-----------------------------------------------------------------------------
(* What is known of a request, and of the steps of labels.                 *)
LEMMA RequestFacts ==
    ASSUME request \in Requests
    PROVE  /\ IsRequest(request)
           /\ request.from \in Stops /\ request.to \in Stops /\ request.depart \in Nat
           /\ \A c \in request.conns : c \in Hops /\ c.dep <= c.arr
           /\ \A q \in DOMAIN request.walk : request.walk[q] \in Nat
           /\ Usable \subseteq request.conns
  BY RequestsAssumption DEF IsRequest, Usable

LEMMA StepFacts ==
    /\ \A s, t \in Stops : Foot(s, t) \in Steps
    /\ Hops \subseteq Steps
    /\ None \notin Steps
    /\ \A e \in Hops : ~Walked(e)
  BY TokensAssumption DEF Foot, Steps, Hops, Walked

(* The labels with the walks from s to the stops of W tried, or with a     *)
(* ride on e taken.                                                        *)
Walk(L, s, W) ==
    [reached |-> L.reached \cup W,
     arr |-> [t \in Stops |-> IF t \in W THEN L.arr[s] + request.walk[<<s, t>>] ELSE L.arr[t]],
     pred |-> [t \in Stops |-> IF t \in W THEN Foot(s, t) ELSE L.pred[t]]]

Rode(L, e) ==
    [reached |-> L.reached \cup {e.to},
     arr |-> [L.arr EXCEPT ![e.to] = e.arr],
     pred |-> [L.pred EXCEPT ![e.to] = e]]

(* Labels that were improved keep what grounds the ones that stay.         *)
LEMMA StaysGrounded ==
    ASSUME request \in Requests, NEW L, NEW M, LabelsTyped(L), LabelsTyped(M),
           L.reached \subseteq M.reached, \A t \in L.reached : M.arr[t] <= L.arr[t],
           NEW s \in L.reached, M.arr[s] = L.arr[s], M.pred[s] = L.pred[s], L.pred[s] # None
    PROVE  /\ GroundedAt(L, s) => GroundedAt(M, s)
           /\ RootedAt(L, s) => RootedAt(M, s)
<1> DEFINE e == L.pred[s]
<1>1. e \in Steps /\ s \in Stops
  BY DEF LabelsTyped
<1>2. ASSUME GroundedAt(L, s)
      PROVE  GroundedAt(M, s)
  <2>1. CASE Walked(e)
    <3>1. /\ e = Foot(e.from, s) /\ e.to = s
          /\ e.from \in L.reached /\ <<e.from, s>> \in DOMAIN request.walk
          /\ L.arr[e.from] + request.walk[<<e.from, s>>] <= L.arr[s]
      BY <1>2, <2>1 DEF GroundedAt, WalkedTo
    <3>2. /\ L.arr[e.from] \in Nat /\ M.arr[e.from] \in Nat /\ M.arr[e.from] <= L.arr[e.from]
          /\ request.walk[<<e.from, s>>] \in Nat /\ L.arr[s] \in Nat
      BY <3>1, RequestFacts DEF LabelsTyped
    <3>3. M.arr[e.from] + request.walk[<<e.from, s>>] <= M.arr[s]
      BY <3>1, <3>2
    <3> QED
      BY <2>1, <3>1, <3>3 DEF GroundedAt, WalkedTo
  <2>2. CASE ~Walked(e)
    BY <1>2, <2>2 DEF GroundedAt
  <2> QED
    BY <2>1, <2>2
<1>3. ASSUME RootedAt(L, s)
      PROVE  RootedAt(M, s)
  <2>1. /\ e.from \in L.reached /\ e.from \in M.reached
        /\ M.arr[e.from] <= L.arr[e.from] /\ L.arr[e.from] \in Nat /\ M.arr[e.from] \in Nat
        /\ e.dep \in Nat
    BY <1>1, <1>3 DEF RootedAt, LabelsTyped, Steps
  <2> QED
    BY <1>3, <2>1 DEF RootedAt
<1> QED
  BY <1>2, <1>3

LEMMA WalkImproves ==
    ASSUME request \in Requests, NEW L, LabelsTyped(L), Grounded(L), NEW s \in L.reached,
           NEW W \in SUBSET Stops,
           \A t \in W : /\ <<s, t>> \in DOMAIN request.walk
                        /\ \/ t \notin L.reached
                           \/ L.arr[s] + request.walk[<<s, t>>] < L.arr[t]
    PROVE  /\ LabelsTyped(Walk(L, s, W)) /\ Grounded(Walk(L, s, W))
           /\ Rooted(L) => Rooted(Walk(L, s, W))
<1> DEFINE M == Walk(L, s, W)
<1>1. s \in Stops /\ L.arr[s] \in Nat /\ \A t \in W : request.walk[<<s, t>>] \in Nat
  BY RequestFacts DEF LabelsTyped
<1>2. /\ M.reached = L.reached \cup W
      /\ \A t \in W : M.arr[t] = L.arr[s] + request.walk[<<s, t>>] /\ M.pred[t] = Foot(s, t)
      /\ \A t \in Stops \ W : M.arr[t] = L.arr[t] /\ M.pred[t] = L.pred[t]
  BY DEF Walk
<1>3. LabelsTyped(M)
  <2>1. M.arr \in [Stops -> Nat]
    BY <1>1 DEF Walk, LabelsTyped
  <2>2. M.pred \in [Stops -> Steps \cup {None}]
    BY <1>1, StepFacts DEF Walk, LabelsTyped
  <2> QED
    BY <1>2, <2>1, <2>2 DEF LabelsTyped
<1> HIDE DEF M
<1>4. s \notin W
  <2> SUFFICES ASSUME s \in W
               PROVE  FALSE
    OBVIOUS
  <2>1. L.arr[s] + request.walk[<<s, s>>] < L.arr[s] /\ request.walk[<<s, s>>] \in Nat
    BY <1>1
  <2> QED
    BY <1>1, <2>1
<1>5. ASSUME NEW t \in L.reached
      PROVE  M.arr[t] <= L.arr[t]
  <2>1. t \in Stops /\ L.arr[t] \in Nat
    BY DEF LabelsTyped
  <2>2. CASE t \in W
    <3>1. L.arr[s] + request.walk[<<s, t>>] < L.arr[t] /\ request.walk[<<s, t>>] \in Nat
      BY <1>1, <2>2
    <3>2. M.arr[t] = L.arr[s] + request.walk[<<s, t>>]
      BY <1>2, <2>2
    <3> QED
      BY <1>1, <2>1, <3>1, <3>2
  <2>3. CASE t \notin W
    BY <1>2, <2>1, <2>3
  <2> QED
    BY <2>2, <2>3
<1>6. M.arr[s] = L.arr[s] /\ s \in M.reached
  BY <1>1, <1>2, <1>4
<1>7. ASSUME NEW t \in W
      PROVE  GroundedAt(M, t) /\ RootedAt(M, t)
  <2>1. /\ M.pred[t] = Foot(s, t) /\ M.pred[t].from = s /\ M.pred[t].to = t /\ Walked(M.pred[t])
        /\ M.arr[t] = L.arr[s] + request.walk[<<s, t>>]
    BY <1>2 DEF Foot, Walked
  <2>2. M.arr[s] + request.walk[<<s, t>>] <= M.arr[t]
    BY <1>1, <1>6, <2>1
  <2>3. M.pred[t] # None
    BY <1>1, <2>1, StepFacts
  <2> QED
    BY <1>2, <1>6, <2>1, <2>2, <2>3 DEF GroundedAt, WalkedTo, RootedAt
<1>8. Grounded(M)
  <2> SUFFICES ASSUME NEW t \in Stops \ W, M.pred[t] # None
               PROVE  GroundedAt(M, t)
    BY <1>7 DEF Grounded
  <2>1. M.arr[t] = L.arr[t] /\ M.pred[t] = L.pred[t] /\ GroundedAt(L, t) /\ t \in L.reached
    BY <1>2 DEF Grounded, GroundedAt
  <2> QED
    BY <1>2, <1>3, <1>5, <2>1, StaysGrounded
<1>9. ASSUME Rooted(L)
      PROVE  Rooted(M)
  <2>1. request.from \notin W
    <3> SUFFICES ASSUME request.from \in W
                 PROVE  FALSE
      OBVIOUS
    <3>1. L.arr[s] + request.walk[<<s, request.from>>] < L.arr[request.from]
      BY <1>9 DEF Rooted
    <3>2. L.arr[request.from] <= L.arr[s] /\ L.arr[request.from] \in Nat
      BY <1>9, RequestFacts DEF Rooted
    <3> QED
      BY <1>1, <3>1, <3>2
  <2>2. request.from \in M.reached /\ M.pred[request.from] = None /\ M.arr[request.from] = request.depart
    BY <1>2, <1>9, <2>1, RequestFacts DEF Rooted
  <2>3. ASSUME NEW t \in M.reached
        PROVE  request.depart <= M.arr[t]
    <3>1. CASE t \in W
      <4>1. request.depart <= L.arr[s] /\ request.depart \in Nat /\ request.walk[<<s, t>>] \in Nat
        BY <1>1, <1>9, <3>1, RequestFacts DEF Rooted
      <4>2. M.arr[t] = L.arr[s] + request.walk[<<s, t>>]
        BY <1>2, <3>1
      <4> QED
        BY <1>1, <4>1, <4>2
    <3>2. CASE t \notin W
      BY <1>2, <1>9, <3>2 DEF Rooted, LabelsTyped
    <3> QED
      BY <3>1, <3>2
  <2>4. ASSUME NEW t \in M.reached \ {request.from}
        PROVE  RootedAt(M, t)
    <3>1. CASE t \in W
      BY <1>7, <3>1
    <3>2. CASE t \notin W
      <4>1. t \in L.reached \ {request.from} /\ M.arr[t] = L.arr[t] /\ M.pred[t] = L.pred[t]
        BY <1>2, <3>2 DEF LabelsTyped
      <4>2. RootedAt(L, t) /\ L.pred[t] # None
        BY <1>9, <4>1 DEF Rooted, RootedAt
      <4> QED
        BY <1>2, <1>3, <1>5, <4>1, <4>2, StaysGrounded
    <3> QED
      BY <3>1, <3>2
  <2> QED
    BY <2>2, <2>3, <2>4 DEF Rooted
<1> QED
  BY <1>3, <1>8, <1>9 DEF M

LEMMA RideImproves ==
    ASSUME request \in Requests, NEW L, LabelsTyped(L), Grounded(L),
           NEW e \in Hops, e.dep <= e.arr, SomeDay(e),
           e.to \notin L.reached \/ e.arr < L.arr[e.to]
    PROVE  /\ LabelsTyped(Rode(L, e)) /\ Grounded(Rode(L, e))
           /\ Rooted(L) /\ e.from \in L.reached /\ L.arr[e.from] <= e.dep => Rooted(Rode(L, e))
<1> DEFINE M == Rode(L, e)
<1>1. e \in Steps /\ e.to \in Stops /\ e.from \in Stops /\ e.dep \in Nat /\ e.arr \in Nat /\ ~Walked(e)
  BY StepFacts DEF Hops
<1>2. /\ M.reached = L.reached \cup {e.to} /\ M.arr[e.to] = e.arr /\ M.pred[e.to] = e
      /\ \A t \in Stops \ {e.to} : M.arr[t] = L.arr[t] /\ M.pred[t] = L.pred[t]
  BY <1>1 DEF Rode, LabelsTyped
<1>3. LabelsTyped(M)
  BY <1>1 DEF Rode, LabelsTyped
<1> HIDE DEF M
<1>4. \A t \in L.reached : M.arr[t] <= L.arr[t]
  BY <1>1, <1>2 DEF LabelsTyped
<1>5. Grounded(M)
  <2> SUFFICES ASSUME NEW t \in Stops, M.pred[t] # None
               PROVE  GroundedAt(M, t)
    BY DEF Grounded
  <2>1. CASE t = e.to
    BY <1>1, <1>2, <2>1 DEF GroundedAt
  <2>2. CASE t # e.to
    <3>1. M.arr[t] = L.arr[t] /\ M.pred[t] = L.pred[t] /\ GroundedAt(L, t) /\ t \in L.reached
      BY <1>2, <2>2 DEF Grounded, GroundedAt
    <3> QED
      BY <1>2, <1>3, <1>4, <3>1, StaysGrounded
  <2> QED
    BY <2>1, <2>2
<1>6. ASSUME Rooted(L), e.from \in L.reached, L.arr[e.from] <= e.dep
      PROVE  Rooted(M)
  <2>1. /\ L.arr[e.from] \in Nat /\ request.depart \in Nat
        /\ request.depart <= L.arr[e.from] /\ L.arr[e.from] <= e.arr
    BY <1>1, <1>6, RequestFacts DEF Rooted, LabelsTyped
  <2>2. e.to # e.from
    BY <1>1, <1>6, <2>1
  <2>3. e.to # request.from
    BY <1>1, <1>6, <2>1 DEF Rooted
  <2>4. request.from \in M.reached /\ M.pred[request.from] = None /\ M.arr[request.from] = request.depart
    BY <1>2, <1>6, <2>3, RequestFacts DEF Rooted
  <2>5. \A t \in M.reached : request.depart <= M.arr[t]
    BY <1>1, <1>2, <1>6, <2>1 DEF Rooted, LabelsTyped
  <2>6. ASSUME NEW t \in M.reached \ {request.from}
        PROVE  RootedAt(M, t)
    <3>1. CASE t = e.to
      <4>1. M.pred[t] = e /\ e # None /\ e.from \in M.reached /\ M.arr[e.from] <= e.dep
        BY <1>1, <1>2, <1>6, <2>2, <3>1, StepFacts
      <4> QED
        BY <4>1 DEF RootedAt
    <3>2. CASE t # e.to
      <4>1. t \in L.reached \ {request.from} /\ M.arr[t] = L.arr[t] /\ M.pred[t] = L.pred[t]
        BY <1>2, <3>2 DEF LabelsTyped
      <4>2. RootedAt(L, t) /\ L.pred[t] # None
        BY <1>6, <4>1 DEF Rooted, RootedAt
      <4> QED
        BY <1>2, <1>3, <1>4, <4>1, <4>2, StaysGrounded
    <3> QED
      BY <3>1, <3>2
  <2> QED
    BY <2>4, <2>5, <2>6 DEF Rooted
<1> QED
  BY <1>3, <1>5, <1>6 DEF M

(* The labels a search starts from.                                        *)
Start == [reached |-> {request.from}, arr |-> StartArr(request), pred |-> StartPred]

LEMMA StartLabels ==
    ASSUME request \in Requests
    PROVE  LabelsTyped(Start) /\ Grounded(Start) /\ Rooted(Start)
<1>1. request.from \in Stops /\ request.depart \in Nat
  BY RequestFacts
<1>2. /\ Start.reached = {request.from} /\ Start.arr = StartArr(request)
      /\ Start.pred = StartPred
  BY DEF Start
<1>3. LabelsTyped(Start)
  BY <1>1, <1>2 DEF LabelsTyped, StartArr, StartPred
<1>4. \A s \in Stops : Start.pred[s] = None
  BY <1>2 DEF StartPred
<1>5. Start.arr[request.from] = request.depart
  BY <1>1, <1>2 DEF StartArr
<1> QED
  BY <1>1, <1>2, <1>3, <1>4, <1>5 DEF Grounded, Rooted

(* What holds of labels a step computes holds of them after the step.      *)
LEMMA Carried ==
    ASSUME request' = request, NEW L,
           reached' = L.reached, arr' = L.arr, pred' = L.pred
    PROVE  /\ LabelsTyped(L) => LabelsTyped(Now)'
           /\ Grounded(L) => Grounded(Now)'
           /\ Rooted(L) => Rooted(Now)'
<1>1. LabelsTyped(L) => LabelsTyped(Now)'
  BY DEF LabelsTyped, Now
<1>2. Grounded(L) => Grounded(Now)'
  BY DEF Grounded, GroundedAt, WalkedTo, SomeDay, Usable, Now
<1>3. Rooted(L) => Rooted(Now)'
  BY DEF Rooted, RootedAt, Now
<1> QED
  BY <1>1, <1>2, <1>3

LEMMA FrozenLabels ==
    ASSUME request' = request, UNCHANGED labels
    PROVE  /\ LabelsTyped(Now) => LabelsTyped(Now)'
           /\ Grounded(Now) => Grounded(Now)'
           /\ Rooted(Now) => Rooted(Now)'
<1>1. reached' = Now.reached /\ arr' = Now.arr /\ pred' = Now.pred
  BY DEF labels, Now
<1> QED
  BY <1>1, Carried

-----------------------------------------------------------------------------
(* The trip that is ridden has a hop from where it is.                     *)
AboardTyped ==
    \/ aboard = None
    \/ \E t \in DOMAIN request.timetable :
          /\ t \notin request.excluded
          /\ \E i \in 1..(Len(request.timetable[t]) - 1) : aboard = <<t, i>>

RaptorTyped ==
    /\ request \in Requests
    /\ phase \in {"rounds", "scan", "trace"} \cup Answered
    /\ stop \in Stops /\ steps \in Seq(Steps)
    /\ pending \subseteq reached /\ left \subseteq request.conns
    /\ phase = "rounds" => /\ marked \subseteq reached /\ improved \subseteq reached
                           /\ AboardTyped

Tracing == phase \in {"trace", "found", "refused"}

StepStands(e) == IF Walked(e) THEN WalkedTo(Now, e) ELSE SomeDay(e)

StepsStand ==
    /\ ~Tracing => steps = <<>> /\ stop = request.to
    /\ Tracing => \A i \in 1..Len(steps) : StepStands(steps[i])

RaptorInvariant == RaptorTyped /\ LabelsTyped(Now) /\ Grounded(Now) /\ StepsStand

(* The hop from a stop of a trip is one of the day's connections.          *)
LEMMA HopIsConnection ==
    ASSUME request \in Requests, NEW t \in DOMAIN request.timetable,
           NEW i \in 1..(Len(request.timetable[t]) - 1)
    PROVE  /\ Hop(t, request.timetable[t], i) \in request.conns
           /\ Hop(t, request.timetable[t], i).trip = t
           /\ Hop(t, request.timetable[t], i).from = request.timetable[t][i].stop
           /\ Hop(t, request.timetable[t], i).to = request.timetable[t][i + 1].stop
<1>1. request.conns = Connections(request.timetable)
  BY RaptorAssumption
<1>2. Hop(t, request.timetable[t], i) \in Connections(request.timetable)
  BY DEF Connections
<1> QED
  BY <1>1, <1>2 DEF Hop

(* A hop that is moved on takes as long as it did.                         *)
MovedOn(h, d) == [h EXCEPT !.dep = d, !.arr = @ + (d - h.dep)]
SetBack(h) == [h EXCEPT !.dep = 0, !.arr = h.arr - h.dep]

LEMMA MovedHop ==
    ASSUME NEW h \in Hops, NEW d \in Nat, d >= h.dep, h.dep <= h.arr
    PROVE  /\ MovedOn(h, d) \in Hops
           /\ MovedOn(h, d).dep = d /\ MovedOn(h, d).dep <= MovedOn(h, d).arr
           /\ MovedOn(h, d).from = h.from /\ MovedOn(h, d).to = h.to
           /\ SetBack(MovedOn(h, d)) = SetBack(h)
<1>1. PICK trip \in Trips, from \in Stops, to \in Stops, dep \in Nat, at \in Nat :
          h = [trip |-> trip, from |-> from, to |-> to, dep |-> dep, arr |-> at]
  BY DEF Hops
<1>2. PICK e, arrives, x, y, n :
          /\ e = MovedOn(h, d) /\ arrives = at + (d - dep)
          /\ x = SetBack(e) /\ y = SetBack(h) /\ n = at - dep
  OBVIOUS
<1>3. arrives \in Nat /\ d <= arrives /\ arrives - d = n
  BY <1>1, <1>2
<1>4. e = [trip |-> trip, from |-> from, to |-> to, dep |-> d, arr |-> arrives]
  BY <1>1, <1>2 DEF MovedOn
<1>5. e \in Hops /\ e.dep = d /\ e.arr = arrives /\ e.from = h.from /\ e.to = h.to
  BY <1>1, <1>3, <1>4 DEF Hops
<1>6. x = [trip |-> trip, from |-> from, to |-> to, dep |-> 0, arr |-> n]
  <2>1. x = [e EXCEPT !.dep = 0, !.arr = n]
    BY <1>2, <1>3, <1>5 DEF SetBack
  <2> QED
    BY <1>4, <2>1
<1>7. y = [trip |-> trip, from |-> from, to |-> to, dep |-> 0, arr |-> n]
  BY <1>1, <1>2 DEF SetBack
<1> QED
  BY <1>2, <1>3, <1>5, <1>6, <1>7

(* The next hop is that of the timetable, moved on by whole days to when   *)
(* its stop is reached.                                                    *)
LEMMA NextHopIsSomeDay ==
    ASSUME RaptorTyped, LabelsTyped(Now), phase = "rounds", aboard # None,
           HopHere \notin request.tooFast
    PROVE  /\ NextHop \in Hops /\ NextHop.dep <= NextHop.arr /\ SomeDay(NextHop)
           /\ NextHop.from = HopHere.from /\ NextHop.to = HopHere.to
           /\ arr[NextHop.from] <= NextHop.dep
<1>1. PICK t \in DOMAIN request.timetable :
          /\ t \notin request.excluded
          /\ \E i \in 1..(Len(request.timetable[t]) - 1) : aboard = <<t, i>>
  BY DEF RaptorTyped, AboardTyped
<1>2. PICK i \in 1..(Len(request.timetable[t]) - 1) : aboard = <<t, i>>
  BY <1>1
<1>3. HopHere = Hop(t, request.timetable[t], i)
  BY <1>2 DEF HopHere
<1>4. HopHere \in request.conns /\ HopHere.trip = t
  BY <1>3, HopIsConnection DEF RaptorTyped
<1>5. HopHere \in Usable /\ HopHere \in Hops /\ HopHere.dep <= HopHere.arr
  BY <1>1, <1>4, RequestFacts DEF Usable, RaptorTyped
<1>6. HopHere.from \in Stops /\ HopHere.dep \in Nat /\ arr[HopHere.from] \in Nat
  BY <1>5 DEF Hops, LabelsTyped, Now
<1>7. /\ Departs \in Nat /\ Departs >= HopHere.dep /\ Departs >= arr[HopHere.from]
      /\ (Departs - HopHere.dep) % Day = 0
  BY <1>6, NotBeforeIsLater DEF Departs
<1>8. NextHop = MovedOn(HopHere, Departs)
  BY DEF NextHop, MovedOn
<1>9. /\ NextHop \in Hops /\ NextHop.dep = Departs /\ NextHop.dep <= NextHop.arr
      /\ NextHop.from = HopHere.from /\ NextHop.to = HopHere.to
      /\ SetBack(NextHop) = SetBack(HopHere)
  BY <1>5, <1>7, <1>8, MovedHop
<1>10. SomeDay(NextHop)
  BY <1>5, <1>7, <1>9 DEF SomeDay, SetBack
<1> QED
  BY <1>7, <1>9, <1>10

(* A connection as it stands is of its own day.                            *)
LEMMA UsableIsSomeDay ==
    ASSUME request \in Requests, NEW c \in Usable
    PROVE  SomeDay(c)
<1>1. c.dep \in Nat /\ (c.dep - c.dep) % Day = 0 /\ c.dep >= c.dep
  <2>1. c.dep \in Nat
    BY RequestFacts DEF Hops
  <2> QED
    BY <2>1, DayAssumption
<1> QED
  BY <1>1 DEF SomeDay

-----------------------------------------------------------------------------
LEMMA RaptorInitInvariant == RaptorInit => RaptorInvariant /\ Rooted(Now)
<1> SUFFICES ASSUME RaptorInit
             PROVE  RaptorInvariant /\ Rooted(Now)
  OBVIOUS
<1> DEFINE first == OneWalk(Start, request.from)
           W == FootTo(Start, request.from)
<1>1. request \in Requests
  BY DEF RaptorInit
<1>2. first = Walk(Start, request.from, W)
  BY DEF OneWalk, Walk
<1>3. reached = first.reached /\ arr = first.arr /\ pred = first.pred
  BY DEF RaptorInit, Start
<1>4. /\ request.from \in Start.reached /\ W \in SUBSET Stops
      /\ \A t \in W : /\ <<request.from, t>> \in DOMAIN request.walk
                      /\ \/ t \notin Start.reached
                         \/ Start.arr[request.from] + request.walk[<<request.from, t>>] < Start.arr[t]
  BY DEF FootTo, Start
<1> HIDE DEF first, W
<1>5. LabelsTyped(first) /\ Grounded(first) /\ Rooted(first)
  BY <1>1, <1>2, <1>4, StartLabels, WalkImproves
<1>6. LabelsTyped(Now) /\ Grounded(Now) /\ Rooted(Now)
  <2>1. LabelsTyped(Now)
    BY <1>3, <1>5 DEF LabelsTyped, Now
  <2>2. Grounded(Now)
    BY <1>3, <1>5 DEF Grounded, GroundedAt, WalkedTo, Now
  <2>3. Rooted(Now)
    BY <1>3, <1>5 DEF Rooted, RootedAt, Now
  <2> QED
    BY <2>1, <2>2, <2>3
<1>7. phase = "rounds" /\ steps = <<>> /\ stop = request.to /\ aboard = None
      /\ pending = {} /\ left = {} /\ marked = {request.from} /\ improved = {}
  BY DEF RaptorInit
<1>8. request.from \in reached
  BY <1>6 DEF Rooted, Now
<1>9. RaptorTyped
  BY <1>1, <1>7, <1>8, RequestFacts DEF RaptorTyped, AboardTyped
<1>10. StepsStand
  BY <1>7 DEF StepsStand, Tracing
<1> QED
  BY <1>6, <1>9, <1>10 DEF RaptorInvariant

(* While there is nothing to trace, only the labels matter.                *)
LEMMA NotYetTracing ==
    ASSUME StepsStand, ~Tracing, request' = request, UNCHANGED trace, ~Tracing'
    PROVE  StepsStand'
  BY DEF StepsStand, Tracing, trace

LEMMA PickTripKeeps ==
    ASSUME RaptorInvariant, PickTrip
    PROVE  RaptorInvariant'
<1> USE DEF RaptorInvariant
<1>1. PICK r \in waiting :
        \/ UNCHANGED aboard
        \/ \E b \in Boardings(r) : aboard' = Boards(b)
  BY DEF PickTrip
<1>2. /\ phase = "rounds" /\ phase' = "rounds" /\ request' = request /\ aboard = None
      /\ UNCHANGED labels /\ UNCHANGED trace
      /\ UNCHANGED <<pending, left, marked, improved>>
  BY DEF PickTrip, scan
<1>3. AboardTyped'
  <2>1. CASE UNCHANGED aboard
    BY <1>2, <2>1 DEF AboardTyped
  <2>2. CASE \E b \in Boardings(r) : aboard' = Boards(b)
    <3>1. PICK b \in Boardings(r) : aboard' = Boards(b)
      BY <2>2
    <3>2. PICK t \in Ridden(r) : b \in {t} \X FirstMarked(request.timetable[t])
      BY DEF Boardings
    <3>3. PICK i \in FirstMarked(request.timetable[t]) : b = <<t, i>>
      BY <3>2
    <3>4. t \in DOMAIN request.timetable /\ t \notin request.excluded
      BY DEF Ridden
    <3>5. request.timetable[t] \in Seq(StopTimes) /\ i \in DOMAIN request.timetable[t]
      BY <3>4, RaptorAssumption DEF FirstMarked, RaptorTyped
    <3>6. i \in 1..Len(request.timetable[t])
      BY <3>5
    <3>7. CASE i = Len(request.timetable[t])
      BY <3>1, <3>3, <3>7 DEF Boards, AboardTyped
    <3>8. CASE i # Len(request.timetable[t])
      <4>1. aboard' = <<t, i>>
        BY <3>1, <3>3, <3>8 DEF Boards
      <4>2. i \in 1..(Len(request.timetable[t]) - 1)
        BY <3>5, <3>6, <3>8
      <4> QED
        BY <1>2, <3>4, <4>1, <4>2 DEF AboardTyped
    <3> QED
      BY <3>7, <3>8
  <2> QED
    BY <1>1, <2>1, <2>2
<1>4. RaptorTyped'
  BY <1>2, <1>3 DEF RaptorTyped, labels, trace
<1>5. StepsStand'
  BY <1>2, NotYetTracing DEF Tracing
<1> QED
  BY <1>2, <1>4, <1>5, FrozenLabels

LEMMA RideOnKeeps ==
    ASSUME RaptorInvariant, RideOn
    PROVE  /\ RaptorInvariant'
           /\ Rooted(Now) /\ HopHere.from \in reached => Rooted(Now)'
           /\ HopHere \notin request.tooFast => HopHere.to \in reached'
           /\ reached \subseteq reached'
<1> USE DEF RaptorInvariant
<1> DEFINE improves == Improves(NextHop.to, NextHop.arr) /\ HopHere \notin request.tooFast
           ridden == [reached |-> reached \cup {NextHop.to},
                      arr |-> [arr EXCEPT ![NextHop.to] = NextHop.arr],
                      pred |-> [pred EXCEPT ![NextHop.to] = NextHop]]
           W == FootTo(ridden, NextHop.to)
           L == OneWalk(ridden, NextHop.to)
<1>1. /\ phase = "rounds" /\ phase' = "rounds" /\ request' = request /\ aboard # None
      /\ aboard' = (IF aboard[2] + 1 = Len(request.timetable[aboard[1]]) THEN None
                    ELSE <<aboard[1], aboard[2] + 1>>)
      /\ UNCHANGED trace /\ UNCHANGED <<pending, left, marked>>
  BY DEF RideOn, scan
<1>2. AboardTyped'
  <2>1. PICK t \in DOMAIN request.timetable :
            /\ t \notin request.excluded
            /\ \E i \in 1..(Len(request.timetable[t]) - 1) : aboard = <<t, i>>
    BY <1>1 DEF RaptorTyped, AboardTyped
  <2>2. PICK i \in 1..(Len(request.timetable[t]) - 1) : aboard = <<t, i>>
    BY <2>1
  <2>3. Len(request.timetable[t]) \in Nat
    BY RaptorAssumption DEF RaptorTyped
  <2>4. CASE i + 1 = Len(request.timetable[t])
    BY <1>1, <2>2, <2>4 DEF AboardTyped
  <2>5. CASE i + 1 # Len(request.timetable[t])
    <3>1. aboard' = <<t, i + 1>> /\ i + 1 \in 1..(Len(request.timetable[t]) - 1)
      BY <1>1, <2>2, <2>3, <2>5
    <3> QED
      BY <1>1, <2>1, <3>1 DEF AboardTyped
  <2> QED
    BY <2>4, <2>5
<1>3. CASE ~improves
  <2>1. UNCHANGED labels /\ UNCHANGED improved
    BY <1>3 DEF RideOn
  <2>2. LabelsTyped(Now)' /\ Grounded(Now)' /\ (Rooted(Now) => Rooted(Now)')
    BY <1>1, <2>1, FrozenLabels
  <2>3. RaptorTyped'
    BY <1>1, <1>2, <2>1 DEF RaptorTyped, labels, trace
  <2>4. HopHere \notin request.tooFast => HopHere.to \in reached'
    BY <1>1, <1>3, <2>1, NextHopIsSomeDay DEF Improves, labels
  <2>5. StepsStand'
    BY <1>1, NotYetTracing DEF Tracing
  <2> QED
    BY <2>1, <2>2, <2>3, <2>4, <2>5 DEF labels
<1>4. CASE improves
  <2>1. Becomes(L) /\ improved' = improved \cup {NextHop.to} \cup W
    BY <1>4 DEF RideOn
  <2>2. /\ NextHop \in Hops /\ NextHop.dep <= NextHop.arr /\ SomeDay(NextHop)
        /\ NextHop.from = HopHere.from /\ NextHop.to = HopHere.to
        /\ arr[NextHop.from] <= NextHop.dep /\ NextHop.to \in Stops
    BY <1>1, <1>4, NextHopIsSomeDay DEF Hops
  <2>3. ridden = Rode(Now, NextHop)
    BY DEF Rode, Now
  <2>4. NextHop.to \notin Now.reached \/ NextHop.arr < Now.arr[NextHop.to]
    BY <1>4 DEF Improves, Now
  <2>5. /\ LabelsTyped(ridden) /\ Grounded(ridden)
        /\ Rooted(Now) /\ HopHere.from \in reached => Rooted(ridden)
    BY <2>2, <2>3, <2>4, RideImproves DEF RaptorTyped, Now
  <2>6. /\ L = Walk(ridden, NextHop.to, W) /\ W \in SUBSET Stops
        /\ \A t \in W : /\ <<NextHop.to, t>> \in DOMAIN request.walk
                        /\ \/ t \notin ridden.reached
                           \/ ridden.arr[NextHop.to] + request.walk[<<NextHop.to, t>>] < ridden.arr[t]
        /\ NextHop.to \in ridden.reached
    BY DEF OneWalk, Walk, FootTo
  <2>r. ridden.reached = reached \cup {NextHop.to}
    OBVIOUS
  <2> HIDE DEF ridden, W
  <2>7. LabelsTyped(L) /\ Grounded(L) /\ (Rooted(ridden) => Rooted(L))
    BY <2>5, <2>6, WalkImproves DEF RaptorTyped
  <2>8. L.reached = reached \cup {NextHop.to} \cup W
    BY <2>r, <2>6 DEF Walk
  <2> HIDE DEF L
  <2>9. reached' = L.reached /\ arr' = L.arr /\ pred' = L.pred
    BY <2>1 DEF Becomes
  <2>10. LabelsTyped(Now)' /\ Grounded(Now)' /\ (Rooted(L) => Rooted(Now)')
    BY <1>1, <2>7, <2>9, Carried
  <2>11. RaptorTyped'
    BY <1>1, <1>2, <2>1, <2>8, <2>9 DEF RaptorTyped, trace
  <2>12. StepsStand'
    BY <1>1, NotYetTracing DEF Tracing
  <2> QED
    BY <2>2, <2>5, <2>7, <2>8, <2>9, <2>10, <2>11, <2>12
<1> QED
  BY <1>3, <1>4

LEMMA NextRoundKeeps ==
    ASSUME RaptorInvariant, NextRound
    PROVE  RaptorInvariant' /\ (Rooted(Now) => Rooted(Now)')
<1> USE DEF RaptorInvariant
<1>1. /\ phase = "rounds" /\ phase' = "rounds" /\ request' = request /\ aboard = None
      /\ UNCHANGED labels /\ UNCHANGED trace /\ UNCHANGED <<pending, left, aboard>>
      /\ marked' = improved /\ improved' = {}
  BY DEF NextRound, RoundOver, scan
<1>2. RaptorTyped'
  BY <1>1 DEF RaptorTyped, AboardTyped, labels, trace
<1>3. StepsStand'
  BY <1>1, NotYetTracing DEF Tracing
<1> QED
  BY <1>1, <1>2, <1>3, FrozenLabels

LEMMA EndRoundsKeeps ==
    ASSUME RaptorInvariant, EndRounds
    PROVE  RaptorInvariant' /\ (Rooted(Now) => Rooted(Now)')
<1> USE DEF RaptorInvariant
<1>1. /\ phase = "rounds" /\ request' = request /\ request \in Requests
      /\ UNCHANGED trace /\ steps = <<>> /\ stop = request.to
  BY DEF EndRounds, RoundOver, StepsStand, Tracing, RaptorTyped
<1>2. CASE pred[request.to] # None
  <2>1. phase' = "trace" /\ UNCHANGED labels /\ UNCHANGED scan
    BY <1>2 DEF EndRounds
  <2>2. RaptorTyped'
    BY <1>1, <2>1 DEF RaptorTyped, labels, trace, scan, Answered
  <2>3. StepsStand'
    BY <1>1, <2>1 DEF StepsStand, Tracing, trace
  <2> QED
    BY <1>1, <2>1, <2>2, <2>3, FrozenLabels
<1>3. CASE pred[request.to] = None
  <2>1. /\ phase' = "scan" /\ reached' = {request.from} /\ arr' = StartArr(request)
        /\ pred' = StartPred /\ pending' = {request.from} /\ left' = request.conns
    BY <1>3 DEF EndRounds
  <2>2. reached' = Start.reached /\ arr' = Start.arr /\ pred' = Start.pred
    BY <2>1 DEF Start
  <2>3. LabelsTyped(Now)' /\ Grounded(Now)' /\ Rooted(Now)'
    BY <1>1, <2>2, StartLabels, Carried
  <2>4. RaptorTyped'
    BY <1>1, <2>1, RequestFacts DEF RaptorTyped, trace
  <2>5. StepsStand'
    BY <1>1, <2>1 DEF StepsStand, Tracing, trace
  <2> QED
    BY <2>3, <2>4, <2>5
<1> QED
  BY <1>2, <1>3

(* The steps of the scan it falls back to.                                 *)
LEMMA RelaxKeeps ==
    ASSUME RaptorInvariant, Relax
    PROVE  RaptorInvariant' /\ (Rooted(Now) => Rooted(Now)')
<1> USE DEF RaptorInvariant
<1>1. PICK s \in pending :
          /\ reached' = reached \cup Relaxable(s)
          /\ arr' = [t \in Stops |-> IF t \in Relaxable(s)
                                     THEN arr[s] + request.walk[<<s, t>>] ELSE arr[t]]
          /\ pred' = [t \in Stops |-> IF t \in Relaxable(s) THEN Foot(s, t) ELSE pred[t]]
          /\ pending' = QueueAfter(s)
  BY DEF Relax
<1>2. /\ phase = "scan" /\ phase' = "scan" /\ request' = request /\ request \in Requests
      /\ UNCHANGED trace /\ left' = left
  BY DEF Relax, RaptorTyped
<1> DEFINE W == Relaxable(s)
           L == Walk(Now, s, W)
<1>3. /\ s \in Now.reached /\ W \in SUBSET Stops
      /\ \A t \in W : /\ <<s, t>> \in DOMAIN request.walk
                      /\ \/ t \notin Now.reached
                         \/ Now.arr[s] + request.walk[<<s, t>>] < Now.arr[t]
  BY DEF Relaxable, Walks, Improves, Now, RaptorTyped
<1>4. reached' = L.reached /\ arr' = L.arr /\ pred' = L.pred
  BY <1>1 DEF Walk, Now
<1>5. pending' = (pending \ {s}) \cup W /\ reached' = reached \cup W
  BY <1>1 DEF QueueAfter
<1> HIDE DEF W
<1>6. LabelsTyped(L) /\ Grounded(L) /\ (Rooted(Now) => Rooted(L))
  BY <1>2, <1>3, WalkImproves
<1> HIDE DEF L
<1>7. LabelsTyped(Now)' /\ Grounded(Now)' /\ (Rooted(Now) => Rooted(Now)')
  BY <1>2, <1>4, <1>6, Carried
<1>8. RaptorTyped'
  BY <1>2, <1>5 DEF RaptorTyped, trace
<1>9. StepsStand'
  BY <1>2, NotYetTracing DEF Tracing
<1> QED
  BY <1>7, <1>8, <1>9

LEMMA RideKeeps ==
    ASSUME RaptorInvariant, Ride
    PROVE  RaptorInvariant' /\ (Rooted(Now) => Rooted(Now)')
<1> USE DEF RaptorInvariant
<1>1. PICK c \in left :
          /\ left' = left \ {c}
          /\ IF Boardable(c)
             THEN /\ reached' = Recorded(c)
                  /\ arr' = [arr EXCEPT ![c.to] = c.arr]
                  /\ pred' = [pred EXCEPT ![c.to] = c]
                  /\ pending' = {c.to}
             ELSE UNCHANGED <<labels, pending>>
  BY DEF Ride
<1>2. /\ phase = "scan" /\ phase' = "scan" /\ request' = request /\ request \in Requests
      /\ UNCHANGED trace
  BY DEF Ride, RaptorTyped
<1>3. StepsStand'
  BY <1>2, NotYetTracing DEF Tracing
<1>4. CASE ~Boardable(c)
  <2>1. UNCHANGED labels /\ pending' = pending
    BY <1>1, <1>4
  <2>2. RaptorTyped'
    BY <1>1, <1>2, <2>1 DEF RaptorTyped, labels, trace
  <2> QED
    BY <1>2, <1>3, <2>1, <2>2, FrozenLabels
<1>5. CASE Boardable(c)
  <2>1. /\ c \in Usable /\ c.from \in Now.reached /\ Now.arr[c.from] <= c.dep
        /\ c.to \notin Now.reached \/ c.arr < Now.arr[c.to]
    BY <1>5 DEF Boardable, Improves, Now
  <2>2. c \in Hops /\ c.dep <= c.arr /\ SomeDay(c) /\ c.to \in Stops
    BY <1>2, <2>1, RequestFacts, UsableIsSomeDay DEF Hops
  <2>3. LabelsTyped(Rode(Now, c)) /\ Grounded(Rode(Now, c))
        /\ (Rooted(Now) => Rooted(Rode(Now, c)))
    BY <1>2, <2>1, <2>2, RideImproves
  <2>4. /\ reached' = Rode(Now, c).reached /\ arr' = Rode(Now, c).arr
        /\ pred' = Rode(Now, c).pred
    BY <1>1, <1>5 DEF Rode, Recorded, Now
  <2>5. LabelsTyped(Now)' /\ Grounded(Now)' /\ (Rooted(Now) => Rooted(Now)')
    BY <1>2, <2>3, <2>4, Carried
  <2>6. RaptorTyped'
    BY <1>1, <1>2, <1>5 DEF RaptorTyped, Recorded, trace
  <2> QED
    BY <1>3, <2>5, <2>6
<1> QED
  BY <1>4, <1>5

LEMMA ScanEndsKeeps ==
    ASSUME RaptorInvariant, ScanEnds
    PROVE  RaptorInvariant' /\ (Rooted(Now) => Rooted(Now)')
<1> USE DEF RaptorInvariant
<1>1. /\ phase = "scan" /\ phase' \in {"none", "trace"} /\ request' = request
      /\ UNCHANGED labels /\ UNCHANGED trace /\ UNCHANGED scan
  BY DEF ScanEnds
<1>2. RaptorTyped'
  BY <1>1 DEF RaptorTyped, labels, trace, scan, Answered
<1>3. StepsStand'
  BY <1>1 DEF StepsStand, Tracing, trace
<1> QED
  BY <1>1, <1>2, <1>3, FrozenLabels

-----------------------------------------------------------------------------
(* The trace leaves the labels alone, and puts steps before steps.         *)
LEMMA Prepending ==
    ASSUME NEW S, NEW e \in S, NEW q \in Seq(S)
    PROVE  /\ <<e>> \o q \in Seq(S)
           /\ Len(<<e>> \o q) = Len(q) + 1
           /\ (<<e>> \o q)[1] = e
           /\ \A i \in 1..Len(q) : (<<e>> \o q)[i + 1] = q[i]
  OBVIOUS

LEMMA StandsStill ==
    ASSUME request' = request, UNCHANGED labels, NEW i, NEW j,
           steps'[j] = steps[i], StepStands(steps[i])
    PROVE  StepStands(steps[j])'
  BY DEF labels, StepStands, WalkedTo, SomeDay, Usable, Walked, Foot, Now

LEMMA StepBackKeeps ==
    ASSUME RaptorInvariant, StepBack, UNCHANGED scan
    PROVE  RaptorInvariant' /\ (Rooted(Now) => Rooted(Now)')
<1> USE DEF RaptorInvariant
<1> DEFINE e == pred[stop]
<1>1. /\ phase = "trace" /\ phase' = "trace" /\ request' = request /\ UNCHANGED labels
      /\ steps' = <<e>> \o steps /\ stop' = e.from /\ e # None /\ UNCHANGED <<pending, left>>
      /\ reached' = reached
  BY DEF StepBack, AtTheEnd, scan, labels
<1>2. e \in Steps /\ GroundedAt(Now, stop)
  BY <1>1 DEF RaptorTyped, LabelsTyped, Grounded, Now
<1>3. StepStands(e)
  BY <1>2 DEF GroundedAt, StepStands, Now
<1>4. steps \in Seq(Steps)
  BY DEF RaptorTyped
<1>5. /\ steps' \in Seq(Steps) /\ Len(steps') = Len(steps) + 1 /\ Len(steps) \in Nat
      /\ steps'[1] = e /\ \A i \in 1..Len(steps) : steps'[i + 1] = steps[i]
  BY <1>1, <1>2, <1>4, Prepending
<1>6. e.from \in Stops
  BY <1>2 DEF Steps
<1>7. RaptorTyped'
  BY <1>1, <1>5, <1>6 DEF RaptorTyped
<1>8. ASSUME NEW i \in 1..Len(steps')
      PROVE  StepStands(steps[i])'
  <2>1. CASE i = 1
    <3>1. steps'[i] = pred[stop]
      BY <1>5, <2>1
    <3> QED
      BY <1>1, <1>3, <3>1
         DEF labels, StepStands, WalkedTo, SomeDay, Usable, Walked, Foot, Now
  <2>2. CASE i # 1
    <3>1. i - 1 \in 1..Len(steps) /\ (i - 1) + 1 = i
      BY <1>5, <2>2
    <3>2. StepStands(steps[i - 1]) /\ steps'[i] = steps[i - 1]
      BY <1>1, <1>5, <3>1 DEF StepsStand, Tracing
    <3> QED
      BY <1>1, <3>2, StandsStill
  <2> QED
    BY <2>1, <2>2
<1>9. StepsStand'
  BY <1>1, <1>8 DEF StepsStand, Tracing
<1> QED
  BY <1>1, <1>7, <1>9, FrozenLabels

LEMMA FrozenKeeps ==
    ASSUME RaptorInvariant, request' = request, UNCHANGED labels, UNCHANGED trace,
           UNCHANGED scan,
           \/ UNCHANGED <<phase, rounds>>
           \/ phase = "trace" /\ phase' \in {"found", "refused"}
    PROVE  RaptorInvariant' /\ (Rooted(Now) => Rooted(Now)')
<1> USE DEF RaptorInvariant
<1>1. RaptorTyped'
  BY DEF RaptorTyped, AboardTyped, Answered, labels, trace, scan, rounds
<1>2. StepsStand'
  <2>1. Tracing' <=> Tracing
    BY DEF Tracing
  <2>2. UNCHANGED <<steps, stop>>
    BY DEF trace
  <2>3. ASSUME Tracing
        PROVE  \A i \in 1..Len(steps) : StepStands(steps[i])'
    BY <2>2, <2>3, StandsStill DEF StepsStand
  <2> QED
    BY <2>1, <2>2, <2>3 DEF StepsStand
<1> QED
  BY <1>1, <1>2, FrozenLabels

LEMMA RaptorStepKeeps ==
    ASSUME RaptorInvariant, [RaptorNext]_raptorVars
    PROVE  RaptorInvariant'
<1>1. CASE Rounds
  BY <1>1, PickTripKeeps, RideOnKeeps, NextRoundKeeps, EndRoundsKeeps DEF Rounds
<1>2. CASE Search
  <2>1. CASE Answer /\ UNCHANGED scan
    BY <2>1, FrozenKeeps DEF Answer
  <2> QED
    BY <1>2, <2>1, RelaxKeeps, RideKeeps, ScanEndsKeeps, StepBackKeeps DEF Search
<1>3. CASE UNCHANGED raptorVars
  BY <1>3, FrozenKeeps DEF raptorVars, vars
<1> QED
  BY <1>1, <1>2, <1>3 DEF RaptorNext

(***************************************************************************)
(* The inductive invariant: labels are grounded in the steps that gave     *)
(* them, through the rounds, through the scan they fall back to and while  *)
(* the answer is traced, and the steps traced so far stand.                *)
(***************************************************************************)
THEOREM RaptorInvariance == RaptorSpec => []RaptorInvariant
<1>1. RaptorInit => RaptorInvariant
  BY RaptorInitInvariant
<1>2. RaptorInvariant /\ [RaptorNext]_raptorVars => RaptorInvariant'
  BY RaptorStepKeeps
<1> QED
  BY <1>1, <1>2, PTL DEF RaptorSpec

(***************************************************************************)
(* Every ride of an answer is a hop of the timetable moved on by whole     *)
(* days, and every walk is as long as its footpath, whatever the network,  *)
(* its implausible hops included.                                          *)
(***************************************************************************)
THEOREM RidesAreOfTheTimetable == RaptorSpec => []StepsOfTheTimetable
<1>1. RaptorInvariant => StepsOfTheTimetable
  <2> SUFFICES ASSUME RaptorInvariant, phase = "found", NEW i \in DOMAIN steps
               PROVE  IF Walked(steps[i])
                      THEN LET walk == <<steps[i].from, steps[i].to>>
                           IN  /\ walk \in DOMAIN request.walk
                               /\ Starts(steps[i]) + request.walk[walk] <= Ends(steps[i])
                      ELSE SomeDay(steps[i])
    BY DEF StepsOfTheTimetable
  <2>1. StepStands(steps[i])
    BY DEF RaptorInvariant, RaptorTyped, StepsStand, Tracing
  <2> QED
    BY <2>1 DEF StepStands, WalkedTo, Starts, Ends, Now
<1> QED
  BY <1>1, RaptorInvariance, PTL

-----------------------------------------------------------------------------
(***************************************************************************)
(* An answer connects when no hop is implausibly fast.  A hop that is is   *)
(* left out, but the ride goes on from its end, which may have no label    *)
(* then: the labels from there on lead nowhere.                            *)
(***************************************************************************)
NoneTooFast == \A r \in Requests : r.tooFast = {}

AboardReached ==
    phase = "rounds" /\ aboard # None =>
        request.timetable[aboard[1]][aboard[2]].stop \in reached

Chained ==
    /\ steps[1].from = stop
    /\ arr[stop] <= Starts(steps[1])
    /\ steps[Len(steps)].to = request.to
    /\ \A i \in 1..(Len(steps) - 1) : Follows(i)

Traced ==
    Tracing =>
        /\ stop \in reached
        /\ IF steps = <<>> THEN stop = request.to /\ pred[stop] # None ELSE Chained
        /\ phase # "trace" => AtTheEnd

Connected == Rooted(Now) /\ AboardReached /\ Traced

LEMMA AboardFacts ==
    ASSUME RaptorInvariant, phase = "rounds", aboard # None
    PROVE  HopHere.from = request.timetable[aboard[1]][aboard[2]].stop
           /\ HopHere.to = request.timetable[aboard[1]][aboard[2] + 1].stop
  BY DEF HopHere, Hop

LEMMA PickTripConnects ==
    ASSUME RaptorInvariant, Connected, PickTrip
    PROVE  Connected'
<1> USE DEF RaptorInvariant, Connected
<1>1. PICK r \in waiting :
        \/ UNCHANGED aboard
        \/ \E b \in Boardings(r) : aboard' = Boards(b)
  BY DEF PickTrip
<1>2. /\ phase = "rounds" /\ phase' = "rounds" /\ request' = request /\ aboard = None
      /\ UNCHANGED labels /\ reached' = reached
  BY DEF PickTrip, labels
<1>3. AboardReached'
  <2>1. CASE UNCHANGED aboard
    BY <1>2, <2>1 DEF AboardReached
  <2>2. CASE \E b \in Boardings(r) : aboard' = Boards(b)
    <3>1. PICK b \in Boardings(r) : aboard' = Boards(b)
      BY <2>2
    <3>2. PICK t \in Ridden(r) : b \in {t} \X FirstMarked(request.timetable[t])
      BY DEF Boardings
    <3>3. PICK i \in FirstMarked(request.timetable[t]) : b = <<t, i>>
      BY <3>2
    <3>4. request.timetable[t][i].stop \in reached
      BY <1>2 DEF FirstMarked, RaptorTyped
    <3> QED
      BY <1>2, <3>1, <3>3, <3>4 DEF Boards, AboardReached
  <2> QED
    BY <1>1, <2>1, <2>2
<1>4. Traced'
  BY <1>2 DEF Traced, Tracing
<1> QED
  BY <1>2, <1>3, <1>4, FrozenLabels

LEMMA RideOnConnects ==
    ASSUME NoneTooFast, RaptorInvariant, Connected, RideOn
    PROVE  Connected'
<1>1. /\ phase = "rounds" /\ phase' = "rounds" /\ request' = request /\ aboard # None
      /\ aboard' = (IF aboard[2] + 1 = Len(request.timetable[aboard[1]]) THEN None
                    ELSE <<aboard[1], aboard[2] + 1>>)
  BY DEF RideOn
<1>2. HopHere \notin request.tooFast
  BY DEF NoneTooFast, RaptorInvariant, RaptorTyped
<1>3. Rooted(Now)' /\ HopHere.to \in reached'
  BY <1>1, <1>2, AboardFacts, RideOnKeeps DEF Connected, AboardReached
<1>4. AboardReached'
  BY <1>1, <1>3, AboardFacts DEF AboardReached
<1>5. Traced'
  BY <1>1 DEF Traced, Tracing
<1> QED
  BY <1>3, <1>4, <1>5 DEF Connected

LEMMA StepBackConnects ==
    ASSUME RaptorInvariant, Connected, StepBack
    PROVE  Traced'
<1> USE DEF RaptorInvariant
<1> DEFINE e == pred[stop]
<1>1. /\ phase = "trace" /\ phase' = "trace" /\ request' = request /\ stop # request.from
      /\ UNCHANGED <<reached, arr, pred>>
      /\ steps' = <<e>> \o steps /\ stop' = e.from /\ e # None
  BY DEF StepBack, AtTheEnd, labels
<1>2. /\ stop \in reached
      /\ IF steps = <<>> THEN stop = request.to ELSE Chained
  BY <1>1 DEF Connected, Traced, Tracing
<1>3. e \in Steps /\ GroundedAt(Now, stop) /\ RootedAt(Now, stop)
  BY <1>1, <1>2 DEF RaptorTyped, LabelsTyped, Grounded, Connected, Rooted, Now
<1>4. e.to = stop /\ e.from \in reached
  BY <1>3 DEF GroundedAt, RootedAt, Now
<1>5. arr[e.from] <= Starts(e) /\ Ends(e) = arr[stop]
  <2>1. arr[e.from] \in Nat
    BY <1>3 DEF LabelsTyped, Now, Steps
  <2> QED
    BY <1>3, <1>4, <2>1 DEF GroundedAt, RootedAt, Starts, Ends, Now
<1>6. steps \in Seq(Steps)
  BY DEF RaptorTyped
<1>7. /\ Len(steps') = Len(steps) + 1 /\ Len(steps) \in Nat
      /\ steps'[1] = e /\ \A i \in 1..Len(steps) : steps'[i + 1] = steps[i]
  BY <1>1, <1>3, <1>6, Prepending
<1> HIDE DEF e
<1>8. Starts(steps[1])' = Starts(e) /\ Ends(steps[1])' = Ends(e)
  BY <1>1, <1>7 DEF Starts, Ends
<1>9. \A i \in 1..Len(steps) : /\ Starts(steps[i + 1])' = Starts(steps[i])
                              /\ Ends(steps[i + 1])' = Ends(steps[i])
  BY <1>1, <1>7 DEF Starts, Ends
<1>10. steps' # <<>>
  BY <1>7
<1>11. CASE steps = <<>>
  <2>1. Len(steps') = 1
    BY <1>7, <1>11
  <2>2. Chained'
    BY <1>1, <1>2, <1>4, <1>5, <1>7, <1>8, <1>11, <2>1 DEF Chained, Follows
  <2> QED
    BY <1>1, <1>4, <1>10, <2>2 DEF Traced
<1>12. CASE steps # <<>>
  <2>1. Len(steps) >= 1 /\ Chained
    BY <1>2, <1>6, <1>12
  <2>2. (steps[1].from = stop)' /\ (arr[stop] <= Starts(steps[1]))'
    BY <1>1, <1>5, <1>7, <1>8
  <2>3. steps'[Len(steps')].to = request'.to
    BY <1>1, <1>7, <2>1 DEF Chained
  <2>4. ASSUME NEW i \in 1..(Len(steps') - 1)
        PROVE  Follows(i)'
    <3>1. CASE i = 1
      <4>1. steps'[2] = steps[1] /\ Starts(steps[2])' = Starts(steps[1])
        BY <1>7, <1>9, <2>1
      <4>2. arr[stop] <= Starts(steps[1]) /\ steps[1].from = stop
        BY <2>1 DEF Chained
      <4> QED
        BY <1>4, <1>5, <1>7, <1>8, <3>1, <4>1, <4>2 DEF Follows
    <3>2. CASE i > 1
      <4>1. i - 1 \in 1..(Len(steps) - 1) /\ (i - 1) + 1 = i
        BY <1>7, <2>1, <3>2
      <4>2. steps'[i] = steps[i - 1] /\ steps'[i + 1] = steps[i]
        BY <1>7, <2>1, <3>2
      <4>3. Follows(i - 1)
        BY <2>1, <4>1 DEF Chained
      <4>4. Starts(steps[i + 1])' = Starts(steps[i]) /\ Ends(steps[i])' = Ends(steps[i - 1])
        BY <1>9, <4>1
      <4> QED
        BY <4>1, <4>2, <4>3, <4>4 DEF Follows
    <3> QED
      BY <3>1, <3>2
  <2>5. Chained'
    BY <2>2, <2>3, <2>4 DEF Chained
  <2> QED
    BY <1>1, <1>4, <1>10, <2>5 DEF Traced
<1> QED
  BY <1>11, <1>12

LEMMA TracedStays ==
    ASSUME Traced, request' = request, UNCHANGED labels, UNCHANGED trace,
           \/ phase' = phase
           \/ phase = "trace" /\ AtTheEnd /\ phase' \in {"found", "refused"}
    PROVE  Traced'
<1>1. UNCHANGED <<reached, arr, pred, stop, steps>>
  BY DEF labels, trace
<1>2. (Chained => Chained') /\ (AtTheEnd => AtTheEnd')
  BY <1>1 DEF Chained, AtTheEnd, Follows, Starts, Ends
<1> QED
  BY <1>1, <1>2 DEF Traced, Tracing

(* The target has a predecessor when it is traced, and so a label.         *)
LEMMA TraceBegins ==
    ASSUME RaptorInvariant, ~Tracing, phase' = "trace", pred[request.to] # None,
           request' = request, UNCHANGED labels, UNCHANGED trace
    PROVE  Traced'
<1>1. /\ stop = request.to /\ steps = <<>> /\ stop \in Stops
      /\ UNCHANGED <<reached, arr, pred, stop, steps>>
  BY DEF RaptorInvariant, RaptorTyped, StepsStand, labels, trace
<1>2. stop \in reached
  BY <1>1 DEF RaptorInvariant, Grounded, GroundedAt, Now
<1> QED
  BY <1>1, <1>2 DEF Traced

LEMMA SearchConnects ==
    ASSUME RaptorInvariant, Connected, Search
    PROVE  Connected'
<1>1. request' = request
  BY DEF Search, Relax, Ride, ScanEnds, StepBack, Answer
<1>2. Rooted(Now)'
  <2>1. CASE Answer
    BY <2>1, FrozenLabels DEF Answer, Connected
  <2> QED
    BY <2>1, RelaxKeeps, RideKeeps, ScanEndsKeeps, StepBackKeeps DEF Search, Connected
<1>3. AboardReached'
  BY DEF AboardReached, Search, Relax, Ride, ScanEnds, StepBack, Answer
<1>4. Traced'
  <2>1. CASE Relax \/ Ride
    BY <2>1 DEF Relax, Ride, Traced, Tracing
  <2>2. CASE ScanEnds
    <3>1. /\ phase = "scan" /\ phase' = (IF pred[request.to] = None THEN "none" ELSE "trace")
          /\ UNCHANGED labels /\ UNCHANGED trace
      BY <2>2 DEF ScanEnds
    <3>2. CASE pred[request.to] = None
      BY <3>1, <3>2 DEF Traced, Tracing
    <3>3. CASE pred[request.to] # None
      BY <1>1, <3>1, <3>3, TraceBegins DEF Tracing
    <3> QED
      BY <3>2, <3>3
  <2>3. CASE StepBack
    BY <2>3, StepBackConnects
  <2>4. CASE Answer
    BY <2>4, TracedStays DEF Answer, Connected
  <2> QED
    BY <2>1, <2>2, <2>3, <2>4 DEF Search
<1> QED
  BY <1>2, <1>3, <1>4 DEF Connected

LEMMA RoundsConnect ==
    ASSUME NoneTooFast, RaptorInvariant, Connected, Rounds
    PROVE  Connected'
<1>1. CASE PickTrip
  BY <1>1, PickTripConnects
<1>2. CASE RideOn
  BY <1>2, RideOnConnects
<1>3. CASE NextRound
  <2>1. phase' = "rounds" /\ aboard' = None
    BY <1>3 DEF NextRound, RoundOver
  <2> QED
    BY <1>3, <2>1, NextRoundKeeps DEF Connected, AboardReached, Traced, Tracing
<1>4. CASE EndRounds
  <2>1. Rooted(Now)'
    BY <1>4, EndRoundsKeeps DEF Connected
  <2>2. request' = request /\ ~Tracing /\ UNCHANGED trace
    BY <1>4 DEF EndRounds, RoundOver, Tracing
  <2>3. CASE pred[request.to] # None
    <3>1. phase' = "trace" /\ UNCHANGED labels
      BY <1>4, <2>3 DEF EndRounds
    <3> QED
      BY <2>1, <2>2, <2>3, <3>1, TraceBegins DEF Connected, AboardReached
  <2>4. CASE pred[request.to] = None
    <3>1. phase' = "scan"
      BY <1>4, <2>4 DEF EndRounds
    <3> QED
      BY <2>1, <3>1 DEF Connected, AboardReached, Traced, Tracing
  <2> QED
    BY <2>3, <2>4
<1> QED
  BY <1>1, <1>2, <1>3, <1>4 DEF Rounds

LEMMA StaysConnected ==
    ASSUME NoneTooFast, RaptorInvariant, Connected, [RaptorNext]_raptorVars
    PROVE  Connected'
<1>1. CASE UNCHANGED raptorVars
  <2>1. /\ request' = request /\ UNCHANGED labels /\ UNCHANGED trace
        /\ UNCHANGED <<phase, aboard, reached>>
    BY <1>1 DEF raptorVars, vars, rounds, labels
  <2> QED
    BY <2>1, FrozenLabels, TracedStays DEF Connected, AboardReached
<1> QED
  BY <1>1, RoundsConnect, SearchConnects DEF RaptorNext

(***************************************************************************)
(* Where no hop is implausibly fast, a round-based answer leads from the   *)
(* stop asked for, not before the time asked for, to the target, each step *)
(* from where and not before the one before it ended.                      *)
(***************************************************************************)
THEOREM RoundsConnectAnswers ==
    ASSUME NoneTooFast
    PROVE  RaptorSpec => []ItineraryConnects
<1>1. RaptorInit => RaptorInvariant /\ Connected
  <2> SUFFICES ASSUME RaptorInit
               PROVE  RaptorInvariant /\ Connected
    OBVIOUS
  <2>1. phase = "rounds" /\ aboard = None
    BY DEF RaptorInit
  <2> QED
    BY <2>1, RaptorInitInvariant DEF Connected, AboardReached, Traced, Tracing
<1>2. /\ RaptorInvariant /\ Connected /\ [RaptorNext]_raptorVars
      => (RaptorInvariant /\ Connected)'
  BY StaysConnected, RaptorStepKeeps
<1>3. RaptorInvariant /\ Connected => ItineraryConnects
  <2> SUFFICES ASSUME RaptorInvariant, Connected, phase = "found"
               PROVE  /\ steps # <<>>
                      /\ steps[1].from = request.from
                      /\ request.depart <= Starts(steps[1])
                      /\ steps[Len(steps)].to = request.to
                      /\ \A i \in 1..(Len(steps) - 1) : Follows(i)
    BY DEF ItineraryConnects
  <2>1. /\ stop \in reached /\ AtTheEnd
        /\ IF steps = <<>> THEN pred[stop] # None ELSE Chained
    BY DEF Connected, Traced, Tracing
  <2>2. stop = request.from
    BY <2>1 DEF Connected, Rooted, RootedAt, AtTheEnd, Now
  <2>3. pred[stop] = None /\ arr[stop] = request.depart
    BY <2>2 DEF Connected, Rooted, Now
  <2> QED
    BY <2>1, <2>2, <2>3 DEF Chained
<1> QED
  BY <1>1, <1>2, <1>3, PTL DEF RaptorSpec
=============================================================================
