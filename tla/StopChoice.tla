----------------------------- MODULE StopChoice -----------------------------
(***************************************************************************)
(* Which stops of the network a journey is planned between: the first part *)
(* of planWithStops of internal/planner/planner.go with findStopByPlace,   *)
(* pickBest, chooseBestStop and chooseBestToStop.                          *)
(*                                                                         *)
(* A question has the stops, the limit of walking, whether the journey     *)
(* begins (rather than ends) there and whether a place was named.  A stop  *)
(* has its distance, how its name agrees with the place, whether it is a   *)
(* village's, a terminal (hub), the first of some trip (origin), and       *)
(* whether the spatial index holds it where it is looked for.              *)
(***************************************************************************)
EXTENDS Enquiry

ASSUME StopChoiceAssumption ==
    \A q \in Enquiries.stop : \A s \in q.stops : s.distance \in Nat /\ s.id \in Nat

NoStop == [id |-> 0]

InReach == {s \in question.stops : s.distance <= question.walk}

(* The stops a search by coordinates finds: those of the index or, if it   *)
(* has none, all in reach.                                                 *)
Found ==
    LET indexed == {s \in InReach : s.indexed}
    IN IF indexed # {} THEN indexed ELSE InReach

Closest(S) == {s \in S : \A t \in S : s.distance <= t.distance}

(* Of equally distant stops the index and the full search have the one of  *)
(* the smaller name first.                                                 *)
First(S) == {s \in Closest(S) : \A t \in Closest(S) : s.id <= t.id}

(* First trips' origins are known only where the journey begins.           *)
Origin(S) == {s \in S : question.begins /\ s.origin}
Hub(S) == {s \in S : s.hub}
Town(S) == {s \in S : ~s.village}

(* The members of the first of some classes that has any.                  *)
FirstOf(classes) ==
    LET some == {i \in DOMAIN classes : classes[i] # {}}
    IN UNION {classes[i] : i \in {j \in some : \A k \in some : j <= k}}

(* chooseBestStop; without origins it is chooseBestToStop.                 *)
ByCoordinates ==
    First(FirstOf(<<Origin(Town(Found)), Origin(Found), Town(Found), Found>>))

(* pickBest: among the candidates of a name, then among all in reach.      *)
PickedByName(C) ==
    Closest(FirstOf(<<Hub(Town(C)), Origin(Town(C)), Origin(C), Hub(C)>>))

PickedInstead ==
    First(FirstOf(<<Hub(Town(InReach)), Hub(InReach), Origin(Town(InReach)),
                    Origin(InReach), Town(InReach)>>))

(* Mutant: the stop of the name is not exchanged for one in a town.        *)
PickedAsNamed(C) == IF PickedByName(C) # {} THEN PickedByName(C) ELSE Closest(C)

Picked(C) ==
    CASE PickedByName(C) # {} -> PickedByName(C)
      [] PickedByName(C) = {} /\ PickedInstead # {} -> PickedInstead
      [] OTHER -> Closest(C)

Agreeing(how) == {s \in InReach : s.name = how}

(* The stops that may be chosen; a name that no stop in reach has is       *)
(* as good as none.                                                        *)
Chosen ==
    CASE question.named /\ Agreeing("token") # {} -> Picked(Agreeing("token"))
      [] question.named /\ Agreeing("token") = {} /\ Agreeing("part") # {} ->
            Picked(Agreeing("part"))
      [] OTHER -> ByCoordinates

ChooseStop ==
    /\ Asked("stop")
    /\ \/ \E s \in Chosen : Reply(s)
       \/ InReach = {} /\ Reply(NoStop)

(***************************************************************************)
(* A village's stop is only chosen where there is nothing better in reach: *)
(* one that is neither a terminal nor a trip's origin is the choice only   *)
(* if no town's stop the search sees can be walked to (findStopByPlace,    *)
(* planner.go:528-533), and no stop is chosen beyond the limit of walking. *)
(***************************************************************************)
VillageLast ==
    Replied("stop") /\ Told # NoStop =>
        /\ Told \in InReach
        /\ Told.village /\ ~Told.hub /\ Told \notin Origin({Told}) =>
            \A s \in InReach : s.village \/ ~s.indexed
=============================================================================
