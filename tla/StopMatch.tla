------------------------------ MODULE StopMatch ------------------------------
(***************************************************************************)
(* Whether a stop of a timetable is a terminal of the skeleton             *)
(* (internal/verification/scorepair.go).                                   *)
(*                                                                         *)
(* An item has a name, a place on a line of metres or none, a settlement,  *)
(* a set of means of transport, a set of codes and a source.  Scores are   *)
(* in hundredths of a percent.                                             *)
(***************************************************************************)
EXTENDS Names, Enquiry, FiniteSetsExt, Functions

CONSTANTS
    Threshold,      \* from here on a pair is verified
    Margin,         \* this much below it is a low confidence
    Ambiguity,      \* the least gap between the best terminal and the next
    GeoThreshold    \* metres within which two places are near

ASSUME StopMatchAssumption ==
    /\ Threshold \in 0..10000 /\ Margin \in 0..Threshold
    /\ Ambiguity \in Nat /\ GeoThreshold \in Nat
    /\ \A q \in Enquiries.match :
        /\ q.stop.place \in Int
        /\ q.terms \in Seq(Range(q.terms))
        /\ \A i \in DOMAIN q.terms : q.terms[i].place \in Int

Nowhere == -100000
Located(item) == item.place # Nowhere
Apart(a, b) == IF a.place >= b.place THEN a.place - b.place ELSE b.place - a.place

(* OSM and MOTIS speak with one voice; tenths of trust.                    *)
Voice(source) == IF source = "motis" THEN "osm" ELSE source

Trust(a, b) ==
    CASE "seed" \in {a, b} -> 4
      [] "seed" \notin {a, b} /\ "manual" \in {a, b} -> 10
      [] {"seed", "manual"} \cap {a, b} = {} /\ "legacy" \in {a, b} -> 7
      [] {"seed", "manual", "legacy"} \cap {a, b} = {} -> IF Voice(a) = Voice(b) THEN 6 ELSE 10

CodesEqual(a, b) == a.codes \cap b.codes # {}

(* The four features, each with a weight and a percentage; one that either *)
(* side says nothing about is left out, and the weights stretched.         *)
Geometry(a, b) ==
    CASE 5 * Apart(a, b) <= GeoThreshold -> 100
      [] 5 * Apart(a, b) > GeoThreshold /\ Apart(a, b) <= GeoThreshold -> 60
      [] Apart(a, b) > GeoThreshold /\ Apart(a, b) <= 4 * GeoThreshold -> 25
      [] Apart(a, b) > 4 * GeoThreshold -> 0

Percent(yes) == IF yes THEN 100 ELSE 0

Weights(a, b) ==
    [name |-> 45,
     geom |-> IF Located(a) /\ Located(b) THEN 30 ELSE 0,
     settlement |-> IF a.settlement # <<>> /\ b.settlement # <<>> THEN 15 ELSE 0,
     transport |-> IF a.transport # {} /\ b.transport # {} THEN 10 ELSE 0]

Features(a, b) ==
    [name |-> Similarity(a.name, b.name),
     geom |-> Geometry(a, b),
     settlement |-> Percent(SameSettlement(a.settlement, b.settlement)),
     transport |-> Percent(a.transport \cap b.transport # {})]

Mean(weights, features, factor) ==
    (factor * (weights.name * features.name + weights.geom * features.geom
                + weights.settlement * features.settlement
                + weights.transport * features.transport))
        \div (weights.name + weights.geom + weights.settlement + weights.transport)

Weighted(a, b) == Mean(Weights(a, b), Features(a, b), 10 * Trust(a.source, b.source))

(* Without a code a pair is only good if the places are near or, outside   *)
(* of towns, if name and settlement agree and the sources are two voices.  *)

(* Mutant: one voice is enough.                                            *)
GuardOfOneVoice(a, b, class) ==
    \/ CodesEqual(a, b)
    \/ Located(a) /\ Located(b) /\ Apart(a, b) <= GeoThreshold
    \/ class # "urban" /\ Similarity(a.name, b.name) >= 80
       /\ SameSettlement(a.settlement, b.settlement)

Guard(a, b, class) ==
    \/ CodesEqual(a, b)
    \/ Located(a) /\ Located(b) /\ Apart(a, b) <= GeoThreshold
    \/ /\ class # "urban" /\ Similarity(a.name, b.name) >= 80
       /\ SameSettlement(a.settlement, b.settlement)
       /\ Trust(a.source, b.source) = 10

ScorePair(a, b) ==
    IF CodesEqual(a, b) THEN 1000 * Trust(a.source, b.source) ELSE Weighted(a, b)

(* Of the terminals (a function of their turns) the first of the best is   *)
(* taken.  The gap is the one to the worst of the others.                  *)
Scores(stop, terms) == [i \in DOMAIN terms |-> ScorePair(stop, terms[i])]

Best(scores) ==
    CHOOSE i \in DOMAIN scores :
        \A j \in DOMAIN scores : scores[i] > scores[j] \/ (scores[i] = scores[j] /\ i <= j)

Gap(scores, best) == scores[best] - Min({scores[j] : j \in DOMAIN scores \ {best}})

Band(stop, terms, class, scores, best) ==
    LET unsure == scores[best] >= Threshold - Margin
                  /\ Cardinality(DOMAIN terms) > 1 /\ Gap(scores, best) < Ambiguity
        good == scores[best] >= Threshold /\ Guard(stop, terms[best], class)
    IN [best |-> best,
        decision |-> CASE unsure -> "duplicate_ambiguous"
                       [] ~unsure /\ good -> "verified"
                       [] ~unsure /\ ~good ->
                            IF scores[best] >= Threshold - Margin
                            THEN "low_confidence" ELSE "rejected"]

BandOfBest(stop, terms, class, scores) == Band(stop, terms, class, scores, Best(scores))

Decision(stop, terms, class) ==
    IF DOMAIN terms = {} THEN [decision |-> "rejected", best |-> 0]
    ELSE BandOfBest(stop, terms, class, Scores(stop, terms))

(* The measure of how well a region's stops are covered: the share whose   *)
(* best score is at least a soft threshold.                                *)
Covered(stops, terms, soft) ==
    {i \in DOMAIN stops : \E j \in DOMAIN terms :
        ScorePair(stops[i], terms[j]) >= soft /\ ScorePair(stops[i], terms[j]) > 0}

MatchStop ==
    /\ Asked("match")
    /\ LET d == Decision(question.stop, question.terms, question.class)
       IN Reply([decision |-> d.decision, best |-> d.best,
                 covered |-> Covered(<<question.stop>>, question.terms, 4000)])

(***************************************************************************)
(* A stop that nobody located is never verified in a town but by a code,   *)
(* and a stop and a terminal that one voice tells of never are, unless     *)
(* their places are near or they share a code (docs/15-dev-status.md:133); *)
(* what is verified counts as covered.                                     *)
(***************************************************************************)
VerifiedHasGround ==
    Replied("match") /\ Told.decision = "verified" =>
        LET stop == question.stop
            best == question.terms[Told.best]
        IN /\ \/ CodesEqual(stop, best)
              \/ Located(stop) /\ Located(best) /\ Apart(stop, best) <= GeoThreshold
              \/ /\ question.class # "urban"
                 /\ Voice(stop.source) # Voice(best.source) \/ stop.source = "manual"
           /\ Told.covered # {}
=============================================================================
