---------------------------- MODULE SkeletonJoin ----------------------------
(***************************************************************************)
(* The stations of OSM and of Yandex made one skeleton                     *)
(* (internal/skeleton): records of one station are collapsed, the two      *)
(* sources joined, at once or page by page, and a stop that nobody located *)
(* is put between its neighbours.                                          *)
(*                                                                         *)
(* A record is an item of StopMatch.  Scores are in hundredths of percent. *)
(***************************************************************************)
EXTENDS StopMatch, SequencesExt

CONSTANTS
    JoinCell,       \* metres of a cell of the pager's index
    JoinThreshold, JoinMargin, JoinAmbiguity,
    CollapseWithin  \* metres within which stations of one name are one

ASSUME JoinScaleAssumption ==
    /\ JoinCell \in Nat \ {0} /\ CollapseWithin \in Nat
    /\ JoinThreshold \in 0..10000 /\ JoinMargin \in Nat /\ JoinAmbiguity \in Nat
    /\ 4 * GeoThreshold <= JoinCell /\ JoinAmbiguity <= JoinThreshold - JoinMargin

ASSUME SkeletonJoinAssumption ==
    /\ \A q \in Enquiries.join :
        /\ q.osm \in Seq(Range(q.osm)) /\ \A i \in DOMAIN q.osm : q.osm[i].place \in Int
        /\ q.yandex \in Seq(Range(q.yandex)) /\ \A i \in DOMAIN q.yandex : q.yandex[i].place \in Int
    /\ \A q \in Enquiries.collapse :
        q \in Seq(Range(q)) /\ \A i \in DOMAIN q : q[i].place \in Int

(***************************************************************************)
(* Records of one name that a chain of short distances links are one: a    *)
(* forest over their indices, whose roots are the least of their trees.    *)
(***************************************************************************)
Root(parent, x) ==
    LET up[y \in DOMAIN parent] == IF parent[y] = y THEN y ELSE up[parent[y]]
    IN up[x]

(* Mutant: the record is hung, not the root of its tree.                   *)
UniteTheLeaf(parent, i, j) ==
    LET low == Min({Root(parent, i), Root(parent, j)})
    IN [parent EXCEPT ![j] = low]

Unite(parent, i, j) ==
    LET low == Min({Root(parent, i), Root(parent, j)})
        high == Max({Root(parent, i), Root(parent, j)})
    IN [parent EXCEPT ![high] = low]

(* All pairs are looked at, the first with each after it, and so on.       *)
Hung(records, parent, i, j) ==
    IF /\ i < j /\ {i, j} \subseteq DOMAIN parent
       /\ Apart(records[i], records[j]) <= CollapseWithin
       /\ Root(parent, i) # Root(parent, j)
    THEN Unite(parent, i, j) ELSE parent

HungFrom(records, parent, i) ==
    LET forest[j \in 0..Len(records)] ==
            IF j = 0 THEN parent ELSE Hung(records, forest[j - 1], i, j)
    IN forest[Len(records)]

Forest(records, within) ==
    LET forest[i \in 0..Len(records)] ==
            IF i = 0 THEN [k \in within |-> k] ELSE HungFrom(records, forest[i - 1], i)
    IN forest[Len(records)]

ClusterByDistance(records, within) ==
    LET forest == Forest(records, within)
    IN {{i \in within : Root(forest, i) = r} : r \in {Root(forest, i) : i \in within}}

(* The first of a cluster takes the means and codes of the others.         *)
Merged(records, cluster) ==
    [records[Min(cluster)] EXCEPT
        !.transport = UNION {records[i].transport : i \in cluster},
        !.codes = UNION {records[i].codes : i \in cluster}]

CollapseStopArea(records) ==
    LET groups == {{i \in DOMAIN records : Core(records[i].name) = Core(records[j].name)} :
                        j \in DOMAIN records}
        clusters == UNION {ClusterByDistance(records, {i \in g : Located(records[i])})
                           \cup ({{i \in g : ~Located(records[i])}} \ {{}}) : g \in groups}
    IN [clusters |-> clusters, stations |-> {Merged(records, c) : c \in clusters}]

Collapse ==
    /\ Asked("collapse")
    /\ Reply(CollapseStopArea(question))

(***************************************************************************)
(* The join.  Each station of OSM in turn takes the best of Yandex's that  *)
(* are left, if it is good and better than the next by a margin, and near. *)
(* One that is almost as good as the next is for review, and taken too.    *)
(* The names are compared whole, not by their cores.                       *)
(***************************************************************************)
JoinScore(a, b) ==
    IF CodesEqual(a, b) THEN 10000
    ELSE Mean(Weights(a, b),
              [Features(a, b) EXCEPT !.name = NormalizedSimilarity(a.name, b.name)], 100)

Beside(a, b) == Located(a) /\ Located(b) /\ Apart(a, b) <= GeoThreshold

EnrichFrom(o, y) ==
    [o EXCEPT !.settlement = IF @ = <<>> THEN y.settlement ELSE @,
              !.transport = IF @ = {} THEN y.transport ELSE @,
              !.codes = @ \cup y.codes]

(* What becomes of o among its candidates, of which some are free; those   *)
(* that are taken still count as company, but not as rivals.               *)
JoinWith(o, y, with, company, score, next) ==
    LET good == score >= JoinThreshold /\ (score - next >= JoinMargin \/ next = 0)
                /\ (CodesEqual(o, y) \/ Beside(o, y))
        unsure == score >= JoinThreshold - JoinMargin /\ company > 1 /\ score - next < JoinAmbiguity
    IN CASE good -> [fate |-> "enriched", with |-> with]
         [] ~good /\ unsure -> [fate |-> "duplicate_ambiguous", with |-> with]
         [] ~good /\ ~unsure -> [fate |-> "identity_only", with |-> 0]

JoinBest(o, yandex, company, scores, best) ==
    JoinWith(o, yandex[best], best, company, scores[best],
             Max({0} \cup {scores[j] : j \in DOMAIN scores \ {best}}))

(* Candidates are looked at in their turns, and the first of the best is   *)
(* taken.                                                                  *)
FirstBest(scores, turns) ==
    CHOOSE j \in DOMAIN scores :
        \A k \in DOMAIN scores :
            scores[j] > scores[k] \/ (scores[j] = scores[k] /\ turns[j] <= turns[k])

JoinLeft(o, yandex, turns, scores) ==
    IF DOMAIN scores = {} THEN [fate |-> "identity_only", with |-> 0]
    ELSE JoinBest(o, yandex, Cardinality(DOMAIN turns), scores, FirstBest(scores, turns))

JoinOne(o, yandex, turns, free) ==
    JoinLeft(o, yandex, turns, [j \in DOMAIN turns \cap free |-> JoinScore(o, yandex[j])])

(***************************************************************************)
(* The pager looks only into the cell of the station and those beside it,  *)
(* and there no farther than four times the threshold without a code; what *)
(* has no place comes last.                                                *)
(***************************************************************************)
CellsOff(o, y) == y.place \div JoinCell - o.place \div JoinCell

InWindow(o, y) == Apart(o, y) <= 4 * GeoThreshold \/ CodesEqual(o, y)

(* Mutant: only the station's own cell.                                    *)
NearbyInOneCell(o, yandex) ==
    [j \in {k \in DOMAIN yandex :
                Located(yandex[k]) => CellsOff(o, yandex[k]) = 0 /\ InWindow(o, yandex[k])} |->
        IF Located(yandex[j]) THEN j ELSE Len(yandex) + j]

NearbyYandex(o, yandex) ==
    [j \in {k \in DOMAIN yandex :
                Located(yandex[k]) => CellsOff(o, yandex[k]) \in -1..1 /\ InWindow(o, yandex[k])} |->
        IF Located(yandex[j]) THEN Len(yandex) * (CellsOff(o, yandex[j]) + 1) + j
        ELSE Len(yandex) * 3 + j]

(* A station without a place may be any that is left.  The pages differ    *)
(* from one join in nothing else: what is taken is taken for all pages.    *)
Turns(paged, o, yandex, free) ==
    IF ~paged THEN [j \in DOMAIN yandex |-> j]
    ELSE IF Located(o) THEN NearbyYandex(o, yandex) ELSE [j \in free |-> j]

Joined(paged, acc, o, yandex) ==
    LET fate == JoinOne(o, yandex, Turns(paged, o, yandex, acc.free), acc.free)
    IN [fates |-> Append(acc.fates, fate), free |-> acc.free \ {fate.with}]

JoinedFrom(paged, osm, yandex) ==
    LET join[n \in 0..Len(osm)] ==
            IF n = 0 THEN [fates |-> <<>>, free |-> DOMAIN yandex]
            ELSE Joined(paged, join[n - 1], osm[n], yandex)
    IN join[Len(osm)]

Join(osm, yandex) == JoinedFrom(FALSE, osm, yandex)
PagedJoin(osm, yandex) == JoinedFrom(TRUE, osm, yandex)

Skeleton(paged, whole) ==
    [paged |-> paged, whole |-> whole,
     canon |-> [i \in DOMAIN question.osm |->
        IF paged.fates[i].with = 0 THEN question.osm[i]
        ELSE EnrichFrom(question.osm[i], question.yandex[paged.fates[i].with])]]

JoinSources ==
    /\ Asked("join")
    /\ Reply(Skeleton(PagedJoin(question.osm, question.yandex), Join(question.osm, question.yandex)))

(***************************************************************************)
(* A stop nobody located lies between the nearest located ones before and  *)
(* after it, in the share of the durations, or of the stops, between.      *)
(***************************************************************************)
Weight(stop) == IF stop.duration > 0 THEN stop.duration ELSE stop.distance

Interpolated(stops, idx) ==
    LET located == {i \in DOMAIN stops : stops[i].matched}
        prev == Max({i \in located : i < idx})
        next == Min({i \in located : i > idx})
        total == MapThenSumSet(LAMBDA i : Weight(stops[i]), prev..(next - 1))
        passed == 2 * MapThenSumSet(LAMBDA i : Weight(stops[i]), prev..(idx - 1)) + Weight(stops[idx])
        leg == stops[next].place - stops[prev].place
        share == IF total > 0 THEN (leg * passed) \div (2 * total)
                 ELSE (leg * (idx - prev)) \div (next - prev)
    IN IF /\ ~stops[idx].matched
          /\ \E i \in located : i < idx
          /\ \E i \in located : i > idx
       THEN {stops[prev].place + share} ELSE {}

InterpolatePosition ==
    /\ Asked("interpolate")
    /\ Reply([i \in DOMAIN question |-> Interpolated(question, i)])

(***************************************************************************)
(* Two records are collapsed exactly if a chain of records of their name,  *)
(* each within the distance of the next, links them: any set with the one,  *)
(* and with all that is near its members, has the other (osm.go:91).       *)
(***************************************************************************)
Near(records, j, k) ==
    /\ Located(records[j]) /\ Located(records[k])
    /\ Core(records[j].name) = Core(records[k].name)
    /\ Apart(records[j], records[k]) <= CollapseWithin

Closed(records, set) ==
    \A j \in set : \A k \in DOMAIN records : Near(records, j, k) => k \in set

Linked(records, i) ==
    {k \in DOMAIN records :
        \A set \in SUBSET DOMAIN records : i \in set /\ Closed(records, set) => k \in set}

ClustersAreChains ==
    Replied("collapse") =>
        \A i \in DOMAIN question : Located(question[i]) =>
            {c \in Told.clusters : i \in c} = {Linked(question, i)}

(***************************************************************************)
(* Where every station of Yandex is near enough to every one of OSM to be  *)
(* compared and no two are as good, the pages are the whole join           *)
(* (join_stream.go:18); and no station of Yandex ever serves two of OSM.   *)
(***************************************************************************)
Comparable(osm, yandex) ==
    \A i \in DOMAIN osm : \A j \in DOMAIN yandex :
        /\ Located(osm[i]) /\ Located(yandex[j]) => Apart(osm[i], yandex[j]) <= 4 * GeoThreshold
        /\ \A k \in DOMAIN yandex \ {j} : JoinScore(osm[i], yandex[j]) # JoinScore(osm[i], yandex[k])

PagesAreTheJoin ==
    Replied("join") =>
        /\ Comparable(question.osm, question.yandex) => Told.paged = Told.whole
        /\ \A i, j \in DOMAIN question.osm :
              i # j /\ Told.paged.fates[i].with # 0 =>
                  Told.paged.fates[i].with # Told.paged.fates[j].with
=============================================================================
