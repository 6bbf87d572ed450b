------------------------------ MODULE WalkGrid ------------------------------
(***************************************************************************)
(* Stops near one another, found through a grid: the spatial index of      *)
(* internal/geo/index.go and the footpaths that BuildWalkTransfers of      *)
(* internal/model/model.go adds to a network.                              *)
(*                                                                         *)
(* The plane is one of integers, x to the east and y to the north of the   *)
(* origin; a cell of the index is Tall by Wide (a hundredth of a degree,   *)
(* which is shorter from west to east), one of the footpaths' is Square by *)
(* Square, a tenth.                                                        *)
(***************************************************************************)
EXTENDS Enquiry

CONSTANTS Tall, Wide, Square

IsPoint(s) == s.x \in Int /\ s.y \in Int

(* A footpath is at most 400 metres, much less than the side of a square.  *)
ASSUME WalkGridAssumption ==
    /\ Tall \in Nat \ {0} /\ Wide \in 1..Tall /\ Square \in Nat \ {0}
    /\ \A q \in Enquiries.around :
        /\ q.reach \in Nat /\ IsPoint(q.at)
        /\ \A s \in q.stops : IsPoint(s) /\ s.id \in Int
    /\ \A q \in Enquiries.links :
        q.reach \in 0..Square /\ \A s \in q.stops : IsPoint(s)

Within(a, b, reach) ==
    (a.x - b.x) * (a.x - b.x) + (a.y - b.y) * (a.y - b.y) <= reach * reach

(* A stop at the origin has no coordinates.                                *)
HasPosition(s) == s.x # 0 \/ s.y # 0

-----------------------------------------------------------------------------
(* The index: all stops of the cells around, as many as the reach is cells *)
(* tall and one more, even where they are narrower.                        *)

Cells(reach) == (reach + Tall - 1) \div Tall + 1

Column(s) == s.x \div Wide
Row(s)    == s.y \div Tall

(* cellKey masks the row to its low 32 bits and a lookup extends its sign, *)
(* which inverts the column: south of the equator a stop is under the key  *)
(* of a column as far on the other side of the meridian.                   *)
KeyColumn(s) == IF Row(s) < 0 THEN -Column(s) - 1 ELSE Column(s)

(* Mutant: the cells are counted without the last one.                     *)
AroundShort(a, b, reach) ==
    /\ KeyColumn(b) - Column(a) \in -reach \div Tall .. reach \div Tall
    /\ Row(b) - Row(a) \in -reach \div Tall .. reach \div Tall

Around(a, b, reach) ==
    /\ KeyColumn(b) - Column(a) \in -Cells(reach)..Cells(reach)
    /\ Row(b) - Row(a) \in -Cells(reach)..Cells(reach)

IndexNearest(at, stops, reach) ==
    {s \in stops : HasPosition(s) /\ Around(at, s, reach) /\ Within(at, s, reach)}

NearbyPairs(stops, reach) ==
    {p \in stops \X stops :
        /\ p[1].id < p[2].id /\ HasPosition(p[1])
        /\ p[2] \in IndexNearest(p[1], stops, reach)}

-----------------------------------------------------------------------------
(* The footpaths: pairs within a cell, then pairs of a cell and four of    *)
(* its neighbours, the other four having the cell for a neighbour.         *)

CellOf(s) == <<s.y \div Square, s.x \div Square>>

(* Mutant: the neighbour towards the north-west is left out.               *)
OffsetsOfThree == {<<0, 0>>, <<1, 0>>, <<0, 1>>, <<1, 1>>}

Offsets == {<<0, 0>>, <<1, 0>>, <<0, 1>>, <<1, 1>>, <<1, -1>>}

(* Stops where one may not change have no footpaths of their own; a stop   *)
(* without coordinates has.                                                *)
WalkTransfers(stops, links, reach) ==
    LET pairs == {p \in stops \X stops :
                    /\ p[1] # p[2] /\ ~p[1].provisional /\ ~p[2].provisional
                    /\ \E o \in Offsets :
                        CellOf(p[2]) = <<CellOf(p[1])[1] + o[1], CellOf(p[1])[2] + o[2]>>
                    /\ Within(p[1], p[2], reach)}
    IN links \cup {<<p[1].id, p[2].id>> : p \in pairs}
             \cup {<<p[2].id, p[1].id>> : p \in pairs}

LookAround ==
    /\ Asked("around")
    /\ Reply([nearest |-> IndexNearest(question.at, question.stops, question.reach),
              pairs |-> NearbyPairs(question.stops, question.reach)])

LinkStops ==
    /\ Asked("links")
    /\ Reply(WalkTransfers(question.stops, question.links, question.reach))

(***************************************************************************)
(* The index tells of no stop out of reach, and it finds every located one *)
(* in reach that is not south of the equator and every pair of such stops, *)
(* once, as long as the cells it looks at are wide enough together, which  *)
(* at the default of thirty minutes on foot they are up to 55 degrees of   *)
(* latitude (SpatialIndex.Nearest and NearbyPairs).                        *)
(***************************************************************************)
IndexFindsAll ==
    Replied("around") =>
        LET near  == {s \in question.stops : HasPosition(s)}
            north == {s \in near : s.y >= 0}
        IN /\ \A s \in Told.nearest : s \in near /\ Within(question.at, s, question.reach)
           /\ question.reach <= Cells(question.reach) * Wide =>
                /\ {s \in north : Within(question.at, s, question.reach)} \subseteq Told.nearest
                /\ \A s, t \in north :
                     s.id # t.id /\ Within(s, t, question.reach) =>
                         Cardinality({p \in Told.pairs : {p[1], p[2]} = {s, t}}) = 1

(***************************************************************************)
(* BuildWalkTransfers links exactly the stops within its radius where one  *)
(* may change, both ways, wherever the borders of the grid run, and leaves *)
(* the links there were (model.go:365-371).                                *)
(***************************************************************************)
LinksComplete ==
    Replied("links") =>
        Told = question.links \cup
            {<<p[1].id, p[2].id>> :
                p \in {r \in question.stops \X question.stops :
                        /\ r[1] # r[2] /\ ~r[1].provisional /\ ~r[2].provisional
                        /\ Within(r[1], r[2], question.reach)}}
=============================================================================
