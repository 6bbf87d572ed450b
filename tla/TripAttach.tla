----------------------------- MODULE TripAttach -----------------------------
(***************************************************************************)
(* The trips of an import put on the terminals of the skeleton             *)
(* (internal/sync/trips_attach.go, trips_match_index.go and                *)
(* trips_georesolve.go).                                                   *)
(*                                                                         *)
(* A stop of a trip has a name, a place or none, a region, an operator's   *)
(* code or none, and the minutes of its arrival and departure.  A terminal *)
(* is an item of StopMatch with a flag that its geometry is final.         *)
(***************************************************************************)
EXTENDS StopMatch

CONSTANTS
    MaxSpeed,       \* km/h that no vehicle exceeds
    Cell,           \* metres of a cell of the index of terminals
    Churn,          \* percent of the canon that an import may change
    Rural,          \* the regions that are not urban
    Signals,        \* a kind of stop -> words a terminal of that kind has
    Contrasts       \* words that tell terminals of one town apart

ASSUME TripAttachAssumption ==
    /\ MaxSpeed \in Nat \ {0} /\ Cell \in Nat \ {0} /\ Churn \in 0..100
    /\ \A q \in Enquiries.attach :
        /\ q.terms \in Seq(Range(q.terms))
        /\ \A i \in DOMAIN q.terms : q.terms[i].place \in Int
        /\ \A t \in DOMAIN q.trips :
            /\ q.trips[t].stops \in Seq(Range(q.trips[t].stops))
            /\ \A s \in Range(q.trips[t].stops) :
                /\ {"place", "arr", "dep"} \subseteq DOMAIN s
                /\ s.place \in Int /\ s.arr \in Int /\ s.dep \in Int

Class(stop) == IF stop.region \in Rural THEN "rural" ELSE "urban"

(* The operator's code is one of the ministry's register only.             *)
StopCodes(source, stop) == IF source = "mintrans" /\ stop.code # 0 THEN {stop.code} ELSE {}

PairItem(source, stop) ==
    [name |-> stop.name, place |-> stop.place, settlement |-> ExtractSettlement(stop.name),
     transport |-> {}, codes |-> StopCodes(source, stop), source |-> source]

(***************************************************************************)
(* A stop without a place is given the one of a terminal of its town whose *)
(* name is alike, unless another is as good.                               *)
(***************************************************************************)
Townsmen(settlement, terms) ==
    LET same == {i \in DOMAIN terms : Core(terms[i].settlement) # <<>> /\ settlement # <<>>
                                      /\ SameSettlement(settlement, Core(terms[i].settlement))}
    IN IF same # {} THEN same ELSE {i \in DOMAIN terms : Core(terms[i].settlement) = <<>>}

Likeness(name, term) ==
    Similarity(name, term.name)
        + (IF \E w \in Words(name) \cap DOMAIN Signals : Signals[w] \cap Words(term.name) # {}
           THEN 25 ELSE 0)
        - (IF (Words(term.name) \cap Contrasts) \ Words(name) # {} THEN 25 ELSE 0)

(* The terminals a place may be taken from: none, or the only one.         *)
Unrivalled(like) ==
    {i \in DOMAIN like : /\ like[i] >= 60
                         /\ \A j \in DOMAIN like \ {i} : like[j] < 60 \/ like[i] - like[j] >= 15}

Alike(name, terms) ==
    Unrivalled([i \in Townsmen(ExtractSettlement(name), terms) |->
                    IF Similarity(name, terms[i].name) >= 60 THEN Likeness(name, terms[i]) ELSE 0])

PlacedAt(stop, terms, alike) ==
    IF Located(stop) \/ alike = {}
    THEN stop
    ELSE [stop EXCEPT !.place = terms[CHOOSE i \in alike : TRUE].place]

ResolveStop(terms, stop) == PlacedAt(stop, terms, Alike(stop.name, terms))

(***************************************************************************)
(* The terminals a stop is compared with, by turns: those of its cell and  *)
(* the cells beside, one cell after the other, those of its code, those    *)
(* without a place.  A terminal of an earlier stop is out, but for the     *)
(* last stop of a ring.                                                    *)
(***************************************************************************)
Turn(source, stop, term) ==
    IF Located(term) /\ Located(stop) /\ term.place \div Cell - stop.place \div Cell \in -1..1
    THEN term.place \div Cell - stop.place \div Cell + 1
    ELSE IF term.codes \cap StopCodes(source, stop) # {} THEN 3
    ELSE IF ~Located(term) THEN 4 ELSE 5

Candidates(source, stop, terms) == {i \in DOMAIN terms : Turn(source, stop, terms[i]) < 5}

Free(t, i, n, matched) ==
    \/ \A k \in DOMAIN matched : matched[k].terminal # t
    \/ i = n /\ i > 2 /\ matched # <<>> /\ matched[1].terminal = t

(* Within a turn the order is that of the list.                            *)
TerminalAt(turn, terms) == ((turn - 1) % Len(terms)) + 1

Pool(source, stop, terms, free) ==
    [turn \in {Turn(source, stop, terms[i]) * Len(terms) + i : i \in free} |->
        terms[TerminalAt(turn, terms)]]

Rank(reason) == CASE reason = "duplicate_ambiguous" -> 3
                  [] reason = "low_confidence" -> 2
                  [] reason = "incomplete_trip" -> 1

Noted(acc, i, stop, terms, found) ==
    LET reason == IF found.decision = "rejected" THEN "incomplete_trip" ELSE found.decision
    IN IF found.decision = "verified"
       THEN [acc EXCEPT !.matched = Append(@, [stop |-> i, terminal |-> TerminalAt(found.best, terms),
                                               arr |-> stop.arr, dep |-> stop.dep])]
       ELSE [acc EXCEPT !.unmatched = @ \cup {i},
                        !.worst = IF Rank(reason) > Rank(@) THEN reason ELSE @]

MatchNext(source, acc, i, n, stop, terms) ==
    Noted(acc, i, stop, terms,
          Decision(PairItem(source, stop),
                   Pool(source, stop, terms, {t \in Candidates(source, stop, terms) :
                                                Free(t, i, n, acc.matched)}),
                   Class(stop)))

NoneYet == [matched |-> <<>>, unmatched |-> {}, worst |-> "incomplete_trip"]

MatchStops(source, stops, terms) ==
    LET noted[n \in 0..Len(stops)] ==
            IF n = 0 THEN NoneYet
            ELSE MatchNext(source, noted[n - 1], n, Len(stops), stops[n], terms)
    IN noted[Len(stops)]

(* With gaps a trip needs two stops and two thirds of them.                *)
BackbonePromotable(matched, stops) == Len(matched) >= 2 /\ 3 * Len(matched) >= 2 * Len(stops)

(* Two stops in a row at one terminal are one.                             *)
WithStop(out, m) ==
    IF out # <<>> /\ out[Len(out)].terminal = m.terminal
    THEN [out EXCEPT ![Len(out)].dep = m.dep]
    ELSE Append(out, m)

CollapseConsecutive(matched) ==
    LET out[n \in 0..Len(matched)] == IF n = 0 THEN <<>> ELSE WithStop(out[n - 1], matched[n])
    IN out[Len(matched)]

Monotonic(times) ==
    \A i \in DOMAIN times : /\ times[i].arr <= times[i].dep
                            /\ i > 1 => times[i - 1].dep <= times[i].arr

(* The legs whose ends both have a place and that no vehicle can do; one   *)
(* without a minute is too fast unless its ends are within fifty metres.   *)
TooFast(times, terms) ==
    {i \in 2..Len(times) :
        LET a == terms[times[i - 1].terminal]
            b == terms[times[i].terminal]
            dur == times[i].arr - times[i - 1].dep
        IN /\ Located(a) /\ Located(b)
           /\ IF dur <= 0 THEN Apart(a, b) >= 50 ELSE Apart(a, b) * 60 > MaxSpeed * 1000 * dur}

Confirmed(times, terms, i) ==
    terms[times[i - 1].terminal].final /\ terms[times[i].terminal].final

(***************************************************************************)
(* What becomes of a trip: promoted, staged with a state, or dead.         *)
(***************************************************************************)
Fate(fate, state, times) == [fate |-> fate, state |-> state, times |-> times]

(* Mutant: a leg between ends that are not both confirmed is not checked.  *)
ValidateConfirmed(times, terms) ==
    CASE ~Monotonic(times) -> Fate("dead", "non-monotonic", <<>>)
      [] Monotonic(times) /\ \E i \in TooFast(times, terms) : Confirmed(times, terms, i) ->
            Fate("dead", "overspeed", <<>>)
      [] OTHER -> Fate("promoted", "none", times)

Validate(times, terms) ==
    CASE ~Monotonic(times) -> Fate("dead", "non-monotonic", <<>>)
      [] Monotonic(times) /\ \E i \in TooFast(times, terms) : Confirmed(times, terms, i) ->
            Fate("dead", "overspeed", <<>>)
      [] Monotonic(times) /\ TooFast(times, terms) # {}
         /\ \A i \in TooFast(times, terms) : ~Confirmed(times, terms, i) ->
            Fate("staged", "needs_review", times)
      [] Monotonic(times) /\ TooFast(times, terms) = {} -> Fate("promoted", "none", times)

Matched(match, stops, terms) ==
    IF match.unmatched # {} /\ ~BackbonePromotable(match.matched, stops)
    THEN Fate("staged",
              IF match.worst = "incomplete_trip" THEN "skeleton_gap" ELSE "incomplete_trip",
              match.matched)
    ELSE Validate(CollapseConsecutive(match.matched), terms)

Resolved(source, stops, terms) == Matched(MatchStops(source, stops, terms), stops, terms)

AttachTrip(source, trip, terms) ==
    CASE trip.frequencyOnly \/ Len(trip.stops) < 2 -> Fate("staged", "awaiting_times", <<>>)
      [] ~trip.frequencyOnly /\ Len(trip.stops) >= 2 /\ trip.untimed ->
             Fate("staged", "incomplete_trip", <<>>)
      [] OTHER ->
             Resolved(source, [i \in DOMAIN trip.stops |-> ResolveStop(terms, trip.stops[i])], terms)

(***************************************************************************)
(* The whole import: what of the canon vanishes with it, and whether that  *)
(* or the change is more than an import may be.                            *)
(***************************************************************************)
Report(fates, current, prev) ==
    LET gone == prev \ current
        more == Cardinality(current \ prev) + Cardinality(gone)
        old == Cardinality(prev)
        all == Max({old, Cardinality(current), 1})
    IN [fates |-> fates, current |-> current, gone |-> gone,
        alert |-> old > 0 /\ (100 * more > Churn * all \/ 100 * Cardinality(gone) > Churn * old)]

Reported(fates) ==
    Report(fates,
           {question.trips[t].key : t \in {u \in DOMAIN fates : fates[u].fate = "promoted"}},
           question.prev)

AttachTrips ==
    /\ Asked("attach")
    /\ Reply(Reported([t \in DOMAIN question.trips |->
                          AttachTrip(question.source, question.trips[t], question.terms)]))

Promoted == {t \in DOMAIN Told.fates : Told.fates[t].fate = "promoted"}

(***************************************************************************)
(* What is promoted can be driven: no stop is left before it is reached,   *)
(* and no leg, the ones across a gap included, is faster than the limit    *)
(* (trips_attach.go:205).                                                  *)
(***************************************************************************)
PromotedIsDrivable ==
    Replied("attach") => \A t \in Promoted :
        LET times == Told.fates[t].times
            terms == question.terms
        IN \A i, j \in DOMAIN times : i < j =>
            /\ times[i].arr <= times[i].dep /\ times[i].dep <= times[j].arr
            /\ j = i + 1 /\ Located(terms[times[i].terminal]) /\ Located(terms[times[j].terminal]) =>
                  \/ Apart(terms[times[i].terminal], terms[times[j].terminal]) < 50
                  \/ Apart(terms[times[i].terminal], terms[times[j].terminal]) * 60
                        <= MaxSpeed * 1000 * (times[j].arr - times[i].dep)
=============================================================================
