------------------------------- MODULE Reestr -------------------------------
(***************************************************************************)
(* The register of the ministry of transport: its contract, the comparison *)
(* of two editions and the flattening of its schedules into the trips that *)
(* the trips sync attaches (internal/adapters/mintrans: contract.go,       *)
(* bootstrap.go, days.go and trips.go).                                    *)
(*                                                                         *)
(* A cell of a block has a time and the weekdays it is good for; a block   *)
(* says on which weekdays it is served (none of them, or all where it says *)
(* "every other day").  Clock and rolling over midnight are those of       *)
(* Intercity.                                                              *)
(***************************************************************************)
EXTENDS Intercity, Functions

CONSTANTS AllWeek,      \* the weekdays
          July,         \* the month that ends what began in it or after it
          ChurnLimit     \* churn of an edition, in percent, that is let pass

NoCell == [time |-> NoTime, days |-> AllWeek]
NoBlock == [says |-> "absent", days |-> {}, arr |-> <<>>, dep |-> <<>>]

CellAt(list, run) == IF run \in DOMAIN list THEN list[run] ELSE NoCell

(* The clock times of a block, and of a schedule's period.                 *)
Clock(list) == [i \in DOMAIN list |-> list[i].time]
Timed(block) == [arr |-> Clock(block.arr), dep |-> Clock(block.dep)]

PeriodOf(schedule) ==
    LET winter == \E i \in DOMAIN schedule.stops : HasTimes(Timed(schedule.stops[i].winter))
    IN [i \in DOMAIN schedule.stops |->
            IF winter THEN schedule.stops[i].winter ELSE schedule.stops[i].summer]

HasPeriod(schedule) ==
    \E i \in DOMAIN schedule.stops :
        HasTimes(Timed(schedule.stops[i].winter)) \/ HasTimes(Timed(schedule.stops[i].summer))

RunCount(blocks) == RunsCount([i \in DOMAIN blocks |-> Timed(blocks[i])])

(* A time is one of the clock's, of any day (ParseCellTime).               *)
OfTheClock(block) ==
    \A list \in {block.arr, block.dep} : \A r \in DOMAIN list :
        list[r].time \in {NoTime} \cup 0..(Day - 1)

ASSUME ReestrAssumption ==
    \A q \in Enquiries.flatten :
        /\ q.schedule.stops \in Seq(Range(q.schedule.stops))
        /\ \A i \in DOMAIN q.schedule.stops :
            OfTheClock(q.schedule.stops[i].winter) /\ OfTheClock(q.schedule.stops[i].summer)

(* Weekdays: a block without a list, or with "every other day", is served  *)
(* every day.                                                              *)
BlockDays(block) == IF block.days = {} THEN AllWeek ELSE block.days

Untimed(block, run) ==
    \/ block.says \in {"absent", "none"}
    \/ CellAt(block.arr, run).time = NoTime /\ CellAt(block.dep, run).time = NoTime

DaysAt(block, run) ==
    BlockDays(block) \cap CellAt(block.arr, run).days \cap CellAt(block.dep, run).days

(* One run: the calls of its first n stops that are timed, those without   *)
(* times, and the days on which all its timed stops are served.            *)
FlatCalls(schedule, blocks, run) ==
    LET calls[n \in 0..Len(blocks)] ==
            IF n = 0 THEN <<>>
            ELSE IF Untimed(blocks[n], run) THEN calls[n - 1]
            ELSE WithCall(calls[n - 1], schedule.stops[n].stop,
                          CellAt(blocks[n].arr, run).time, CellAt(blocks[n].dep, run).time)
    IN calls[Len(blocks)]

FlatRun(schedule, run) ==
    LET blocks == PeriodOf(schedule)
        known(i) == ~Untimed(blocks[i], run)
    IN [run |-> run, calls |-> FlatCalls(schedule, blocks, run),
        untimed |-> {schedule.stops[i].stop : i \in {j \in DOMAIN blocks : ~known(j)}},
        weekdays |-> {d \in AllWeek : \A i \in DOMAIN blocks :
                        known(i) => d \in DaysAt(blocks[i], run)},
        frequencyOnly |-> FALSE]

(* An empty list of weekdays stands for all of them.                       *)
Weekdays(f) == IF f.weekdays = AllWeek THEN {} ELSE f.weekdays

(* Mutant: a run whose stops are never all served on one day is kept.      *)
KeptAlways(f) == TRUE

(* A run of which all stops are timed is dropped if there is no day it     *)
(* serves them on; the days of a run with untimed stops are not looked at. *)
Kept(f) == f.untimed = {} => f.weekdays # {}

FlattenTrips(schedule) ==
    IF ~HasPeriod(schedule)
    THEN {[run |-> 0, calls |-> <<>>, untimed |-> {}, weekdays |-> {}, frequencyOnly |-> TRUE]}
    ELSE {[f EXCEPT !.weekdays = IF f.untimed = {} THEN Weekdays(f) ELSE {}] :
            f \in {g \in {FlatRun(schedule, r) : r \in 1..RunCount(PeriodOf(schedule))} : Kept(g)}}

(* Two editions: a route has changed with its carrier or with the stops of *)
(* a direction.                                                            *)
Signatures(set) ==
    [r \in {set.routes[i].reg : i \in DOMAIN set.routes} |->
        <<{set.routes[i].carrier : i \in {j \in DOMAIN set.routes : set.routes[j].reg = r}},
          {<<set.schedules[i].direction, set.schedules[i].stops>> :
                i \in {j \in DOMAIN set.schedules : set.schedules[j].route = r}}>>]

Added(old, new) == DOMAIN new \ DOMAIN old
Removed(old, new) == DOMAIN old \ DOMAIN new
Altered(old, new) == {r \in DOMAIN old \cap DOMAIN new : old[r] # new[r]}

Editions(old, new) ==
    LET n == Cardinality(DOMAIN old)
        most == Max({n, Cardinality(DOMAIN new), 1})
        churn == 100 * Cardinality(Added(old, new) \cup Removed(old, new) \cup Altered(old, new))
        gone == 100 * Cardinality(Removed(old, new))
    IN [added |-> Added(old, new), removed |-> Removed(old, new),
        changed |-> Altered(old, new),
        trust |-> churn <= ChurnLimit * most /\ gone <= ChurnLimit * n]

(* The contract: names are used once and known, the two directions of a    *)
(* route are given once, and a service ends after it begins, but in the    *)
(* first half of the calendar if it began in the second.                   *)
Once(list, f(_)) ==
    \A i, j \in DOMAIN list : f(list[i]) = f(list[j]) => i = j

KeepsContract(set) ==
    /\ Once(set.routes, LAMBDA r : r.reg)
    /\ Once(set.stops, LAMBDA s : s)
    /\ Once(set.services, LAMBDA v : v.id)
    /\ Once(set.schedules, LAMBDA s : <<s.route, s.direction>>)
    /\ \A i \in DOMAIN set.services :
        LET v == set.services[i] IN v.from <= v.to \/ (v.from >= July /\ v.to <= July)
    /\ \A i \in DOMAIN set.schedules :
        LET s == set.schedules[i]
        IN /\ \E k \in DOMAIN set.routes : set.routes[k].reg = s.route
           /\ set.services # <<>> => \E k \in DOMAIN set.services : set.services[k].id = s.service
           /\ s.stops # <<>>
           /\ \A k \in DOMAIN s.stops : \E n \in DOMAIN set.stops : set.stops[n] = s.stops[k]

Flatten ==
    /\ Asked("flatten")
    /\ Reply(FlattenTrips(question.schedule))

CompareEditions ==
    /\ Asked("editions")
    /\ Reply(IF KeepsContract(question.old) /\ KeepsContract(question.new)
             THEN <<Editions(Signatures(question.old), Signatures(question.new))>> ELSE <<>>)

(***************************************************************************)
(* A flattened trip whose stops all have times is offered on no weekday on *)
(* which one of them is not served, and its times run forward, each the    *)
(* first on the clock that does (FlattenTrips; asserted of single tables   *)
(* in days_test.go and trips_test.go).                                     *)
(***************************************************************************)
ServedOnItsDays ==
    Replied("flatten") =>
        \A f \in Told : ~f.frequencyOnly /\ f.untimed = {} =>
            LET blocks == PeriodOf(question.schedule)
            IN /\ \A d \in (IF f.weekdays = {} THEN AllWeek ELSE f.weekdays) :
                    \A i \in DOMAIN blocks : d \in DaysAt(blocks[i], f.run)
               /\ \A i \in DOMAIN f.calls :
                    /\ f.calls[i].dep - f.calls[i].arr \in 0..(Day - 1)
                    /\ i > 1 => f.calls[i].arr - f.calls[i - 1].dep \in 0..(Day - 1)
=============================================================================
