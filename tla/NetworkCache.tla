---------------------------- MODULE NetworkCache ----------------------------
(***************************************************************************)
(* The network a search rides on, read from the canon while it is written: *)
(* networkForDay of internal/mcp/mcp.go over LoadNetwork of                *)
(* internal/store/postgres/store.go, beside the transactions of            *)
(* internal/sync/trips_promote.go.  Every query of LoadNetwork sees what   *)
(* is committed when it is made.                                           *)
(*                                                                         *)
(* A trip is a number, in the order of the rows; its calls are a sequence  *)
(* of records with a stop.  Links on foot are WalkGrid's, the hops between *)
(* calls Timetable's; zones, fares and services are left out.              *)
(***************************************************************************)
EXTENDS Integers, Sequences, FiniteSets, Functions

CONSTANTS
    Readers,
    Trips, Route, TripCode,     \* every trip's route and its code on it
    Editions,               \* per trip, the days and calls it may be given
    Whens,                  \* when a search may ask for: [at, zone] in hours
    HoursOfDay, Week,            \* of a day, and its days
    MaxWrites               \* bound: how often the canon is written

ASSUME NetworkCacheAssumption ==
    /\ Trips \subseteq Nat /\ MaxWrites \in Nat
    /\ \A t \in Trips : \A e \in Editions[t] : e.calls \in Seq(Range(e.calls))
    /\ HoursOfDay \in Nat \ {0} /\ Week \in Nat \ {0}
    /\ \A w \in Whens : w.at \in Nat /\ w.zone \in Int /\ w.at + w.zone \in Nat

VARIABLES
    stops, routes,  \* that there are
    trips,          \* the rows of trips, with their calls
    everHad,        \* all the calls a trip was ever given at once
    writes,
    kept,           \* the network kept: none, or one with its day
    reader          \* how far everyone is, and what they were told last

networkVars == <<stops, routes, trips, everHad, writes, kept, reader>>

(* The day a network is kept under is that of Greenwich; the one it is     *)
(* built for is that of the request's own zone.                            *)
DayKey(when) == when.at \div HoursOfDay
DayBase(when) == (when.at + when.zone) \div HoursOfDay

ServiceDaysMatch(days, date) == days = {} \/ date % Week \in days

NetworkInit ==
    /\ stops = {} /\ routes = {} /\ trips = <<>> /\ writes = 0
    /\ everHad = [t \in Trips |-> {}]
    /\ kept = {}
    /\ reader = [r \in Readers |-> [at |-> "idle", told |-> {}]]

-----------------------------------------------------------------------------
(* Mutant: the calls the trip had before are not deleted first.            *)
RewrittenOver(old, new) == new \o SubSeq(old, Len(new) + 1, Len(old))

Rewritten(old, new) == new

(* A promotion is one transaction, with the stops and the route it needs.  *)
PersistTrip(t, edition) ==
    LET old == IF t \in DOMAIN trips THEN trips[t].calls ELSE <<>>
        calls == Rewritten(old, edition.calls)
    IN /\ writes < MaxWrites
       /\ writes' = writes + 1
       /\ stops' = stops \cup {edition.calls[i].stop : i \in DOMAIN edition.calls}
       /\ routes' = routes \cup {Route[t]}
       /\ trips' = [u \in DOMAIN trips \cup {t} |->
                       IF u = t THEN [days |-> edition.days, valid |-> TRUE, calls |-> calls] ELSE trips[u]]
       /\ everHad' = [everHad EXCEPT ![t] = @ \cup {edition.calls}]
       /\ UNCHANGED <<kept, reader>>

TombstoneTrip(t) ==
    /\ t \in DOMAIN trips /\ trips[t].valid /\ writes < MaxWrites
    /\ writes' = writes + 1
    /\ trips' = [trips EXCEPT ![t].valid = FALSE]
    /\ UNCHANGED <<stops, routes, everHad, kept, reader>>

-----------------------------------------------------------------------------
Told(r, when, net) ==
    reader' = [reader EXCEPT ![r] = [at |-> "idle", told |-> {[when |-> when, net |-> net]}]]

AskNetwork(r, when) ==
    /\ reader[r].at = "idle"
    /\ IF \E net \in kept : net.key = DayKey(when)
       THEN \E net \in kept : Told(r, when, net)
       ELSE reader' = [reader EXCEPT ![r] =
                [at |-> "stops", when |-> when, alive |-> TRUE,
                 stops |-> {}, routes |-> {}, trips |-> <<>>, told |-> {}]]
    /\ UNCHANGED <<stops, routes, trips, everHad, writes, kept>>

(* The caller goes away, or the connection to the database does.           *)
CancelLoad(r) ==
    /\ reader[r].at # "idle" /\ reader[r].alive
    /\ reader' = [reader EXCEPT ![r].alive = FALSE]
    /\ UNCHANGED <<stops, routes, trips, everHad, writes, kept>>

Reads(r, at, what, value, next) ==
    /\ reader[r].at = at /\ reader[r].alive
    /\ reader' = [reader EXCEPT ![r][what] = value, ![r].at = next]
    /\ UNCHANGED <<stops, routes, trips, everHad, writes, kept>>

ReadStops(r) == Reads(r, "stops", "stops", stops, "routes")
ReadRoutes(r) == Reads(r, "routes", "routes", routes, "trips")
ReadTrips(r) ==
    Reads(r, "trips", "trips", [t \in {u \in DOMAIN trips : trips[u].valid} |-> trips[t].days], "times")

(* A trip whose route was not there to read has no route in its name.      *)
TripName(r, t) ==
    <<IF Route[t] \in reader[r].routes THEN {Route[t]} ELSE {}, TripCode[t]>>

(* Rows come by trip and call.  All of them come, or no more than those    *)
(* before the reading breaks off: the error is not looked at.              *)
Rows(t, last, n) ==
    IF t < last THEN trips[t].calls
    ELSE IF t = last THEN SubSeq(trips[t].calls, 1, n) ELSE <<>>

(* The n-th of a set of numbers.                                           *)
Nth(P, n) == CHOOSE i \in P : Cardinality({j \in P : j <= i}) = n

(* The rows of known stops, in their order.                                *)
OfStops(rows, known) ==
    LET P == {i \in DOMAIN rows : rows[i].stop \in known}
    IN [k \in 1..Cardinality(P) |-> rows[Nth(P, k)]]

CallsRead(r, t, last, n) == OfStops(Rows(t, last, n), reader[r].stops)

Assembled(r, last, n) ==
    {[trip |-> t, days |-> reader[r].trips[t], calls |-> CallsRead(r, t, last, n)] :
        t \in {u \in DOMAIN reader[r].trips :
                /\ CallsRead(r, u, last, n) # <<>>
                /\ ServiceDaysMatch(reader[r].trips[u], DayBase(reader[r].when))}}

(* Of trips of one name one is in the network.                             *)
OneOfEachName(r, all) ==
    {S \in SUBSET all :
        /\ \A a \in all : \E b \in S : TripName(r, a.trip) = TripName(r, b.trip)
        /\ \A a, b \in S : TripName(r, a.trip) = TripName(r, b.trip) => a = b}

After == 1 + (IF Trips = {} THEN 0 ELSE CHOOSE t \in Trips : \A u \in Trips : u <= t)

ReadTimes(r) ==
    /\ reader[r].at = "times"
    /\ \E last \in (IF reader[r].alive THEN {After} ELSE DOMAIN trips \cup {0}) :
       \E n \in (IF last \in DOMAIN trips THEN 0..Len(trips[last].calls) ELSE {0}) :
       \E S \in OneOfEachName(r, Assembled(r, last, n)) :
            reader' = [reader EXCEPT ![r].at = "keep", ![r].trips = S]
    /\ UNCHANGED <<stops, routes, trips, everHad, writes, kept>>

(* What was read is kept, however little, if it has a stop.                *)
KeepNetwork(r) ==
    LET net == [key |-> DayKey(reader[r].when), trips |-> reader[r].trips]
    IN /\ reader[r].at = "keep" /\ reader[r].stops # {}
       /\ kept' = {net}
       /\ Told(r, reader[r].when, net)
       /\ UNCHANGED <<stops, routes, trips, everHad, writes>>

(* Without a stop, or where one of the first queries fails, the network is *)
(* merged from the providers' (ProviderMerge), and is not kept.            *)
FallBack(r) ==
    /\ \/ reader[r].at = "keep" /\ reader[r].stops = {}
       \/ reader[r].at \in {"stops", "routes", "trips"} /\ ~reader[r].alive
    /\ reader' = [reader EXCEPT ![r] = [at |-> "idle", told |-> {}]]
    /\ UNCHANGED <<stops, routes, trips, everHad, writes, kept>>

NetworkNext ==
    \/ \E t \in Trips : TombstoneTrip(t) \/ \E e \in Editions[t] : PersistTrip(t, e)
    \/ \E r \in Readers :
        \/ \E when \in Whens : AskNetwork(r, when)
        \/ CancelLoad(r) \/ ReadStops(r) \/ ReadRoutes(r) \/ ReadTrips(r) \/ ReadTimes(r)
        \/ KeepNetwork(r) \/ FallBack(r)

NetworkSpec == NetworkInit /\ [][NetworkNext]_networkVars

-----------------------------------------------------------------------------
Rides(calls, edition) ==
    \A k \in 1..(Len(calls) - 1) : \E i, j \in DOMAIN edition :
        i < j /\ edition[i] = calls[k] /\ edition[j] = calls[k + 1]

(***************************************************************************)
(* A search is told a network of the day its own day has at Greenwich, and *)
(* every trip of it rides as one edition of the trip did, from call to     *)
(* later call, though the canon is rewritten between the queries, reading  *)
(* breaks off, or others keep their networks meanwhile (LoadNetwork,       *)
(* persistPromotedTrip).                                                   *)
(***************************************************************************)
RidesOfOneEdition ==
    \A r \in Readers : \A told \in reader[r].told :
        /\ told.net.key = DayKey(told.when)
        /\ \A ride \in told.net.trips :
            \E edition \in everHad[ride.trip] : Rides(ride.calls, edition)

(***************************************************************************)
(* The network of a search has no trip that does not run on the day it     *)
(* asks for: docs/15-dev-status.md:126 of networkForDay.  The code keeps a *)
(* network under a day of Greenwich and builds it for the request's own    *)
(* (mcp.go:334, postgres/store.go:523).                                    *)
(***************************************************************************)
RunsOnTheDay ==
    \A r \in Readers : \A told \in reader[r].told : \A ride \in told.net.trips :
        ServiceDaysMatch(ride.days, DayBase(told.when))
=============================================================================
