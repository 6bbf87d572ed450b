------------------------------ MODULE GtfsFeed ------------------------------
(***************************************************************************)
(* Feeds of GTFS: the import of one into the canon (cmd/gtfs-import,       *)
(* internal/sync/gtfs_import.go), the feed compiled of a network           *)
(* (internal/export/gtfs, internal/gtfs), and a feed read back as a        *)
(* network (internal/adapters/gtfs).                                       *)
(*                                                                         *)
(* A feed is a record of its files, each a sequence of rows; a service may *)
(* be anything but a row of a file that must be there.  Times are numbers, *)
(* and zones and fares are left out, and names but for what goes wrong     *)
(* with them: that of a stop may not get stored, and one with a comma or a *)
(* quotation mark may make a file unreadable.                              *)
(***************************************************************************)
EXTENDS Enquiry, FiniteSetsExt, SequencesExt

CONSTANT Midnight       \* the length of a day

GtfsFiles ==
    {"stops", "calendar", "calendar_dates", "routes", "trips", "frequencies", "stop_times"}

ASSUME GtfsFeedAssumption ==
    /\ Midnight \in Nat \ {0}
    /\ \A q \in Enquiries.import :
        /\ q.cut \in Nat /\ q.part \in 0..8
        /\ \A file \in GtfsFiles :
            /\ q.feed[file] \in Seq(Range(q.feed[file]))
            /\ q.before[file] \in Seq(Range(q.before[file]))

EmptyCanon ==
    [terminals |-> {}, strays |-> 0, services |-> <<>>, days |-> {}, exceptions |-> <<>>,
     routes |-> <<>>, trips |-> <<>>, frequencies |-> <<>>, times |-> <<>>, dead |-> FALSE]

Set(f, key, value) == [k \in DOMAIN f \cup {key} |-> IF k = key THEN value ELSE f[k]]
Keep(f, key, value) == IF key \in DOMAIN f THEN f ELSE Set(f, key, value)

(***************************************************************************)
(* The import.  What a row of a feed was stored as is remembered while the *)
(* import runs: stops by their codes, routes, and trips by route and code. *)
(* A row of a trip or a time whose route, trip or stop is unknown is       *)
(* passed over; one that names a service the canon has not kills it.       *)
(* Every statement is a transaction of its own, so that an import may die  *)
(* within a row.  Statements that fail without killing it are left out.    *)
(***************************************************************************)
Fresh(canon) ==
    [canon |-> [canon EXCEPT !.dead = FALSE], stops |-> <<>>, routes |-> {}, trips |-> <<>>]

(* The statements of a row of a stop in their order: its terminal, which   *)
(* is a stray until it has the code, the code's primary mark, the stop of  *)
(* the terminal, and the stop's name.  A terminal that the code finds has  *)
(* no statement, nor has a stop that the terminal has.                     *)
StopStatement == [terminal |-> 1, code |-> 2, primary |-> 3, stop |-> 4, name |-> 5]

Unwritten(canon, code) ==
    {w \in {"terminal", "code", "primary"} : <<code, "code">> \notin canon.terminals}
    \cup {w \in {"stop", "name"} : <<code, "stop">> \notin canon.terminals}

WriteStop(canon, code, part) ==
    LET done == {w \in Unwritten(canon, code) : StopStatement[w] <= part}
    IN [canon EXCEPT !.terminals = @ \cup ({code} \X (done \ {"terminal"})),
                     !.strays = IF "terminal" \in done /\ "code" \notin done THEN @ + 1 ELSE @]

StopRow(s, row) ==
    [s EXCEPT !.canon = WriteStop(@, row.code, 5), !.stops = Set(@, row.id, row.code)]

(* Those of a row of the calendar: the service, and each of its days.      *)
WeekFromMonday == <<1, 2, 3, 4, 5, 6, 0>>

WriteService(canon, row, part) ==
    [canon EXCEPT !.services = IF part = 0 THEN @ ELSE Set(@, row.id, row.dates),
                  !.days = @ \cup ({row.id} \X (row.days \cap {WeekFromMonday[k] : k \in 1..(part - 1)}))]

ServiceRow(s, row) == [s EXCEPT !.canon = WriteService(@, row, 8)]

ExceptionRow(s, row) ==
    IF row.service \notin DOMAIN s.canon.services THEN [s EXCEPT !.canon.dead = TRUE]
    ELSE [s EXCEPT !.canon.exceptions = Set(@, <<row.service, row.date>>, row.type)]

(* Mutant: a route that is in the canon already is not remembered.         *)
RouteRowOfNew(s, row) ==
    IF row.id \in DOMAIN s.canon.routes THEN s
    ELSE [s EXCEPT !.canon.routes = Set(@, row.id, row.mode), !.routes = @ \cup {row.id}]

(* A route or a trip the canon has already is left as it is.               *)
RouteRow(s, row) ==
    [s EXCEPT !.canon.routes = Keep(@, row.id, row.mode), !.routes = @ \cup {row.id}]

TripRow(s, row) ==
    IF row.route \notin s.routes THEN s
    ELSE LET key == <<row.route, row.id>>
         IN IF key \notin DOMAIN s.canon.trips /\ row.service \notin DOMAIN s.canon.services
            THEN [s EXCEPT !.canon.dead = TRUE]
            ELSE [s EXCEPT !.trips = Set(@, row.id, key),
                           !.canon.trips = Keep(@, key,
                               [service |-> row.service,
                                days |-> {d[2] : d \in {e \in s.canon.days : e[1] = row.service}}])]

FrequencyRow(s, row) ==
    IF row.trip \notin DOMAIN s.trips THEN s
    ELSE [s EXCEPT !.canon.frequencies = Keep(@, <<s.trips[row.trip], row.start>>, row.headway)]

TimeRow(s, row) ==
    IF row.trip \notin DOMAIN s.trips \/ row.stop \notin DOMAIN s.stops THEN s
    ELSE [s EXCEPT !.canon.times = Set(@, <<s.trips[row.trip], row.seq>>,
                                       <<s.stops[row.stop], row.arr, row.dep>>)]

(* The rows of a feed in the order of the import, each with its step.      *)
Steps(feed) ==
    LET of(file) == [i \in DOMAIN feed[file] |-> <<file, feed[file][i]>>]
    IN of("stops") \o of("calendar") \o of("calendar_dates") \o of("routes") \o of("trips")
       \o of("frequencies") \o of("stop_times")

ImportRow(s, step) ==
    CASE s.canon.dead -> s
      [] ~s.canon.dead /\ step[1] = "stops" -> StopRow(s, step[2])
      [] ~s.canon.dead /\ step[1] = "calendar" -> ServiceRow(s, step[2])
      [] ~s.canon.dead /\ step[1] = "calendar_dates" -> ExceptionRow(s, step[2])
      [] ~s.canon.dead /\ step[1] = "routes" -> RouteRow(s, step[2])
      [] ~s.canon.dead /\ step[1] = "trips" -> TripRow(s, step[2])
      [] ~s.canon.dead /\ step[1] = "frequencies" -> FrequencyRow(s, step[2])
      [] ~s.canon.dead /\ step[1] = "stop_times" -> TimeRow(s, step[2])

ImportGtfsFeed(canon, steps) ==
    LET after[n \in 0..Len(steps)] ==
            IF n = 0 THEN Fresh(canon) ELSE ImportRow(after[n - 1], steps[n])
    IN after[Len(steps)].canon

(* What a row leaves when the import dies after a part of its statements;  *)
(* rows of other files have one.                                           *)
Torn(canon, step, part) ==
    CASE canon.dead -> canon
      [] ~canon.dead /\ step[1] = "stops" -> WriteStop(canon, step[2].code, part)
      [] ~canon.dead /\ step[1] = "calendar" -> WriteService(canon, step[2], part)
      [] ~canon.dead /\ step[1] \notin {"stops", "calendar"} -> canon

(* An import that dies after a number of rows and a part of the statements *)
(* of the next, and one after it.                                          *)
Import ==
    /\ Asked("import")
    /\ LET steps == Steps(question.feed)
           cut == Min({question.cut, Len(steps)})
           before == ImportGtfsFeed(EmptyCanon, Steps(question.before))
           upto == ImportGtfsFeed(before, SubSeq(steps, 1, cut))
           torn == IF cut = Len(steps) THEN upto ELSE Torn(upto, steps[cut + 1], question.part)
       IN Reply([whole |-> ImportGtfsFeed(before, steps), resumed |-> ImportGtfsFeed(torn, steps)])

(***************************************************************************)
(* The export.  A network has stops, routes with modes, trips with a route *)
(* a service (0 for none) and times, and services; quoting are the files   *)
(* of names of which one has a comma or a quotation mark.                  *)
(***************************************************************************)
RouteType(mode) ==
    CASE mode = "tram" -> "0" [] mode = "rail" -> "2" [] mode = "flight" -> "1100"
      [] mode \notin {"tram", "rail", "flight"} -> "3"

(* The members of a finite set from the first to the last.                 *)
InOrder(S, before) ==
    [k \in 1..Cardinality(S) |->
        CHOOSE a \in S : Cardinality({b \in S : <<b, a>> \in before}) = k - 1]

ByNumber(S) == {p \in S \X S : p[1] < p[2]}

Halts(net) == UNION {{t} \X DOMAIN net.trips[t].times : t \in DOMAIN net.trips}

HaltOf(net, c) == net.trips[c[1]].times[c[2]]

(* Numbers below ten thousand in the order of their text: as far as their  *)
(* digits go beside one another, and then the shorter first.               *)
TextRank(n) ==
    CASE n < 10 -> 10000000 * n - 1000
      [] n > 9 /\ n < 100 -> 1000000 * n - 100
      [] n > 99 /\ n < 1000 -> 100000 * n - 10
      [] n > 999 -> 10000 * n - 1

ByText(net) ==
    {p \in Halts(net) \X Halts(net) :
        \/ p[1][1] < p[2][1]
        \/ p[1][1] = p[2][1] /\ TextRank(HaltOf(net, p[1]).seq) < TextRank(HaltOf(net, p[2]).seq)}

ByPlace(net) ==
    {p \in Halts(net) \X Halts(net) :
        p[1][1] < p[2][1] \/ (p[1][1] = p[2][1] /\ p[1][2] < p[2][2])}

TimeRows(net, before) ==
    LET sorted == InOrder(Halts(net), before)
    IN [k \in DOMAIN sorted |->
           [trip |-> sorted[k][1], stop |-> HaltOf(net, sorted[k]).stop, seq |-> HaltOf(net, sorted[k]).seq,
            arr |-> HaltOf(net, sorted[k]).arr, dep |-> HaltOf(net, sorted[k]).dep]]

Files(net, Type(_), Service(_), times, calendar, unreadable) ==
    LET rows(S) == InOrder(S, ByNumber(S))
    IN [stops |-> [k \in DOMAIN rows(net.stops) |->
                        [id |-> rows(net.stops)[k], code |-> rows(net.stops)[k]]],
        routes |-> [k \in DOMAIN rows(DOMAIN net.routes) |->
                        [id |-> rows(DOMAIN net.routes)[k],
                         mode |-> Type(net.routes[rows(DOMAIN net.routes)[k]])]],
        trips |-> [k \in DOMAIN rows(DOMAIN net.trips) |->
                        [id |-> rows(DOMAIN net.trips)[k],
                         route |-> net.trips[rows(DOMAIN net.trips)[k]].route,
                         service |-> Service(net.trips[rows(DOMAIN net.trips)[k]].service)]],
        calendar |-> [k \in DOMAIN rows(calendar) |-> [id |-> rows(calendar)[k], days |-> {}, dates |-> <<>>]],
        calendar_dates |-> <<>>, frequencies |-> <<>>, stop_times |-> times,
        unreadable |-> unreadable]

(* The export sorts times by the text of their numbers, and a trip without *)
(* a service gets number 1, which is every day's if there are no services. *)
Numbered(service) == IF service = 0 THEN 1 ELSE service

Calendar(net) == IF net.services = {} THEN {1} ELSE net.services

Compile(net) == Files(net, RouteType, Numbered, TimeRows(net, ByText(net)), Calendar(net), {})

(* The region's export knows rail and the rest, and no such number; it     *)
(* leaves the times of a trip in their places; and it quotes nothing, so   *)
(* that a comma or a quotation mark in a name makes a row of other columns *)
(* than its file's.                                                        *)
RegionalType(mode) == IF mode = "rail" THEN "2" ELSE "3"

Unchanged(service) == service

BuildPerRegion(net) ==
    Files(net, RegionalType, Unchanged, TimeRows(net, ByPlace(net)), net.services, net.quoting)

ModeOf(type) ==
    CASE type = "0" -> "tram" [] type \in {"1", "2"} -> "rail" [] type = "4" -> "flight"
      [] type \notin {"0", "1", "2", "4"} -> "bus"

(* Mutant: the times of a trip stay as they are written.                   *)
LoadTimesAsWritten(feed, trip) == SelectSeq(feed.stop_times, LAMBDA r : r.trip = trip)

BySeq(times, S) ==
    {p \in S \X S : \/ times[p[1]].seq < times[p[2]].seq
                    \/ times[p[1]].seq = times[p[2]].seq /\ p[1] < p[2]}

LoadTimes(feed, trip) ==
    LET rows == {k \in DOMAIN feed.stop_times : feed.stop_times[k].trip = trip}
        sorted == InOrder(rows, BySeq(feed.stop_times, rows))
    IN [k \in DOMAIN sorted |-> feed.stop_times[sorted[k]]]

(* A network read back; a ride that arrives before it departs arrives on   *)
(* the next day.                                                           *)
Connection(trip, from, to) ==
    [trip |-> trip, from |-> from.stop, to |-> to.stop, dep |-> from.dep,
     arr |-> IF to.arr < from.dep THEN to.arr + Midnight ELSE to.arr]

BuildConnections(trip, times) ==
    {Connection(trip, times[k], times[k + 1]) : k \in 1..(Len(times) - 1)}

(* A file of stops with such a row is an error, one of routes is empty.    *)
Load(feed) ==
    IF "stops" \in feed.unreadable THEN [read |-> FALSE, modes |-> {}, connections |-> {}]
    ELSE [read |-> TRUE,
          modes |-> {<<feed.routes[i].id, ModeOf(feed.routes[i].mode)>> :
                        i \in {j \in DOMAIN feed.routes : "routes" \notin feed.unreadable}},
          connections |-> UNION {BuildConnections(feed.trips[i].id, LoadTimes(feed, feed.trips[i].id)) :
                                    i \in DOMAIN feed.trips}]

Export ==
    /\ Asked("export")
    /\ Reply([compiled |-> Load(Compile(question)), regional |-> Load(BuildPerRegion(question)),
              imported |-> ImportGtfsFeed(EmptyCanon, Steps(Compile(question)))])

(***************************************************************************)
(* A feed imported again after an import of it that died anywhere leaves   *)
(* the same canon as if it had not died (gtfs_import.go:54), all services, *)
(* routes, trips and times of it, but for one stop: a terminal too many,   *)
(* which has no code and is never found again, or a code that is never     *)
(* made primary, or a stop that never gets its name.                       *)
(***************************************************************************)
ImportConverges ==
    Replied("import") =>
        \/ Told.resumed = Told.whole
        \/ Told.resumed = [Told.whole EXCEPT !.strays = @ + 1]
        \/ \E row \in Range(question.feed.stops), mark \in {"primary", "name"} :
              Told.resumed = [Told.whole EXCEPT !.terminals = @ \ {<<row.code, mark>>}]

(***************************************************************************)
(* Of both exports of a network, the compiled feed can be read back, and   *)
(* the region's if no name of a stop has a comma or a quotation mark; what *)
(* is read has the rides of the network, from each stop of a trip to the   *)
(* next, and none that arrives before it departs; and if all trips have    *)
(* services of the calendar, the compiled feed can be imported with all    *)
(* trips and times (compile.go:53, compiler.go:101).                       *)
(***************************************************************************)
Succeeding(times, a, b) ==
    times[a].seq < times[b].seq /\ \A c \in DOMAIN times : ~(times[a].seq < times[c].seq /\ times[c].seq < times[b].seq)

RidesOf(net) ==
    UNION {{<<t, net.trips[t].times[p[1]].stop, net.trips[t].times[p[2]].stop, net.trips[t].times[p[1]].dep>> :
                p \in {q \in (DOMAIN net.trips[t].times) \X (DOMAIN net.trips[t].times) :
                            Succeeding(net.trips[t].times, q[1], q[2])}} : t \in DOMAIN net.trips}

AreNumbers(S) == S \subseteq Int /\ IsFiniteSet(S)

(* A network of the store: its trips run on its routes between its stops,  *)
(* no two times of a trip have one number, and none is a day before the    *)
(* last.                                                                   *)
IsNetwork(net) ==
    /\ AreNumbers(net.stops) /\ AreNumbers(DOMAIN net.routes)
    /\ AreNumbers(DOMAIN net.trips) /\ AreNumbers(net.services)
    /\ \A t \in DOMAIN net.trips :
          LET times == net.trips[t].times
          IN /\ net.trips[t].route \in DOMAIN net.routes
             /\ times \in Seq(Range(times))
             /\ \A i \in DOMAIN times :
                   /\ times[i].stop \in net.stops /\ times[i].seq \in Nat /\ times[i].seq < 10000
                   /\ times[i].arr \in Int /\ times[i].dep \in Int
             /\ \A i, j \in DOMAIN times :
                   /\ times[i].seq = times[j].seq => i = j
                   /\ Succeeding(times, i, j) => times[i].dep <= times[j].arr + Midnight

ASSUME ExportAssumption == \A q \in Enquiries.export : IsNetwork(q)

AllServed(net) == \A t \in DOMAIN net.trips : Numbered(net.trips[t].service) \in Calendar(net)

ExportKeepsRides ==
    Replied("export") =>
        /\ Told.compiled.read
        /\ "stops" \notin question.quoting => Told.regional.read
        /\ \A feed \in {f \in {Told.compiled, Told.regional} : f.read} :
              /\ {<<c.trip, c.from, c.to, c.dep>> : c \in feed.connections} = RidesOf(question)
              /\ \A c \in feed.connections : c.dep <= c.arr
        /\ AllServed(question) =>
              /\ ~Told.imported.dead
              /\ {k[1][2] : k \in DOMAIN Told.imported.times}
                    = {t \in DOMAIN question.trips : question.trips[t].times # <<>>}
=============================================================================
