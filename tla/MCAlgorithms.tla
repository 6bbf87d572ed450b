---------------------------- MODULE MCAlgorithms ----------------------------
(***************************************************************************)
(* Small questions to all the algorithms.  A behaviour is one question and *)
(* its answer; only the planner takes several steps to it.  Every set of   *)
(* questions has the cases the algorithm tells apart and their             *)
(* neighbours, and leaves out what is alike.                               *)
(***************************************************************************)
EXTENDS Algorithms

-----------------------------------------------------------------------------
(* Plans: up to three rides around the time asked for.                     *)

PlanRides ==
    {r \in [dep : {7, 9, 10}, arr : {9, 10, 12}, legs : {1, 2}] : r.dep < r.arr}

PlanQuestions ==
    {[time |-> t, rides |-> S, departures |-> {r.dep % Window : r \in S}, limit |-> limit,
      access |-> 1, egress |-> e, gap |-> 4, byArrival |-> b, gapAllowed |-> e = 1,
      preference |-> p] :
        t \in {8, 9}, S \in UNION {kSubset(k, PlanRides) : k \in 0..2}, limit \in {-1, 0},
        e \in {0, 1}, b \in BOOLEAN, p \in {"arrival", "transfers"}}

-----------------------------------------------------------------------------
(* Stops to choose among, and stops about the borders of the grids.        *)

StopKinds ==
    {s \in [id : {1}, distance : {1, 3}, name : {"token", "part", "none"}, village : BOOLEAN,
            hub : BOOLEAN, origin : BOOLEAN, indexed : BOOLEAN] : s.hub => s.indexed}

SecondStops == {[s EXCEPT !.id = 2, !.distance = d] : s \in {k \in StopKinds : k.indexed}, d \in {1, 2}}

StopQuestions ==
    {[stops |-> {a, b}, walk |-> 2, begins |-> begins, named |-> named] :
        a \in StopKinds, b \in SecondStops, begins \in BOOLEAN, named \in BOOLEAN}

At(n, x, y, p) == [id |-> n, x |-> x, y |-> y, provisional |-> p]

AroundQuestions ==
    {[stops |-> {At(1, x, y, FALSE), At(2, u, v, FALSE), At(3, 0, 0, FALSE)},
      at |-> [x |-> x, y |-> y], reach |-> reach] :
        x \in {13, 16}, y \in {23, 26}, u \in 5..24, v \in 14..33, reach \in {6, 9}}
    \cup {[stops |-> {At(1, x, -1, FALSE), At(2, u, v, FALSE)}, at |-> [x |-> -1, y |-> 2], reach |-> 6] :
        x \in {-20, -3, 2, 14}, u \in -7..4, v \in -5..4}

LinkQuestions ==
    {[stops |-> {At(1, x, y, FALSE), At(2, u, v, p), At(3, 3, 12, FALSE)}, reach |-> 3, links |-> l] :
        x \in {8, 10}, y \in {9, 11}, u \in 5..14, v \in 5..14, p \in BOOLEAN, l \in {{}, {<<1, 2>>}}}

-----------------------------------------------------------------------------
(* The register: schedules of three stops and one or two runs, without and *)
(* with times, in winter or in summer, past midnight, with exceptions.     *)

Times(a, d) == [arr |-> a, dep |-> d]
NoTimes == Times(<<>>, <<>>)
Clocks == {NoTime, 0, 3, 5}
OfStop(s, winter, summer) == [stop |-> s, winter |-> winter, summer |-> summer]

FirstStops == {OfStop(1, Times(<<>>, <<t, u>>), NoTimes) : t \in Clocks, u \in {NoTime, 4}}
NextStops ==
    {OfStop(2, Times(<<a>>, <<b, 3>>), NoTimes) : a \in Clocks, b \in Clocks}
    \cup {OfStop(2, NoTimes, Times(<<4>>, <<5>>))}
LastStops ==
    {OfStop(3, Times(<<a, 2>>, <<>>), NoTimes) : a \in Clocks}
    \cup {OfStop(3, Times(<<1>>, <<>>), NoTimes)}

OfService(service, direction, calls) ==
    [route |-> 1, direction |-> direction, service |-> service, stops |-> calls]

Services ==
    {[from |-> f, to |-> 9, days |-> d, exceptions |-> e] :
        f \in {5, 8}, d \in {{}, {0}, {1}},
        e \in {<<>>, <<[date |-> 7, added |-> TRUE]>>, <<[date |-> 7, added |-> FALSE]>>}}

Plain(s, t) == OfStop(s, NoTimes, Times(<<t>>, <<t + 1>>))

IntercityQuestions ==
    {[schedules |-> <<OfService(0, 1, <<a, b, c>>)>>, services |-> <<>>, places |-> p, day |-> 7] :
        a \in FirstStops, b \in NextStops, c \in LastStops,
        p \in {<<100, 105, 103>>, <<100, 130, 103>>, <<Unlocated, 130, 130>>}}
    \cup {[schedules |-> <<OfService(1, 1, <<Plain(1, 0), Plain(2, 3), Plain(3, 4)>>),
                           OfService(v, 1, <<Plain(1, 0), Plain(3, 3), Plain(2, 4)>>)>>,
           services |-> <<s>>, places |-> <<100, 105, 100>>, day |-> 7] : s \in Services, v \in {0, 1}}

DayCell(t, days) == [time |-> t, days |-> days]
EveryDay(t) == DayCell(t, AllWeek)
Block(says, days, a, d) == [says |-> says, days |-> days, arr |-> a, dep |-> d]
Served(a, d) == Block("days", {}, a, d)

FlattenQuestions ==
    LET cells == {EveryDay(NoTime), EveryDay(1), EveryDay(5), DayCell(3, {0}), DayCell(1, {1})}
        firsts == {OfStop(1, Block("days", w, <<>>, <<c, EveryDay(2)>>), NoBlock) :
                        w \in {{}, {0}, {0, 1}}, c \in cells}
                  \cup {OfStop(1, NoBlock, Served(<<>>, <<EveryDay(2)>>))}
        seconds == {OfStop(2, Block(says, w, <<c>>, <<d, EveryDay(4)>>),
                           Served(<<EveryDay(3)>>, <<EveryDay(4)>>)) :
                        says \in {"days", "none"}, w \in {{}, {1}}, c \in cells, d \in cells}
                   \cup {OfStop(2, NoBlock, Served(<<EveryDay(3)>>, <<EveryDay(4)>>))}
        thirds == {OfStop(3, Served(<<c, EveryDay(2)>>, <<>>), Served(<<EveryDay(1)>>, <<>>)) : c \in cells}
                  \cup {OfStop(3, NoBlock, NoBlock)}
    IN {[schedule |-> OfService(1, 1, <<a, b, c>>)] : a \in firsts, b \in seconds, c \in thirds}

EditionQuestions ==
    LET dataset(routes, services, schedules) ==
            [routes |-> routes, stops |-> <<1, 2>>, services |-> services, schedules |-> schedules]
        route(r, c) == [reg |-> r, carrier |-> c]
        schedule(r, d, s) == [route |-> r, direction |-> d, service |-> 1, stops |-> s]
        old == dataset(<<route(1, 1), route(2, 1)>>, <<>>, <<schedule(1, 1, <<1>>)>>)
        new == {dataset(r, v, <<schedule(1, 1, <<1>>), schedule(1, d, s)>>) :
                    r \in {<<route(1, c), route(x, 1)>> : c \in {1, 2}, x \in {1, 2, 3}},
                    v \in {<<>>, <<[id |-> 1, from |-> 2, to |-> 3]>>, <<[id |-> 1, from |-> 8, to |-> 3]>>,
                           <<[id |-> 1, from |-> 4, to |-> 3]>>},
                    d \in {1, 2}, s \in {<<>>, <<2, 1>>, <<7>>}}
    IN {[old |-> o, new |-> n] : o \in {old} \cup new, n \in {old} \cup new}

-----------------------------------------------------------------------------
(* Matching: stops and terminals of a town, some of them without a place.  *)

MCAdjectives == [w \in {"omskiy"} |-> "omsk"]
MCSignals == [w \in {"av"} |-> {"station"}]

Item(name, place, settlement, transport, codes, source) ==
    [name |-> name, place |-> place, settlement |-> settlement, transport |-> transport,
     codes |-> codes, source |-> source]

MatchQuestions ==
    LET stops == {Item(n, p, ExtractSettlement(n), {}, c, s) :
                    n \in {<<"av", "g", "omsk">>, <<"omskiy", "av">>}, p \in {Nowhere, 0},
                    c \in {{}, {1}}, s \in {"mintrans", "seed"}}
        terminals == {Item(n, p, s, {"bus"}, c, v) :
                        n \in {<<"omsk", "av">>, <<"tomsk">>}, p \in {Nowhere, 50, 400, 3000},
                        s \in {<<"omsk">>, <<>>}, c \in {{}, {1}},
                        v \in {"osm", "mintrans", "yandex", "motis"}}
        others == {t \in terminals : t.source = "yandex" /\ t.codes = {} /\ t.settlement # <<>>}
        some == {t \in terminals : t.source \in {"osm", "mintrans"}}
    IN [stop : stops, class : {"urban", "rural"},
        terms : {<<>>} \cup {<<t>> : t \in terminals} \cup {<<t, o>> : t \in some, o \in others}]

Terminal(name, place, settlement, codes, final) ==
    [name |-> name, place |-> place, settlement |-> settlement, transport |-> {"bus"},
     codes |-> codes, source |-> "osm", final |-> final]

TripStop(name, place, code, a, d) ==
    [name |-> name, place |-> place, region |-> 1, code |-> code, arr |-> a, dep |-> d]

AttachQuestions ==
    LET terminals ==
            {<<Terminal(<<"omsk", "station">>, 0, <<"omsk">>, {}, f),
               Terminal(<<"tara">>, 30000, <<"tara">>, {2}, g),
               Terminal(<<"omsk", "summer">>, 300, <<"omsk">>, {}, TRUE)>> : f \in BOOLEAN, g \in BOOLEAN}
            \cup {<<Terminal(<<"omsk", "station">>, 0, <<"omsk">>, {}, TRUE),
                    Terminal(<<"tara">>, Nowhere, <<>>, {2}, TRUE)>>}
        stops(a, d) == {TripStop(<<"g", "omsk", "av">>, Nowhere, 0, a, d), TripStop(<<"omsk">>, 0, 0, a, d),
                        TripStop(<<"tara">>, 30000, 0, a, d), TripStop(<<"tara">>, Nowhere, 2, a, d),
                        TripStop(<<"lost">>, Nowhere, 0, a, d)}
        twos == {<<a, b>> : a \in stops(5, 10), b \in stops(15, 20) \cup stops(60, 50)}
        threes == {<<a, b, c>> : a \in stops(0, 0), b \in stops(30, 35), c \in stops(35, 35) \cup stops(90, 90)}
        fours == {<<a, b, c, d>> : a \in {TripStop(<<"omsk">>, 0, 0, 0, 0)},
                    b \in stops(30, 35), c \in stops(90, 90), d \in stops(130, 140)}
        trip(untimed, frequency, s) ==
            [key |-> 1, frequencyOnly |-> frequency, untimed |-> untimed, stops |-> s]
    IN [trips : {<<trip(FALSE, FALSE, s)>> : s \in twos \cup threes \cup fours}, terms : terminals,
        prev : {{}, {1}}, source : {"mintrans"}]
       \cup [trips : {<<trip(u, f, s)>> : u \in BOOLEAN, f \in BOOLEAN,
                            s \in {<<t>> : t \in stops(0, 0)} \cup {s \in twos : s[2].dep = 20}},
             terms : terminals, prev : {{1, 2}}, source : {"gtfs"}]

-----------------------------------------------------------------------------
(* The skeleton: records in a row, and two stations of each source.        *)

CollapseQuestions ==
    LET named == {Item(n, p, <<>>, {"bus"}, {}, "osm") :
                    n \in {<<"omsk">>, <<"omsk", "av">>, <<"tara">>}, p \in {0, 250, 500, Nowhere}}
        placed == {Item(<<"omsk">>, p, <<>>, {"bus"}, {}, "osm") : p \in {0, 250, 500, 750, 1100}}
    IN {<<a, b, c>> : a \in named, b \in named, c \in named}
       \cup {<<a, b, c, d>> : a \in placed, b \in placed, c \in placed, d \in placed}

JoinQuestions ==
    LET osm == {Item(n, p, <<>>, {"bus"}, c, "osm") :
                    n \in {<<"omsk">>, <<"tara">>}, p \in {54900, 55100, Nowhere}, c \in {{}, {1}}}
        yandex == {Item(n, p, <<"omsk">>, t, c, "yandex") :
                    n \in {<<"omsk">>, <<"omsk", "av">>}, p \in {54900, 55700, 59000, Nowhere},
                    t \in {{"bus"}, {}}, c \in {{}, {1}}}
        firsts == {y \in yandex : y.transport # {} /\ y.name = <<"omsk">>}
        others == {y \in yandex : y.transport = {} /\ y.name # <<"omsk">>}
    IN [osm : {<<a, b>> : a \in osm, b \in osm},
        yandex : {<<>>} \cup {<<y>> : y \in yandex} \cup {<<y, z>> : y \in firsts, z \in others}]

InterpolateQuestions ==
    LET stop(m, p, d) == [matched |-> m, place |-> p, duration |-> d, distance |-> 1]
    IN {<<stop(TRUE, 0, 2), b, c, d>> :
            b \in {stop(TRUE, 100, 0), stop(FALSE, 0, 0), stop(FALSE, 0, 3)},
            c \in {stop(FALSE, 0, 0), stop(FALSE, 0, 4)}, d \in {stop(TRUE, 1000, 0), stop(FALSE, 0, 0)}}

-----------------------------------------------------------------------------
(* Feeds, with rows that name nothing and rows given twice, and imports    *)
(* that die between rows and within those of stops and days; networks with *)
(* times whose numbers are in another order than their digits.             *)

Feed(services, dates, routes, trips, times) ==
    [stops |-> <<[id |-> 1, code |-> 1], [id |-> 2, code |-> 1], [id |-> 3, code |-> 3]>>,
     calendar |-> services, calendar_dates |-> dates, routes |-> routes, trips |-> trips,
     frequencies |-> <<[trip |-> 1, start |-> 5, headway |-> 2]>>, stop_times |-> times]

NoFeed == [file \in DOMAIN Feed(<<>>, <<>>, <<>>, <<>>, <<>>) |-> <<>>]

FeedTime(t, s, q, a) == [trip |-> t, stop |-> s, seq |-> q, arr |-> a, dep |-> a + 1]
OfTrip(t, r, v) == [id |-> t, route |-> r, service |-> v]

ImportQuestions ==
    LET feeds == {Feed(v, d, r, t, s) :
            v \in {<<>>, <<[id |-> 1, days |-> {1}, dates |-> "may"]>>,
                   <<[id |-> 1, days |-> {2}, dates |-> "june"], [id |-> 1, days |-> {3}, dates |-> "july"]>>},
            d \in {<<>>, <<[service |-> 1, date |-> 3, type |-> "removed"],
                           [service |-> 1, date |-> 3, type |-> "added"]>>},
            r \in {<<[id |-> 1, mode |-> "bus"]>>, <<[id |-> 1, mode |-> "rail"], [id |-> 2, mode |-> "bus"]>>},
            t \in {<<OfTrip(1, 1, 1)>>, <<OfTrip(1, 1, 1), OfTrip(1, 2, 1), OfTrip(2, 2, 2)>>},
            s \in {<<FeedTime(1, 1, 1, 5), FeedTime(1, 3, 2, 9)>>,
                   <<FeedTime(1, 1, 1, 5), FeedTime(1, 2, 1, 6), FeedTime(1, 9, 2, 9), FeedTime(7, 1, 1, 1)>>}}
        ends == {0, 1, 3, 4, 5, 6, 7, 8, 9, 10} \X {0}
                \cup {<<0, 1>>, <<0, 2>>, <<0, 3>>, <<0, 4>>, <<1, 3>>, <<2, 2>>, <<2, 4>>, <<3, 1>>, <<3, 3>>, <<4, 1>>}
        before == {NoFeed} \cup {f \in feeds : /\ f.calendar # <<>> /\ Len(f.routes) = 1
                                               /\ Len(f.stop_times) = 2 /\ f.calendar_dates = <<>>}
    IN {[feed |-> f, cut |-> e[1], part |-> e[2], before |-> b] : f \in feeds, e \in ends, b \in before}

ExportQuestions ==
    LET call(s, q, a, d) == [stop |-> s, seq |-> q, arr |-> a, dep |-> d]
        short == <<call(1, 1, 0, 5), call(2, 2, 9, 9)>>
        times == {<<>>, short, <<call(1, 2, 90, 95), call(2, 9, 97, 99), call(3, 10, 110, 110)>>,
                  <<call(2, 1, 95, 95), call(3, 12, 3, 4), call(1, 2, 96, 99)>>}
        trip(r, v, s) == [route |-> r, service |-> v, times |-> s]
    IN {[stops |-> 1..3, routes |-> 1 :> a @@ 2 :> b, services |-> v,
         trips |-> 1 :> trip(r, s, x) @@ 2 :> trip(2, 0, y) @@ 12 :> trip(1, 2, x), quoting |-> u] :
            a \in {"tram", "coach"}, b \in {"rail", "flight"}, u \in {{}, {"routes"}, {"stops"}}, r \in {1, 2}, s \in {0, 1}, x \in times,
            y \in {<<>>, short}, v \in {{}, {2}, {1, 2}}}

(* Two providers that use the same names, of stops, routes and trips.      *)
MergeQuestions ==
    LET paths == {<<1, 2, 3>>, <<2, 3>>, <<3, 1>>}
        trip(r, p) == [route |-> r, stops |-> p]
        trips == {1 :> trip(r, p) : r \in {1, 2}, p \in paths}
                 \cup {1 :> trip(1, p) @@ t :> trip(1, q) : t \in {2, 3}, p \in paths, q \in paths}
        hopsOf(ts, t) ==
            {[trip |-> t, from |-> ts[t].stops[i], to |-> ts[t].stops[i + 1],
              dep |-> i, arr |-> IF t = 3 THEN 0 ELSE i + 1] : i \in 1..(Len(ts[t].stops) - 1)}
        provider(name, placeless, ts) ==
            [name |-> name, stops |-> 1..3, placeless |-> placeless, trips |-> ts,
             routes |-> {ts[t].route : t \in DOMAIN ts},
             hops |-> UNION {hopsOf(ts, t) : t \in DOMAIN ts},
             links |-> {<<1, 3>>}, services |-> 1 :> <<name>>]
    IN {<<provider("synth", b, s), provider(n, d, t)>> :
            n \in {"synth", "gtfs"}, b \in {{}, {1}}, d \in {{}, {2}}, s \in trips, t \in trips}

-----------------------------------------------------------------------------
MCEnquiries ==
    [plan |-> PlanQuestions, stop |-> StopQuestions, around |-> AroundQuestions,
     links |-> LinkQuestions, intercity |-> IntercityQuestions, flatten |-> FlattenQuestions,
     editions |-> EditionQuestions, match |-> MatchQuestions, attach |-> AttachQuestions,
     collapse |-> CollapseQuestions, join |-> JoinQuestions,
     interpolate |-> InterpolateQuestions, import |-> ImportQuestions, export |-> ExportQuestions,
     merge |-> MergeQuestions]
=============================================================================
