---------------------------- MODULE ProviderMerge ----------------------------
(***************************************************************************)
(* The networks of the registry's providers made one: networkForDay of     *)
(* internal/mcp/mcp.go where the store has no network for the day.         *)
(*                                                                         *)
(* A provider has a name, stops of which some are without a usable place,  *)
(* routes, trips with a route and their stops, hops, links on foot and     *)
(* services with their days.  In the merged network a name is that of the  *)
(* provider's own, or the two of provider and own where the first was      *)
(* taken.  What belongs to fares and zones is left out.                    *)
(***************************************************************************)
EXTENDS Enquiry, SequencesExt

ASSUME ProviderMergeAssumption == \A q \in Enquiries.merge : q \in Seq(Range(q))

NoNetwork ==
    [stops |-> {}, routes |-> {}, trips |-> <<>>, hops |-> {}, links |-> {}, services |-> <<>>]

(* The stops that are left out: those ValidateNetwork finds to have no     *)
(* place, or one outside of the world.                                     *)
Excluded(provider) == provider.placeless

Name(taken, provider, id) == IF <<id>> \in taken THEN <<provider.name, id>> ELSE <<id>>

StopName(net, provider, id) == Name(net.stops, provider, id)
RouteName(net, provider, id) == Name(net.routes, provider, id)
TripName(net, provider, id) == Name(DOMAIN net.trips, provider, id)

(* A trip through a stop that is left out is left out, its other hops are  *)
(* not.                                                                    *)
KeptTrips(provider) ==
    {t \in DOMAIN provider.trips : Range(provider.trips[t].stops) \cap Excluded(provider) = {}}

MergedTrips(net, provider) ==
    LET own == {TripName(net, provider, t) : t \in KeptTrips(provider)}
        source(name) == name[Len(name)]
    IN [t \in DOMAIN net.trips \cup own |->
            IF t \in DOMAIN net.trips THEN net.trips[t]
            ELSE LET trip == provider.trips[source(t)]
                 IN [route |-> RouteName(net, provider, trip.route),
                     stops |-> [i \in DOMAIN trip.stops |-> StopName(net, provider, trip.stops[i])]]]

KeptHop(provider, hop) ==
    hop.from \notin Excluded(provider) /\ hop.to \notin Excluded(provider) /\ hop.dep <= hop.arr

(* Mutant: the trip of a hop keeps the provider's own name.                *)
MergedHopOfOwnTrip(net, provider, hop) ==
    [trip |-> <<hop.trip>>, from |-> StopName(net, provider, hop.from),
     to |-> StopName(net, provider, hop.to), dep |-> hop.dep, arr |-> hop.arr]

MergedHop(net, provider, hop) ==
    [trip |-> TripName(net, provider, hop.trip), from |-> StopName(net, provider, hop.from),
     to |-> StopName(net, provider, hop.to), dep |-> hop.dep, arr |-> hop.arr]

MergedLinks(net, provider) ==
    {<<StopName(net, provider, l[1]), StopName(net, provider, l[2])>> :
        l \in {k \in provider.links : {k[1], k[2]} \cap Excluded(provider) = {}}}

(* Services keep their names, and providers that have one of a name share  *)
(* the days of both.                                                       *)
MergedServices(net, provider) ==
    LET daysOf(services, s) == IF s \in DOMAIN services THEN services[s] ELSE <<>>
    IN [s \in DOMAIN net.services \cup DOMAIN provider.services |->
            daysOf(net.services, s) \o daysOf(provider.services, s)]

Merge(net, provider) ==
    [stops |-> net.stops \cup {StopName(net, provider, s) : s \in provider.stops \ Excluded(provider)},
     routes |-> net.routes \cup {RouteName(net, provider, r) : r \in provider.routes},
     trips |-> MergedTrips(net, provider),
     hops |-> net.hops \cup {MergedHop(net, provider, h) :
                                h \in {k \in provider.hops : KeptHop(provider, k)}},
     links |-> net.links \cup MergedLinks(net, provider),
     services |-> MergedServices(net, provider)]

(* The registry has one provider of a name, in the order they were enabled.*)
Registers(providers, n) == \A j \in 1..(n - 1) : providers[j].name # providers[n].name

MergedNext(net, providers, n) ==
    IF Registers(providers, n) THEN Merge(net, providers[n]) ELSE net

MergedNetwork(providers) ==
    LET net[n \in 0..Len(providers)] ==
            IF n = 0 THEN NoNetwork ELSE MergedNext(net[n - 1], providers, n)
    IN net[Len(providers)]

MergeProviders ==
    /\ Asked("merge")
    /\ Reply(MergedNetwork(question))

(***************************************************************************)
(* Whatever names the providers share, if in each one's own network every  *)
(* hop is between neighbouring stops of its trip and all stops and routes  *)
(* are there, so it is in the merged network, and no hop of it arrives     *)
(* before it departs (mcp.go:395-476) - if no provider leaves out a trip   *)
(* whose name a later one uses, for then the hops that are left of it      *)
(* belong to the later one's trip.                                         *)
(***************************************************************************)
IsHopOf(hop, stops) == \E k \in 2..Len(stops) : stops[k - 1] = hop.from /\ stops[k] = hop.to

Sound(provider) ==
    /\ \A t \in DOMAIN provider.trips :
        provider.trips[t].route \in provider.routes /\ provider.trips[t].stops \in Seq(provider.stops)
    /\ \A h \in provider.hops :
        /\ h.from \in provider.stops /\ h.to \in provider.stops
        /\ h.trip \in DOMAIN provider.trips /\ IsHopOf(h, provider.trips[h.trip].stops)
    /\ \A l \in provider.links : l[1] \in provider.stops /\ l[2] \in provider.stops

NoHomonym(providers) ==
    \A i, j \in DOMAIN providers : i < j /\ Registers(providers, i) /\ Registers(providers, j) =>
        (DOMAIN providers[i].trips \ KeptTrips(providers[i])) \cap DOMAIN providers[j].trips = {}

HopsOfTheirTrips ==
    Replied("merge") /\ NoHomonym(question) /\ (\A i \in DOMAIN question : Sound(question[i])) =>
        /\ \A h \in Told.hops :
            /\ h.from \in Told.stops /\ h.to \in Told.stops /\ h.dep <= h.arr
            /\ h.trip \in DOMAIN Told.trips => IsHopOf(h, Told.trips[h.trip].stops)
        /\ \A t \in DOMAIN Told.trips :
            Told.trips[t].route \in Told.routes /\ Range(Told.trips[t].stops) \subseteq Told.stops
        /\ \A l \in Told.links : l[1] \in Told.stops /\ l[2] \in Told.stops
=============================================================================
