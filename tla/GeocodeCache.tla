---------------------------- MODULE GeocodeCache ----------------------------
(***************************************************************************)
(* Places looked up on the net and kept: CachedGeocoder of                 *)
(* internal/geocoder/cached.go before the providers of fallback.go, and    *)
(* CachedStationsProvider of cached_stations.go, by goroutines that ask    *)
(* for the same key at once.                                               *)
(*                                                                         *)
(* A query of Queries is geocoded, one of Surroundings asks Overpass for   *)
(* the stations around.  What is found is the time it was found at.        *)
(***************************************************************************)
EXTENDS Integers, Sequences, FiniteSets

CONSTANTS
    Clients, Queries, Surroundings,
    Seeded,             \* the queries the cache is seeded with (SeedInto)
    TtlVerified, TtlDisputed, StationsTtl,
    Attempts,           \* how often it tries, one after another
    Quota,              \* units of the day
    Hours               \* bound: how long the clock runs

ASSUME GeocodeCacheAssumption ==
    /\ Queries \cap Surroundings = {} /\ Seeded \subseteq Queries
    /\ TtlDisputed \in Nat \ {0} /\ TtlVerified \in Nat \ {0} /\ StationsTtl \in Nat \ {0}
    /\ Attempts \in Nat \ {0} /\ Quota \in Nat /\ Hours \in Nat

VARIABLES
    hour,
    entry,          \* per key, the entry of the cache: none, or one
    lock,           \* per key, who holds its lock: nobody, or one
    client,         \* where everyone is, and for what key
    units,          \* what is left of the quota
    fetched         \* per key, when answers were put into the cache

geocodeVars == <<hour, entry, lock, client, units, fetched>>

Keys == Queries \cup Surroundings

Idle == [at |-> "idle"]
NoEntry == {}

GeocodeInit ==
    /\ hour = 0 /\ units = Quota
    /\ entry = [k \in Keys |-> IF k \in Seeded
                               THEN {[at |-> 0, seed |-> TRUE, verified |-> FALSE]}
                               ELSE NoEntry]
    /\ lock = [k \in Keys |-> {}]
    /\ client = [c \in Clients |-> Idle]
    /\ fetched = [k \in Keys |-> <<>>]

HourPasses ==
    /\ hour < Hours
    /\ hour' = hour + 1
    /\ UNCHANGED <<entry, lock, client, units, fetched>>

(* Nothing in the program verifies an entry yet: only a store might.       *)
TtlFor(e) == IF e.seed \/ ~e.verified THEN TtlDisputed ELSE TtlVerified

(* An entry of stations is good to the last moment of its time.            *)
Lives(k) ==
    \E e \in entry[k] : IF k \in Surroundings THEN hour - e.at <= StationsTtl
                                              ELSE hour - e.at < TtlFor(e)

Goes(c, at) == client' = [client EXCEPT ![c].at = at]

(* What is found fresh is told at once; stations are called for without a  *)
(* lock.                                                                   *)
AskFor(c, k) ==
    /\ client[c].at = "idle"
    /\ client' = [client EXCEPT ![c] =
            IF Lives(k) THEN Idle
            ELSE [at |-> IF k \in Surroundings THEN "pay" ELSE "lock",
                  key |-> k, alive |-> TRUE, tries |-> 0]]
    /\ UNCHANGED <<hour, entry, lock, units, fetched>>

(* The caller gives up; it is noticed where its context is looked at.      *)
Cancel(c) ==
    /\ client[c].at # "idle" /\ client[c].alive
    /\ client' = [client EXCEPT ![c].alive = FALSE]
    /\ UNCHANGED <<hour, entry, lock, units, fetched>>

TakeLock(c) ==
    /\ client[c].at = "lock" /\ lock[client[c].key] = {}
    /\ lock' = [lock EXCEPT ![client[c].key] = {c}]
    /\ Goes(c, "look")
    /\ UNCHANGED <<hour, entry, units, fetched>>

Release(c) ==
    /\ lock' = [lock EXCEPT ![client[c].key] = @ \ {c}]
    /\ client' = [client EXCEPT ![c] = Idle]

(* Mutant: the cache is not looked at again with the lock held.            *)
PayAtOnce(c) ==
    /\ client[c].at = "look"
    /\ Goes(c, "pay")
    /\ UNCHANGED <<hour, entry, lock, units, fetched>>

LookAgain(c) ==
    /\ client[c].at = "look"
    /\ IF Lives(client[c].key) THEN Release(c) ELSE Goes(c, "pay") /\ UNCHANGED lock
    /\ UNCHANGED <<hour, entry, units, fetched>>

(* A unit of the quota is spent before the context is looked at.  When the *)
(* quota refuses, or cannot be asked, what the cache has is told, however  *)
(* old.                                                                    *)
Pay(c) ==
    /\ client[c].at = "pay"
    /\ \/ /\ units > 0
          /\ units' = units - 1
          /\ IF client[c].alive \/ client[c].key \in Surroundings
             THEN Goes(c, "call") /\ UNCHANGED lock
             ELSE Release(c)
       \/ Release(c) /\ UNCHANGED units
    /\ UNCHANGED <<hour, entry, fetched>>

(* The providers are tried in turn, again from the first after the last.   *)
Fails(c) ==
    /\ client[c].at = "call" /\ client[c].tries < Attempts
    /\ IF client[c].alive /\ client[c].tries + 1 < Attempts /\ client[c].key \in Queries
       THEN client' = [client EXCEPT ![c].tries = @ + 1] /\ UNCHANGED lock
       ELSE Release(c)
    /\ UNCHANGED <<hour, entry, units, fetched>>

Answers(c) ==
    /\ client[c].at = "call" /\ client[c].alive
    /\ Goes(c, "keep")
    /\ UNCHANGED <<hour, entry, lock, units, fetched>>

KeepAnswer(c) ==
    /\ client[c].at = "keep"
    /\ entry' = [entry EXCEPT ![client[c].key] = {[at |-> hour, seed |-> FALSE, verified |-> FALSE]}]
    /\ fetched' = [fetched EXCEPT ![client[c].key] = Append(@, hour)]
    /\ Release(c)
    /\ UNCHANGED <<hour, units>>

GeocodeNext ==
    \/ HourPasses
    \/ \E c \in Clients :
        \/ \E k \in Keys : AskFor(c, k)
        \/ Cancel(c) \/ TakeLock(c) \/ LookAgain(c) \/ Pay(c)
        \/ Fails(c) \/ Answers(c) \/ KeepAnswer(c)

GeocodeSpec == GeocodeInit /\ [][GeocodeNext]_geocodeVars

(***************************************************************************)
(* While what was found for a query lives nobody asks for it again, though *)
(* many asked at once before it was found (CachedGeocoder.revalidate).     *)
(* That is not so of the stations around.                                  *)
(***************************************************************************)
OneCallPerLife ==
    \A q \in Queries : \A i, j \in DOMAIN fetched[q] :
        i < j => fetched[q][j] - fetched[q][i] >= TtlDisputed
=============================================================================
