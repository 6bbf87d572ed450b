---------------------------- MODULE MCServices ----------------------------
(***************************************************************************)
(* Small instances of the parts that run beside each other and share       *)
(* nothing: the skeleton's command, the limit on requests, the caches of   *)
(* places and of the network, and the accounts.  A behaviour is one part's,*)
(* and the others stay as they begin.                                      *)
(***************************************************************************)
EXTENDS SkeletonRun, RateLimiter, GeocodeCache, NetworkCache, Accounts, TLC

CONSTANTS c1, c2    \* those who ask: of the caches, and of the accounts

VARIABLE part

(* Two plans; records 4 to 6 and 8 are known to Yandex alone or to two     *)
(* stations, and 7 is the station Overpass knows where 5 is.               *)
MCCanon == [p \in {"p1", "p2"} |-> IF p = "p1" THEN {1} ELSE {2}]
MCUnverified == [p \in {"p1", "p2"} |-> IF p = "p1" THEN {4, 5} ELSE {8}]
MCAmbiguous == [p \in {"p1", "p2"} |-> IF p = "p1" THEN {} ELSE {6}]
MCCode == [r \in 1..8 |-> r]
MCRegion == [r \in 1..8 |-> IF r = 7 THEN 0 ELSE 1]
MCStation == 5 :> 7
MCResembles == [l \in {1, 2, 3} |-> IF l = 3 THEN {} ELSE {l}]

MCRate == [b \in {1, 2} |-> b + 1]
MCBurst == [b \in {1, 2} |-> b]

(* Two trips of one code on two routes; the first may be given other calls *)
(* and days, one of them at a stop nothing called at before.               *)
Call(s, time) == [stop |-> s, arr |-> time, dep |-> time]

MCRoute == [t \in {1, 2} |-> t]
MCTripCode == [t \in {1, 2} |-> 7]
MCEditions ==
    [t \in {1, 2} |->
        IF t = 1 THEN {[days |-> {}, calls |-> <<Call(1, 1), Call(2, 2), Call(3, 3)>>],
                       [days |-> {0}, calls |-> <<Call(3, 1), Call(4, 4)>>],
                       [days |-> {1}, calls |-> <<Call(1, 1), Call(2, 3)>>]}
        ELSE {[days |-> {1}, calls |-> <<Call(2, 4), Call(3, 5)>>]}]

(* The first hour of a day at Greenwich, and the one after in a zone where *)
(* it is the next day's.                                                   *)
MCWhens == {[at |-> 1, zone |-> 0], [at |-> 1, zone |-> 1]}

Symmetric == Permutations({c1, c2})

ServicesInit ==
    /\ part \in {"skeleton", "limiter", "geocode", "network", "accounts"}
    /\ SkeletonInit /\ LimiterInit /\ GeocodeInit /\ NetworkInit /\ AccountsInit

ServicesNext ==
    /\ UNCHANGED part
    /\ \/ /\ part = "skeleton" /\ SkeletonNext
          /\ UNCHANGED <<limiterVars, geocodeVars, networkVars, accountVars>>
       \/ /\ part = "limiter" /\ LimiterNext
          /\ UNCHANGED <<skeletonVars, geocodeVars, networkVars, accountVars>>
       \/ /\ part = "geocode" /\ GeocodeNext
          /\ UNCHANGED <<skeletonVars, limiterVars, networkVars, accountVars>>
       \/ /\ part = "network" /\ NetworkNext
          /\ UNCHANGED <<skeletonVars, limiterVars, geocodeVars, accountVars>>
       \/ /\ part = "accounts" /\ AccountsNext
          /\ UNCHANGED <<skeletonVars, limiterVars, geocodeVars, networkVars>>

ServicesSpec ==
    ServicesInit /\ [][ServicesNext]_<<part, skeletonVars, limiterVars, geocodeVars, networkVars, accountVars>>
=============================================================================
