----------------------------- MODULE Traveller -----------------------------
(***************************************************************************)
(* The reference the scan is measured against: a traveller who, once the   *)
(* scan is over, leaves the stop asked for at the time asked for and takes *)
(* any connections and footpaths whatever.  Nobody who travels this        *)
(* network arrives anywhere before the scan says one can.                  *)
(***************************************************************************)
EXTENDS ConnectionScan

CONSTANT Horizon        \* the traveller walks no longer than this
ASSUME HorizonAssumption == Horizon \in Nat

VARIABLES at, clock
traveller == <<at, clock>>

TravelInit ==
    /\ Init
    /\ at = request.from
    /\ clock = request.depart

Board ==
    \E c \in Usable :
        /\ c.from = at
        /\ clock <= c.dep
        /\ at' = c.to
        /\ clock' = c.arr

WalkOn ==
    \E s \in Stops :
        /\ <<at, s>> \in DOMAIN request.walk
        /\ {at, s} \cap request.provisional = {}
        /\ clock + request.walk[<<at, s>>] <= Horizon
        /\ at' = s
        /\ clock' = clock + request.walk[<<at, s>>]

Travel == phase # "scan" /\ (Board \/ WalkOn) /\ UNCHANGED vars

TravelNext ==
    \/ Search /\ UNCHANGED traveller
    \/ Travel

TravelSpec ==
    TravelInit /\ [][TravelNext]_<<vars, traveller>>
    /\ WF_<<vars, traveller>>(Search /\ UNCHANGED traveller)

TravellerTypeOK == ScanTypeOK /\ at \in Stops /\ clock \in Nat

(***************************************************************************)
(* The scan answers "arrive as early as possible" in one pass: wherever    *)
(* the traveller is, the scan knows the stop and an arrival no later than  *)
(* the traveller's.  One pass is enough only if no connection becomes      *)
(* boardable after it was passed.                                          *)
(***************************************************************************)
EarliestArrival == phase # "scan" => at \in reached /\ arr[at] <= clock

(***************************************************************************)
(* Those whose rides all take time, and who are there at the start.        *)
(***************************************************************************)
RidesTakeTime == \A r \in Requests : \A c \in r.conns : c.dep < c.arr
=============================================================================
