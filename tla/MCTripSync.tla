----------------------------- MODULE MCTripSync -----------------------------
(***************************************************************************)
(* Constants of TripSync for TLC.  Trips 1 and 2 share a route, trip 2     *)
(* crosses into the region of trip 3.                                      *)
(***************************************************************************)
EXTENDS TripSync

MCRouteOf   == [t \in Trips |-> IF t <= 2 THEN "a" ELSE "b"]
MCRegionsOf == [t \in Trips |-> CASE t = 1 -> {"x"} [] t = 2 -> {"x", "y"} [] OTHER -> {"y"}]

MCRegionsOneX == [t \in Trips |-> {"x"}]
=============================================================================
