----------------------------- MODULE Algorithms -----------------------------
(***************************************************************************)
(* All the algorithms together.  A behaviour is one question to one of     *)
(* them and its answer; only the planner takes several steps to it.        *)
(***************************************************************************)
EXTENDS PlanAnswer, StopChoice, WalkGrid, Reestr, TripAttach, SkeletonJoin,
        GtfsFeed, ProviderMerge

AlgorithmsNext ==
    \/ PlanNext
    \/ /\ \/ ChooseStop \/ LookAround \/ LinkStops
          \/ BuildNetwork \/ Flatten \/ CompareEditions
          \/ MatchStop \/ AttachTrips
          \/ Collapse \/ JoinSources \/ InterpolatePosition
          \/ Import \/ Export \/ MergeProviders
       /\ UNCHANGED <<stage, first, offset, found>>

AlgorithmsSpec == PlanInit /\ [][AlgorithmsNext]_planVars
=============================================================================
