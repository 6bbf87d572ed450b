----------------------------- MODULE MCJobQueue -----------------------------
(***************************************************************************)
(* Constants of JobQueue for TLC: the job types and provider rotations of  *)
(* providersForJob and the handlers newJobsWorker registers.               *)
(***************************************************************************)
EXTENDS JobQueue, TLC

MCRotation ==
    [k \in Kinds |->
        CASE k = "sync_mintrans" -> <<"mintrans", "yandex", "nominatim">>
          [] k = "sync_rail"     -> <<"yandex", "nominatim", "motis">>
          [] k = "import_gtfs"   -> <<"gtfs">>
          [] OTHER               -> <<>>]

(* sync_mintrans is disabled and sync_rail does nothing; the others work   *)
(* on files or the database.  isRateLimited looks for "429", "rate" or     *)
(* "quota" in the error text, which a file path may contain.               *)
MCOutcomes ==
    [k \in Kinds |->
        CASE k = "sync_mintrans" -> {"fail"}
          [] k = "sync_rail"     -> {"ok"}
          [] k = "import_gtfs"   -> {"ok", "fail", "ratelimited"}
          [] OTHER               -> {"ok", "fail"}]

(* Without handlers that report a rate limit.                              *)
SteadyOutcomes == [k \in Kinds |-> MCOutcomes[k] \ {"ratelimited"}]

Symmetry == Permutations(Jobs) \cup Permutations(Workers)
=============================================================================
