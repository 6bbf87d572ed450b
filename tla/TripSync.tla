------------------------------ MODULE TripSync ------------------------------
(***************************************************************************)
(* trips-sync: a run reads a snapshot of the carriers' registry, matches   *)
(* its trips against the skeleton, compares what can be published with the *)
(* trips the canon has, and writes the difference: one transaction per     *)
(* promoted trip, then one statement per staging row, review entry and     *)
(* tombstone.  Nothing spans the run: it may die between any two           *)
(* statements, and another run may be started at any time, since none      *)
(* looks at sync_runs or takes a lock.  A statement that fails ends the    *)
(* run, but for two whose errors the store swallows: a lookup that fails   *)
(* reads as "not found" and its tombstone is passed over, and a staging    *)
(* row that cannot be written counts as written if an old one is there.    *)
(*                                                                         *)
(* A trip is its natural key; Trips are numbers because a report lists     *)
(* keys in order.  The keys of one file are taken to be distinct.          *)
(* Matching and validation give every trip of the input a verdict, which   *)
(* is chosen freely here.  Left out: a dry run, which writes nothing, and  *)
(* an operator who deletes entries of the review queue by hand.            *)
(***************************************************************************)
EXTENDS Integers, FiniteSets

CONSTANTS
    Trips,          \* natural keys, in the order reports list them
    RouteOf,        \* trip -> route
    RegionsOf,      \* trip -> regions of its stops
    Regions,        \* regions the command line and the gate speak of
    Verdicts,       \* verdicts AttachTrips may reach
    ChurnPercent,   \* sync.trips_churn_threshold
    Runners,        \* trips-sync processes
    Forgettable,    \* trips whose staging row may grow old (a bound)
    Faulty          \* whether runs crash and statements fail

(* What AttachTrips decides of a trip of the input.  The two unmatched     *)
(* verdicts are incomplete_trip rows with the reason of the worst stop.    *)
Unmatched == {"low_confidence", "duplicate_ambiguous"}
Staged == {"awaiting_times", "incomplete_trip", "skeleton_gap", "needs_review"} \cup Unmatched

ASSUME TripSyncAssumption ==
    /\ Trips \subseteq Nat /\ IsFiniteSet(Trips)
    /\ RegionsOf \in [Trips -> SUBSET Regions]
    /\ Verdicts \subseteq {"promoted", "dead"} \cup Staged
    /\ ChurnPercent \in Nat
    /\ Forgettable \subseteq Trips
    /\ Faulty \in BOOLEAN

VARIABLES
    canon,      \* trip -> "none", "live" (valid_to IS NULL) or "tomb"
    staging,    \* trip -> state of its staging_trips row
    aged,       \* trips whose last_attempt_at is before the cleanup's cutoff
    review,     \* trip -> reason -> state of its review_queue row
    phase,      \* what each process is doing
    file,       \* the trips of the registry file a run has read
    prev,       \* ListCanonTrips as the run read it
    verdict,    \* the report: trip -> verdict, "out" if not in the input
    todo,       \* what is left to write, per kind of row
    missed,     \* history: what a run passed over without an error, per kind
    runState    \* sync_runs.state of the last run of each process

tables == <<canon, staging, aged, review>>
vars   == <<tables, phase, file, prev, verdict, todo, missed, runState>>

Reasons    == {"low_confidence", "duplicate_ambiguous"}
Kinds      == {"promoted", "staged", "reviewed", "tombstoned"}
Unfinished == {"awaiting_times", "incomplete_trip", "skeleton_gap", "needs_review"}

TypeOK ==
    /\ canon    \in [Trips -> {"none", "live", "tomb"}]
    /\ staging  \in [Trips -> Unfinished \cup {"none", "expired"}]
    /\ aged     \subseteq Trips
    /\ review   \in [Trips -> [Reasons -> {"none", "open", "resolved"}]]
    /\ phase    \in [Runners -> {"idle", "attach", "persist", "failed"}]
    /\ file     \in [Runners -> SUBSET Trips]
    /\ prev     \in [Runners -> SUBSET Trips]
    /\ verdict  \in [Runners -> [Trips -> Verdicts \cup {"out"}]]
    /\ todo     \in [Runners -> [Kinds -> SUBSET Trips]]
    /\ missed   \in [Runners -> [Kinds -> SUBSET Trips]]
    /\ runState \in [Runners -> {"none", "running", "done", "dead"}]

Nothing == [k \in Kinds |-> {}]
Blank   == [t \in Trips |-> "out"]

Init ==
    /\ canon    = [t \in Trips |-> "none"]
    /\ staging  = [t \in Trips |-> "none"]
    /\ aged     = {}
    /\ review   = [t \in Trips |-> [s \in Reasons |-> "none"]]
    /\ phase    = [r \in Runners |-> "idle"]
    /\ file     = [r \in Runners |-> {}]
    /\ prev     = [r \in Runners |-> {}]
    /\ verdict  = [r \in Runners |-> Blank]
    /\ todo     = [r \in Runners |-> Nothing]
    /\ missed   = [r \in Runners |-> Nothing]
    /\ runState = [r \in Runners |-> "none"]

-----------------------------------------------------------------------------
(* The input of a run and its report.                                      *)

(* --regions keeps the trips that touch one of them; no region, all trips. *)
Filtered(f, allowed) ==
    {t \in f : allowed = {} \/ RegionsOf[t] \cap allowed # {}}

(* Mutant: a route brings back all the trips it ever had.                  *)
AttachableByRoute(f, blocked) ==
    {t \in Trips : \E u \in f : RouteOf[u] = RouteOf[t] /\ RegionsOf[u] \cap blocked = {}}

(* A route with a stop in a region under the coverage gate is left out     *)
(* whole; --force blocks none.                                             *)
Attachable(f, blocked) ==
    {t \in f : \A u \in f : RouteOf[u] = RouteOf[t] => RegionsOf[u] \cap blocked = {}}

(* The report over all trips, and those it gives one of the verdicts.      *)
Report(given) == [t \in Trips |-> IF t \in DOMAIN given THEN given[t] ELSE "out"]
Those(report, verdicts) == {t \in Trips : report[t] \in verdicts}
Promoted(report) == Those(report, {"promoted"})

StagingState(v) == IF v \in Unmatched THEN "incomplete_trip" ELSE v
Reviewed == Unmatched \cup {"needs_review"}
Reason(v) == IF v = "duplicate_ambiguous" THEN v ELSE "low_confidence"

Live == {t \in Trips : canon[t] = "live"}

(* Mutant: the alert compares how many trips there are.                    *)
AlertOnNetChange(old, current) ==
    LET was == Cardinality(old)
        is  == Cardinality(current)
    IN  old # {} /\ 100 * (IF is > was THEN is - was ELSE was - is) > ChurnPercent * was

(* Churn and disappearance of a report against the canon, in tombstone();  *)
(* a first load never alerts.                                              *)
Alert(old, current) ==
    LET added   == Cardinality(current \ old)
        removed == Cardinality(old \ current)
        was     == Cardinality(old)
        is      == Cardinality(current)
    IN  /\ old # {}
        /\ \/ 100 * (added + removed) > ChurnPercent * (IF is > was THEN is ELSE was)
           \/ 100 * removed > ChurnPercent * was

-----------------------------------------------------------------------------
(* A run.                                                                  *)

(* The file is read and flattened, BeginTripsRun inserts the run's row.    *)
Begin(r, f) ==
    /\ phase[r] = "idle"
    /\ phase'    = [phase EXCEPT ![r] = "attach"]
    /\ file'     = [file EXCEPT ![r] = f]
    /\ prev'     = [prev EXCEPT ![r] = {}]
    /\ verdict'  = [verdict EXCEPT ![r] = Blank]
    /\ missed'   = [missed EXCEPT ![r] = Nothing]
    /\ runState' = [runState EXCEPT ![r] = "running"]
    /\ UNCHANGED <<tables, todo>>

(* What PersistAttachReport has to write.                                  *)
Work(report, old) ==
    [promoted   |-> Promoted(report),
     staged     |-> Those(report, Staged),
     reviewed   |-> Those(report, Reviewed),
     tombstoned |-> old \ Promoted(report)]

(* The end of AttachTrips against the canon of this moment.  The error of  *)
(* an alert ends the run before anything is written.                       *)
Compare(r, report) ==
    /\ verdict' = [verdict EXCEPT ![r] = report]
    /\ prev'    = [prev EXCEPT ![r] = Live]
    /\ IF Alert(Live, Promoted(report))
         THEN /\ phase' = [phase EXCEPT ![r] = "failed"]
              /\ UNCHANGED todo
         ELSE /\ phase' = [phase EXCEPT ![r] = "persist"]
              /\ todo'  = [todo EXCEPT ![r] = Work(report, Live)]

(* RunTripsSync up to there.  The wait for the gate only delays it:        *)
(* blocked are the regions under the gate when the wait ends.              *)
Attach(r, allowed, blocked) ==
    /\ phase[r] = "attach"
    /\ \E given \in [Attachable(Filtered(file[r], allowed), blocked) -> Verdicts] :
          Compare(r, Report(given))
    /\ UNCHANGED <<tables, file, missed, runState>>

(* The kinds of rows are written one after the other.                      *)
Before(k) == CASE k = "promoted"   -> {}
               [] k = "staged"     -> {"promoted"}
               [] k = "reviewed"   -> {"promoted", "staged"}
               [] k = "tombstoned" -> {"promoted", "staged", "reviewed"}

Takes(r, k, t) ==
    /\ phase[r] = "persist"
    /\ \A b \in Before(k) : todo[r][b] = {}
    /\ t \in todo[r][k]
    /\ k # "reviewed" => \A u \in todo[r][k] : t <= u
    /\ todo' = [todo EXCEPT ![r][k] = @ \ {t}]
    /\ UNCHANGED <<phase, file, prev, verdict, runState>>

Writes(r, k, t) == Takes(r, k, t) /\ UNCHANGED missed

(* Mutant: DeleteStagingTrip is left out of the transaction.               *)
PromoteKeepsStaging(r, t) ==
    /\ Writes(r, "promoted", t)
    /\ canon'  = [canon EXCEPT ![t] = "live"]
    /\ review' = [review EXCEPT ![t] =
                     [s \in Reasons |-> IF @[s] = "open" THEN "resolved" ELSE @[s]]]
    /\ UNCHANGED <<staging, aged>>

(* persistPromotedTrip: the trip is inserted, refreshed or resurrected,    *)
(* its staging row goes and its open reviews are resolved.                 *)
Promote(r, t) ==
    /\ Writes(r, "promoted", t)
    /\ canon'   = [canon EXCEPT ![t] = "live"]
    /\ staging' = [staging EXCEPT ![t] = "none"]
    /\ aged'    = aged \ {t}
    /\ review'  = [review EXCEPT ![t] =
                     [s \in Reasons |-> IF @[s] = "open" THEN "resolved" ELSE @[s]]]

(* Mutant: the upsert leaves the state of an expired row alone.            *)
StageKeepsExpired(r, t) ==
    /\ Writes(r, "staged", t)
    /\ staging' = [staging EXCEPT ![t] =
                     IF @ = "expired" THEN @ ELSE StagingState(verdict[r][t])]
    /\ aged'    = aged \ {t}
    /\ UNCHANGED <<canon, review>>

(* persistStagedTrip, which also revives an expired row.                   *)
Stage(r, t) ==
    /\ Writes(r, "staged", t)
    /\ staging' = [staging EXCEPT ![t] = StagingState(verdict[r][t])]
    /\ aged'    = aged \ {t}
    /\ UNCHANGED <<canon, review>>

(* The statement of k for t fails and the run goes on as if it had not.    *)
Misses(r, k, t) ==
    /\ Faulty
    /\ Takes(r, k, t)
    /\ missed' = [missed EXCEPT ![r][k] = @ \cup {t}]
    /\ UNCHANGED tables

(* UpsertStagingTrip returns the row it finds when its upsert fails.       *)
StageMissed(r, t) == staging[t] # "none" /\ Misses(r, "staged", t)

(* SaveReviewQueue inserts an open row; an existing one keeps its state.   *)
Review(r, t) ==
    /\ Writes(r, "reviewed", t)
    /\ review' = [review EXCEPT ![t][Reason(verdict[r][t])] =
                    IF @ = "none" THEN "open" ELSE @]
    /\ UNCHANGED <<canon, staging, aged>>

(* Mutant: a trip the file still has is spared.                            *)
TombstoneIfVanished(r, t) ==
    /\ Writes(r, "tombstoned", t)
    /\ canon' = [canon EXCEPT ![t] = IF @ = "live" /\ t \notin file[r] THEN "tomb" ELSE @]
    /\ UNCHANGED <<staging, aged, review>>

(* TombstoneTrip, only where valid_to IS NULL.                             *)
Tombstone(r, t) ==
    /\ Writes(r, "tombstoned", t)
    /\ canon' = [canon EXCEPT ![t] = IF @ = "live" THEN "tomb" ELSE @]
    /\ UNCHANGED <<staging, aged, review>>

(* FindRouteID and FindTrip find nothing when their query fails.           *)
TombstoneMissed(r, t) == Misses(r, "tombstoned", t)

Ends(r, state) ==
    /\ phase'    = [phase EXCEPT ![r] = "idle"]
    /\ runState' = [runState EXCEPT ![r] = state]
    /\ todo'     = [todo EXCEPT ![r] = Nothing]
    /\ UNCHANGED <<tables, file, prev, verdict, missed>>

Finish(r) ==
    /\ phase[r] = "persist"
    /\ todo[r] = Nothing
    /\ Ends(r, "done")

(* A statement fails and its error is returned, which ends the run.        *)
StatementFails(r) ==
    /\ Faulty
    /\ phase[r] \in {"attach", "persist"}
    /\ phase' = [phase EXCEPT ![r] = "failed"]
    /\ UNCHANGED <<tables, file, prev, verdict, todo, missed, runState>>

Fail(r) == phase[r] = "failed" /\ Ends(r, "dead")

(* The process is killed: its row of sync_runs stays "running".            *)
Crash(r) ==
    /\ Faulty
    /\ phase[r] # "idle"
    /\ Ends(r, "running")

-----------------------------------------------------------------------------
(* The staging rows between runs.                                          *)

GrowOld(t) ==
    /\ t \in Forgettable \ aged /\ staging[t] # "none"
    /\ aged' = aged \cup {t}
    /\ UNCHANGED <<canon, staging, review, phase, file, prev, verdict, todo, missed, runState>>

(* The cleanup job: ExpireStagingTripsOlderThan.                           *)
ExpireStaleStagingTrips ==
    /\ staging' = [t \in Trips |->
                     IF t \in aged /\ staging[t] \in Unfinished THEN "expired" ELSE staging[t]]
    /\ UNCHANGED <<canon, aged, review, phase, file, prev, verdict, todo, missed, runState>>

RunStep(r) ==
    \/ \E f \in SUBSET Trips : Begin(r, f)
    \/ \E allowed, blocked \in SUBSET Regions : Attach(r, allowed, blocked)
    \/ \E t \in Trips : Promote(r, t) \/ Stage(r, t) \/ Review(r, t) \/ Tombstone(r, t)
    \/ \E t \in Trips : StageMissed(r, t) \/ TombstoneMissed(r, t)
    \/ Finish(r) \/ StatementFails(r) \/ Fail(r) \/ Crash(r)

Next ==
    \/ \E r \in Runners : RunStep(r)
    \/ \E t \in Trips : GrowOld(t)
    \/ ExpireStaleStagingTrips

Spec == Init /\ [][Next]_vars

-----------------------------------------------------------------------------
(* Properties.  Those about what a finished run leaves hold when runs are  *)
(* not started side by side: no code keeps two of them apart.              *)

Finished(r) == phase[r] = "idle" /\ runState[r] = "done"

(* After a finished run the canon has every trip its report promoted, and  *)
(* beyond those only trips whose tombstone this very run passed over,      *)
(* whatever runs before it crashed, failed halfway or passed over: the     *)
(* tombstones are computed from a snapshot older than the promotions, and  *)
(* a trip one run passes over is in the snapshot of the next.              *)
CanonIsReport ==
    \A r \in Runners : Finished(r) =>
        /\ Promoted(verdict[r]) \subseteq Live
        /\ Live \ Promoted(verdict[r]) \subseteq missed[r]["tombstoned"]

(* After a finished run a trip it promoted has neither a staging row nor   *)
(* an open review of its own.  A trip it held back has its staging row, as *)
(* this run wrote it, possibly expired since, or an older one if this run  *)
(* could not write it.  When its verdict calls for a review the entry is   *)
(* open, unless the trip had been in the canon before: a promotion closes  *)
(* entries and SaveReviewQueue does not open them again.                   *)
HeldBackIsKnown ==
    \A r \in Runners : Finished(r) =>
        /\ \A t \in Promoted(verdict[r]) :
              staging[t] = "none" /\ \A s \in Reasons : review[t][s] # "open"
        /\ \A t \in Those(verdict[r], Staged) :
              \/ staging[t] \in {StagingState(verdict[r][t]), "expired"}
              \/ t \in missed[r]["staged"] /\ staging[t] # "none"
        /\ \A t \in Those(verdict[r], Reviewed) :
              \/ review[t][Reason(verdict[r][t])] = "open"
              \/ review[t][Reason(verdict[r][t])] = "resolved" /\ canon[t] # "none"

(* No run, finished or not, takes away more than ChurnPercent of the trips *)
(* the canon had when it began to write (the churn alert of AttachTrips).  *)
LossBounded ==
    \A r \in Runners :
        100 * Cardinality(prev[r] \ Live) <= ChurnPercent * Cardinality(prev[r])

(* Only rows that were not seen for long enough are dead letters: a run    *)
(* that sees the trip again revives the row, under any number of runs and  *)
(* cleanups.                                                               *)
ExpiredIsStale == \A t \in Trips : staging[t] = "expired" => t \in aged

(* A trip enters the canon, or comes back to it, only while a run that has *)
(* read it from its file is writing: old trips of a route that comes back  *)
(* stay tombstoned (docs/14-plan.md, resurrection).                        *)
OnlyFromSource ==
    [][\A t \in Trips :
         canon[t] # "live" /\ canon'[t] = "live" =>
             \E r \in Runners : phase[r] = "persist" /\ t \in file[r]]_vars
=============================================================================
