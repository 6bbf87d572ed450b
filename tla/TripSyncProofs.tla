--------------------------- MODULE TripSyncProofs ---------------------------
(***************************************************************************)
(* What trips-sync guarantees for every set of trips, routes and regions,  *)
(* every threshold and, where the theorem says so, any number of runs side *)
(* by side.                                                                *)
(***************************************************************************)
EXTENDS TripSync, FiniteSetTheorems, TLAPS

(* The steps of the system, one case for every action.                     *)
LEMMA StepCases ==
    ASSUME [Next]_vars
    PROVE  \/ \E r \in Runners, f \in SUBSET Trips : Begin(r, f)
           \/ \E r \in Runners, a, b \in SUBSET Regions : Attach(r, a, b)
           \/ \E r \in Runners, t \in Trips : Promote(r, t)
           \/ \E r \in Runners, t \in Trips : Stage(r, t)
           \/ \E r \in Runners, t \in Trips : Review(r, t)
           \/ \E r \in Runners, t \in Trips : Tombstone(r, t)
           \/ \E r \in Runners, t \in Trips : StageMissed(r, t)
           \/ \E r \in Runners, t \in Trips : TombstoneMissed(r, t)
           \/ \E r \in Runners : Finish(r) \/ Fail(r) \/ Crash(r)
           \/ \E r \in Runners : StatementFails(r)
           \/ \E t \in Trips : GrowOld(t)
           \/ ExpireStaleStagingTrips
           \/ UNCHANGED vars
  BY DEF Next, RunStep

-----------------------------------------------------------------------------
(* Types.                                                                  *)

(* The report of a run gives verdicts to trips and work of every kind.     *)
LEMMA AttachTyped ==
    ASSUME TypeOK, NEW r \in Runners, NEW a \in SUBSET Regions, NEW b \in SUBSET Regions,
           Attach(r, a, b)
    PROVE  /\ verdict' \in [Runners -> [Trips -> Verdicts \cup {"out"}]]
           /\ todo' \in [Runners -> [Kinds -> SUBSET Trips]]
           /\ prev' \in [Runners -> SUBSET Trips]
           /\ phase' \in [Runners -> {"idle", "attach", "persist", "failed"}]
  <1>1. PICK given \in [Attachable(Filtered(file[r], a), b) -> Verdicts] :
           Compare(r, Report(given))
    BY DEF Attach
  <1>2. Report(given) \in [Trips -> Verdicts \cup {"out"}]
    BY DEF Report
  <1>3. Work(Report(given), Live) \in [Kinds -> SUBSET Trips]
    BY DEF Work, Kinds, Promoted, Those, Live
  <1>4. Live \in SUBSET Trips
    BY DEF Live
  <1> HIDE DEF Live
  <1> QED BY <1>1, <1>2, <1>3, <1>4 DEF TypeOK, Compare

LEMMA TakesTyped ==
    ASSUME TypeOK, NEW r \in Runners, NEW k \in Kinds, NEW t \in Trips, Takes(r, k, t)
    PROVE  todo' \in [Runners -> [Kinds -> SUBSET Trips]]
  BY DEF Takes, TypeOK

(* What a run still has to write comes from its report, and it has nothing *)
(* to write outside of a report's persist.                                 *)
WorkIsReported ==
    \A r \in Runners :
        /\ todo[r]["promoted"] \subseteq Promoted(verdict[r])
        /\ todo[r]["staged"]   \subseteq Those(verdict[r], Staged)
        /\ todo[r]["reviewed"] \subseteq Those(verdict[r], Reviewed)
        /\ todo[r]["tombstoned"] \cap Promoted(verdict[r]) = {}
        /\ phase[r] \in {"idle", "attach"} => todo[r] = Nothing

Typed == TypeOK /\ WorkIsReported

LEMMA StagingStateTyped ==
    ASSUME NEW v \in Staged
    PROVE  StagingState(v) \in Unfinished
  BY DEF Staged, StagingState, Unfinished, Unmatched

LEMMA ReasonTyped ==
    ASSUME NEW v
    PROVE  Reason(v) \in Reasons
  BY DEF Reason, Reasons

LEMMA TypedInit == Init => Typed
  BY DEF Init, Typed, TypeOK, WorkIsReported, Nothing, Blank, Kinds, Reasons, Promoted, Those,
         Staged, Reviewed, Unmatched, Unfinished

(* A step that takes one trip off its list keeps the lists as reported.    *)
LEMMA TakesKeepsWork ==
    ASSUME Typed, NEW r \in Runners, NEW k \in Kinds, NEW t \in Trips, Takes(r, k, t)
    PROVE  WorkIsReported'
  <1>1. \A q \in Runners, i \in Kinds : todo'[q][i] \subseteq todo[q][i]
    BY DEF Typed, TypeOK, Takes
  <1>2. \A q \in Runners : phase'[q] \in {"idle", "attach"} => todo'[q] = todo[q]
    BY DEF Typed, TypeOK, Takes
  <1>3. verdict' = verdict /\ phase' = phase
    BY DEF Takes
  <1> QED BY <1>1, <1>2, <1>3 DEF Typed, WorkIsReported, Kinds, Promoted, Those

LEMMA TypedStep ==
    ASSUME Typed, [Next]_vars
    PROVE  Typed'
  <1> USE DEF Typed
  <1>1. CASE \E r \in Runners, f \in SUBSET Trips : Begin(r, f)
    <2>1. PICK r \in Runners, f \in SUBSET Trips : Begin(r, f)
      BY <1>1
    <2>2. TypeOK'
      BY <2>1 DEF TypeOK, Begin, tables, Blank, Nothing, Kinds
    <2>3. WorkIsReported'
      BY <2>1 DEF TypeOK, WorkIsReported, Begin, Nothing, Kinds, Promoted, Those
    <2> QED BY <2>2, <2>3
  <1>2. CASE \E r \in Runners, a, b \in SUBSET Regions : Attach(r, a, b)
    <2>1. PICK r \in Runners, a \in SUBSET Regions, b \in SUBSET Regions : Attach(r, a, b)
      BY <1>2
    <2>2. TypeOK'
      BY <2>1, AttachTyped DEF TypeOK, Attach, tables
    <2>3. PICK given \in [Attachable(Filtered(file[r], a), b) -> Verdicts] :
             Compare(r, Report(given))
      BY <2>1 DEF Attach
    <2>4. phase[r] = "attach"
      BY <2>1 DEF Attach
    <2>5. WorkIsReported'
      <3> SUFFICES ASSUME NEW q \in Runners
                   PROVE  /\ todo'[q]["promoted"] \subseteq Promoted(verdict'[q])
                          /\ todo'[q]["staged"]   \subseteq Those(verdict'[q], Staged)
                          /\ todo'[q]["reviewed"] \subseteq Those(verdict'[q], Reviewed)
                          /\ todo'[q]["tombstoned"] \cap Promoted(verdict'[q]) = {}
                          /\ phase'[q] \in {"idle", "attach"} => todo'[q] = Nothing
        BY DEF WorkIsReported, Promoted, Those
      <3>1. CASE q # r
        BY <3>1, <2>3 DEF Compare, TypeOK, WorkIsReported
      <3>2. CASE q = r /\ todo'[r] = Work(Report(given), Live)
        BY <3>2, <2>3 DEF Compare, TypeOK, Work
      <3>3. CASE q = r /\ UNCHANGED todo
        BY <3>3, <2>3, <2>4 DEF Compare, TypeOK, WorkIsReported, Nothing, Kinds
      <3> QED BY <3>1, <3>2, <3>3, <2>3 DEF Compare, TypeOK
    <2> QED BY <2>2, <2>5
  <1>3. CASE \E r \in Runners, t \in Trips : Promote(r, t)
    <2>1. PICK r \in Runners, t \in Trips : Promote(r, t)
      BY <1>3
    <2>2. Takes(r, "promoted", t) /\ "promoted" \in Kinds
      BY <2>1 DEF Promote, Writes, Kinds
    <2>3. review' \in [Trips -> [Reasons -> {"none", "open", "resolved"}]]
      BY <2>1 DEF TypeOK, Promote
    <2> QED BY <2>1, <2>2, <2>3, TakesTyped, TakesKeepsWork DEF TypeOK, Promote, Writes, Takes
  <1>4. CASE \E r \in Runners, t \in Trips : Stage(r, t)
    <2>1. PICK r \in Runners, t \in Trips : Stage(r, t)
      BY <1>4
    <2>2. Takes(r, "staged", t) /\ "staged" \in Kinds
      BY <2>1 DEF Stage, Writes, Kinds
    <2>3. StagingState(verdict[r][t]) \in Unfinished
      BY <2>2, StagingStateTyped DEF Takes, WorkIsReported, Those
    <2> QED BY <2>1, <2>2, <2>3, TakesTyped, TakesKeepsWork DEF TypeOK, Stage, Writes, Takes
  <1>5. CASE \E r \in Runners, t \in Trips : Review(r, t)
    <2>1. PICK r \in Runners, t \in Trips : Review(r, t)
      BY <1>5
    <2>2. Takes(r, "reviewed", t) /\ "reviewed" \in Kinds
      BY <2>1 DEF Review, Writes, Kinds
    <2>3. review' \in [Trips -> [Reasons -> {"none", "open", "resolved"}]]
      BY <2>1, ReasonTyped DEF TypeOK, Review
    <2> QED BY <2>1, <2>2, <2>3, TakesTyped, TakesKeepsWork DEF TypeOK, Review, Writes, Takes
  <1>6. CASE \E r \in Runners, t \in Trips : Tombstone(r, t)
    <2>1. PICK r \in Runners, t \in Trips : Tombstone(r, t)
      BY <1>6
    <2>2. Takes(r, "tombstoned", t) /\ "tombstoned" \in Kinds
      BY <2>1 DEF Tombstone, Writes, Kinds
    <2> QED BY <2>1, <2>2, TakesTyped, TakesKeepsWork DEF TypeOK, Tombstone, Writes, Takes
  <1>7. CASE \E r \in Runners : Finish(r) \/ Fail(r) \/ Crash(r)
    <2>1. PICK r \in Runners : \E s \in {"done", "dead", "running"} : Ends(r, s)
      BY <1>7 DEF Finish, Fail, Crash
    <2>2. TypeOK'
      BY <2>1 DEF TypeOK, Ends, tables, Nothing
    <2>3. WorkIsReported'
      BY <2>1 DEF TypeOK, WorkIsReported, Ends, Nothing, Kinds, Promoted, Those
    <2> QED BY <2>2, <2>3
  <1>8. CASE \E r \in Runners : StatementFails(r)
    BY <1>8 DEF TypeOK, WorkIsReported, StatementFails, tables, Promoted, Those
  <1>9. CASE \E t \in Trips : GrowOld(t)
    BY <1>9 DEF TypeOK, WorkIsReported, GrowOld, Promoted, Those
  <1>10. CASE ExpireStaleStagingTrips
    BY <1>10 DEF TypeOK, WorkIsReported, ExpireStaleStagingTrips, Promoted, Those
  <1>11. CASE UNCHANGED vars
    BY <1>11 DEF TypeOK, WorkIsReported, vars, tables, Promoted, Those
  <1>12. CASE \E r \in Runners, t \in Trips : StageMissed(r, t) \/ TombstoneMissed(r, t)
    <2>1. PICK r \in Runners, k \in Kinds, t \in Trips : Misses(r, k, t)
      BY <1>12 DEF StageMissed, TombstoneMissed, Kinds
    <2>2. Takes(r, k, t)
      BY <2>1 DEF Misses
    <2>3. missed' \in [Runners -> [Kinds -> SUBSET Trips]]
      BY <2>1 DEF TypeOK, Misses
    <2> QED BY <2>1, <2>2, <2>3, TakesTyped, TakesKeepsWork DEF TypeOK, Misses, Takes, tables
  <1> HIDE DEF Typed
  <1> QED BY <1>1, <1>2, <1>3, <1>4, <1>5, <1>6, <1>7, <1>8, <1>9, <1>10, <1>11, <1>12, StepCases

(* Every state the sync reaches has its type, with any number of runs at   *)
(* once, and a run's open work is always what its report says.             *)
THEOREM TypeCorrect == Spec => []TypeOK
  <1>1. Init => Typed
    BY TypedInit
  <1>2. Typed /\ [Next]_vars => Typed'
    BY TypedStep
  <1>3. Typed => TypeOK
    BY DEF Typed
  <1> QED BY <1>1, <1>2, <1>3, PTL DEF Spec

-----------------------------------------------------------------------------
(* Dead letters.                                                           *)

LEMMA StaleStep ==
    ASSUME Typed, ExpiredIsStale, [Next]_vars
    PROVE  ExpiredIsStale'
  <1>1. CASE UNCHANGED <<staging, aged>>
    BY <1>1 DEF ExpiredIsStale
  <1>2. CASE \E r \in Runners, t \in Trips : Promote(r, t)
    BY <1>2 DEF ExpiredIsStale, Promote, Typed, TypeOK
  <1>3. CASE \E r \in Runners, t \in Trips : Stage(r, t)
    <2>1. PICK r \in Runners, t \in Trips : Stage(r, t)
      BY <1>3
    <2>2. StagingState(verdict[r][t]) \in Unfinished
      BY <2>1, StagingStateTyped DEF Stage, Writes, Takes, Typed, WorkIsReported, Those
    <2> QED BY <2>1, <2>2 DEF ExpiredIsStale, Stage, Typed, TypeOK, Unfinished
  <1>4. CASE \E t \in Trips : GrowOld(t)
    BY <1>4 DEF ExpiredIsStale, GrowOld, Typed, TypeOK
  <1>5. CASE ExpireStaleStagingTrips
    BY <1>5 DEF ExpiredIsStale, ExpireStaleStagingTrips, Typed, TypeOK
  <1> QED BY <1>1, <1>2, <1>3, <1>4, <1>5, StepCases
          DEF Begin, Attach, Review, Tombstone, StageMissed, TombstoneMissed, Misses, Finish, Fail,
              Crash, Ends, StatementFails, tables, vars

(* A staging row is a dead letter only when no run has seen its trip for   *)
(* longer than the cleanup's threshold, whatever runs and cleanups do.     *)
THEOREM DeadLettersAreStale == Spec => []ExpiredIsStale
  <1>1. Init => Typed /\ ExpiredIsStale
    BY TypedInit DEF Init, ExpiredIsStale
  <1>2. Typed /\ ExpiredIsStale /\ [Next]_vars => (Typed /\ ExpiredIsStale)'
    BY TypedStep, StaleStep
  <1> QED BY <1>1, <1>2, PTL DEF Spec

-----------------------------------------------------------------------------
(* The source.                                                             *)

(* A run decides only about trips of the file it has read.                 *)
OfTheFile == \A r \in Runners, t \in Trips : verdict[r][t] # "out" => t \in file[r]

LEMMA OfTheFileStep ==
    ASSUME Typed, OfTheFile, [Next]_vars
    PROVE  OfTheFile'
  <1>1. CASE UNCHANGED <<verdict, file>>
    BY <1>1 DEF OfTheFile
  <1>2. CASE \E r \in Runners, f \in SUBSET Trips : Begin(r, f)
    BY <1>2 DEF OfTheFile, Begin, Blank, Typed, TypeOK
  <1>3. CASE \E r \in Runners, a, b \in SUBSET Regions : Attach(r, a, b)
    <2>1. PICK r \in Runners, a \in SUBSET Regions, b \in SUBSET Regions : Attach(r, a, b)
      BY <1>3
    <2>2. PICK given \in [Attachable(Filtered(file[r], a), b) -> Verdicts] :
             Compare(r, Report(given))
      BY <2>1 DEF Attach
    <2>3. Attachable(Filtered(file[r], a), b) \subseteq file[r]
      BY DEF Attachable, Filtered
    <2>4. \A t \in Trips : Report(given)[t] # "out" => t \in file[r]
      BY <2>3 DEF Report
    <2> QED BY <2>1, <2>2, <2>4 DEF OfTheFile, Attach, Compare, Typed, TypeOK
  <1> QED BY <1>1, <1>2, <1>3, StepCases
          DEF Promote, Stage, Review, Tombstone, StageMissed, TombstoneMissed, Misses, Writes, Takes,
              Finish, Fail, Crash, Ends, StatementFails, GrowOld, ExpireStaleStagingTrips, vars

LEMMA SourceStep ==
    ASSUME Typed, OfTheFile, [Next]_vars, NEW t \in Trips, canon[t] # "live", canon'[t] = "live"
    PROVE  \E r \in Runners : phase[r] = "persist" /\ t \in file[r]
  <1>1. canon' # canon
    OBVIOUS
  <1>2. CASE \E r \in Runners, u \in Trips : Promote(r, u)
    <2>1. PICK r \in Runners, u \in Trips : Promote(r, u)
      BY <1>2
    <2>2. u = t
      BY <2>1 DEF Promote, Typed, TypeOK
    <2>3. phase[r] = "persist" /\ verdict[r][t] = "promoted"
      BY <2>1, <2>2 DEF Promote, Writes, Takes, Typed, WorkIsReported, Promoted, Those
    <2> QED BY <2>3 DEF OfTheFile
  <1>3. CASE \E r \in Runners, u \in Trips : Tombstone(r, u)
    BY <1>3 DEF Tombstone, Typed, TypeOK
  <1> QED BY <1>1, <1>2, <1>3, StepCases
          DEF Begin, Attach, Stage, Review, StageMissed, TombstoneMissed, Misses, Finish, Fail, Crash,
              Ends, StatementFails, GrowOld, ExpireStaleStagingTrips, tables, vars

(* A tombstoned trip comes back, and a new one comes in, only by a run     *)
(* that has read it from its file, however many runs write at once.        *)
THEOREM OnlyTheSourceResurrects == Spec => OnlyFromSource
  <1>1. Init => Typed /\ OfTheFile
    BY TypedInit DEF Init, OfTheFile, Blank
  <1>2. Typed /\ OfTheFile /\ [Next]_vars => (Typed /\ OfTheFile)'
    BY TypedStep, OfTheFileStep
  <1>3. Typed /\ OfTheFile /\ [Next]_vars =>
          [\A t \in Trips :
             canon[t] # "live" /\ canon'[t] = "live" =>
                 \E r \in Runners : phase[r] = "persist" /\ t \in file[r]]_vars
    BY SourceStep
  <1> QED BY <1>1, <1>2, <1>3, PTL DEF Spec, OnlyFromSource

-----------------------------------------------------------------------------
(* Runs that are not started side by side.                                 *)

Alone == \A q, r \in Runners : q = r

(* The run of r has written its report, or is about to.                    *)
Writing(r) == phase[r] = "persist" \/ Finished(r)

(* The canon while a report is being written: the promoted trips that are  *)
(* no longer to do are live, and what is live is promoted, still to be     *)
(* tombstoned or passed over.  A trip the run promotes is never missing if it was there.  *)
CanonFollows(r) ==
    /\ prev[r] \cap Promoted(verdict[r]) \subseteq Live
    /\ Writing(r) =>
         /\ Promoted(verdict[r]) \ todo[r]["promoted"] \subseteq Live
         /\ Live \subseteq Promoted(verdict[r]) \cup todo[r]["tombstoned"]
                           \cup missed[r]["tombstoned"]

(* The other tables: what is no longer to do was written or passed over.   *)
RowsFollow(r) ==
    Writing(r) =>
        /\ \A t \in Promoted(verdict[r]) \ todo[r]["promoted"] :
              staging[t] = "none" /\ \A s \in Reasons : review[t][s] # "open"
        /\ \A t \in Those(verdict[r], Staged) \ todo[r]["staged"] :
              \/ staging[t] \in {StagingState(verdict[r][t]), "expired"}
              \/ t \in missed[r]["staged"] /\ staging[t] # "none"
        /\ \A t \in Those(verdict[r], Reviewed) \ todo[r]["reviewed"] :
              review[t][Reason(verdict[r][t])] # "none"

(* The trips missing from a report are few enough.                         *)
SmallLoss(old, current) ==
    100 * Cardinality(old \ current) <= ChurnPercent * Cardinality(old)

LossFollows(r) ==
    /\ phase[r] = "persist" => SmallLoss(prev[r], Promoted(verdict[r]))
    /\ SmallLoss(prev[r], Promoted(verdict[r])) \/ prev[r] \subseteq Live

Follows == \A r \in Runners : CanonFollows(r) /\ RowsFollow(r) /\ LossFollows(r)

LEMMA SmallLossOfNothing == \A current : SmallLoss({}, current)
  <1>1. ChurnPercent \in Nat
    BY TripSyncAssumption
  <1>2. Cardinality({}) = 0
    BY FS_EmptySet
  <1>3. \A current : {} \ current = {}
    OBVIOUS
  <1> QED BY <1>1, <1>2, <1>3 DEF SmallLoss

(* A report that raises no alert loses little.                             *)
LEMMA NoAlertNoLoss ==
    ASSUME NEW old \in SUBSET Trips, NEW current, ~Alert(old, current)
    PROVE  SmallLoss(old, current)
  <1>1. CASE old = {}
    BY <1>1, SmallLossOfNothing
  <1>2. CASE old # {}
    <2>1. IsFiniteSet(old) /\ IsFiniteSet(old \ current)
      BY TripSyncAssumption, FS_Subset
    <2>2. Cardinality(old) \in Nat /\ Cardinality(old \ current) \in Nat
      BY <2>1, FS_CardinalityType
    <2>3. ~(100 * Cardinality(old \ current) > ChurnPercent * Cardinality(old))
      BY <1>2 DEF Alert
    <2>4. ChurnPercent * Cardinality(old) \in Nat
      BY <2>2, TripSyncAssumption
    <2> QED BY <2>2, <2>3, <2>4 DEF SmallLoss
  <1> QED BY <1>1, <1>2

LEMMA FollowsInit == Init => Follows
  BY SmallLossOfNothing
     DEF Init, Follows, CanonFollows, RowsFollow, LossFollows, Writing, Finished, Live, Promoted,
         Those, Blank

(* What taking a trip off a list leaves of the run.                        *)
LEMMA TakesEffect ==
    ASSUME Typed, NEW r \in Runners, NEW k \in Kinds, NEW t \in Trips, Takes(r, k, t)
    PROVE  /\ todo'[r][k] = todo[r][k] \ {t}
           /\ \A i \in Kinds \ {k} : todo'[r][i] = todo[r][i]
           /\ t \in todo[r][k]
           /\ verdict'[r] = verdict[r] /\ prev'[r] = prev[r] /\ phase' = phase
           /\ Writing(r) /\ (Writing(r)' <=> Writing(r))
           /\ phase[r] = "persist"
  BY DEF Typed, TypeOK, Takes, Writing, Finished

LEMMA FollowsStep ==
    ASSUME Alone, Typed, Follows, [Next]_vars
    PROVE  Follows'
  <1> SUFFICES ASSUME NEW r \in Runners
               PROVE  CanonFollows(r)' /\ RowsFollow(r)' /\ LossFollows(r)'
    BY DEF Follows
  <1> USE DEF Typed
  <1>0. \A q \in Runners : q = r
    BY DEF Alone
  <1>f. CanonFollows(r) /\ RowsFollow(r) /\ LossFollows(r)
    BY DEF Follows
  <1>1. CASE \E q \in Runners, f \in SUBSET Trips : Begin(q, f)
    <2>1. PICK f \in SUBSET Trips : Begin(r, f)
      BY <1>0, <1>1
    <2>2. prev'[r] = {} /\ phase'[r] = "attach" /\ runState'[r] = "running"
      BY <2>1 DEF Begin, TypeOK
    <2>3. ~Writing(r)'
      BY <2>2 DEF Writing, Finished
    <2> QED BY <2>2, <2>3, SmallLossOfNothing DEF CanonFollows, RowsFollow, LossFollows
  <1>2. CASE \E q \in Runners, a, b \in SUBSET Regions : Attach(q, a, b)
    <2>1. PICK a \in SUBSET Regions, b \in SUBSET Regions : Attach(r, a, b)
      BY <1>0, <1>2
    <2>2. PICK given \in [Attachable(Filtered(file[r], a), b) -> Verdicts] :
             Compare(r, Report(given))
      BY <2>1 DEF Attach
    <2> DEFINE report == Report(given)
    <2> HIDE DEF report
    <2>3. verdict'[r] = report /\ prev'[r] = Live /\ Live' = Live
      BY <2>1, <2>2 DEF Attach, Compare, TypeOK, tables, Live, report
    <2>4. CASE Alert(Live, Promoted(report))
      <3>1. phase'[r] = "failed"
        BY <2>2, <2>4 DEF Compare, TypeOK, report
      <3> QED BY <2>3, <3>1 DEF CanonFollows, RowsFollow, LossFollows, Writing, Finished
    <2>5. CASE ~Alert(Live, Promoted(report))
      <3>1. phase'[r] = "persist" /\ todo'[r] = Work(report, Live)
        BY <2>2, <2>5 DEF Compare, TypeOK, report
      <3>2. SmallLoss(Live, Promoted(report))
        BY <2>5, NoAlertNoLoss DEF Live
      <3>3. CanonFollows(r)'
        BY <2>3, <3>1 DEF CanonFollows, Work
      <3>4. RowsFollow(r)'
        BY <2>3, <3>1 DEF RowsFollow, Work
      <3>5. LossFollows(r)'
        BY <2>3, <3>2 DEF LossFollows
      <3> QED BY <3>3, <3>4, <3>5
    <2> QED BY <2>4, <2>5
  <1>3. CASE \E q \in Runners, t \in Trips : Promote(q, t)
    <2>1. PICK t \in Trips : Promote(r, t)
      BY <1>0, <1>3
    <2>2. Takes(r, "promoted", t) /\ Kinds = {"promoted", "staged", "reviewed", "tombstoned"}
      BY <2>1 DEF Promote, Writes, Kinds
    <2>u. missed' = missed
      BY <2>1 DEF Promote, Writes
    <2>3. t \in Promoted(verdict[r])
      BY <2>2 DEF Takes, WorkIsReported
    <2>4. Live' = Live \cup {t}
      BY <2>1 DEF Promote, TypeOK, Live
    <2>5. CanonFollows(r)'
      BY <1>f, <2>2, <2>3, <2>4, <2>u, TakesEffect DEF CanonFollows
    <2>6. \A u \in Promoted(verdict[r]) \ todo'[r]["promoted"] :
             staging'[u] = "none" /\ \A s \in Reasons : review'[u][s] # "open"
      <3>1. staging'[t] = "none" /\ \A s \in Reasons : review'[t][s] # "open"
        BY <2>1 DEF Promote, TypeOK
      <3>2. \A u \in Trips \ {t} : staging'[u] = staging[u] /\ review'[u] = review[u]
        BY <2>1 DEF Promote, TypeOK
      <3> QED BY <1>f, <2>2, <3>1, <3>2, <2>u, TakesEffect DEF RowsFollow, Promoted, Those
    <2>7. \A u \in Those(verdict[r], Staged) \cup Those(verdict[r], Reviewed) : u # t
      BY <2>3 DEF Promoted, Those, Staged, Reviewed, Unmatched
    <2>8. \A u \in Trips \ {t} : staging'[u] = staging[u] /\ review'[u] = review[u]
      BY <2>1 DEF Promote, TypeOK
    <2>9. RowsFollow(r)'
      BY <1>f, <2>2, <2>6, <2>7, <2>8, <2>u, TakesEffect DEF RowsFollow, Those
    <2>10. LossFollows(r)'
      BY <1>f, <2>2, <2>4, TakesEffect DEF LossFollows
    <2> QED BY <2>5, <2>9, <2>10
  <1>4. CASE \E q \in Runners, t \in Trips : Stage(q, t)
    <2>1. PICK t \in Trips : Stage(r, t)
      BY <1>0, <1>4
    <2>2. Takes(r, "staged", t) /\ Kinds = {"promoted", "staged", "reviewed", "tombstoned"}
      BY <2>1 DEF Stage, Writes, Kinds
    <2>u. missed' = missed
      BY <2>1 DEF Stage, Writes
    <2>3. t \in Those(verdict[r], Staged)
      BY <2>2 DEF Takes, WorkIsReported
    <2>4. Live' = Live /\ review' = review
      BY <2>1 DEF Stage, Live
    <2>5. t \notin Promoted(verdict[r])
      BY <2>3 DEF Promoted, Those, Staged, Unmatched
    <2>6. /\ staging'[t] = StagingState(verdict[r][t])
          /\ \A u \in Trips \ {t} : staging'[u] = staging[u]
      BY <2>1 DEF Stage, TypeOK
    <2>7. RowsFollow(r)'
      BY <1>f, <2>2, <2>4, <2>5, <2>6, <2>u, TakesEffect DEF RowsFollow, Those, Promoted
    <2> QED BY <1>f, <2>2, <2>4, <2>7, <2>u, TakesEffect DEF CanonFollows, LossFollows
  <1>5. CASE \E q \in Runners, t \in Trips : Review(q, t)
    <2>1. PICK t \in Trips : Review(r, t)
      BY <1>0, <1>5
    <2>2. Takes(r, "reviewed", t) /\ Kinds = {"promoted", "staged", "reviewed", "tombstoned"}
      BY <2>1 DEF Review, Writes, Kinds
    <2>u. missed' = missed
      BY <2>1 DEF Review, Writes
    <2>3. t \in Those(verdict[r], Reviewed)
      BY <2>2 DEF Takes, WorkIsReported
    <2>4. Live' = Live /\ staging' = staging
      BY <2>1 DEF Review, Live
    <2>5. t \notin Promoted(verdict[r])
      BY <2>3 DEF Promoted, Those, Reviewed, Unmatched
    <2>6. /\ review'[t][Reason(verdict[r][t])] # "none"
          /\ \A u \in Trips \ {t} : review'[u] = review[u]
      BY <2>1, ReasonTyped DEF Review, TypeOK
    <2>7. RowsFollow(r)'
      BY <1>f, <2>2, <2>4, <2>5, <2>6, <2>u, TakesEffect DEF RowsFollow, Those, Promoted
    <2> QED BY <1>f, <2>2, <2>4, <2>7, <2>u, TakesEffect DEF CanonFollows, LossFollows
  <1>6. CASE \E q \in Runners, t \in Trips : Tombstone(q, t)
    <2>1. PICK t \in Trips : Tombstone(r, t)
      BY <1>0, <1>6
    <2>2. Takes(r, "tombstoned", t) /\ Kinds = {"promoted", "staged", "reviewed", "tombstoned"}
      BY <2>1 DEF Tombstone, Writes, Kinds
    <2>u. missed' = missed
      BY <2>1 DEF Tombstone, Writes
    <2>3. t \notin Promoted(verdict[r])
      BY <2>2 DEF Takes, WorkIsReported
    <2>4. Live' = Live \ {t}
      BY <2>1 DEF Tombstone, TypeOK, Live
    <2>5. staging' = staging /\ review' = review
      BY <2>1 DEF Tombstone
    <2>6. CanonFollows(r)'
      BY <1>f, <2>2, <2>3, <2>4, <2>u, TakesEffect DEF CanonFollows
    <2>7. RowsFollow(r)'
      BY <1>f, <2>2, <2>5, <2>u, TakesEffect DEF RowsFollow
    <2>8. LossFollows(r)'
      BY <1>f, <2>2, TakesEffect DEF LossFollows
    <2> QED BY <2>6, <2>7, <2>8
  <1>7. CASE \E q \in Runners : Finish(q) \/ Fail(q) \/ Crash(q)
    <2>1. PICK s \in {"done", "dead", "running"} :
             Ends(r, s) /\ (s = "done" => phase[r] = "persist" /\ todo[r] = Nothing)
      BY <1>0, <1>7 DEF Finish, Fail, Crash
    <2>2. /\ todo'[r] = Nothing /\ verdict'[r] = verdict[r] /\ prev'[r] = prev[r]
          /\ Live' = Live /\ staging' = staging /\ review' = review /\ missed' = missed
          /\ phase'[r] = "idle" /\ runState'[r] = s
      BY <2>1 DEF Ends, TypeOK, tables, Live
    <2>3. Writing(r)' => Writing(r) /\ todo'[r] = todo[r]
      BY <2>1, <2>2 DEF Writing, Finished
    <2> QED BY <1>f, <2>2, <2>3 DEF CanonFollows, RowsFollow, LossFollows
  <1>8. CASE \E q \in Runners : StatementFails(q)
    <2>1. phase'[r] = "failed" /\ UNCHANGED <<tables, file, prev, verdict, todo, missed, runState>>
      BY <1>0, <1>8 DEF StatementFails, TypeOK
    <2>2. ~Writing(r)' /\ Live' = Live
      BY <2>1 DEF Writing, Finished, tables, Live
    <2> QED BY <1>f, <2>1, <2>2 DEF CanonFollows, RowsFollow, LossFollows
  <1>9. CASE \E t \in Trips : GrowOld(t)
    <2>1. UNCHANGED <<canon, staging, review, phase, file, prev, verdict, todo, missed, runState>>
      BY <1>9 DEF GrowOld
    <2> QED BY <1>f, <2>1 DEF CanonFollows, RowsFollow, LossFollows, Writing, Finished, Live
  <1>10. CASE ExpireStaleStagingTrips
    <2>1. UNCHANGED <<canon, review, phase, file, prev, verdict, todo, missed, runState>>
      BY <1>10 DEF ExpireStaleStagingTrips
    <2>2. \A t \in Trips : /\ staging[t] = "none" <=> staging'[t] = "none"
                          /\ staging'[t] \in {staging[t], "expired"}
      BY <1>10 DEF ExpireStaleStagingTrips, Unfinished
    <2>3. Live' = Live /\ (Writing(r)' <=> Writing(r))
      BY <2>1 DEF Live, Writing, Finished
    <2>4. RowsFollow(r)'
      BY <1>f, <2>1, <2>2, <2>3 DEF RowsFollow, Promoted, Those
    <2> QED BY <1>f, <2>1, <2>3, <2>4 DEF CanonFollows, LossFollows
  <1>11. CASE UNCHANGED vars
    BY <1>f, <1>11
       DEF vars, tables, CanonFollows, RowsFollow, LossFollows, Writing, Finished, Live
  <1>12. CASE \E q \in Runners, t \in Trips : StageMissed(q, t)
    <2>1. PICK t \in Trips : StageMissed(r, t)
      BY <1>0, <1>12
    <2>2. Takes(r, "staged", t) /\ Kinds = {"promoted", "staged", "reviewed", "tombstoned"}
      BY <2>1 DEF StageMissed, Misses, Kinds
    <2>3. /\ staging[t] # "none" /\ t \in missed'[r]["staged"]
          /\ missed[r]["staged"] \subseteq missed'[r]["staged"]
          /\ missed'[r]["tombstoned"] = missed[r]["tombstoned"]
      BY <2>1, <2>2 DEF StageMissed, Misses, TypeOK
    <2>4. Live' = Live /\ staging' = staging /\ review' = review
      BY <2>1 DEF StageMissed, Misses, tables, Live
    <2>5. RowsFollow(r)'
      BY <1>f, <2>2, <2>3, <2>4, TakesEffect DEF RowsFollow
    <2>6. CanonFollows(r)'
      BY <1>f, <2>2, <2>3, <2>4, TakesEffect DEF CanonFollows
    <2> QED BY <1>f, <2>2, <2>4, <2>5, <2>6, TakesEffect DEF LossFollows
  <1>13. CASE \E q \in Runners, t \in Trips : TombstoneMissed(q, t)
    <2>1. PICK t \in Trips : TombstoneMissed(r, t)
      BY <1>0, <1>13
    <2>2. Takes(r, "tombstoned", t) /\ Kinds = {"promoted", "staged", "reviewed", "tombstoned"}
      BY <2>1 DEF TombstoneMissed, Misses, Kinds
    <2>3. /\ missed'[r]["tombstoned"] = missed[r]["tombstoned"] \cup {t}
          /\ missed'[r]["staged"] = missed[r]["staged"]
      BY <2>1, <2>2 DEF TombstoneMissed, Misses, TypeOK
    <2>4. Live' = Live /\ staging' = staging /\ review' = review
      BY <2>1 DEF TombstoneMissed, Misses, tables, Live
    <2>5. RowsFollow(r)'
      BY <1>f, <2>2, <2>3, <2>4, TakesEffect DEF RowsFollow
    <2>6. CanonFollows(r)'
      BY <1>f, <2>2, <2>3, <2>4, TakesEffect DEF CanonFollows
    <2> QED BY <1>f, <2>2, <2>4, <2>5, <2>6, TakesEffect DEF LossFollows
  <1> QED BY <1>1, <1>2, <1>3, <1>4, <1>5, <1>6, <1>7, <1>8, <1>9, <1>10, <1>11, <1>12, <1>13,
             StepCases

(* An entry of the review queue is closed only by a promotion of its trip. *)
ClosedWasPublished ==
    \A t \in Trips, s \in Reasons : review[t][s] = "resolved" => canon[t] # "none"

LEMMA ClosedStep ==
    ASSUME Typed, ClosedWasPublished, [Next]_vars
    PROVE  ClosedWasPublished'
  <1> USE DEF Typed
  <1>1. CASE UNCHANGED <<canon, review>>
    BY <1>1 DEF ClosedWasPublished
  <1>2. CASE \E r \in Runners, t \in Trips : Promote(r, t)
    BY <1>2 DEF ClosedWasPublished, Promote, TypeOK
  <1>3. CASE \E r \in Runners, t \in Trips : Review(r, t)
    <2>1. PICK r \in Runners, t \in Trips : Review(r, t)
      BY <1>3
    <2>2. \A u \in Trips, s \in Reasons : review'[u][s] = "resolved" => review[u][s] = "resolved"
      BY <2>1, ReasonTyped DEF Review, TypeOK
    <2> QED BY <2>1, <2>2 DEF ClosedWasPublished, Review
  <1>4. CASE \E r \in Runners, t \in Trips : Tombstone(r, t)
    BY <1>4 DEF ClosedWasPublished, Tombstone, TypeOK
  <1> QED BY <1>1, <1>2, <1>3, <1>4, StepCases
          DEF Begin, Attach, Stage, StageMissed, TombstoneMissed, Misses, Finish, Fail, Crash, Ends,
              StatementFails, GrowOld, ExpireStaleStagingTrips, tables, vars

(* The invariant of runs that are not started side by side.                *)
LEMMA RunsFollow ==
    ASSUME Alone
    PROVE  Spec => [](Typed /\ Follows /\ ClosedWasPublished)
  <1>1. Init => Typed /\ Follows /\ ClosedWasPublished
    BY TypedInit, FollowsInit DEF Init, ClosedWasPublished
  <1>2. Typed /\ Follows /\ ClosedWasPublished /\ [Next]_vars
          => (Typed /\ Follows /\ ClosedWasPublished)'
    BY TypedStep, FollowsStep, ClosedStep
  <1> QED BY <1>1, <1>2, PTL DEF Spec

(* After a finished run the canon is what its report promoted, up to trips *)
(* whose tombstone that run passed over, wherever earlier runs stopped and *)
(* whatever they passed over, for any registry, verdicts and threshold.    *)
THEOREM FinishedRunDecidesCanon ==
    ASSUME Alone
    PROVE  Spec => []CanonIsReport
  <1>1. Typed /\ Follows => CanonIsReport
    <2> SUFFICES ASSUME Typed, Follows, NEW r \in Runners, Finished(r)
                 PROVE  /\ Promoted(verdict[r]) \subseteq Live
                        /\ Live \ Promoted(verdict[r]) \subseteq missed[r]["tombstoned"]
      BY DEF CanonIsReport
    <2>1. todo[r]["promoted"] = {} /\ todo[r]["tombstoned"] = {}
      BY DEF Finished, Typed, WorkIsReported, Nothing, Kinds
    <2> QED BY <2>1 DEF Follows, CanonFollows, Writing
  <1> QED BY <1>1, RunsFollow, PTL

(* After a finished run what it promoted is neither held back nor open for *)
(* review; what it held back has its row, and an open entry if it is to be *)
(* reviewed and never was in the canon.                                    *)
THEOREM FinishedRunAccounts ==
    ASSUME Alone
    PROVE  Spec => []HeldBackIsKnown
  <1>1. Typed /\ Follows /\ ClosedWasPublished => HeldBackIsKnown
    <2> SUFFICES ASSUME Typed, Follows, ClosedWasPublished, NEW r \in Runners, Finished(r)
                 PROVE  /\ \A t \in Promoted(verdict[r]) :
                              staging[t] = "none" /\ \A s \in Reasons : review[t][s] # "open"
                        /\ \A t \in Those(verdict[r], Staged) :
                              \/ staging[t] \in {StagingState(verdict[r][t]), "expired"}
                              \/ t \in missed[r]["staged"] /\ staging[t] # "none"
                        /\ \A t \in Those(verdict[r], Reviewed) :
                              \/ review[t][Reason(verdict[r][t])] = "open"
                              \/ /\ review[t][Reason(verdict[r][t])] = "resolved"
                                 /\ canon[t] # "none"
      BY DEF HeldBackIsKnown
    <2>1. \A k \in Kinds : todo[r][k] = {}
      BY DEF Finished, Typed, WorkIsReported, Nothing
    <2>2. Writing(r) /\ RowsFollow(r)
      BY DEF Follows, Writing
    <2>3. ASSUME NEW t \in Those(verdict[r], Reviewed)
          PROVE  \/ review[t][Reason(verdict[r][t])] = "open"
                 \/ /\ review[t][Reason(verdict[r][t])] = "resolved"
                    /\ canon[t] # "none"
      <3>1. t \in Trips /\ Reason(verdict[r][t]) \in Reasons
        BY ReasonTyped DEF Those
      <3>2. review[t][Reason(verdict[r][t])] # "none"
        BY <2>1, <2>2 DEF RowsFollow, Kinds
      <3> QED BY <3>1, <3>2 DEF Typed, TypeOK, ClosedWasPublished
    <2> QED BY <2>1, <2>2, <2>3 DEF Kinds, RowsFollow
  <1> QED BY <1>1, RunsFollow, PTL

(* No run takes away more of the canon than the churn threshold allows,    *)
(* finished or stopped halfway.                                            *)
THEOREM LossStaysBounded ==
    ASSUME Alone
    PROVE  Spec => []LossBounded
  <1>1. Typed /\ Follows => LossBounded
    <2> SUFFICES ASSUME Typed, Follows, NEW r \in Runners
                 PROVE  100 * Cardinality(prev[r] \ Live) <= ChurnPercent * Cardinality(prev[r])
      BY DEF LossBounded
    <2>1. prev[r] \subseteq Trips
      BY DEF Typed, TypeOK
    <2>2. IsFiniteSet(prev[r])
      BY <2>1, TripSyncAssumption, FS_Subset
    <2>3. Cardinality(prev[r]) \in Nat /\ ChurnPercent \in Nat
      BY <2>2, FS_CardinalityType, TripSyncAssumption
    <2>4. CASE SmallLoss(prev[r], Promoted(verdict[r]))
      <3> DEFINE missing == prev[r] \ Promoted(verdict[r])
      <3>1. IsFiniteSet(missing)
        BY <2>2, FS_Subset
      <3>2. prev[r] \ Live \subseteq missing
        BY DEF Follows, CanonFollows
      <3>3. Cardinality(prev[r] \ Live) <= Cardinality(missing)
        BY <3>1, <3>2, FS_Subset
      <3>4. Cardinality(prev[r] \ Live) \in Nat /\ Cardinality(missing) \in Nat
        BY <3>1, <3>2, FS_Subset, FS_CardinalityType
      <3>5. 100 * Cardinality(missing) <= ChurnPercent * Cardinality(prev[r])
        BY <2>4 DEF SmallLoss
      <3>6. ChurnPercent * Cardinality(prev[r]) \in Nat
        BY <2>3
      <3> HIDE DEF missing
      <3> QED BY <3>3, <3>4, <3>5, <3>6
    <2>5. CASE prev[r] \subseteq Live
      <3>1. prev[r] \ Live = {}
        BY <2>5
      <3>2. Cardinality({}) = 0
        BY FS_EmptySet
      <3>3. ChurnPercent * Cardinality(prev[r]) \in Nat
        BY <2>3
      <3> QED BY <3>1, <3>2, <3>3
    <2> QED BY <2>4, <2>5 DEF Follows, LossFollows
  <1> QED BY <1>1, RunsFollow, PTL
=============================================================================
