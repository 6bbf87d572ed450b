----------------------------- MODULE SkeletonRun -----------------------------
(***************************************************************************)
(* The command that puts the skeleton into the canon (cmd/skeleton-sync,   *)
(* internal/sync/skeleton_promote.go, legacy_match.go).  A run is cut into *)
(* chunks; each is promoted in one transaction, its row is completed, and  *)
(* a line is appended to the log of operations.  A process that dies is    *)
(* started again by hand, with a new run or with the last one's number;    *)
(* its configuration, and with it its plan, may be another by then.        *)
(*                                                                         *)
(* Records are numbers.  Which stations Overpass knows is different at     *)
(* every start.  Staging, addresses and names leave no trace here.         *)
(***************************************************************************)
EXTENDS Integers, Sequences, FiniteSets, FiniteSetsExt, Functions

CONSTANTS
    Plans,
    Canon, Unverified, Ambiguous,   \* what the join of a plan gives: sets of records
    Code,           \* the primary code of a record
    Region,         \* the region of a record, 0 for none
    HasCoords,      \* the records with coordinates
    Station,        \* the record of the station Overpass knows near a record
    ChunkSize,
    MaxPoints,      \* so many records are asked Overpass for
    Legacy,         \* terminals from before the skeleton, numbers
    Resembles,      \* the codes of the records a legacy terminal resembles
    Remote,         \* legacy terminals too far from what they resemble
    Starts          \* bound: how often the command is started

ASSUME SkeletonRunAssumption ==
    /\ Canon \in [Plans -> SUBSET DOMAIN Code] /\ Unverified \in [Plans -> SUBSET DOMAIN Code]
    /\ Ambiguous \in [Plans -> SUBSET DOMAIN Code]
    /\ \A p \in Plans : IsFiniteSet(Canon[p] \cup Unverified[p] \cup Ambiguous[p])
    /\ DOMAIN Code = DOMAIN Region /\ DOMAIN Code \subseteq Nat
    /\ \A r \in DOMAIN Station : Station[r] \in DOMAIN Code
    /\ ChunkSize \in 1..100 /\ MaxPoints \in Nat /\ Starts \in Nat
    /\ Legacy \subseteq Nat /\ Resembles \in [Legacy -> SUBSET {Code[r] : r \in DOMAIN Code}]

VARIABLES
    terminals,      \* how many terminals of the canon came of a code
    review,         \* the queue: pairs of a reason and a code
    run,            \* the state of the last run of the skeleton
    rows,           \* its sync_chunks: from key to state and plan_id_done
    ops,            \* its log of operations: the last line of every key
    proc,           \* the process, or what it died of
    phase0,         \* the state of the last run of phase 0
    matched,        \* the legacy terminals found in the skeleton
    starts,         \* how often the command was started
    outcomes        \* per plan, the outcomes this run's processes had

skeletonVars == <<terminals, review, run, rows, ops, proc, phase0, matched, starts, outcomes>>

Down == [at |-> "down"]

Put(f, key, value) == [k \in DOMAIN f \cup {key} |-> IF k = key THEN value ELSE f[k]]

SkeletonInit ==
    /\ terminals = [c \in Range(Code) |-> 0]
    /\ review = {} /\ matched = {}
    /\ run = "none" /\ phase0 = "none"
    /\ rows = <<>> /\ ops = <<>>
    /\ proc = Down /\ starts = 0
    /\ outcomes = [p \in Plans |-> {}]

-----------------------------------------------------------------------------
(* The records that Overpass is asked for, of which it may know any.       *)
Recoverable(p) ==
    {r \in Unverified[p] \cap HasCoords \cap DOMAIN Station :
        Cardinality({s \in Unverified[p] : s < r}) < MaxPoints}

OverpassEnrich(p, found) ==
    [canon |-> Canon[p] \cup {Station[r] : r \in found},
     unverified |-> Unverified[p] \ found,
     ambiguous |-> Ambiguous[p]]

Before(a, b) ==
    \/ Region[a] < Region[b]
    \/ Region[a] = Region[b] /\ Code[a] < Code[b]
    \/ Region[a] = Region[b] /\ Code[a] = Code[b] /\ a < b

(* The records in order, cut into pieces of the size of a chunk.           *)
Pieces(records) ==
    LET rank == [r \in records |-> Cardinality({s \in records : Before(s, r)})]
    IN [k \in 1..((Cardinality(records) + ChunkSize - 1) \div ChunkSize) |->
            {r \in records : rank[r] \div ChunkSize = k - 1}]

(* A chunk's key names its place among all chunks; one of the canon's also *)
(* names its first and its last code.                                      *)
ChunkKey(kind, piece, k) ==
    LET first == CHOOSE r \in piece : \A s \in piece : r = s \/ Before(r, s)
        last == CHOOSE r \in piece : \A s \in piece : r = s \/ Before(s, r)
    IN IF kind = "terminals" THEN <<kind, Region[first], Code[first], Code[last], k>>
       ELSE <<kind, Region[first], 0, 0, k>>

ChunkSkeleton(outcome) ==
    LET canon == Pieces(outcome.canon)
        unverified == Pieces(outcome.unverified)
        all == canon \o unverified \o Pieces(outcome.ambiguous)
        kind(k) == CASE k <= Len(canon) -> "terminals"
                     [] k > Len(canon) /\ k <= Len(canon) + Len(unverified) -> "review"
                     [] k > Len(canon) + Len(unverified) -> "ambiguous"
    IN [k \in DOMAIN all |-> [kind |-> kind(k), records |-> all[k],
                              key |-> ChunkKey(kind(k), all[k], k)]]

(* What the promotion of a chunk writes and what it leaves for review.     *)
Written(chunk) == IF chunk.kind = "ambiguous" THEN {} ELSE chunk.records \cap HasCoords

Reason(kind) == CASE kind = "terminals" -> "low_confidence"
                  [] kind = "review" -> "skeleton_unverified"
                  [] kind = "ambiguous" -> "duplicate_ambiguous"

Reviewed(chunk) == {<<Reason(chunk.kind), Code[r]>> : r \in chunk.records \ Written(chunk)}

Summary(chunk) == [written |-> Cardinality(Written(chunk)),
                   review |-> Cardinality(chunk.records \ Written(chunk))]

-----------------------------------------------------------------------------
(* A start, with plan p, and found the records Overpass knows stations of. *)
Process(p, found) ==
    LET outcome == OverpassEnrich(p, found)
    IN [at |-> "chunk", plan |-> p, outcome |-> outcome, chunks |-> ChunkSkeleton(outcome),
        k |-> 1, total |-> [written |-> 0, review |-> 0]]

BeginRun ==
    /\ proc.at = "down" /\ starts < Starts
    /\ \E p \in Plans : \E found \in SUBSET Recoverable(p) :
          /\ proc' = Process(p, found)
          /\ outcomes' = [q \in Plans |-> IF q = p THEN {OverpassEnrich(p, found)} ELSE {}]
    /\ run' = "running" /\ rows' = <<>> /\ ops' = <<>>
    /\ starts' = starts + 1
    /\ UNCHANGED <<terminals, review, phase0, matched>>

ResumeRun ==
    /\ proc.at = "down" /\ run # "none" /\ starts < Starts
    /\ \E p \in Plans : \E found \in SUBSET Recoverable(p) :
          /\ proc' = Process(p, found)
          /\ outcomes' = [outcomes EXCEPT ![p] = @ \cup {OverpassEnrich(p, found)}]
    /\ starts' = starts + 1
    /\ UNCHANGED <<terminals, review, run, rows, ops, phase0, matched>>

Current == proc.chunks[proc.k]

(* Mutant: a chunk that is done is fresh under any plan.                   *)
FreshUnderAnyPlan(key) ==
    key \in DOMAIN ops /\ rows[key].state = "done"

(* A chunk is skipped if the log knew it at the start and its row is done  *)
(* under this plan.  Only this process writes the log, and each key once.  *)
Fresh(key) ==
    key \in DOMAIN ops /\ rows[key].state = "done" /\ rows[key].plan = proc.plan

Add(sum) == [written |-> proc.total.written + sum.written,
             review |-> proc.total.review + sum.review]

SkipChunk ==
    /\ proc.at = "chunk" /\ proc.k <= Len(proc.chunks)
    /\ Fresh(Current.key)
    /\ proc' = [proc EXCEPT !.total = Add(ops[Current.key]), !.k = @ + 1]
    /\ UNCHANGED <<terminals, review, run, rows, ops, phase0, matched, starts, outcomes>>

(* The transaction.  Every terminal is a new one, even if its code is      *)
(* known; an entry of the queue is known by its reason and code.           *)
PromoteChunk ==
    /\ proc.at = "chunk" /\ proc.k <= Len(proc.chunks)
    /\ ~Fresh(Current.key)
    /\ terminals' = [c \in DOMAIN terminals |->
            terminals[c] + Cardinality({r \in Written(Current) : Code[r] = c})]
    /\ review' = review \cup Reviewed(Current)
    /\ rows' = IF Current.key \in DOMAIN rows THEN rows
               ELSE Put(rows, Current.key, [state |-> "pending", plan |-> ""])
    /\ proc' = [proc EXCEPT !.at = "complete"]
    /\ UNCHANGED <<run, ops, phase0, matched, starts, outcomes>>

(* The transaction fails: the row is dead and the process exits.           *)
PromoteFails ==
    /\ proc.at = "chunk" /\ proc.k <= Len(proc.chunks)
    /\ ~Fresh(Current.key)
    /\ rows' = Put(rows, Current.key, [state |-> "dead", plan |-> proc.plan])
    /\ proc' = Down
    /\ UNCHANGED <<terminals, review, run, ops, phase0, matched, starts, outcomes>>

CompleteChunk ==
    /\ proc.at = "complete"
    /\ rows' = Put(rows, Current.key, [state |-> "done", plan |-> proc.plan])
    /\ proc' = [proc EXCEPT !.at = "append"]
    /\ UNCHANGED <<terminals, review, run, ops, phase0, matched, starts, outcomes>>

AppendOps ==
    /\ proc.at = "append"
    /\ ops' = Put(ops, Current.key, Summary(Current))
    /\ proc' = [proc EXCEPT !.at = "chunk", !.k = @ + 1, !.total = Add(Summary(Current))]
    /\ UNCHANGED <<terminals, review, run, rows, phase0, matched, starts, outcomes>>

Size(outcome) ==
    Cardinality(outcome.canon) + Cardinality(outcome.unverified) + Cardinality(outcome.ambiguous)

(* A run that does not balance stays running, and the process exits.       *)
FinishSkeletonRun ==
    /\ proc.at = "chunk" /\ proc.k > Len(proc.chunks)
    /\ IF Size(proc.outcome) = proc.total.written + proc.total.review
       THEN /\ run' = "done" /\ phase0' = "running"
            /\ proc' = [at |-> "match", plan |-> proc.plan, outcome |-> proc.outcome, past |-> {}]
            /\ matched' = {}
       ELSE /\ proc' = Down
            /\ UNCHANGED <<run, phase0, matched>>
    /\ UNCHANGED <<terminals, review, rows, ops, starts, outcomes>>

Crash ==
    /\ proc.at # "down"
    /\ proc' = Down
    /\ UNCHANGED <<terminals, review, run, rows, ops, phase0, matched, starts, outcomes>>

-----------------------------------------------------------------------------
(* Phase 0: the terminals from before the skeleton are joined with it, one *)
(* transaction for each.  If two terminals fit, or one does that is too    *)
(* far, the transaction fails and phase 0 is dead.                         *)
Fitting(l) == MapThenSumSet(LAMBDA c : terminals[c], Resembles[l])

NextLegacy == CHOOSE l \in Legacy \ proc.past : \A m \in Legacy \ proc.past : l <= m

Unmatched(l) ==
    /\ Fitting(l) = 0
    /\ review' = review \cup {<<"legacy_unmatched", l>>}
    /\ proc' = [proc EXCEPT !.past = @ \cup {l}]
    /\ UNCHANGED <<matched, phase0>>

Matched(l) ==
    /\ Fitting(l) = 1 /\ l \notin Remote
    /\ matched' = matched \cup {l}
    /\ proc' = [proc EXCEPT !.past = @ \cup {l}]
    /\ UNCHANGED <<review, phase0>>

Undecided(l) ==
    /\ Fitting(l) > 1 \/ (Fitting(l) = 1 /\ l \in Remote)
    /\ phase0' = "dead" /\ proc' = Down
    /\ UNCHANGED <<review, matched>>

MatchLegacy ==
    /\ proc.at = "match" /\ proc.past # Legacy
    /\ Unmatched(NextLegacy) \/ Matched(NextLegacy) \/ Undecided(NextLegacy)
    /\ UNCHANGED <<terminals, run, rows, ops, starts, outcomes>>

FinishPhase0 ==
    /\ proc.at = "match" /\ proc.past = Legacy
    /\ phase0' = "done" /\ proc' = Down
    /\ UNCHANGED <<terminals, review, run, rows, ops, matched, starts, outcomes>>

SkeletonNext ==
    \/ BeginRun \/ ResumeRun
    \/ SkipChunk \/ PromoteChunk \/ PromoteFails \/ CompleteChunk \/ AppendOps
    \/ FinishSkeletonRun \/ MatchLegacy \/ FinishPhase0
    \/ Crash

SkeletonSpec == SkeletonInit /\ [][SkeletonNext]_skeletonVars

-----------------------------------------------------------------------------
(***************************************************************************)
(* A process that finishes a run has put every record of its outcome into  *)
(* the canon or into the queue, whatever of it earlier processes of the    *)
(* run had done, under whatever plans, and wherever they had died -        *)
(* provided Overpass told all processes of that plan the same              *)
(* (cmd/skeleton-sync/main.go:206, docs/14-plan.md:455: a chunk of another *)
(* plan is done again).                                                    *)
(***************************************************************************)
Landed(chunk) ==
    /\ \A r \in Written(chunk) : terminals[Code[r]] > 0
    /\ Reviewed(chunk) \subseteq review

NothingLost ==
    proc.at = "match" /\ outcomes[proc.plan] = {proc.outcome} =>
        \A k \in DOMAIN ChunkSkeleton(proc.outcome) : Landed(ChunkSkeleton(proc.outcome)[k])

(***************************************************************************)
(* The canon has one terminal for a code (docs/14-plan.md:464: two runs in *)
(* a row change nothing; killed in a chunk and started again, the canon is *)
(* whole and the same).                                                    *)
(***************************************************************************)
OneTerminalEach == \A c \in DOMAIN terminals : terminals[c] <= 1
=============================================================================
