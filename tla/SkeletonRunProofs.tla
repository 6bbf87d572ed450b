-------------------------- MODULE SkeletonRunProofs --------------------------
(***************************************************************************)
(* What is proved of the skeleton's command: a process that reaches phase  *)
(* 0 has lost no record of its outcome, for any plans, records, sizes of   *)
(* chunks and number of starts.                                            *)
(***************************************************************************)
EXTENDS SkeletonRun, FiniteSetTheorems, TLAPS

Records == {R \in SUBSET DOMAIN Code : IsFiniteSet(R)}

Outcomes == [canon : Records, unverified : Records, ambiguous : Records]

Summaries == [written : Nat, review : Nat]

(* Landed, of any canon and queue: the action proofs need it of two states.*)
LandedIn(canon, queue, chunk) ==
    /\ \A r \in Written(chunk) : canon[Code[r]] > 0
    /\ Reviewed(chunk) \subseteq queue

(* A process at work on the chunks of an outcome.                          *)
Working(at, p, o, k, total) ==
    [at |-> at, plan |-> p, outcome |-> o, chunks |-> ChunkSkeleton(o), k |-> k, total |-> total]

Matching(p, o, past) == [at |-> "match", plan |-> p, outcome |-> o, past |-> past]

StateTyped ==
    /\ terminals \in [Range(Code) -> Nat]
    /\ DOMAIN outcomes = Plans
    /\ \A p \in Plans : \A o \in outcomes[p] : o \in Outcomes
    /\ \A key \in DOMAIN ops : ops[key] \in Summaries
    /\ DOMAIN ops \subseteq DOMAIN rows

AtWork == proc.at \in {"chunk", "complete", "append"}

ProcTyped ==
    /\ proc.at \in {"down", "chunk", "complete", "append", "match"}
    /\ AtWork => \E p \in Plans : \E o \in outcomes[p] :
                    /\ proc = Working(proc.at, p, o, proc.k, proc.total)
                    /\ proc.total \in Summaries
                    /\ proc.k \in 1..(Len(ChunkSkeleton(o)) + 1)
    /\ proc.at = "match" => \E p \in Plans : \E o \in outcomes[p] :
                                proc = Matching(p, o, proc.past)

(* A row that is done is that of a chunk some process of its plan had, and *)
(* that chunk has landed.                                                  *)
DoneLanded ==
    \A key \in DOMAIN rows : rows[key].state = "done" =>
        /\ rows[key].plan \in Plans
        /\ \E o \in outcomes[rows[key].plan] : \E k \in DOMAIN ChunkSkeleton(o) :
              /\ ChunkSkeleton(o)[k].key = key
              /\ LandedIn(terminals, review, ChunkSkeleton(o)[k])

(* So has every chunk before the one at hand, if all processes of the plan *)
(* had one outcome, and the one at hand once it is promoted.               *)
PassedLanded ==
    AtWork /\ outcomes[proc.plan] = {proc.outcome} =>
        \A j \in 1..(proc.k - 1) : LandedIn(terminals, review, proc.chunks[j])

PromotedLanded ==
    proc.at \in {"complete", "append"} =>
        /\ proc.k \in 1..Len(proc.chunks)
        /\ LandedIn(terminals, review, Current)
        /\ Current.key \in DOMAIN rows

SkeletonInvariant ==
    /\ StateTyped /\ ProcTyped
    /\ DoneLanded /\ PassedLanded /\ PromotedLanded
    /\ NothingLost

-----------------------------------------------------------------------------
(* Pieces are parts of the records they are cut from.                      *)
LEMMA CeilIsInt ==
    ASSUME NEW n \in Nat, NEW c \in 1..100
    PROVE  (n + c - 1) \div c \in Nat
  OBVIOUS

LEMMA PiecesType ==
    ASSUME NEW R \in Records
    PROVE  Pieces(R) \in Seq(Records)
<1>1. Cardinality(R) \in Nat
  BY FS_CardinalityType DEF Records
<1>2. (Cardinality(R) + ChunkSize - 1) \div ChunkSize \in Nat
  BY <1>1, CeilIsInt, SkeletonRunAssumption
<1>3. ASSUME NEW T \in SUBSET R
      PROVE  T \in Records
  BY FS_Subset DEF Records
<1>4. Pieces(R) \in [1..((Cardinality(R) + ChunkSize - 1) \div ChunkSize) -> Records]
  BY <1>3 DEF Pieces
<1> QED
  BY <1>2, <1>4

(* A skeleton is a sequence of chunks, each with its place in its key, of  *)
(* known records, finitely many.                                           *)
LEMMA ChunksOfSkeleton ==
    ASSUME NEW o \in Outcomes
    PROVE  /\ Len(ChunkSkeleton(o)) \in Nat
           /\ DOMAIN ChunkSkeleton(o) = 1..Len(ChunkSkeleton(o))
           /\ \A k \in DOMAIN ChunkSkeleton(o) :
                 /\ ChunkSkeleton(o)[k].records \in Records
                 /\ ChunkSkeleton(o)[k].key[5] = k
<1> DEFINE canon == Pieces(o.canon)
           unverified == Pieces(o.unverified)
           all == canon \o unverified \o Pieces(o.ambiguous)
<1>1. all \in Seq(Records)
  BY PiecesType DEF Outcomes
<1>2. Len(all) \in Nat /\ DOMAIN all = 1..Len(all) /\ \A k \in DOMAIN all : all[k] \in Records
  BY <1>1
<1> DEFINE kind(k) == CASE k <= Len(canon) -> "terminals"
                        [] k > Len(canon) /\ k <= Len(canon) + Len(unverified) -> "review"
                        [] k > Len(canon) + Len(unverified) -> "ambiguous"
<1>3. ChunkSkeleton(o) = [k \in DOMAIN all |-> [kind |-> kind(k), records |-> all[k],
                                                 key |-> ChunkKey(kind(k), all[k], k)]]
  BY DEF ChunkSkeleton
<1> HIDE DEF all, kind
<1>4. \A kd, piece, k : ChunkKey(kd, piece, k)[5] = k
  BY DEF ChunkKey
<1>5. DOMAIN ChunkSkeleton(o) = 1..Len(all)
  BY <1>2, <1>3
<1>6. Len(ChunkSkeleton(o)) = Len(all)
  BY <1>2, <1>3, <1>5
<1> QED
  BY <1>2, <1>3, <1>4, <1>5, <1>6

(* What has landed stays, as long as no terminal goes and no entry.        *)
LEMMA LandedStays ==
    ASSUME NEW canon \in [Range(Code) -> Nat], NEW canon2 \in [Range(Code) -> Nat],
           \A c \in Range(Code) : canon[c] <= canon2[c],
           NEW queue, NEW queue2, queue \subseteq queue2,
           NEW chunk, chunk.records \in Records, LandedIn(canon, queue, chunk)
    PROVE  LandedIn(canon2, queue2, chunk)
<1>1. \A r \in Written(chunk) : Code[r] \in Range(Code)
  BY DEF Written, Records, Range
<1> QED
  BY <1>1 DEF LandedIn

(* Rows that are done and stay as they are keep what DoneLanded says.      *)
LEMMA DoneStays ==
    ASSUME StateTyped, StateTyped', DoneLanded,
           \A c \in Range(Code) : terminals[c] <= terminals'[c],
           review \subseteq review',
           \A p \in Plans : outcomes[p] \subseteq outcomes'[p],
           \A key \in DOMAIN rows' : rows'[key].state = "done" =>
               key \in DOMAIN rows /\ rows'[key] = rows[key]
    PROVE  DoneLanded'
<1> SUFFICES ASSUME NEW key \in DOMAIN rows', rows'[key].state = "done"
             PROVE  /\ rows'[key].plan \in Plans
                    /\ \E o \in outcomes'[rows'[key].plan] : \E k \in DOMAIN ChunkSkeleton(o) :
                          /\ ChunkSkeleton(o)[k].key = key
                          /\ LandedIn(terminals', review', ChunkSkeleton(o)[k])
  BY DEF DoneLanded
<1>1. key \in DOMAIN rows /\ rows'[key] = rows[key]
  OBVIOUS
<1>2. rows[key].plan \in Plans
  BY <1>1 DEF DoneLanded
<1>3. PICK o \in outcomes[rows[key].plan] : \E k \in DOMAIN ChunkSkeleton(o) :
                /\ ChunkSkeleton(o)[k].key = key
                /\ LandedIn(terminals, review, ChunkSkeleton(o)[k])
  BY <1>1 DEF DoneLanded
<1>4. PICK k \in DOMAIN ChunkSkeleton(o) :
                /\ ChunkSkeleton(o)[k].key = key
                /\ LandedIn(terminals, review, ChunkSkeleton(o)[k])
  BY <1>3
<1>5. o \in Outcomes
  BY <1>2 DEF StateTyped
<1>6. ChunkSkeleton(o)[k].records \in Records
  BY <1>5, ChunksOfSkeleton
<1>7. LandedIn(terminals', review', ChunkSkeleton(o)[k])
  BY <1>4, <1>6, LandedStays DEF StateTyped
<1> QED
  BY <1>1, <1>2, <1>4, <1>7

(* A process at work: its plan, its outcome and its chunk.                 *)
LEMMA WorkingProcess ==
    ASSUME StateTyped, ProcTyped, AtWork
    PROVE  /\ proc = Working(proc.at, proc.plan, proc.outcome, proc.k, proc.total)
           /\ proc.plan \in Plans /\ proc.outcome \in outcomes[proc.plan]
           /\ proc.outcome \in Outcomes
           /\ proc.total \in Summaries
           /\ proc.chunks = ChunkSkeleton(proc.outcome)
           /\ Len(proc.chunks) \in Nat /\ DOMAIN proc.chunks = 1..Len(proc.chunks)
           /\ proc.k \in 1..(Len(proc.chunks) + 1)
           /\ \A j \in 1..Len(proc.chunks) :
                 proc.chunks[j].records \in Records /\ proc.chunks[j].key[5] = j
<1>1. PICK p \in Plans : \E o \in outcomes[p] :
                    /\ proc = Working(proc.at, p, o, proc.k, proc.total)
                    /\ proc.total \in Summaries
                    /\ proc.k \in 1..(Len(ChunkSkeleton(o)) + 1)
  BY DEF ProcTyped
<1>p. PICK o \in outcomes[p] :
                    /\ proc = Working(proc.at, p, o, proc.k, proc.total)
                    /\ proc.total \in Summaries
                    /\ proc.k \in 1..(Len(ChunkSkeleton(o)) + 1)
  BY <1>1
<1>2. proc.plan = p /\ proc.outcome = o /\ proc.chunks = ChunkSkeleton(o)
  BY <1>p DEF Working
<1>3. o \in Outcomes
  BY DEF StateTyped
<1> QED
  BY <1>p, <1>2, <1>3, ChunksOfSkeleton

LEMMA SummaryType ==
    ASSUME NEW chunk, chunk.records \in Records
    PROVE  Summary(chunk) \in Summaries
<1>1. IsFiniteSet(Written(chunk)) /\ IsFiniteSet(chunk.records \ Written(chunk))
  BY FS_Subset DEF Records, Written
<1> QED
  BY <1>1, FS_CardinalityType DEF Summary, Summaries

LEMMA AddType ==
    ASSUME proc.total \in Summaries, NEW sum \in Summaries
    PROVE  Add(sum) \in Summaries
  BY DEF Add, Summaries

(* What a start finds is an outcome.                                       *)
LEMMA EnrichedIsOutcome ==
    ASSUME NEW p \in Plans, NEW found \in SUBSET Recoverable(p)
    PROVE  OverpassEnrich(p, found) \in Outcomes
<1>1. /\ Canon[p] \in Records /\ Unverified[p] \in Records /\ Ambiguous[p] \in Records
  <2>1. IsFiniteSet(Canon[p] \cup Unverified[p] \cup Ambiguous[p])
    BY SkeletonRunAssumption
  <2>2. /\ IsFiniteSet(Canon[p]) /\ IsFiniteSet(Unverified[p])
        /\ IsFiniteSet(Ambiguous[p])
    BY <2>1, FS_Subset
  <2>3. /\ Canon[p] \in SUBSET DOMAIN Code /\ Unverified[p] \in SUBSET DOMAIN Code
        /\ Ambiguous[p] \in SUBSET DOMAIN Code
    BY SkeletonRunAssumption
  <2> QED
    BY <2>2, <2>3 DEF Records
<1>2. found \subseteq Unverified[p] /\ found \subseteq DOMAIN Station
  BY DEF Recoverable
<1>3. IsFiniteSet(found)
  BY <1>1, <1>2, FS_Subset DEF Records
<1> DEFINE stations == {Station[r] : r \in found}
           at == [r \in found |-> Station[r]]
<1>s. at \in Surjection(found, stations)
  BY DEF Surjection
<1>4. IsFiniteSet(stations)
  BY <1>3, <1>s, FS_Surjection
<1>5. Canon[p] \cup stations \in Records
  BY <1>1, <1>2, <1>4, FS_Union, SkeletonRunAssumption DEF Records
<1>6. Unverified[p] \ found \in Records
  BY <1>1, FS_Subset DEF Records
<1> QED
  BY <1>1, <1>5, <1>6 DEF OverpassEnrich, Outcomes

-----------------------------------------------------------------------------
LEMMA InitInvariant == SkeletonInit => SkeletonInvariant
<1> SUFFICES ASSUME SkeletonInit
             PROVE  SkeletonInvariant
  OBVIOUS
<1>1. StateTyped
  BY DEF SkeletonInit, StateTyped
<1>2. proc.at = "down"
  BY DEF SkeletonInit, Down
<1>3. ProcTyped /\ PassedLanded /\ PromotedLanded /\ NothingLost
  BY <1>2 DEF ProcTyped, AtWork, PassedLanded, PromotedLanded, NothingLost
<1>4. DoneLanded
  BY DEF SkeletonInit, DoneLanded
<1> QED
  BY <1>1, <1>3, <1>4 DEF SkeletonInvariant

(* A start: of a new run, or of the last one's.                            *)
LEMMA StartProcess ==
    ASSUME NEW p \in Plans, NEW found \in SUBSET Recoverable(p),
           proc' = Process(p, found), OverpassEnrich(p, found) \in outcomes'[p]
    PROVE  ProcTyped' /\ PassedLanded' /\ PromotedLanded' /\ NothingLost'
<1> DEFINE o == OverpassEnrich(p, found)
<1>1. Len(ChunkSkeleton(o)) \in Nat
  BY EnrichedIsOutcome, ChunksOfSkeleton
<1>2. proc' = Working("chunk", p, o, 1, [written |-> 0, review |-> 0])
  BY DEF Process, Working
<1>3. /\ proc'.at = "chunk" /\ proc'.k = 1 /\ proc'.total = [written |-> 0, review |-> 0]
      /\ proc' = Working(proc'.at, p, o, proc'.k, proc'.total)
  BY <1>2 DEF Working
<1>4. proc'.total \in Summaries /\ proc'.k \in 1..(Len(ChunkSkeleton(o)) + 1)
  BY <1>1, <1>3 DEF Summaries
<1>5. ProcTyped'
  BY <1>3, <1>4 DEF ProcTyped
<1>6. PassedLanded'
  BY <1>3 DEF PassedLanded
<1>7. PromotedLanded' /\ NothingLost'
  BY <1>3 DEF PromotedLanded, NothingLost
<1> QED
  BY <1>5, <1>6, <1>7

LEMMA BeginRunStep == SkeletonInvariant /\ BeginRun => SkeletonInvariant'
<1> SUFFICES ASSUME SkeletonInvariant, BeginRun
             PROVE  SkeletonInvariant'
  OBVIOUS
<1>1. PICK p \in Plans : \E found \in SUBSET Recoverable(p) :
          /\ proc' = Process(p, found)
          /\ outcomes' = [q \in Plans |-> IF q = p THEN {OverpassEnrich(p, found)} ELSE {}]
  BY DEF BeginRun
<1>2. PICK found \in SUBSET Recoverable(p) :
          /\ proc' = Process(p, found)
          /\ outcomes' = [q \in Plans |-> IF q = p THEN {OverpassEnrich(p, found)} ELSE {}]
  BY <1>1
<1>3. StateTyped'
  BY <1>2, EnrichedIsOutcome DEF StateTyped, SkeletonInvariant, BeginRun
<1>4. DoneLanded'
  BY DEF DoneLanded, BeginRun
<1> QED
  BY <1>2, <1>3, <1>4, StartProcess DEF SkeletonInvariant

LEMMA ResumeRunStep == SkeletonInvariant /\ ResumeRun => SkeletonInvariant'
<1> SUFFICES ASSUME SkeletonInvariant, ResumeRun
             PROVE  SkeletonInvariant'
  OBVIOUS
<1>1. PICK p \in Plans : \E found \in SUBSET Recoverable(p) :
          /\ proc' = Process(p, found)
          /\ outcomes' = [outcomes EXCEPT ![p] = @ \cup {OverpassEnrich(p, found)}]
  BY DEF ResumeRun
<1>2. PICK found \in SUBSET Recoverable(p) :
          /\ proc' = Process(p, found)
          /\ outcomes' = [outcomes EXCEPT ![p] = @ \cup {OverpassEnrich(p, found)}]
  BY <1>1
<1>3. StateTyped'
  BY <1>2, EnrichedIsOutcome DEF StateTyped, SkeletonInvariant, ResumeRun
<1>4. \A q \in Plans : outcomes[q] \subseteq outcomes'[q]
  BY <1>2 DEF StateTyped, SkeletonInvariant
<1>5. \A c \in Range(Code) : terminals[c] <= terminals'[c]
  BY DEF StateTyped, SkeletonInvariant, ResumeRun
<1>6. DoneLanded'
  BY <1>3, <1>4, <1>5, DoneStays DEF SkeletonInvariant, ResumeRun
<1> QED
  BY <1>2, <1>3, <1>6, StartProcess DEF SkeletonInvariant, StateTyped

(* Steps that leave the canon and the run's rows, and a process that ends. *)
LEMMA StateStays ==
    ASSUME SkeletonInvariant, review \subseteq review',
           UNCHANGED <<terminals, rows, ops, outcomes>>
    PROVE  StateTyped' /\ DoneLanded'
<1>1. StateTyped'
  BY DEF SkeletonInvariant, StateTyped
<1>2. \A c \in Range(Code) : terminals[c] <= terminals'[c]
  BY DEF SkeletonInvariant, StateTyped
<1> QED
  BY <1>1, <1>2, DoneStays DEF SkeletonInvariant

LEMMA ProcessEnds ==
    ASSUME proc' = Down
    PROVE  ProcTyped' /\ PassedLanded' /\ PromotedLanded' /\ NothingLost'
<1>1. proc'.at = "down"
  BY DEF Down
<1> QED
  BY <1>1 DEF ProcTyped, AtWork, PassedLanded, PromotedLanded, NothingLost

(* A process that stays at work on what it has, with landed.               *)
LEMMA ProcessGoesOn ==
    ASSUME SkeletonInvariant, StateTyped', AtWork, UNCHANGED outcomes,
           \A c \in Range(Code) : terminals[c] <= terminals'[c],
           review \subseteq review',
           NEW at \in {"chunk", "complete", "append"},
           NEW k \in 1..(Len(proc.chunks) + 1), NEW total \in Summaries,
           proc' = Working(at, proc.plan, proc.outcome, k, total),
           k = proc.k \/ k = proc.k + 1,
           k # proc.k /\ outcomes[proc.plan] = {proc.outcome} =>
               LandedIn(terminals', review', Current),
           at # "chunk" => /\ k \in 1..Len(proc.chunks)
                           /\ LandedIn(terminals', review', proc.chunks[k])
                           /\ proc.chunks[k].key \in DOMAIN rows'
    PROVE  ProcTyped' /\ PassedLanded' /\ PromotedLanded' /\ NothingLost'
<1> USE DEF SkeletonInvariant
<1>1. /\ proc'.at = at /\ proc'.plan = proc.plan /\ proc'.outcome = proc.outcome
      /\ proc'.k = k /\ proc'.total = total /\ proc'.chunks = proc.chunks
  BY WorkingProcess DEF Working
<1>2. ProcTyped'
  <2>1. proc'.at \in {"down", "chunk", "complete", "append", "match"} /\ proc'.at # "match"
    BY <1>1
  <2>2. /\ proc' = Working(proc'.at, proc.plan, proc.outcome, proc'.k, proc'.total)
        /\ proc'.total \in Summaries
        /\ proc'.k \in 1..(Len(ChunkSkeleton(proc.outcome)) + 1)
    BY <1>1, WorkingProcess
  <2>3. proc.plan \in Plans /\ proc.outcome \in outcomes'[proc.plan]
    BY WorkingProcess
  <2> QED
    BY <2>1, <2>2, <2>3 DEF ProcTyped
<1>3. PassedLanded'
  <2> SUFFICES ASSUME outcomes[proc.plan] = {proc.outcome}, NEW j \in 1..(k - 1)
               PROVE  LandedIn(terminals', review', proc.chunks[j])
    BY <1>1 DEF PassedLanded
  <2>1. CASE j < proc.k
    <3>1. LandedIn(terminals, review, proc.chunks[j])
      BY <2>1, WorkingProcess DEF PassedLanded
    <3>2. proc.chunks[j].records \in Records
      BY <2>1, WorkingProcess
    <3> QED
      BY <3>1, <3>2, LandedStays DEF StateTyped
  <2>2. CASE j >= proc.k
    <3>1. j = proc.k /\ k # proc.k
      BY <2>2, WorkingProcess
    <3> QED
      BY <3>1 DEF Current
  <2> QED
    BY <2>1, <2>2, WorkingProcess
<1>4. PromotedLanded'
  BY <1>1 DEF PromotedLanded, Current
<1>5. NothingLost'
  BY <1>1 DEF NothingLost
<1> QED
  BY <1>2, <1>3, <1>4, <1>5

LEMMA CrashStep == SkeletonInvariant /\ Crash => SkeletonInvariant'
  BY StateStays, ProcessEnds DEF Crash, SkeletonInvariant

LEMMA SkipChunkStep == SkeletonInvariant /\ SkipChunk => SkeletonInvariant'
<1> SUFFICES ASSUME SkeletonInvariant, SkipChunk
             PROVE  SkeletonInvariant'
  OBVIOUS
<1> DEFINE key == Current.key
<1>1. AtWork /\ proc.k \in 1..Len(proc.chunks)
  BY WorkingProcess DEF SkipChunk, AtWork, SkeletonInvariant
<1>2. StateTyped' /\ DoneLanded'
  BY StateStays DEF SkipChunk
<1>3. /\ key \in DOMAIN ops /\ key \in DOMAIN rows
      /\ rows[key].state = "done" /\ rows[key].plan = proc.plan
  BY DEF SkipChunk, Fresh, SkeletonInvariant, StateTyped
<1>4. ASSUME outcomes[proc.plan] = {proc.outcome}
      PROVE  LandedIn(terminals, review, Current)
  <2>1. PICK k \in DOMAIN ChunkSkeleton(proc.outcome) :
                /\ ChunkSkeleton(proc.outcome)[k].key = key
                /\ LandedIn(terminals, review, ChunkSkeleton(proc.outcome)[k])
    BY <1>3, <1>4 DEF DoneLanded, SkeletonInvariant
  <2>2. k = proc.k
    BY <1>1, <2>1, WorkingProcess DEF Current, SkeletonInvariant
  <2> QED
    BY <1>1, <2>1, <2>2, WorkingProcess DEF Current, SkeletonInvariant
<1>5. ops[key] \in Summaries
  BY <1>3 DEF SkeletonInvariant, StateTyped
<1>6. Add(ops[key]) \in Summaries
  BY <1>1, <1>5, AddType, WorkingProcess DEF SkeletonInvariant
<1>7. proc' = Working("chunk", proc.plan, proc.outcome, proc.k + 1, Add(ops[key]))
  BY <1>1, WorkingProcess DEF SkipChunk, Working, SkeletonInvariant
<1>8. /\ UNCHANGED outcomes /\ review \subseteq review'
      /\ \A c \in Range(Code) : terminals[c] <= terminals'[c]
  BY DEF SkipChunk, SkeletonInvariant, StateTyped
<1>9. proc.k + 1 \in 1..(Len(proc.chunks) + 1) /\ proc.k + 1 # proc.k
  BY <1>1, WorkingProcess DEF SkeletonInvariant
<1>10. LandedIn(terminals', review', Current) <=> LandedIn(terminals, review, Current)
  BY DEF SkipChunk
<1>11. ProcTyped' /\ PassedLanded' /\ PromotedLanded' /\ NothingLost'
  BY <1>1, <1>2, <1>4, <1>6, <1>7, <1>8, <1>9, <1>10, ProcessGoesOn
<1> QED
  BY <1>2, <1>11 DEF SkeletonInvariant

(* What a chunk's transaction writes is in the canon and in the queue.     *)
LEMMA PromotionLands ==
    ASSUME SkeletonInvariant, PromoteChunk, AtWork, proc.k \in 1..Len(proc.chunks)
    PROVE  /\ terminals' \in [Range(Code) -> Nat]
           /\ \A c \in Range(Code) : terminals[c] <= terminals'[c]
           /\ LandedIn(terminals', review', Current)
<1> DEFINE of(c) == {r \in Written(Current) : Code[r] = c}
<1>1. Current.records \in Records
  BY WorkingProcess DEF Current, SkeletonInvariant
<1>2. ASSUME NEW c
      PROVE  IsFiniteSet(of(c)) /\ Cardinality(of(c)) \in Nat
  <2>1. of(c) \in SUBSET Current.records
    BY DEF Written
  <2> QED
    BY <1>1, <2>1, FS_Subset, FS_CardinalityType DEF Records
<1>3. terminals' = [c \in Range(Code) |-> terminals[c] + Cardinality(of(c))]
  BY DEF PromoteChunk, SkeletonInvariant, StateTyped
<1> HIDE DEF of
<1>4. /\ terminals' \in [Range(Code) -> Nat]
      /\ \A c \in Range(Code) : terminals[c] <= terminals'[c]
  BY <1>2, <1>3 DEF SkeletonInvariant, StateTyped
<1>5. ASSUME NEW r \in Written(Current)
      PROVE  terminals'[Code[r]] > 0
  <2>1. Code[r] \in Range(Code)
    BY <1>1 DEF Written, Records, Range
  <2>2. Cardinality(of(Code[r])) # 0
    BY <1>2, FS_EmptySet DEF of
  <2> QED
    BY <1>2, <1>3, <2>1, <2>2 DEF SkeletonInvariant, StateTyped
<1>6. Reviewed(Current) \subseteq review'
  BY DEF PromoteChunk
<1> QED
  BY <1>4, <1>5, <1>6 DEF LandedIn

LEMMA PromoteChunkStep == SkeletonInvariant /\ PromoteChunk => SkeletonInvariant'
<1> SUFFICES ASSUME SkeletonInvariant, PromoteChunk
             PROVE  SkeletonInvariant'
  OBVIOUS
<1>1. AtWork /\ proc.k \in 1..Len(proc.chunks)
  <2>1. proc.at = "chunk" /\ proc.k <= Len(proc.chunks)
    BY DEF PromoteChunk
  <2> QED
    BY <2>1, WorkingProcess DEF AtWork, SkeletonInvariant
<1>2. /\ \A c \in Range(Code) : terminals[c] <= terminals'[c]
      /\ review \subseteq review'
      /\ LandedIn(terminals', review', Current)
  BY <1>1, PromotionLands DEF PromoteChunk
<1>3. /\ DOMAIN rows \subseteq DOMAIN rows' /\ Current.key \in DOMAIN rows'
      /\ \A key \in DOMAIN rows' : rows'[key].state = "done" =>
             key \in DOMAIN rows /\ rows'[key] = rows[key]
  <2>1. CASE Current.key \in DOMAIN rows
    BY <2>1 DEF PromoteChunk
  <2>2. CASE Current.key \notin DOMAIN rows
    <3>1. rows' = Put(rows, Current.key, [state |-> "pending", plan |-> ""])
      BY <2>2 DEF PromoteChunk
    <3>2. rows'[Current.key].state = "pending"
      BY <3>1 DEF Put
    <3> QED
      BY <3>1, <3>2 DEF Put
  <2> QED
    BY <2>1, <2>2
<1>4. StateTyped'
  BY <1>1, <1>3, PromotionLands DEF PromoteChunk, SkeletonInvariant, StateTyped
<1>5. DoneLanded'
  BY <1>2, <1>3, <1>4, DoneStays DEF PromoteChunk, SkeletonInvariant
<1>6. proc' = Working("complete", proc.plan, proc.outcome, proc.k, proc.total)
  BY <1>1, WorkingProcess DEF PromoteChunk, Working, SkeletonInvariant
<1>7. ProcTyped' /\ PassedLanded' /\ PromotedLanded' /\ NothingLost'
  <2>1. proc.k \in 1..(Len(proc.chunks) + 1) /\ proc.total \in Summaries
    BY <1>1, WorkingProcess DEF SkeletonInvariant
  <2> QED
    BY <1>1, <1>2, <1>3, <1>4, <1>6, <2>1, ProcessGoesOn DEF PromoteChunk, Current
<1> QED
  BY <1>4, <1>5, <1>7 DEF SkeletonInvariant

LEMMA PromoteFailsStep == SkeletonInvariant /\ PromoteFails => SkeletonInvariant'
<1> SUFFICES ASSUME SkeletonInvariant, PromoteFails
             PROVE  SkeletonInvariant'
  OBVIOUS
<1>1. /\ DOMAIN rows \subseteq DOMAIN rows'
      /\ \A key \in DOMAIN rows' : rows'[key].state = "done" =>
             key \in DOMAIN rows /\ rows'[key] = rows[key]
  BY DEF PromoteFails, Put
<1>2. StateTyped'
  BY <1>1 DEF PromoteFails, SkeletonInvariant, StateTyped
<1>3. DoneLanded'
  <2>1. /\ \A c \in Range(Code) : terminals[c] <= terminals'[c]
        /\ review \subseteq review' /\ UNCHANGED outcomes
    BY DEF PromoteFails, SkeletonInvariant, StateTyped
  <2> QED
    BY <1>1, <1>2, <2>1, DoneStays DEF SkeletonInvariant
<1> QED
  BY <1>2, <1>3, ProcessEnds DEF PromoteFails, SkeletonInvariant

LEMMA CompleteChunkStep == SkeletonInvariant /\ CompleteChunk => SkeletonInvariant'
<1> SUFFICES ASSUME SkeletonInvariant, CompleteChunk
             PROVE  SkeletonInvariant'
  OBVIOUS
<1> DEFINE key == Current.key
           row == [state |-> "done", plan |-> proc.plan]
<1>1. AtWork /\ proc.k \in 1..Len(proc.chunks) /\ LandedIn(terminals, review, Current)
  BY DEF CompleteChunk, AtWork, PromotedLanded, SkeletonInvariant
<1>2. rows' = Put(rows, key, row) /\ UNCHANGED <<terminals, review, ops, outcomes>>
  BY DEF CompleteChunk
<1> HIDE DEF key, row
<1>3. /\ DOMAIN rows' = DOMAIN rows \cup {key} /\ rows'[key] = row
      /\ \A other \in DOMAIN rows \ {key} : rows'[other] = rows[other]
  BY <1>2 DEF Put
<1>4. StateTyped'
  BY <1>2, <1>3 DEF SkeletonInvariant, StateTyped
<1>5. DoneLanded'
  <2> SUFFICES ASSUME NEW other \in DOMAIN rows', rows'[other].state = "done"
               PROVE  /\ rows'[other].plan \in Plans
                      /\ \E o \in outcomes[rows'[other].plan] : \E k \in DOMAIN ChunkSkeleton(o) :
                            /\ ChunkSkeleton(o)[k].key = other
                            /\ LandedIn(terminals, review, ChunkSkeleton(o)[k])
    BY <1>2 DEF DoneLanded
  <2>1. CASE other = key
    <3>1. rows'[other].plan = proc.plan
      BY <1>3, <2>1 DEF row
    <3>2. proc.k \in DOMAIN ChunkSkeleton(proc.outcome) /\ Current = ChunkSkeleton(proc.outcome)[proc.k]
      BY <1>1, WorkingProcess DEF Current, SkeletonInvariant
    <3>3. proc.plan \in Plans /\ proc.outcome \in outcomes[proc.plan]
      BY <1>1, WorkingProcess DEF SkeletonInvariant
    <3> QED
      BY <1>1, <2>1, <3>1, <3>2, <3>3 DEF key
  <2>2. CASE other # key
    BY <1>3, <2>2 DEF DoneLanded, SkeletonInvariant
  <2> QED
    BY <2>1, <2>2
<1>6. proc' = Working("append", proc.plan, proc.outcome, proc.k, proc.total)
  BY <1>1, WorkingProcess DEF CompleteChunk, Working, SkeletonInvariant
<1>7. ProcTyped' /\ PassedLanded' /\ PromotedLanded' /\ NothingLost'
  <2>1. proc.k \in 1..(Len(proc.chunks) + 1) /\ proc.total \in Summaries
    BY <1>1, WorkingProcess DEF SkeletonInvariant
  <2>2. \A c \in Range(Code) : terminals[c] <= terminals'[c]
    BY <1>2 DEF SkeletonInvariant, StateTyped
  <2>3. proc.chunks[proc.k] = Current /\ proc.chunks[proc.k].key \in DOMAIN rows'
    BY <1>3 DEF Current, key
  <2>4. LandedIn(terminals', review', proc.chunks[proc.k])
    BY <1>1, <1>2, <2>3
  <2> QED
    BY <1>1, <1>2, <1>4, <1>6, <2>1, <2>2, <2>3, <2>4, ProcessGoesOn
<1> QED
  BY <1>4, <1>5, <1>7 DEF SkeletonInvariant

LEMMA AppendOpsStep == SkeletonInvariant /\ AppendOps => SkeletonInvariant'
<1> SUFFICES ASSUME SkeletonInvariant, AppendOps
             PROVE  SkeletonInvariant'
  OBVIOUS
<1> DEFINE key == Current.key
<1>1. /\ AtWork /\ proc.k \in 1..Len(proc.chunks)
      /\ LandedIn(terminals, review, Current) /\ key \in DOMAIN rows
  BY DEF AppendOps, AtWork, PromotedLanded, SkeletonInvariant
<1>2. Summary(Current) \in Summaries /\ Add(Summary(Current)) \in Summaries
  BY <1>1, SummaryType, AddType, WorkingProcess DEF Current, SkeletonInvariant
<1>3. /\ ops' = Put(ops, key, Summary(Current))
      /\ UNCHANGED <<terminals, review, rows, outcomes>>
  BY DEF AppendOps
<1>4. StateTyped'
  BY <1>1, <1>2, <1>3 DEF Put, SkeletonInvariant, StateTyped
<1>5. \A c \in Range(Code) : terminals[c] <= terminals'[c]
  BY <1>3 DEF SkeletonInvariant, StateTyped
<1>6. DoneLanded'
  BY <1>3, <1>4, <1>5, DoneStays DEF SkeletonInvariant
<1>7. proc' = Working("chunk", proc.plan, proc.outcome, proc.k + 1, Add(Summary(Current)))
  BY <1>1, WorkingProcess DEF AppendOps, Working, SkeletonInvariant
<1>8. ProcTyped' /\ PassedLanded' /\ PromotedLanded' /\ NothingLost'
  <2>1. proc.k + 1 \in 1..(Len(proc.chunks) + 1)
    BY <1>1, WorkingProcess DEF SkeletonInvariant
  <2>2. LandedIn(terminals', review', Current) <=> LandedIn(terminals, review, Current)
    BY <1>3
  <2> QED
    BY <1>1, <1>2, <1>3, <1>4, <1>5, <1>7, <2>1, <2>2, ProcessGoesOn
<1> QED
  BY <1>4, <1>6, <1>8 DEF SkeletonInvariant

(* The last chunk is passed: what the whole outcome has is in the canon or *)
(* in the queue.                                                           *)
LEMMA FinishSkeletonRunStep == SkeletonInvariant /\ FinishSkeletonRun => SkeletonInvariant'
<1> SUFFICES ASSUME SkeletonInvariant, FinishSkeletonRun
             PROVE  SkeletonInvariant'
  OBVIOUS
<1>1. StateTyped' /\ DoneLanded'
  BY StateStays DEF FinishSkeletonRun
<1>2. CASE proc' = Down
  BY <1>1, <1>2, ProcessEnds DEF SkeletonInvariant
<1>3. CASE proc' = [at |-> "match", plan |-> proc.plan, outcome |-> proc.outcome, past |-> {}]
  <2>1. AtWork /\ proc.k > Len(proc.chunks)
    BY DEF FinishSkeletonRun, AtWork
  <2>2. /\ proc'.at = "match" /\ proc'.plan = proc.plan /\ proc'.outcome = proc.outcome
        /\ proc' = Matching(proc.plan, proc.outcome, proc'.past)
    BY <1>3 DEF Matching
  <2>3. UNCHANGED <<terminals, review, outcomes>>
    BY DEF FinishSkeletonRun
  <2>4. ProcTyped'
    BY <2>1, <2>2, <2>3, WorkingProcess DEF ProcTyped, AtWork, SkeletonInvariant
  <2>5. PassedLanded' /\ PromotedLanded'
    BY <2>2 DEF PassedLanded, PromotedLanded, AtWork
  <2>6. NothingLost'
    <3> SUFFICES ASSUME outcomes[proc.plan] = {proc.outcome},
                        NEW k \in DOMAIN ChunkSkeleton(proc.outcome)
                 PROVE  LandedIn(terminals, review, ChunkSkeleton(proc.outcome)[k])
      BY <2>2, <2>3 DEF NothingLost, Landed, LandedIn
    <3>1. k \in 1..(proc.k - 1) /\ ChunkSkeleton(proc.outcome) = proc.chunks
      BY <2>1, WorkingProcess DEF SkeletonInvariant
    <3> QED
      BY <2>1, <3>1 DEF PassedLanded, SkeletonInvariant
  <2> QED
    BY <1>1, <2>4, <2>5, <2>6 DEF SkeletonInvariant
<1> QED
  BY <1>2, <1>3 DEF FinishSkeletonRun

LEMMA MatchLegacyStep == SkeletonInvariant /\ MatchLegacy => SkeletonInvariant'
<1> SUFFICES ASSUME SkeletonInvariant, MatchLegacy
             PROVE  SkeletonInvariant'
  OBVIOUS
<1>1. UNCHANGED <<terminals, rows, ops, outcomes>> /\ review \subseteq review'
  BY DEF MatchLegacy, Unmatched, Matched, Undecided
<1>2. StateTyped' /\ DoneLanded'
  BY <1>1, StateStays
<1>3. CASE proc' = Down
  BY <1>2, <1>3, ProcessEnds DEF SkeletonInvariant
<1>4. CASE proc' = [proc EXCEPT !.past = @ \cup {NextLegacy}]
  <2>1. PICK p \in Plans : \E o \in outcomes[p] : proc = Matching(p, o, proc.past)
    BY DEF MatchLegacy, ProcTyped, SkeletonInvariant
  <2>2. PICK o \in outcomes[p] : proc = Matching(p, o, proc.past)
    BY <2>1
  <2>3. /\ proc' = Matching(p, o, proc'.past)
        /\ proc.at = "match" /\ proc'.at = "match"
        /\ proc.plan = p /\ proc'.plan = p /\ proc.outcome = o /\ proc'.outcome = o
    BY <1>4, <2>2 DEF Matching
  <2>4. ProcTyped'
    BY <1>1, <2>3 DEF ProcTyped, AtWork
  <2>5. PassedLanded' /\ PromotedLanded'
    BY <2>3 DEF PassedLanded, PromotedLanded, AtWork
  <2>6. NothingLost'
    BY <1>1, <2>3 DEF SkeletonInvariant, NothingLost, Landed
  <2> QED
    BY <1>2, <2>4, <2>5, <2>6 DEF SkeletonInvariant
<1> QED
  BY <1>3, <1>4 DEF MatchLegacy, Unmatched, Matched, Undecided

LEMMA FinishPhase0Step == SkeletonInvariant /\ FinishPhase0 => SkeletonInvariant'
  BY StateStays, ProcessEnds DEF FinishPhase0, SkeletonInvariant

-----------------------------------------------------------------------------
(* The command's state stays consistent, in whatever order processes are   *)
(* started, work and die.                                                  *)
THEOREM SkeletonInvariance == SkeletonSpec => []SkeletonInvariant
<1>1. SkeletonInit => SkeletonInvariant
  BY InitInvariant
<1>2. SkeletonInvariant /\ [SkeletonNext]_skeletonVars => SkeletonInvariant'
  <2> SUFFICES ASSUME SkeletonInvariant, [SkeletonNext]_skeletonVars
               PROVE  SkeletonInvariant'
    OBVIOUS
  <2>1. CASE BeginRun
    BY <2>1, BeginRunStep
  <2>2. CASE ResumeRun
    BY <2>2, ResumeRunStep
  <2>3. CASE SkipChunk
    BY <2>3, SkipChunkStep
  <2>4. CASE PromoteChunk
    BY <2>4, PromoteChunkStep
  <2>5. CASE PromoteFails
    BY <2>5, PromoteFailsStep
  <2>6. CASE CompleteChunk
    BY <2>6, CompleteChunkStep
  <2>7. CASE AppendOps
    BY <2>7, AppendOpsStep
  <2>8. CASE FinishSkeletonRun
    BY <2>8, FinishSkeletonRunStep
  <2>9. CASE MatchLegacy
    BY <2>9, MatchLegacyStep
  <2>10. CASE FinishPhase0
    BY <2>10, FinishPhase0Step
  <2>11. CASE Crash
    BY <2>11, CrashStep
  <2>12. CASE UNCHANGED skeletonVars
    BY <2>12 DEF skeletonVars, SkeletonInvariant, StateTyped, ProcTyped, AtWork, DoneLanded,
                 PassedLanded, PromotedLanded, Current, NothingLost, Landed
  <2> QED
    BY <2>1, <2>2, <2>3, <2>4, <2>5, <2>6, <2>7, <2>8, <2>9, <2>10, <2>11, <2>12 DEF SkeletonNext
<1> QED
  BY <1>1, <1>2, PTL DEF SkeletonSpec

(* Whatever earlier processes of a run had done, and wherever they had     *)
(* died, the one that finishes it has lost no record of its outcome, if    *)
(* Overpass told all processes of its plan the same (main.go:206).         *)
THEOREM NoRecordIsLost == SkeletonSpec => []NothingLost
<1>1. SkeletonInvariant => NothingLost
  BY DEF SkeletonInvariant
<1> QED
  BY <1>1, SkeletonInvariance, PTL
=============================================================================
