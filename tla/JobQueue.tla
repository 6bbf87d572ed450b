------------------------------ MODULE JobQueue ------------------------------
(***************************************************************************)
(* The background job queue: the table jobs, the handlers that insert into *)
(* it, and one jobs worker per server process (RunOnce in a loop), each    *)
(* statement of a worker that touches the database being a step of its     *)
(* own.  A worker that needs an external service pays for every execution  *)
(* of the handler with one unit of that provider's ApiQuota and rotates to *)
(* the next provider when it cannot.                                       *)
(*                                                                         *)
(* next_run is kept only as far as the claim sees it: the rows of due are  *)
(* those with next_run <= now(), and ahead[j] the rows whose next_run is   *)
(* earlier than j's.  A retried row becomes due again after its backoff,   *)
(* of unspecified length.                                                  *)
(***************************************************************************)
EXTENDS ApiQuota, Sequences, FiniteSets

CONSTANTS
    Jobs,          \* ids the table may hand out
    NoJob,         \* an idle worker's job
    Workers,       \* server processes, each runs one jobs worker
    Kinds,         \* job types, with the provider of the payload where it counts
    Handled,       \* kinds the worker has a handler for
    Hashes,        \* contents of uploaded files, as payload.hash
    NoHash,        \* payload without a hash
    Rotation,      \* kind -> sequence of providers tried in turn
    Outcomes,      \* kind -> what its handler may return
    WorkerLimit,   \* the limit the worker passes to TryConsumeQuota
    GiveUp,        \* attempts at which a failure is final
    AttemptsBound, \* bound on attempts: no row above it is claimed
    Shared,        \* providers that other programs call too
    Faulty         \* whether processes crash and statements fail

ASSUME JobQueueAssumption ==
    /\ NoHash \notin Hashes /\ NoJob \notin Jobs \cup Workers /\ Kinds # {}
    /\ Handled \subseteq Kinds
    /\ Rotation \in [Kinds -> Seq(Providers)]
    /\ Outcomes \in [Kinds -> SUBSET {"ok", "fail", "ratelimited"}]
    /\ WorkerLimit \in Limits /\ Shared \subseteq Providers
    /\ GiveUp \in Nat /\ AttemptsBound \in Nat
    /\ Faulty \in BOOLEAN

VARIABLES
    state, kind, hash, attempts,   \* columns of jobs
    due, ahead,                    \* next_run, as the claim's query orders it
    pc, job, seen, turn, verdict   \* locals of each worker's RunOnce

rows    == <<state, kind, hash, attempts, due, ahead>>
locals  == <<job, seen, turn, verdict>>
vars    == <<rows, pc, locals, quotaVars>>

States  == {"absent", "pending", "running", "retry", "done", "dead"}
Phases  == {"idle", "locked", "quota", "handle", "mark"}
Settled == {"done", "dead"}

TypeOK ==
    /\ QuotaTypeOK
    /\ state    \in [Jobs -> States]
    /\ kind     \in [Jobs -> Kinds]
    /\ hash     \in [Jobs -> Hashes \cup {NoHash}]
    /\ attempts \in [Jobs -> Nat]
    /\ due \subseteq Jobs
    /\ ahead    \in [Jobs -> SUBSET Jobs]
    /\ pc       \in [Workers -> Phases]
    /\ job      \in [Workers -> Jobs \cup {NoJob}]
    /\ seen     \in [Workers -> Nat]
    /\ turn     \in [Workers -> Nat]
    /\ verdict  \in [Workers -> {"done", "retry", "dead"}]

Init ==
    /\ QuotaInit
    /\ state    = [j \in Jobs |-> "absent"]
    /\ kind     = [j \in Jobs |-> CHOOSE k \in Kinds : TRUE]
    /\ hash     = [j \in Jobs |-> NoHash]
    /\ attempts = [j \in Jobs |-> 0]
    /\ due      = {}
    /\ ahead    = [j \in Jobs |-> {}]
    /\ pc       = [w \in Workers |-> "idle"]
    /\ job      = [w \in Workers |-> NoJob]
    /\ seen     = [w \in Workers |-> 0]
    /\ turn     = [w \in Workers |-> 0]
    /\ verdict  = [w \in Workers |-> "done"]

-----------------------------------------------------------------------------
(* The table.                                                              *)

(* Mutant: an index over pending rows alone.                               *)
IndexClashPendingOnly(j, h) ==
    h # NoHash /\ \E k \in Jobs \ {j} : hash[k] = h /\ state[k] = "pending"

(* uniq_jobs_type_payload: writing j as pending or running would repeat    *)
(* the hash of another pending or running row.                             *)
IndexClash(j, h) ==
    /\ h # NoHash
    /\ \E k \in Jobs \ {j} : hash[k] = h /\ state[k] \in {"pending", "running"}

Locked    == {job[w] : w \in {v \in Workers : pc[v] = "locked"}}

(* Mutant: the claim reads without FOR UPDATE SKIP LOCKED.                 *)
ClaimableWithoutLocks == {j \in due : state[j] \in {"pending", "retry"}}

Claimable == {j \in due : state[j] \in {"pending", "retry"}} \ Locked

(* ORDER BY next_run LIMIT 1 FOR UPDATE SKIP LOCKED.                       *)
First(j) == j \in Claimable /\ ahead[j] \cap Claimable = {}

BecomesDue(j) ==
    /\ due'   = due \cup {j}
    /\ ahead' = [k \in Jobs |-> IF k = j THEN due \ {j} ELSE ahead[k] \ {j}]

LeavesDue(j) ==
    /\ due'   = due \ {j}
    /\ ahead' = [k \in Jobs |-> IF k = j THEN {} ELSE ahead[k] \ {j}]

(* EnqueueJob.  A row that would clash is not inserted: POST /jobs answers *)
(* 500, the upload handler drops the error and answers 201 all the same.   *)
Enqueue(j, k, h) ==
    /\ state[j] = "absent"
    /\ ~IndexClash(j, h)
    /\ state' = [state EXCEPT ![j] = "pending"]
    /\ kind'  = [kind EXCEPT ![j] = k]
    /\ hash'  = [hash EXCEPT ![j] = h]
    /\ BecomesDue(j)
    /\ UNCHANGED <<attempts, pc, locals, quotaVars>>

(* The backoff written by MarkJobRetry is over.                            *)
ComeDue(j) ==
    /\ state[j] = "retry" /\ j \notin due
    /\ BecomesDue(j)
    /\ UNCHANGED <<state, kind, hash, attempts, pc, locals, quotaVars>>

-----------------------------------------------------------------------------
(* The worker.                                                             *)

(* The process ends this round of RunOnce: its locals are gone.            *)
GoIdle(w) ==
    /\ pc'      = [pc EXCEPT ![w] = "idle"]
    /\ job'     = [job EXCEPT ![w] = NoJob]
    /\ seen'    = [seen EXCEPT ![w] = 0]
    /\ turn'    = [turn EXCEPT ![w] = 0]
    /\ verdict' = [verdict EXCEPT ![w] = "done"]

Conclude(w, v) ==
    /\ pc'      = [pc EXCEPT ![w] = "mark"]
    /\ verdict' = [verdict EXCEPT ![w] = v]

(* ClaimNextJob, first statement: the row is locked.                       *)
LockJob(w, j) ==
    /\ pc[w] = "idle"
    /\ First(j)
    /\ attempts[j] < AttemptsBound
    /\ pc'  = [pc EXCEPT ![w] = "locked"]
    /\ job' = [job EXCEPT ![w] = j]
    /\ UNCHANGED <<rows, seen, turn, verdict, quotaVars>>

(* Second statement and commit.  The caller is given the attempts that     *)
(* were read before the increment.                                         *)
ClaimJob(w) ==
    LET j == job[w] IN
    /\ pc[w] = "locked"
    /\ ~IndexClash(j, hash[j])
    /\ state'    = [state EXCEPT ![j] = "running"]
    /\ attempts' = [attempts EXCEPT ![j] = @ + 1]
    /\ LeavesDue(j)
    /\ seen'     = [seen EXCEPT ![w] = attempts[j]]
    /\ IF kind[j] \notin Handled
         THEN Conclude(w, "dead") /\ UNCHANGED turn
         ELSE /\ IF Rotation[kind[j]] = <<>>
                   THEN pc' = [pc EXCEPT ![w] = "handle"] /\ UNCHANGED turn
                   ELSE /\ pc'   = [pc EXCEPT ![w] = "quota"]
                        /\ turn' = [turn EXCEPT ![w] = 1]
              /\ UNCHANGED verdict
    /\ UNCHANGED <<kind, hash, job, quotaVars>>

(* The update violates the unique index: the transaction rolls back.       *)
ClaimFails(w) ==
    /\ pc[w] = "locked"
    /\ IndexClash(job[w], hash[job[w]])
    /\ GoIdle(w)
    /\ UNCHANGED <<rows, quotaVars>>

(* Mutant: the last refusal ends in a state of its own.                    *)
NextProviderOrRefused(w) ==
    IF turn[w] < Len(Rotation[kind[job[w]]])
      THEN /\ pc'   = [pc EXCEPT ![w] = "quota"]
           /\ turn' = [turn EXCEPT ![w] = @ + 1]
           /\ UNCHANGED verdict
      ELSE Conclude(w, "ratelimited") /\ UNCHANGED turn

(* withQuota goes on to the next provider, or ends with a 429 error, which *)
(* RunOnce always turns into a retry.                                      *)
NextProvider(w) ==
    IF turn[w] < Len(Rotation[kind[job[w]]])
      THEN /\ pc'   = [pc EXCEPT ![w] = "quota"]
           /\ turn' = [turn EXCEPT ![w] = @ + 1]
           /\ UNCHANGED verdict
      ELSE Conclude(w, "retry") /\ UNCHANGED turn

QuotaGranted(w) ==
    /\ pc[w] = "quota"
    /\ Consume(Rotation[kind[job[w]]][turn[w]], WorkerLimit)
    /\ pc' = [pc EXCEPT ![w] = "handle"]
    /\ UNCHANGED <<rows, locals>>

QuotaRefused(w) ==
    /\ pc[w] = "quota"
    /\ Faulty \/ Refused(Rotation[kind[job[w]]][turn[w]])
    /\ NextProvider(w)
    /\ UNCHANGED <<rows, job, seen, quotaVars>>

(* Mutants: giving up one execution early, and never.                      *)
HandlerReturnsGivingUp(w, outcome, v) ==
    /\ pc[w] = "handle"
    /\ outcome \in Outcomes[kind[job[w]]]
    /\ \/ outcome = "ok" /\ Conclude(w, "done") /\ UNCHANGED turn
       \/ outcome = "fail" /\ Conclude(w, v) /\ UNCHANGED turn
       \/ outcome = "ratelimited" /\ NextProvider(w)
    /\ UNCHANGED <<rows, job, seen, quotaVars>>
HandlerGivesUpEarly(w, outcome) ==
    HandlerReturnsGivingUp(w, outcome, IF seen[w] + 1 >= GiveUp THEN "dead" ELSE "retry")
HandlerNeverGivesUp(w, outcome) == HandlerReturnsGivingUp(w, outcome, "retry")

HandlerReturns(w, outcome) ==
    /\ pc[w] = "handle"
    /\ outcome \in Outcomes[kind[job[w]]]
    /\ \/ outcome = "ok" /\ Conclude(w, "done") /\ UNCHANGED turn
       \/ /\ outcome = "fail"
          /\ Conclude(w, IF seen[w] >= GiveUp THEN "dead" ELSE "retry")
          /\ UNCHANGED turn
       \/ outcome = "ratelimited" /\ NextProvider(w)
    /\ UNCHANGED <<rows, job, seen, quotaVars>>

(* Mutant: MarkJobDead is forgotten, the failure is only logged.           *)
MarkForgetsDead(w) ==
    LET j == job[w] IN
    /\ pc[w] = "mark"
    /\ state'    = [state EXCEPT ![j] = IF verdict[w] = "dead" THEN @ ELSE verdict[w]]
    /\ attempts' = [attempts EXCEPT ![j] = IF verdict[w] = "retry" THEN @ + 1 ELSE @]
    /\ GoIdle(w)
    /\ UNCHANGED <<kind, hash, due, ahead, quotaVars>>

(* MarkJobDone, MarkJobRetry or MarkJobDead, none of which looks at the    *)
(* state the row is in.                                                    *)
Mark(w) ==
    LET j == job[w] IN
    /\ pc[w] = "mark"
    /\ state'    = [state EXCEPT ![j] = verdict[w]]
    /\ attempts' = [attempts EXCEPT ![j] =
                      IF verdict[w] = "retry" THEN @ + 1 ELSE @]
    /\ GoIdle(w)
    /\ UNCHANGED <<kind, hash, due, ahead, quotaVars>>

(* The Mark statement fails, its error is dropped and the loop goes on.    *)
MarkLost(w) ==
    /\ Faulty
    /\ pc[w] = "mark"
    /\ GoIdle(w)
    /\ UNCHANGED <<rows, quotaVars>>

(* Mutant: a restart puts every running row back, whoever runs it.         *)
CrashRequeuesAll(w) ==
    /\ Faulty
    /\ pc[w] # "idle"
    /\ GoIdle(w)
    /\ state' = [j \in Jobs |-> IF state[j] = "running" THEN "retry" ELSE state[j]]
    /\ UNCHANGED <<kind, hash, attempts, due, ahead, quotaVars>>

(* The process is killed and restarted: the worker's context is never      *)
(* cancelled, shutdown stops it wherever it is.  On restart the server     *)
(* sets the limit of its providers.                                        *)
Crash(w) ==
    /\ Faulty
    /\ pc[w] # "idle"
    /\ GoIdle(w)
    /\ UNCHANGED <<rows, used>>
    /\ limit' = [p \in Providers |->
                   IF p \in KnownProviders THEN WorkerLimit ELSE limit[p]]

-----------------------------------------------------------------------------
(* The other users of a quota: POST /admin/external-call and skeleton-sync *)
(* spend units, the latter also sets its own limit first.                  *)

OtherConsumer(p, lim) == Consume(p, lim) /\ UNCHANGED <<rows, pc, locals>>
OtherLimit(p, lim) == SetQuotaLimit(p, lim) /\ UNCHANGED <<rows, pc, locals>>
Midnight == NewDay /\ UNCHANGED <<rows, pc, locals>>

WorkerStep(w) ==
    \/ \E j \in Jobs : LockJob(w, j)
    \/ ClaimJob(w) \/ ClaimFails(w)
    \/ QuotaGranted(w) \/ QuotaRefused(w)
    \/ \E o \in {"ok", "fail", "ratelimited"} : HandlerReturns(w, o)
    \/ Mark(w)

Environment ==
    \/ \E j \in Jobs, k \in Kinds, h \in Hashes \cup {NoHash} : Enqueue(j, k, h)
    \/ \E p \in Shared, lim \in Limits : OtherConsumer(p, lim)
    \/ \E p \in Shared, lim \in Limits : OtherLimit(p, lim)
    \/ \E w \in Workers : MarkLost(w) \/ Crash(w)

Next ==
    \/ Environment
    \/ \E w \in Workers : WorkerStep(w)
    \/ \E j \in Jobs : ComeDue(j)
    \/ Midnight

Spec == Init /\ [][Next]_vars

(* The ticker calls RunOnce every five seconds for as long as the process  *)
(* lives, backoffs and days end, and the database serves a waiting claim:  *)
(* every step of a worker is weakly fair.  Claiming is fair per row, since *)
(* the query always yields the earliest one.  Nothing is assumed of those  *)
(* who enqueue or spend quota.                                             *)
Fairness ==
    /\ \A w \in Workers : WF_vars(WorkerStep(w))
    /\ \A j \in Jobs : WF_vars(ComeDue(j))
    /\ WF_vars(Midnight)

FairSpec == Spec /\ Fairness

-----------------------------------------------------------------------------
(* Properties.                                                             *)

Executing(w) == pc[w] \in {"quota", "handle", "mark"}

(* Two workers never hold the same row, neither its lock nor the job: FOR  *)
(* UPDATE SKIP LOCKED in ClaimNextJob and the state it commits keep the    *)
(* others off, whatever crashes or is lost.                                *)
NoSharedJob ==
    \A v, w \in Workers :
        v # w /\ pc[v] # "idle" /\ pc[w] # "idle" => job[v] # job[w]

(* The same uploaded file is never being imported by two workers at once,  *)
(* although it may be uploaded again while its first job waits for a       *)
(* retry: uniq_jobs_type_payload, checked again when a retry is claimed.   *)
NoConcurrentImport ==
    \A v, w \in Workers :
        /\ v # w /\ Executing(v) /\ Executing(w)
        /\ hash[job[v]] # NoHash
        => hash[job[v]] # hash[job[w]]

(* A job that has a handler only becomes dead once its attempts exceed the *)
(* GiveUp of RunOnce, and one that settles was counted an odd number of    *)
(* times: the claim counts and so does every MarkJobRetry, so the budget   *)
(* is spent twice as fast as it is executed.                               *)
BudgetSpent ==
    \A j \in Jobs :
        /\ state[j] = "dead" /\ kind[j] \in Handled => attempts[j] > GiveUp
        /\ state[j] \in Settled => attempts[j] % 2 = 1

(* What was spent of a provider's quota today is within the largest limit  *)
(* any of the programs that share the row works with, even though a row    *)
(* takes the limit of the program that came first and may be lowered       *)
(* under what is already spent.                                            *)
QuotaBounded == \A p \in Providers : \E lim \in Limits : used[p] <= lim

(* done and dead are final: no Mark, retry or claim of any worker moves a  *)
(* row out of them, although MarkJob* never checks the state it replaces.  *)
SettledIsFinal ==
    [][\A j \in Jobs : state[j] \in Settled => state'[j] = state[j]]_vars

(* A row that is running is being run by a live worker, as long as no      *)
(* process dies and no Mark statement is lost.                             *)
RunningIsOwned ==
    \A j \in Jobs : state[j] = "running" =>
        \E w \in Workers : Executing(w) /\ job[w] = j

(* Every job inserted is eventually done or dead: the lifecycle of a row   *)
(* of jobs, pending -> running -> retry -> done/dead.                      *)
JobsSettle == \A j \in Jobs : state[j] = "pending" ~> state[j] \in Settled

-----------------------------------------------------------------------------
(* The queue implements JobBoard: a waiting row is open, a running one is  *)
(* held by the worker executing it, done and dead are closed.              *)

Status(j) ==
    CASE state[j] = "absent"                -> "absent"
      [] state[j] \in {"pending", "retry"}  -> "open"
      [] state[j] = "running"               -> "held"
      [] OTHER                              -> "closed"

Holder(j) ==
    IF \E w \in Workers : Executing(w) /\ job[w] = j
      THEN CHOOSE w \in Workers : Executing(w) /\ job[w] = j
      ELSE NoJob

Board == INSTANCE JobBoard WITH
    Nobody <- NoJob,
    status <- [j \in Jobs |-> Status(j)],
    holder <- [j \in Jobs |-> Holder(j)]

(* Every behaviour of the queue, crashes and lost statements included, is  *)
(* one JobBoard allows.                                                    *)
ImplementsBoard == Board!BoardSpec
=============================================================================
