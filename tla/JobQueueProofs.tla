--------------------------- MODULE JobQueueProofs ---------------------------
(***************************************************************************)
(* Proofs about JobQueue, for any sets of jobs, workers, kinds and         *)
(* providers, with or without crashes and lost statements.                 *)
(*                                                                         *)
(* Who holds what is the heart of it: a worker past the claim holds a row, *)
(* its row is waiting while only locked and running once claimed           *)
(* (RowFollowsWorker), and the unique index is an invariant of the table   *)
(* (HashesDistinct).  With those no two workers can meet on a row.         *)
(***************************************************************************)
EXTENDS JobQueue, TLAPS

HoldsRow == \A w \in Workers : pc[w] # "idle" => job[w] \in Jobs

RowFollowsWorker ==
    \A w \in Workers :
        /\ pc[w] = "locked" => state[job[w]] \in {"pending", "retry"}
        /\ Executing(w) => state[job[w]] = "running"

HashesDistinct ==
    \A j, k \in Jobs :
        /\ j # k
        /\ state[j] \in {"pending", "running"} /\ state[k] \in {"pending", "running"}
        /\ hash[j] # NoHash
        => hash[j] # hash[k]

IndInv == TypeOK /\ HoldsRow /\ RowFollowsWorker /\ NoSharedJob /\ HashesDistinct

(* The steps of the environment and of the workers, with their parameters  *)
(* named: the case split every step proof below starts from.               *)
Step ==
    \/ \E j \in Jobs, k \in Kinds, h \in Hashes \cup {NoHash} : Enqueue(j, k, h)
    \/ \E p \in Providers, lim \in Limits : OtherConsumer(p, lim) \/ OtherLimit(p, lim)
    \/ \E j \in Jobs : ComeDue(j)
    \/ Midnight
    \/ \E w \in Workers : \/ \E j \in Jobs : LockJob(w, j)
                          \/ ClaimJob(w) \/ ClaimFails(w)
                          \/ QuotaGranted(w) \/ QuotaRefused(w)
                          \/ \E o \in {"ok", "fail", "ratelimited"} : HandlerReturns(w, o)
                          \/ Mark(w) \/ MarkLost(w) \/ Crash(w)

LEMMA NextIsStep == Next => Step
  BY JobQueueAssumption DEF Next, Environment, WorkerStep, Step

-----------------------------------------------------------------------------
(* Type correctness.  seen is read from the row of a locked job, so the    *)
(* types need HoldsRow to be inductive.                                    *)

Typed == TypeOK /\ HoldsRow

LEMMA TypedInit == Init => Typed
  BY JobQueueAssumption, ApiQuotaAssumption
  DEF Init, QuotaInit, Typed, TypeOK, QuotaTypeOK, HoldsRow, States, Phases

LEMMA TypedQuota ==
  ASSUME QuotaTypeOK,
         \/ UNCHANGED quotaVars
         \/ NewDay
         \/ \E p, lim : lim \in Limits /\ (Consume(p, lim) \/ SetQuotaLimit(p, lim))
  PROVE  QuotaTypeOK'
  <1>1. CASE UNCHANGED quotaVars
    BY <1>1 DEF quotaVars, QuotaTypeOK
  <1>2. CASE NewDay
    BY <1>2 DEF NewDay, QuotaTypeOK
  <1>3. ASSUME NEW p, NEW lim \in Limits, Consume(p, lim)
        PROVE  QuotaTypeOK'
    BY <1>3, ApiQuotaAssumption DEF Consume, Refused, QuotaTypeOK
  <1>4. ASSUME NEW p, NEW lim \in Limits, SetQuotaLimit(p, lim)
        PROVE  QuotaTypeOK'
    BY <1>4 DEF SetQuotaLimit, QuotaTypeOK
  <1> QED BY <1>1, <1>2, <1>3, <1>4

(* Where a claim takes the worker: to the end when there is no handler, to *)
(* the handler when no provider has to be paid, to its first provider.     *)
LEMMA ClaimBranches ==
  ASSUME NEW w \in Workers, ClaimJob(w)
  PROVE  \/ /\ pc' = [pc EXCEPT ![w] = "mark"] /\ turn' = turn
            /\ verdict' = [verdict EXCEPT ![w] = "dead"]
         \/ pc' = [pc EXCEPT ![w] = "handle"] /\ turn' = turn /\ verdict' = verdict
         \/ /\ pc' = [pc EXCEPT ![w] = "quota"] /\ verdict' = verdict
            /\ turn' = [turn EXCEPT ![w] = 1]
  BY Zenon DEF ClaimJob, Conclude

(* Going on to the next provider keeps the worker at work on its row.      *)
LEMMA NextProviderTyped ==
  ASSUME Typed, NEW w \in Workers, NextProvider(w)
  PROVE  /\ pc' \in [Workers -> Phases] /\ turn' \in [Workers -> Nat]
         /\ verdict' \in [Workers -> {"done", "retry", "dead"}]
         /\ \A v \in Workers \ {w} : pc'[v] = pc[v]
         /\ pc'[w] \in {"quota", "mark"}
  <1>1. CASE turn[w] < Len(Rotation[kind[job[w]]])
    <2>1. /\ pc' = [pc EXCEPT ![w] = "quota"]
          /\ turn' = [turn EXCEPT ![w] = @ + 1]
          /\ verdict' = verdict
      BY <1>1, Zenon DEF NextProvider
    <2> QED
      BY <2>1 DEF Typed, TypeOK, Phases
  <1>2. CASE ~(turn[w] < Len(Rotation[kind[job[w]]]))
    BY <1>2 DEF NextProvider, Conclude, Typed, TypeOK, Phases
  <1> QED BY <1>1, <1>2

LEMMA TypedStep == Typed /\ [Next]_vars => Typed'
  <1> SUFFICES ASSUME Typed, [Next]_vars
               PROVE  Typed'
    OBVIOUS
  <1> USE DEF Typed, TypeOK, HoldsRow, States, Phases
  <1>1. ASSUME NEW j \in Jobs, NEW k \in Kinds, NEW h \in Hashes \cup {NoHash}, Enqueue(j, k, h)
        PROVE  Typed'
    BY <1>1, TypedQuota DEF Enqueue, BecomesDue, locals
  <1>2. ASSUME NEW p \in Providers, NEW lim \in Limits, OtherConsumer(p, lim) \/ OtherLimit(p, lim)
        PROVE  Typed'
    BY <1>2, TypedQuota DEF OtherConsumer, OtherLimit, rows, locals
  <1>3. ASSUME NEW j \in Jobs, ComeDue(j)
        PROVE  Typed'
    BY <1>3, TypedQuota DEF ComeDue, BecomesDue, locals
  <1>4. CASE Midnight
    BY <1>4, TypedQuota DEF Midnight, rows, locals
  <1>5. ASSUME NEW w \in Workers, NEW j \in Jobs, LockJob(w, j)
        PROVE  Typed'
    BY <1>5, TypedQuota DEF LockJob, rows
  <1>6. ASSUME NEW w \in Workers, ClaimJob(w)
        PROVE  Typed'
    <2>1. job[w] \in Jobs
      BY <1>6 DEF ClaimJob
    <2>2. QuotaTypeOK'
      BY <1>6, TypedQuota DEF ClaimJob
    <2>3. /\ pc' \in [Workers -> Phases] /\ turn' \in [Workers -> Nat]
          /\ verdict' \in [Workers -> {"done", "retry", "dead"}]
          /\ \A v \in Workers : pc'[v] # "idle" => pc[v] # "idle"
      <3>1. pc[w] = "locked"
        BY <1>6 DEF ClaimJob
      <3> QED
        BY <1>6, <3>1, ClaimBranches
    <2>4. /\ state' \in [Jobs -> States] /\ attempts' \in [Jobs -> Nat]
          /\ due' \subseteq Jobs /\ ahead' \in [Jobs -> SUBSET Jobs]
          /\ seen' \in [Workers -> Nat]
      BY <1>6, <2>1 DEF ClaimJob, LeavesDue
    <2>5. UNCHANGED <<kind, hash, job>>
      BY <1>6 DEF ClaimJob
    <2> QED
      BY <2>2, <2>3, <2>4, <2>5
  <1>7. ASSUME NEW w \in Workers, ClaimFails(w)
        PROVE  Typed'
    BY <1>7, TypedQuota DEF ClaimFails, GoIdle, rows
  <1>8. ASSUME NEW w \in Workers, QuotaGranted(w)
        PROVE  Typed'
    BY <1>8, TypedQuota, JobQueueAssumption DEF QuotaGranted, rows, locals
  <1>9. ASSUME NEW w \in Workers, QuotaRefused(w)
        PROVE  Typed'
    <2>1. NextProvider(w)
      BY <1>9 DEF QuotaRefused
    <2>2. QuotaTypeOK'
      BY <1>9, TypedQuota DEF QuotaRefused
    <2>3. pc[w] # "idle"
      BY <1>9 DEF QuotaRefused
    <2> QED
      BY <1>9, <2>2, <2>3, NextProviderTyped, <2>1 DEF QuotaRefused, rows
  <1>10. ASSUME NEW w \in Workers, NEW o \in {"ok", "fail", "ratelimited"}, HandlerReturns(w, o)
        PROVE  Typed'
    <2>1. QuotaTypeOK'
      BY <1>10, TypedQuota DEF HandlerReturns
    <2>2. pc[w] = "handle"
      BY <1>10 DEF HandlerReturns
    <2>3. CASE NextProvider(w)
      BY <1>10, <2>1, <2>2, <2>3, NextProviderTyped DEF HandlerReturns, rows
    <2>4. CASE UNCHANGED turn /\ \E v \in {"done", "retry", "dead"} : Conclude(w, v)
      BY <1>10, <2>1, <2>2, <2>4 DEF HandlerReturns, Conclude, rows
    <2> QED
      BY <1>10, <2>3, <2>4 DEF HandlerReturns
  <1>11. ASSUME NEW w \in Workers, Mark(w)
        PROVE  Typed'
    BY <1>11, TypedQuota DEF Mark, GoIdle
  <1>12. ASSUME NEW w \in Workers, MarkLost(w)
        PROVE  Typed'
    BY <1>12, TypedQuota DEF MarkLost, GoIdle, rows
  <1>13. ASSUME NEW w \in Workers, Crash(w)
        PROVE  Typed'
    BY <1>13, ApiQuotaAssumption, JobQueueAssumption DEF Crash, GoIdle, rows, QuotaTypeOK
  <1>14. CASE UNCHANGED vars
    BY <1>14, TypedQuota DEF vars, rows, locals
  <1> QED
    BY <1>1, <1>2, <1>3, <1>4, <1>5, <1>6, <1>7, <1>8, <1>9, <1>10, <1>11,
       <1>12, <1>13, <1>14, NextIsStep DEF Step

(* Every column and every local of a worker has its type in every          *)
(* reachable state, whatever crashes.                                      *)
THEOREM TypeCorrect == Spec => []TypeOK
  <1>1. Typed => TypeOK
    BY DEF Typed
  <1> QED BY <1>1, TypedInit, TypedStep, PTL DEF Spec

-----------------------------------------------------------------------------
(* Mutual exclusion.  An action of a worker changes its own row only, and  *)
(* the row is its own by NoSharedJob; a lock is taken on a row nobody has  *)
(* locked, and one that waits is not being executed (RowFollowsWorker).    *)

LEMMA IndInit == Init => IndInv
  BY TypedInit
  DEF Init, IndInv, Typed, RowFollowsWorker, NoSharedJob, HashesDistinct, Executing

(* What a step does to the row and the worker it is about, enough for      *)
(* mutual exclusion: either no worker gains a row and no row moves under   *)
(* one, or it is a lock, a claim or the end of a job.                      *)
LEMMA IndStep == IndInv /\ [Next]_vars => IndInv'
  <1> SUFFICES ASSUME IndInv, [Next]_vars
               PROVE  IndInv'
    OBVIOUS
  <1>t. Typed'
    BY TypedStep DEF IndInv, Typed
  <1> USE DEF IndInv, TypeOK, HoldsRow, RowFollowsWorker, NoSharedJob, HashesDistinct,
              Executing, Phases, States
  <1>1. ASSUME NEW j \in Jobs, NEW k \in Kinds, NEW h \in Hashes \cup {NoHash}, Enqueue(j, k, h)
        PROVE  IndInv'
    <2>1. \A w \in Workers : pc[w] # "idle" => job[w] # j
      BY <1>1 DEF Enqueue
    <2>2. RowFollowsWorker' /\ NoSharedJob'
      BY <1>1, <2>1 DEF Enqueue, locals
    <2>3. HashesDistinct'
      BY <1>1 DEF Enqueue, IndexClash
    <2> QED
      BY <1>t, <2>2, <2>3 DEF Typed
  <1>2. ASSUME UNCHANGED <<state, hash, pc, job>>
        PROVE  IndInv'
    BY <1>t, <1>2 DEF Typed
  <1>3. ASSUME NEW w \in Workers, NEW j \in Jobs, LockJob(w, j)
        PROVE  IndInv'
    <2>1. \A v \in Workers \ {w} : pc[v] # "idle" => job[v] # j
      BY <1>3 DEF LockJob, First, Claimable, Locked
    <2>2. state[j] \in {"pending", "retry"}
      BY <1>3 DEF LockJob, First, Claimable
    <2> QED
      BY <1>t, <1>3, <2>1, <2>2 DEF LockJob, rows, Typed
  <1>4. ASSUME NEW w \in Workers, ClaimJob(w)
        PROVE  IndInv'
    <2>1. /\ pc[w] = "locked" /\ pc' = [pc EXCEPT ![w] = pc'[w]]
          /\ pc'[w] \in {"mark", "handle", "quota"}
      BY <1>4, ClaimBranches DEF ClaimJob
    <2>2. /\ job' = job
          /\ state' = [state EXCEPT ![job[w]] = "running"]
      BY <1>4 DEF ClaimJob
    <2>3. NoSharedJob'
      BY <2>1, <2>2
    <2>4. RowFollowsWorker'
      BY <2>1, <2>2
    <2>5. HashesDistinct'
      BY <1>4, <2>1 DEF ClaimJob, IndexClash
    <2> QED
      BY <1>t, <2>3, <2>4, <2>5 DEF Typed
  <1>5. ASSUME NEW w \in Workers, GoIdle(w), UNCHANGED <<state, hash>>
        PROVE  IndInv'
    BY <1>t, <1>5 DEF GoIdle, Typed
  <1>6. ASSUME NEW w \in Workers, Executing(w), UNCHANGED <<state, hash, job>>,
               pc' = [pc EXCEPT ![w] = pc'[w]], pc'[w] \in {"mark", "handle", "quota"}
        PROVE  IndInv'
    BY <1>t, <1>6 DEF Typed
  <1>7. ASSUME NEW w \in Workers, Mark(w)
        PROVE  IndInv'
    <2>1. RowFollowsWorker' /\ NoSharedJob'
      BY <1>7 DEF Mark, GoIdle
    <2>2. HashesDistinct'
      BY <1>7 DEF Mark
    <2> QED
      BY <1>t, <2>1, <2>2 DEF Typed
  <1>8. ASSUME NEW w \in Workers, QuotaGranted(w)
        PROVE  IndInv'
    BY <1>6, <1>8 DEF QuotaGranted, rows, locals
  <1>9. ASSUME NEW w \in Workers, QuotaRefused(w)
        PROVE  IndInv'
    BY <1>6, <1>9 DEF QuotaRefused, NextProvider, Conclude, rows
  <1>10. ASSUME NEW w \in Workers, NEW o \in {"ok", "fail", "ratelimited"}, HandlerReturns(w, o)
        PROVE  IndInv'
    BY <1>6, <1>10 DEF HandlerReturns, NextProvider, Conclude, rows
  <1>11. ASSUME NEW w \in Workers, ClaimFails(w) \/ MarkLost(w) \/ Crash(w)
        PROVE  IndInv'
    BY <1>5, <1>11 DEF ClaimFails, MarkLost, Crash, rows
  <1>12. ASSUME NEW p \in Providers, NEW lim \in Limits, OtherConsumer(p, lim) \/ OtherLimit(p, lim)
        PROVE  IndInv'
    BY <1>2, <1>12 DEF OtherConsumer, OtherLimit, rows, locals
  <1>13. ASSUME NEW j \in Jobs, ComeDue(j)
        PROVE  IndInv'
    BY <1>2, <1>13 DEF ComeDue, locals
  <1>14. CASE Midnight \/ UNCHANGED vars
    BY <1>2, <1>14 DEF Midnight, vars, rows, locals
  <1> QED
    BY <1>1, <1>3, <1>4, <1>7, <1>8, <1>9, <1>10, <1>11, <1>12, <1>13, <1>14, NextIsStep
    DEF Step

LEMMA Inductive == Spec => []IndInv
  BY IndInit, IndStep, PTL DEF Spec

(* No two workers ever hold the same row, neither its lock nor the job     *)
(* (ClaimNextJob), for any number of workers and in spite of crashes.      *)
THEOREM MutualExclusion == Spec => []NoSharedJob
  <1>1. IndInv => NoSharedJob
    BY DEF IndInv
  <1> QED BY <1>1, Inductive, PTL

(* The same file is never imported by two workers at once: both rows would *)
(* be running, and the unique index keeps running hashes apart.            *)
THEOREM NoDoubleImport == Spec => []NoConcurrentImport
  <1>1. IndInv => NoConcurrentImport
    BY DEF IndInv, NoConcurrentImport, RowFollowsWorker, NoSharedJob, HashesDistinct,
           HoldsRow, Executing
  <1> QED BY <1>1, Inductive, PTL

-----------------------------------------------------------------------------
(* Finality.  Only Mark writes a row without looking at its state, and the *)
(* worker that marks has a running row.                                    *)
LEMMA SettledStep ==
  ASSUME IndInv, [Next]_vars, NEW j \in Jobs, state[j] \in Settled
  PROVE  state'[j] = state[j]
  <1> USE DEF IndInv, TypeOK, HoldsRow, RowFollowsWorker, Executing, Settled, States
  <1>1. ASSUME NEW i \in Jobs, NEW k \in Kinds, NEW h \in Hashes \cup {NoHash}, Enqueue(i, k, h)
        PROVE  state'[j] = state[j]
    BY <1>1 DEF Enqueue
  <1>2. ASSUME NEW w \in Workers, ClaimJob(w)
        PROVE  state'[j] = state[j]
    BY <1>2 DEF ClaimJob
  <1>3. ASSUME NEW w \in Workers, Mark(w)
        PROVE  state'[j] = state[j]
    BY <1>3 DEF Mark
  <1>4. ASSUME NEW w \in Workers,
               \/ ClaimFails(w) \/ MarkLost(w) \/ Crash(w)
               \/ QuotaGranted(w) \/ QuotaRefused(w)
               \/ \E i \in Jobs : LockJob(w, i)
               \/ \E o \in {"ok", "fail", "ratelimited"} : HandlerReturns(w, o)
        PROVE  state'[j] = state[j]
    BY <1>4 DEF ClaimFails, MarkLost, Crash, QuotaGranted, QuotaRefused, LockJob, HandlerReturns, rows
  <1>5. ASSUME \/ \E p \in Providers, lim \in Limits : OtherConsumer(p, lim) \/ OtherLimit(p, lim)
               \/ \E i \in Jobs : ComeDue(i)
               \/ Midnight \/ UNCHANGED vars
        PROVE  state'[j] = state[j]
    BY <1>5 DEF OtherConsumer, OtherLimit, ComeDue, Midnight, vars, rows
  <1> QED
    BY <1>1, <1>2, <1>3, <1>4, <1>5, NextIsStep DEF Step

(* A row that is done or dead stays so, for any number of workers, crashes *)
(* and late Mark statements included.                                      *)
THEOREM SettledNeverReopens == Spec => SettledIsFinal
  <1>1. IndInv /\ [Next]_vars => [\A j \in Jobs : state[j] \in Settled => state'[j] = state[j]]_vars
    BY SettledStep
  <1> QED BY <1>1, Inductive, PTL DEF Spec, SettledIsFinal

-----------------------------------------------------------------------------
(* Quotas.  A day's row without a limit has nothing spent, and a unit is   *)
(* only added below the row's limit; lowering the limit later can put what *)
(* was spent above the row's limit but not above every limit in use.       *)

QuotaInv == QuotaBounded /\ \A p \in Providers : limit[p] = 0 => used[p] = 0

LEMMA QuotaStep ==
  ASSUME Typed, QuotaInv, [Next]_vars
  PROVE  QuotaInv'
  <1> USE ApiQuotaAssumption DEF Typed, TypeOK, QuotaTypeOK, QuotaInv, QuotaBounded
  <1>1. ASSUME NEW p \in Providers, NEW lim \in Limits, Consume(p, lim)
        PROVE  QuotaInv'
    <2>1. /\ used' = [used EXCEPT ![p] = @ + 1]
          /\ limit' = [limit EXCEPT ![p] = IF @ = 0 THEN lim ELSE @]
          /\ ~(limit[p] # 0 /\ used[p] >= limit[p])
      BY <1>1 DEF Consume, Refused
    <2>n. used[p] \in Nat /\ limit[p] \in Nat /\ lim \in Nat \ {0}
      OBVIOUS
    <2>2. \E l \in Limits : used'[p] <= l
      <3>1. used'[p] = used[p] + 1
        BY <2>1
      <3>2. CASE limit[p] = 0
        BY <3>1, <3>2, <2>n
      <3>3. CASE limit[p] # 0
        <4>1. used[p] + 1 <= limit[p]
          BY <2>1, <2>n, <3>3
        <4>2. limit[p] \in Limits
          BY <3>3
        <4> QED
          BY <3>1, <4>1, <4>2
      <3> QED BY <3>2, <3>3
    <2>3. \A q \in Providers \ {p} : used'[q] = used[q] /\ limit'[q] = limit[q]
      BY <2>1
    <2>4. limit'[p] # 0
      BY <2>1
    <2> QED
      BY <2>2, <2>3, <2>4
  <1>2. ASSUME NEW p \in Providers, NEW lim \in Limits, SetQuotaLimit(p, lim)
        PROVE  QuotaInv'
    BY <1>2 DEF SetQuotaLimit
  <1>3. ASSUME NewDay
        PROVE  QuotaInv'
    BY <1>3, JobQueueAssumption DEF NewDay
  <1>4. ASSUME NEW w \in Workers, QuotaGranted(w)
        PROVE  QuotaInv'
    <2>1. Rotation[kind[job[w]]][turn[w]] \in Providers
      BY <1>4 DEF QuotaGranted, Consume, Refused
    <2> QED
      BY <1>1, <1>4, <2>1, JobQueueAssumption DEF QuotaGranted
  <1>5. ASSUME NEW w \in Workers, Crash(w)
        PROVE  QuotaInv'
    BY <1>5, JobQueueAssumption DEF Crash
  <1>6. ASSUME UNCHANGED quotaVars
        PROVE  QuotaInv'
    BY <1>6 DEF quotaVars
  <1>7. ASSUME NEW w \in Workers,
               \/ \E j \in Jobs : LockJob(w, j)
               \/ ClaimJob(w) \/ ClaimFails(w) \/ QuotaRefused(w) \/ Mark(w) \/ MarkLost(w)
               \/ \E o \in {"ok", "fail", "ratelimited"} : HandlerReturns(w, o)
        PROVE  UNCHANGED quotaVars
    BY <1>7 DEF LockJob, ClaimJob, ClaimFails, QuotaRefused, Mark, MarkLost, HandlerReturns
  <1>8. ASSUME \/ \E j \in Jobs, k \in Kinds, h \in Hashes \cup {NoHash} : Enqueue(j, k, h)
               \/ \E j \in Jobs : ComeDue(j)
               \/ UNCHANGED vars
        PROVE  UNCHANGED quotaVars
    BY <1>8 DEF Enqueue, ComeDue, vars
  <1> QED
    BY <1>1, <1>2, <1>3, <1>4, <1>5, <1>6, <1>7, <1>8, NextIsStep
    DEF Step, OtherConsumer, OtherLimit, Midnight

(* Whatever programs share a provider's row and in whichever order they    *)
(* set its limit, no more is spent in a day than the largest of their      *)
(* limits (TryConsumeQuota, SetQuotaLimit).                                *)
THEOREM QuotaNeverOverspent == Spec => []QuotaBounded
  <1>1. Init => QuotaInv
    <2>1. WorkerLimit \in Limits /\ 0 <= WorkerLimit
      BY ApiQuotaAssumption, JobQueueAssumption
    <2> QED
      BY <2>1 DEF Init, QuotaInit, QuotaInv, QuotaBounded
  <1>2. Typed /\ QuotaInv /\ [Next]_vars => QuotaInv'
    BY QuotaStep
  <1>3. QuotaInv => QuotaBounded
    BY DEF QuotaInv
  <1> QED BY <1>1, <1>2, <1>3, TypedInit, TypedStep, PTL DEF Spec

-----------------------------------------------------------------------------
(* The retry budget.  Claim and MarkJobRetry both count, so a running row  *)
(* is at an odd count and a waiting one at an even count; the worker       *)
(* judges by the count it read before its own claim.                       *)

LEMMA Parity == \A n \in Nat : (n % 2 = 0 => (n + 1) % 2 = 1) /\ (n % 2 = 1 => (n + 1) % 2 = 0)
  OBVIOUS

CountsByState ==
    \A j \in Jobs :
        /\ state[j] \in {"absent", "pending", "retry"} => attempts[j] % 2 = 0
        /\ state[j] \in {"running", "done", "dead"} => attempts[j] % 2 = 1

JudgedByCount ==
    \A w \in Workers :
        /\ Executing(w) => attempts[job[w]] = seen[w] + 1
        /\ pc[w] = "mark" /\ verdict[w] = "dead" /\ kind[job[w]] \in Handled => seen[w] >= GiveUp

DeadByCount ==
    \A j \in Jobs : state[j] = "dead" /\ kind[j] \in Handled => attempts[j] > GiveUp

(* A verdict of death comes from a failed handler that has seen enough, or *)
(* from the claim of a kind without handler; the latter never reaches the  *)
(* handler, so the former has one.                                         *)
BudgetInv == CountsByState /\ JudgedByCount /\ DeadByCount

LEMMA BudgetStep ==
  ASSUME IndInv, BudgetInv, [Next]_vars
  PROVE  BudgetInv'
  <1> USE DEF IndInv, TypeOK, HoldsRow, RowFollowsWorker, NoSharedJob, Executing, Phases, States,
              BudgetInv, CountsByState, JudgedByCount, DeadByCount
  <1>1. ASSUME NEW j \in Jobs, NEW k \in Kinds, NEW h \in Hashes \cup {NoHash}, Enqueue(j, k, h)
        PROVE  BudgetInv'
    <2>1. \A w \in Workers : pc[w] # "idle" => job[w] # j
      BY <1>1 DEF Enqueue
    <2> QED
      BY <1>1, <2>1 DEF Enqueue, locals
  <1>2. ASSUME NEW w \in Workers, ClaimJob(w)
        PROVE  BudgetInv'
    <2>1. /\ pc[w] = "locked" /\ job[w] \in Jobs
          /\ state' = [state EXCEPT ![job[w]] = "running"]
          /\ attempts' = [attempts EXCEPT ![job[w]] = @ + 1]
          /\ seen' = [seen EXCEPT ![w] = attempts[job[w]]]
          /\ UNCHANGED <<kind, job>>
      BY <1>2 DEF ClaimJob
    <2>2. CountsByState'
      BY <2>1, Parity
    <2>3. DeadByCount'
      BY <2>1
    <2>4. kind[job[w]] \in Handled => pc'[w] # "mark"
      BY <1>2, Zenon DEF ClaimJob
    <2>5. \A v \in Workers \ {w} : pc'[v] = pc[v] /\ verdict'[v] = verdict[v]
      BY <1>2, ClaimBranches
    <2>6. \A v \in Workers \ {w} : Executing(v) => job[v] # job[w]
      BY <2>1
    <2> QED
      BY <2>1, <2>2, <2>3, <2>4, <2>5, <2>6
  <1>3. ASSUME NEW w \in Workers, Mark(w)
        PROVE  BudgetInv'
    <2>1. \A v \in Workers \ {w} : Executing(v) => job[v] # job[w]
      BY <1>3 DEF Mark
    <2>2. CountsByState'
      BY <1>3, Parity DEF Mark
    <2>3. DeadByCount'
      BY <1>3, JobQueueAssumption DEF Mark
    <2>4. JudgedByCount'
      BY <1>3, <2>1 DEF Mark, GoIdle
    <2> QED
      BY <2>2, <2>3, <2>4
  <1>4. ASSUME NEW w \in Workers, GoIdle(w), UNCHANGED <<state, attempts, kind>>
        PROVE  BudgetInv'
    BY <1>4 DEF GoIdle
  <1>5. ASSUME UNCHANGED <<state, attempts, kind, job, seen>>,
               \A w \in Workers : /\ Executing(w)' => Executing(w)
                                  /\ pc'[w] = "mark" /\ verdict'[w] = "dead"
                                     => \/ pc[w] = "mark" /\ verdict[w] = "dead"
                                        \/ seen[w] >= GiveUp
        PROVE  BudgetInv'
    BY <1>5
  <1>6. ASSUME NEW w \in Workers, NextProvider(w), Executing(w),
               UNCHANGED <<state, attempts, kind, job, seen>>
        PROVE  BudgetInv'
    BY <1>5, <1>6 DEF NextProvider, Conclude
  <1>7. ASSUME NEW w \in Workers, NEW o \in {"ok", "fail", "ratelimited"}, HandlerReturns(w, o)
        PROVE  BudgetInv'
    <2>1. CASE NextProvider(w)
      BY <1>6, <1>7, <2>1 DEF HandlerReturns, rows
    <2>2. CASE Conclude(w, "done")
      BY <1>5, <1>7, <2>2 DEF HandlerReturns, Conclude, rows
    <2>3. CASE Conclude(w, IF seen[w] >= GiveUp THEN "dead" ELSE "retry")
      BY <1>5, <1>7, <2>3 DEF HandlerReturns, Conclude, rows
    <2> QED
      BY <1>7, <2>1, <2>2, <2>3, Zenon DEF HandlerReturns
  <1>8. ASSUME NEW w \in Workers, NEW j \in Jobs, LockJob(w, j)
        PROVE  BudgetInv'
    BY <1>8 DEF LockJob, rows
  <1>9. ASSUME NEW w \in Workers, QuotaGranted(w)
        PROVE  BudgetInv'
    BY <1>9 DEF QuotaGranted, rows, locals
  <1>10. ASSUME NEW w \in Workers, QuotaRefused(w)
        PROVE  BudgetInv'
    BY <1>6, <1>10 DEF QuotaRefused, rows
  <1>11. ASSUME NEW w \in Workers, ClaimFails(w) \/ MarkLost(w) \/ Crash(w)
        PROVE  BudgetInv'
    BY <1>4, <1>11 DEF ClaimFails, MarkLost, Crash, rows
  <1>12. ASSUME \/ \E p \in Providers, lim \in Limits : OtherConsumer(p, lim) \/ OtherLimit(p, lim)
                \/ \E j \in Jobs : ComeDue(j)
                \/ Midnight \/ UNCHANGED vars
        PROVE  BudgetInv'
    BY <1>5, <1>12 DEF OtherConsumer, OtherLimit, ComeDue, Midnight, vars, rows, locals
  <1> QED
    BY <1>1, <1>2, <1>3, <1>7, <1>8, <1>9, <1>10, <1>11, <1>12, NextIsStep DEF Step

(* A job with a handler is given up only once its count exceeds GiveUp,    *)
(* and every settled job was counted at each claim and each retry.         *)
THEOREM BudgetIsSpent == Spec => []BudgetSpent
  <1>1. Init => BudgetInv
    BY DEF Init, BudgetInv, CountsByState, JudgedByCount, DeadByCount, Executing
  <1>2. IndInv /\ BudgetInv /\ [Next]_vars => BudgetInv'
    BY BudgetStep
  <1>3. BudgetInv => BudgetSpent
    BY DEF BudgetInv, CountsByState, DeadByCount, BudgetSpent, Settled
  <1> QED BY <1>1, <1>2, <1>3, Inductive, PTL DEF Spec

-----------------------------------------------------------------------------
(* Ownership.  Without faults a worker lets go of a running row only by    *)
(* Mark, which takes the row out of running.                               *)
LEMMA OwnedStep ==
  ASSUME ~Faulty, IndInv, RunningIsOwned, [Next]_vars
  PROVE  RunningIsOwned'
  <1> USE DEF IndInv, TypeOK, HoldsRow, Executing, RunningIsOwned, Phases, States
  <1>1. ASSUME NEW j \in Jobs, NEW k \in Kinds, NEW h \in Hashes \cup {NoHash}, Enqueue(j, k, h)
        PROVE  RunningIsOwned'
    BY <1>1 DEF Enqueue, locals
  <1>2. ASSUME NEW w \in Workers, ClaimJob(w)
        PROVE  RunningIsOwned'
    <2>1. /\ pc[w] = "locked" /\ job' = job
          /\ state' = [state EXCEPT ![job[w]] = "running"]
      BY <1>2 DEF ClaimJob
    <2>2. pc'[w] \in {"mark", "handle", "quota"} /\ \A v \in Workers \ {w} : pc'[v] = pc[v]
      BY <1>2, ClaimBranches
    <2> QED
      BY <2>1, <2>2
  <1>3. ASSUME NEW w \in Workers, Mark(w)
        PROVE  RunningIsOwned'
    BY <1>3 DEF Mark, GoIdle
  <1>4. ASSUME NEW w \in Workers, ClaimFails(w) \/ \E j \in Jobs : LockJob(w, j)
        PROVE  RunningIsOwned'
    BY <1>4 DEF ClaimFails, GoIdle, LockJob, rows
  <1>5. ASSUME NEW w \in Workers,
               \/ QuotaGranted(w) \/ QuotaRefused(w)
               \/ \E o \in {"ok", "fail", "ratelimited"} : HandlerReturns(w, o)
        PROVE  RunningIsOwned'
    <2>1. UNCHANGED <<state, job>>
      BY <1>5 DEF QuotaGranted, QuotaRefused, HandlerReturns, rows, locals
    <2>2. \E p \in {"quota", "handle", "mark"} : pc' = [pc EXCEPT ![w] = p]
      BY <1>5, Zenon DEF QuotaGranted, QuotaRefused, HandlerReturns, NextProvider, Conclude
    <2> QED
      BY <2>1, <2>2
  <1>6. ASSUME \/ \E p \in Providers, lim \in Limits : OtherConsumer(p, lim) \/ OtherLimit(p, lim)
               \/ \E j \in Jobs : ComeDue(j)
               \/ Midnight \/ UNCHANGED vars
        PROVE  RunningIsOwned'
    <2>1. UNCHANGED <<state, job, pc>>
      BY <1>6 DEF OtherConsumer, OtherLimit, ComeDue, Midnight, vars, rows, locals
    <2> QED
      BY <2>1
  <1> QED
    BY <1>1, <1>2, <1>3, <1>4, <1>5, <1>6, NextIsStep DEF Step, MarkLost, Crash

(* As long as nothing crashes and no statement is lost, a running row has  *)
(* a worker at work on it: there is no other way a job could get stuck in  *)
(* running.                                                                *)
THEOREM NothingOrphaned ==
  ASSUME ~Faulty
  PROVE  Spec => []RunningIsOwned
  <1>1. Init => RunningIsOwned
    BY DEF Init, RunningIsOwned
  <1>2. IndInv /\ RunningIsOwned /\ [Next]_vars => RunningIsOwned'
    BY OwnedStep
  <1> QED BY <1>1, <1>2, Inductive, PTL DEF Spec

-----------------------------------------------------------------------------
(* Refinement of JobBoard.  The holder of a job is the one worker that     *)
(* executes it; NoSharedJob makes it one.                                  *)

LEMMA HolderIs ==
  ASSUME IndInv
  PROVE  /\ \A w \in Workers : Executing(w) => Holder(job[w]) = w
         /\ \A j \in Jobs : (\A w \in Workers : ~(Executing(w) /\ job[w] = j)) => Holder(j) = NoJob
  BY DEF IndInv, NoSharedJob, Executing, Holder

(* Nothing of the board moves when neither states nor executions do.       *)
LEMMA BoardStutters ==
  ASSUME UNCHANGED <<state, job>>, \A w \in Workers : Executing(w)' <=> Executing(w)
  PROVE  UNCHANGED <<[j \in Jobs |-> Status(j)], [j \in Jobs |-> Holder(j)]>>
  <1>1. \A j \in Jobs : Status(j)' = Status(j)
    BY DEF Status
  <1>2. \A j \in Jobs, w \in Workers : (Executing(w) /\ job[w] = j)' <=> (Executing(w) /\ job[w] = j)
    OBVIOUS
  <1>3. \A j \in Jobs : Holder(j)' = Holder(j)
    BY <1>2 DEF Holder
  <1> QED BY <1>1, <1>3

(* A step that moves one job on, seen from the board: its row may change   *)
(* state, only the worker holding it may start or stop executing it.       *)
LEMMA BoardMoves ==
  ASSUME IndInv, IndInv', NEW j \in Jobs, NEW w \in Workers, NEW s \in States,
         state' = [state EXCEPT ![j] = s],
         \A v \in Workers \ {w} : (pc'[v] = pc[v] /\ job'[v] = job[v]),
         \A v \in Workers : Executing(v) /\ job[v] = j => v = w,
         Executing(w) => job[w] = j,
         Executing(w)' => job'[w] = j
  PROVE  /\ [i \in Jobs |-> Status(i)]' = [[i \in Jobs |-> Status(i)] EXCEPT ![j] = Status(j)']
         /\ [i \in Jobs |-> Holder(i)]' =
              [[i \in Jobs |-> Holder(i)] EXCEPT ![j] = IF Executing(w)' THEN w ELSE NoJob]
  <1>1. \A i \in Jobs \ {j} : Status(i)' = Status(i)
    BY DEF Status, IndInv, TypeOK
  <1>2. \A i \in Jobs \ {j}, v \in Workers :
           (Executing(v) /\ job[v] = i)' <=> (Executing(v) /\ job[v] = i)
    BY DEF Executing
  <1>3. \A i \in Jobs \ {j} : Holder(i)' = Holder(i)
    BY <1>2 DEF Holder
  <1>4. Holder(j)' = IF Executing(w)' THEN w ELSE NoJob
    <2>1. CASE Executing(w)'
      BY <2>1, IndInv' DEF Holder, IndInv, NoSharedJob, Executing
    <2>2. CASE ~Executing(w)'
      <3>1. \A v \in Workers : ~(Executing(v)' /\ job'[v] = j)
        BY <2>2 DEF Executing
      <3> QED
        BY <2>2, <3>1 DEF Holder
    <2> QED BY <2>1, <2>2
  <1> QED BY <1>1, <1>3, <1>4

LEMMA BoardStep == IndInv /\ IndInv' /\ [Next]_vars => [Board!BoardNext]_(Board!boardVars)
  <1> SUFFICES ASSUME IndInv, IndInv', [Next]_vars
               PROVE  Board!BoardNext \/ UNCHANGED Board!boardVars
    OBVIOUS
  <1> DEFINE Stutter == UNCHANGED <<[j \in Jobs |-> Status(j)], [j \in Jobs |-> Holder(j)]>>
  <1>s. Stutter => UNCHANGED Board!boardVars
    BY DEF Board!boardVars
  <1> HIDE DEF Stutter
  <1>1. ASSUME NEW j \in Jobs, NEW k \in Kinds, NEW h \in Hashes \cup {NoHash}, Enqueue(j, k, h)
        PROVE  Board!Post(j)
    <2>1. /\ state[j] = "absent" /\ state' = [state EXCEPT ![j] = "pending"]
          /\ pc' = pc /\ job' = job
      BY <1>1 DEF Enqueue, locals
    <2>2. \A i \in Jobs \ {j} : Status(i)' = Status(i)
      BY <2>1 DEF Status, IndInv, TypeOK
    <2>3. Status(j) = "absent" /\ Status(j)' = "open"
      BY <2>1 DEF Status, IndInv, TypeOK
    <2>4. \A i \in Jobs : Holder(i)' = Holder(i)
      BY <2>1 DEF Holder, Executing
    <2> QED
      BY <2>2, <2>3, <2>4 DEF Board!Post
  <1>2. ASSUME NEW w \in Workers, ClaimJob(w)
        PROVE  Board!Take(w, job[w])
    <2> DEFINE j == job[w]
    <2>1. /\ pc[w] = "locked" /\ j \in Jobs /\ state[j] \in {"pending", "retry"}
          /\ state' = [state EXCEPT ![j] = "running"] /\ job' = job
      BY <1>2 DEF ClaimJob, IndInv, HoldsRow, RowFollowsWorker
    <2>2. /\ pc'[w] \in {"mark", "handle", "quota"}
          /\ \A v \in Workers \ {w} : pc'[v] = pc[v]
      BY <1>2, ClaimBranches DEF IndInv, TypeOK
    <2>3. /\ ~Executing(w) /\ Executing(w)'
          /\ \A v \in Workers : Executing(v) /\ job[v] = j => v = w
      BY <2>1, <2>2 DEF Executing, IndInv, NoSharedJob
    <2>4. Status(j) = "open" /\ Status(j)' = "held"
      BY <2>1 DEF Status, IndInv, TypeOK
    <2> HIDE DEF j
    <2>5. /\ [i \in Jobs |-> Status(i)]' = [[i \in Jobs |-> Status(i)] EXCEPT ![j] = "held"]
          /\ [i \in Jobs |-> Holder(i)]' = [[i \in Jobs |-> Holder(i)] EXCEPT ![j] = w]
      BY <2>1, <2>2, <2>3, <2>4, BoardMoves DEF j, States
    <2> QED
      BY <2>1, <2>4, <2>5 DEF Board!Take, j
  <1>3. ASSUME NEW w \in Workers, NEW j \in Jobs, NEW s \in States, GoIdle(w), Executing(w),
               job[w] = j, state' = [state EXCEPT ![j] = s]
        PROVE  Board!Return(w, j, Status(j)')
    <2>1. state[j] = "running"
      BY <1>3 DEF IndInv, RowFollowsWorker
    <2>2. /\ pc'[w] = "idle"
          /\ \A v \in Workers \ {w} : pc'[v] = pc[v] /\ job'[v] = job[v]
      BY <1>3 DEF GoIdle, IndInv, TypeOK
    <2>3. /\ ~Executing(w)'
          /\ \A v \in Workers : Executing(v) /\ job[v] = j => v = w
      BY <1>3, <2>2 DEF Executing, IndInv, NoSharedJob
    <2>4. Status(j) = "held" /\ Holder(j) = w
      BY <1>3, <2>1, HolderIs DEF Status
    <2>5. /\ [i \in Jobs |-> Status(i)]' = [[i \in Jobs |-> Status(i)] EXCEPT ![j] = Status(j)']
          /\ [i \in Jobs |-> Holder(i)]' = [[i \in Jobs |-> Holder(i)] EXCEPT ![j] = NoJob]
      BY <1>3, <2>1, <2>2, <2>3, BoardMoves
    <2> QED
      BY <2>1, <2>4, <2>5 DEF Board!Return
  <1>4. ASSUME NEW w \in Workers, Mark(w)
        PROVE  Board!BoardNext
    <2>1. PICK j \in Jobs : job[w] = j
      BY <1>4 DEF Mark, IndInv, HoldsRow
    <2>2. /\ GoIdle(w) /\ Executing(w) /\ verdict[w] \in {"done", "retry", "dead"}
          /\ state' = [state EXCEPT ![j] = verdict[w]]
      BY <1>4, <2>1 DEF Mark, Executing, IndInv, TypeOK
    <2>3. Status(j)' \in {"open", "closed"}
      BY <2>1, <2>2 DEF Status, IndInv, TypeOK
    <2>4. Board!Return(w, j, Status(j)')
      BY <1>3, <2>1, <2>2 DEF States
    <2> QED
      BY <2>3, <2>4 DEF Board!BoardNext
  <1>5. ASSUME NEW w \in Workers, GoIdle(w), pc[w] # "idle", UNCHANGED state
        PROVE  Board!BoardNext \/ Stutter
    <2>1. PICK j \in Jobs : job[w] = j
      BY <1>5 DEF IndInv, HoldsRow
    <2>2. CASE Executing(w)
      <3>1. state[j] = "running" /\ state' = [state EXCEPT ![j] = "running"]
        BY <1>5, <2>1, <2>2 DEF IndInv, RowFollowsWorker, TypeOK
      <3>2. Status(j) = "held" /\ Status(j)' = "held"
        BY <1>5, <3>1 DEF Status
      <3>3. Board!Return(w, j, "held")
        BY <1>3, <1>5, <2>1, <2>2, <3>1, <3>2 DEF States
      <3>4. Board!Vanish(w, j)
        BY <3>2, <3>3 DEF Board!Vanish, Board!Return
      <3> QED
        BY <3>4 DEF Board!BoardNext
    <2>3. CASE ~Executing(w)
      <3>1. \A i \in Jobs, v \in Workers :
               (Executing(v) /\ job[v] = i)' <=> (Executing(v) /\ job[v] = i)
        BY <1>5, <2>3 DEF GoIdle, Executing, IndInv, TypeOK
      <3>2. \A i \in Jobs : Holder(i)' = Holder(i) /\ Status(i)' = Status(i)
        BY <1>5, <3>1 DEF Holder, Status
      <3> QED
        BY <3>2 DEF Stutter
    <2> QED BY <2>2, <2>3
  <1>6. ASSUME NEW w \in Workers, ClaimFails(w) \/ MarkLost(w) \/ Crash(w)
        PROVE  Board!BoardNext \/ Stutter
    BY <1>5, <1>6 DEF ClaimFails, MarkLost, Crash, rows
  <1>7. ASSUME NEW w \in Workers, NEW j \in Jobs, LockJob(w, j)
        PROVE  Stutter
    <2>1. \A i \in Jobs, v \in Workers :
             (Executing(v) /\ job[v] = i)' <=> (Executing(v) /\ job[v] = i)
      BY <1>7 DEF LockJob, Executing, IndInv, TypeOK
    <2>2. \A i \in Jobs : Holder(i)' = Holder(i) /\ Status(i)' = Status(i)
      BY <1>7, <2>1 DEF Holder, Status, LockJob, rows
    <2> QED
      BY <2>2 DEF Stutter
  <1>8. ASSUME NEW w \in Workers,
               \/ QuotaGranted(w) \/ QuotaRefused(w)
               \/ \E o \in {"ok", "fail", "ratelimited"} : HandlerReturns(w, o)
        PROVE  Stutter
    <2>1. UNCHANGED <<state, job>>
      BY <1>8 DEF QuotaGranted, QuotaRefused, HandlerReturns, rows, locals
    <2>2. \E p \in {"quota", "handle", "mark"} : pc' = [pc EXCEPT ![w] = p]
      BY <1>8, Zenon DEF QuotaGranted, QuotaRefused, HandlerReturns, NextProvider, Conclude
    <2>3. Executing(w)
      BY <1>8 DEF QuotaGranted, QuotaRefused, HandlerReturns, Executing
    <2> QED
      BY <2>1, <2>2, <2>3, BoardStutters DEF Stutter, Executing, IndInv, TypeOK
  <1>9. ASSUME \/ \E p \in Providers, lim \in Limits : OtherConsumer(p, lim) \/ OtherLimit(p, lim)
               \/ \E j \in Jobs : ComeDue(j)
               \/ Midnight \/ UNCHANGED vars
        PROVE  Stutter
    <2>1. UNCHANGED <<state, job, pc>>
      BY <1>9 DEF OtherConsumer, OtherLimit, ComeDue, Midnight, vars, rows, locals
    <2> QED
      BY <2>1, BoardStutters DEF Stutter, Executing
  <1> QED
    <2>1. ASSUME NEW j \in Jobs, Board!Post(j)
          PROVE  Board!BoardNext
      BY <2>1 DEF Board!BoardNext
    <2>2. ASSUME NEW w \in Workers, NEW j \in Jobs, Board!Take(w, j)
          PROVE  Board!BoardNext
      BY <2>2 DEF Board!BoardNext
    <2>3. \A w \in Workers : ClaimJob(w) => job[w] \in Jobs
      BY DEF ClaimJob, IndInv, HoldsRow
    <2> QED
      BY <1>s, <1>1, <1>2, <1>4, <1>6, <1>7, <1>8, <1>9, <2>1, <2>2, <2>3, NextIsStep DEF Step

(* The queue implements the board: any number of workers, crashes between  *)
(* any two statements, lost Mark statements and all.                       *)
THEOREM QueueImplementsBoard == Spec => ImplementsBoard
  <1>1. Init => Board!BoardInit
    BY DEF Init, Board!BoardInit, Status, Holder, Executing
  <1> QED
    BY <1>1, BoardStep, Inductive, PTL DEF Spec, ImplementsBoard, Board!BoardSpec
=============================================================================
