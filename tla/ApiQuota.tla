------------------------------ MODULE ApiQuota ------------------------------
(***************************************************************************)
(* The table api_quotas: one row per provider and day, holding how many    *)
(* calls of an external service were spent and how many may be.  A row is  *)
(* created by whoever touches the provider first that day and carries the  *)
(* limit that caller passed; the server, the jobs worker and the           *)
(* skeleton-sync command do so with different limits.  Only today's rows   *)
(* are state here: limit 0 stands for "no row yet", which the column's     *)
(* CHECK (quota_limit > 0) keeps apart from a real row.  api_calls is a    *)
(* write-only log and is left out.                                         *)
(***************************************************************************)
EXTENDS Integers

CONSTANTS
    Providers,        \* provider codes callers may name
    KnownProviders,   \* the rows of table providers (foreign key of a quota)
    Limits            \* limits the callers pass (1000, 500, GEOCODE max calls)

ASSUME ApiQuotaAssumption ==
    /\ KnownProviders \subseteq Providers
    /\ Limits \subseteq Nat \ {0}

VARIABLES used, limit
quotaVars == <<used, limit>>

QuotaTypeOK ==
    /\ used  \in [Providers -> Nat]
    /\ limit \in [Providers -> Limits \cup {0}]

QuotaInit ==
    /\ used  = [p \in Providers |-> 0]
    /\ limit = [p \in Providers |-> 0]

(* Mutant: used <= quota_limit where the statement has used < quota_limit. *)
RefusedOneLate(p) ==
    \/ p \notin KnownProviders
    \/ limit[p] # 0 /\ used[p] > limit[p]

(* TryConsumeQuota answers FALSE when the row is spent, and also when the  *)
(* insert fails because the provider is not a known one.                   *)
Refused(p) ==
    \/ p \notin KnownProviders
    \/ limit[p] # 0 /\ used[p] >= limit[p]

(* TryConsumeQuota answering TRUE; an existing row keeps its own limit.    *)
Consume(p, lim) ==
    /\ ~Refused(p)
    /\ used'  = [used  EXCEPT ![p] = @ + 1]
    /\ limit' = [limit EXCEPT ![p] = IF @ = 0 THEN lim ELSE @]

(* SetQuotaLimit: the limit is replaced, what was spent stays.             *)
SetQuotaLimit(p, lim) ==
    /\ p \in KnownProviders
    /\ limit' = [limit EXCEPT ![p] = lim]
    /\ UNCHANGED used

(* CURRENT_DATE changes: no provider has a row for the new day.            *)
NewDay ==
    /\ used'  = [p \in Providers |-> 0]
    /\ limit' = [p \in Providers |-> 0]
=============================================================================
