---------------------------- MODULE RateLimiter ----------------------------
(***************************************************************************)
(* The limit on requests of internal/middleware/ratelimit.go: a bucket of  *)
(* tokens for every pair of a client and a path, made at its first request.*)
(*                                                                         *)
(* A token has Unit parts, and a bucket gains Rate[b] parts in a tick of   *)
(* the clock: the fractions of a token that the code keeps as a float.     *)
(***************************************************************************)
EXTENDS Integers

CONSTANTS
    Buckets,        \* the pairs of a client and a path
    Rate, Burst,    \* per bucket: of its path's override, or the default
    Unit,
    Ticks           \* bound: how long the clock runs

ASSUME RateLimiterAssumption ==
    /\ Unit \in Nat \ {0} /\ Ticks \in Nat
    /\ Rate \in [Buckets -> Nat \ {0}] /\ Burst \in [Buckets -> Nat \ {0}]

VARIABLES
    clock,
    made,       \* the buckets there are
    tokens,     \* the parts in every bucket
    last,       \* when it was last looked at
    passed,     \* how many requests it let pass
    passedAt    \* and how many it had when a tick began

limiterVars == <<clock, made, tokens, last, passed, passedAt>>

LimiterInit ==
    /\ clock = 0 /\ made = {}
    /\ tokens = [b \in Buckets |-> 0] /\ last = [b \in Buckets |-> 0]
    /\ passed = [b \in Buckets |-> 0]
    /\ passedAt = [b \in Buckets |-> [t \in 0..Ticks |-> 0]]

LimiterTick ==
    /\ clock < Ticks
    /\ clock' = clock + 1
    /\ passedAt' = [b \in Buckets |-> [passedAt[b] EXCEPT ![clock + 1] = passed[b]]]
    /\ UNCHANGED <<made, tokens, last, passed>>

Full(b) == Burst[b] * Unit

(* A bucket that is not there yet is made full.                            *)
Held(b) == IF b \in made THEN tokens[b] ELSE Full(b)
Since(b) == IF b \in made THEN last[b] ELSE clock

(* Mutant: a bucket gains tokens without end.                              *)
RefilledOverTheBrim(b) == Held(b) + Rate[b] * (clock - Since(b))

Refilled(b) ==
    LET sum == Held(b) + Rate[b] * (clock - Since(b))
    IN IF sum > Full(b) THEN Full(b) ELSE sum

(* Allow looks at the clock with the bucket locked, so that a look is one  *)
(* step.  A request to /healthz or /readyz meets no bucket.                *)
Pass(b) ==
    /\ Refilled(b) >= Unit
    /\ tokens' = [tokens EXCEPT ![b] = Refilled(b) - Unit]
    /\ passed' = [passed EXCEPT ![b] = @ + 1]

Refuse(b) ==
    /\ Refilled(b) < Unit
    /\ tokens' = [tokens EXCEPT ![b] = Refilled(b)]
    /\ UNCHANGED passed

Request(b) ==
    /\ Pass(b) \/ Refuse(b)
    /\ made' = made \cup {b}
    /\ last' = [last EXCEPT ![b] = clock]
    /\ UNCHANGED <<clock, passedAt>>

LimiterNext == LimiterTick \/ \E b \in Buckets : Request(b)

LimiterSpec == LimiterInit /\ [][LimiterNext]_limiterVars

(***************************************************************************)
(* From the beginning of any tick on, no bucket lets more requests pass    *)
(* than its burst and what it gains in the time since, however requests    *)
(* and refusals are spread over it (bucket.Allow).                         *)
(***************************************************************************)
WithinRate ==
    \A b \in Buckets : \A t \in 0..clock :
        Unit * (passed[b] - passedAt[b][t]) <= Full(b) + Rate[b] * (clock - t)
=============================================================================
