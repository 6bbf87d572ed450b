----------------------------- MODULE ServerProofs -----------------------------
(***************************************************************************)
(* What is proved of the limit on requests (RateLimiter) and of the        *)
(* accounts (Accounts) of the HTTP server, for any buckets, rates, bursts  *)
(* and times, and for any number of callers.                               *)
(***************************************************************************)
EXTENDS RateLimiter, Accounts, FiniteSetTheorems, TLAPS

LimiterTypeOK ==
    /\ clock \in 0..Ticks
    /\ made \in SUBSET Buckets
    /\ tokens \in [Buckets -> Nat]
    /\ last \in [Buckets -> Nat]
    /\ passed \in [Buckets -> Nat]
    /\ passedAt \in [Buckets -> [0..Ticks -> Nat]]

(* What was paid for up to the last look and what is held is within the    *)
(* burst and the gain up to that look; nothing was paid for since.         *)
PaidUpTo(b) ==
    /\ last[b] <= clock /\ tokens[b] <= Full(b)
    /\ b \notin made => passed[b] = 0 /\ \A t \in 0..clock : passedAt[b][t] = 0
    /\ b \in made =>
        /\ \A t \in 0..clock : t <= last[b] =>
            tokens[b] + Unit * (passed[b] - passedAt[b][t]) <= Full(b) + Rate[b] * (last[b] - t)
        /\ \A t \in 0..clock : t > last[b] => passedAt[b][t] = passed[b]

AllPaid == \A b \in Buckets : PaidUpTo(b)

LimiterInv == LimiterTypeOK /\ AllPaid

-----------------------------------------------------------------------------
(* Products, of which the solver is told no more than these facts.         *)

LEMMA ProductTyped ==
    ASSUME NEW x \in Nat, NEW y \in Nat
    PROVE  x * y \in Nat
  OBVIOUS

LEMMA Split ==
    ASSUME NEW x \in Nat, NEW a \in Nat, NEW b \in Nat, NEW c \in Nat
    PROVE  x * (a - b) + x * (b - c) = x * (a - c)
  OBVIOUS

LEMMA OneMore ==
    ASSUME NEW x \in Nat, NEW p \in Nat, NEW q \in Nat
    PROVE  /\ x * (p + 1 - q) = x + x * (p - q)
           /\ x * (p - q) \in Int
           /\ x * (p - p) = 0
  OBVIOUS

LEMMA FullTyped ==
    ASSUME NEW b \in Buckets
    PROVE  Full(b) \in Nat /\ Rate[b] \in Nat /\ Unit \in Nat
  BY RateLimiterAssumption, ProductTyped DEF Full

(* A refilled bucket is not over its brim, and has gained no more than its *)
(* rate since the last look.                                               *)
LEMMA RefilledBounded ==
    ASSUME LimiterInv, NEW b \in Buckets
    PROVE  /\ Refilled(b) \in Nat
           /\ Refilled(b) <= Full(b)
           /\ b \in made => Refilled(b) <= tokens[b] + Rate[b] * (clock - last[b])
  <1> USE FullTyped
  <1>1. CASE b \in made
    <2>1. /\ last[b] <= clock /\ tokens[b] \in Nat
          /\ clock - last[b] \in Nat
      BY DEF LimiterInv, LimiterTypeOK, AllPaid, PaidUpTo
    <2>2. Rate[b] * (clock - last[b]) \in Nat
      BY <2>1, ProductTyped
    <2>3. Held(b) = tokens[b] /\ Since(b) = last[b]
      BY <1>1 DEF Held, Since
    <2> QED BY <2>1, <2>2, <2>3 DEF Refilled
  <1>2. CASE b \notin made
    <2>1. Held(b) = Full(b) /\ Since(b) = clock /\ clock \in Nat
      BY <1>2 DEF Held, Since, LimiterInv, LimiterTypeOK
    <2>2. Rate[b] * (clock - clock) = 0
      BY <2>1, OneMore
    <2> QED BY <1>2, <2>1, <2>2 DEF Refilled
  <1> QED BY <1>1, <1>2

-----------------------------------------------------------------------------
LEMMA LimiterInitInv == LimiterInit => LimiterInv
  <1> SUFFICES ASSUME LimiterInit PROVE LimiterInv
    OBVIOUS
  <1>1. LimiterTypeOK
    BY RateLimiterAssumption DEF LimiterInit, LimiterTypeOK
  <1>2. ASSUME NEW b \in Buckets PROVE PaidUpTo(b)
    BY FullTyped, RateLimiterAssumption DEF LimiterInit, PaidUpTo
  <1> QED BY <1>1, <1>2 DEF LimiterInv, AllPaid

LEMMA TickKeepsInv == ASSUME LimiterInv, LimiterTick PROVE LimiterInv'
  <1>1. clock \in Nat /\ clock + 1 \in 0..Ticks /\ clock' = clock + 1
    BY RateLimiterAssumption DEF LimiterInv, LimiterTypeOK, LimiterTick
  <1>2. LimiterTypeOK'
    BY <1>1 DEF LimiterInv, LimiterTypeOK, LimiterTick
  <1>3. ASSUME NEW b \in Buckets PROVE PaidUpTo(b)'
    <2>1. /\ PaidUpTo(b)
          /\ last[b] \in Nat /\ tokens[b] \in Nat /\ passed[b] \in Nat
          /\ last' = last /\ tokens' = tokens /\ passed' = passed /\ made' = made
      BY DEF LimiterInv, LimiterTypeOK, AllPaid, LimiterTick
    <2>2. passedAt'[b][clock + 1] = passed[b]
      BY <1>1 DEF LimiterInv, LimiterTypeOK, LimiterTick
    <2>3. \A t \in 0..clock : passedAt'[b][t] = passedAt[b][t]
      BY <1>1 DEF LimiterInv, LimiterTypeOK, LimiterTick
    <2>4. 0..clock' = (0..clock) \cup {clock + 1}
      BY <1>1
    <2>5. last[b] <= clock /\ ~(clock + 1 <= last[b])
      BY <1>1, <2>1 DEF PaidUpTo
    <2>6. Full(b)' = Full(b)
      BY DEF Full
    <2>7. ASSUME b \in made, NEW t \in 0..clock', t <= last[b]
          PROVE  tokens[b] + Unit * (passed[b] - passedAt'[b][t]) <= Full(b) + Rate[b] * (last[b] - t)
      BY <2>1, <2>3, <2>4, <2>5, <2>7 DEF PaidUpTo
    <2>8. ASSUME b \in made, NEW t \in 0..clock', t > last[b]
          PROVE  passedAt'[b][t] = passed[b]
      BY <2>1, <2>2, <2>3, <2>4, <2>8 DEF PaidUpTo
    <2>9. ASSUME b \notin made
          PROVE  passed[b] = 0 /\ \A t \in 0..clock' : passedAt'[b][t] = 0
      BY <2>1, <2>2, <2>3, <2>4, <2>9 DEF PaidUpTo
    <2>10. last[b] <= clock' /\ tokens[b] <= Full(b)
      BY <1>1, <2>1 DEF PaidUpTo
    <2> QED BY <2>1, <2>6, <2>7, <2>8, <2>9, <2>10 DEF PaidUpTo
  <1> QED BY <1>2, <1>3 DEF LimiterInv, AllPaid

LEMMA RequestKeepsInv ==
    ASSUME LimiterInv, NEW c \in Buckets, Request(c)
    PROVE  LimiterInv'
  <1>1. /\ Refilled(c) \in Nat /\ Refilled(c) <= Full(c)
        /\ c \in made => Refilled(c) <= tokens[c] + Rate[c] * (clock - last[c])
    BY RefilledBounded
  <1>2. /\ Full(c) \in Nat /\ Rate[c] \in Nat /\ Unit \in Nat
        /\ clock \in Nat /\ passed[c] \in Nat /\ tokens[c] \in Nat /\ last[c] \in Nat
    BY FullTyped DEF LimiterInv, LimiterTypeOK
  <1>3. /\ clock' = clock /\ passedAt' = passedAt
        /\ made' = made \cup {c} /\ last' = [last EXCEPT ![c] = clock]
    BY DEF Request
  <1>4. /\ tokens' \in [Buckets -> Nat] /\ passed' \in [Buckets -> Nat]
        /\ \A b \in Buckets \ {c} : tokens'[b] = tokens[b] /\ passed'[b] = passed[b]
        /\ tokens'[c] <= Refilled(c)
        /\ \/ tokens'[c] = Refilled(c) - Unit /\ passed'[c] = passed[c] + 1
           \/ tokens'[c] = Refilled(c) /\ passed'[c] = passed[c]
    <2>1. CASE Pass(c)
      BY <1>1, <1>2, <2>1 DEF Pass, LimiterInv, LimiterTypeOK
    <2>2. CASE Refuse(c)
      BY <1>1, <1>2, <2>2 DEF Refuse, LimiterInv, LimiterTypeOK
    <2> QED BY <2>1, <2>2 DEF Request
  <1>5. LimiterTypeOK'
    BY <1>2, <1>3, <1>4 DEF LimiterInv, LimiterTypeOK
  <1>6. ASSUME NEW b \in Buckets, b # c PROVE PaidUpTo(b)'
    <2>1. /\ tokens'[b] = tokens[b] /\ passed'[b] = passed[b] /\ last'[b] = last[b]
          /\ (b \in made') = (b \in made) /\ Full(b)' = Full(b)
      BY <1>3, <1>4, <1>6 DEF LimiterInv, LimiterTypeOK, Full
    <2> QED BY <1>3, <2>1 DEF LimiterInv, AllPaid, PaidUpTo
  <1>7. PaidUpTo(c)'
    <2>1. last'[c] = clock /\ c \in made' /\ Full(c)' = Full(c)
      BY <1>3 DEF LimiterInv, LimiterTypeOK, Full
    <2>2. ASSUME NEW t \in 0..clock
          PROVE  tokens'[c] + Unit * (passed'[c] - passedAt[c][t]) <= Full(c) + Rate[c] * (clock - t)
      <3>1. t \in Nat /\ clock - t \in Nat /\ t \in 0..Ticks /\ passedAt[c][t] \in Nat
        BY <1>2, RateLimiterAssumption DEF LimiterInv, LimiterTypeOK
      <3> DEFINE paid == Unit * (passed[c] - passedAt[c][t])
                 gain == Rate[c] * (clock - t)
      <3>2. paid \in Int /\ gain \in Nat
        BY <1>2, <3>1, OneMore, ProductTyped
      <3>3. Refilled(c) + paid <= Full(c) + gain
        <4>1. CASE c \in made /\ t <= last[c]
          <5>1. tokens[c] + paid <= Full(c) + Rate[c] * (last[c] - t)
            BY <4>1 DEF LimiterInv, AllPaid, PaidUpTo
          <5>2. Rate[c] * (clock - last[c]) + Rate[c] * (last[c] - t) = gain
            BY <1>2, <3>1, Split
          <5>3. clock - last[c] \in Nat /\ last[c] - t \in Nat
            BY <1>2, <3>1, <4>1 DEF LimiterInv, AllPaid, PaidUpTo
          <5>4. Rate[c] * (clock - last[c]) \in Nat /\ Rate[c] * (last[c] - t) \in Nat
            BY <1>2, <5>3, ProductTyped
          <5> HIDE DEF paid, gain
          <5> QED BY <1>1, <1>2, <3>2, <4>1, <5>1, <5>2, <5>4
        <4>2. CASE ~(c \in made /\ t <= last[c])
          <5>1. passedAt[c][t] = passed[c]
            BY <1>2, <3>1, <4>2 DEF LimiterInv, AllPaid, PaidUpTo
          <5>2. paid = 0
            BY <1>2, <5>1, OneMore
          <5> HIDE DEF paid, gain
          <5> QED BY <1>1, <1>2, <3>2, <5>2
        <4> QED BY <4>1, <4>2
      <3>4. Unit * (passed[c] + 1 - passedAt[c][t]) = Unit + paid
        BY <1>2, <3>1, OneMore
      <3> QED
        <4>1. CASE tokens'[c] = Refilled(c) - Unit /\ passed'[c] = passed[c] + 1
          <5> HIDE DEF paid, gain
          <5>1. Unit * (passed'[c] - passedAt[c][t]) = Unit + paid
            <6>1. passed'[c] - passedAt[c][t] = passed[c] + 1 - passedAt[c][t]
              BY <1>2, <3>1, <4>1
            <6> QED BY <3>4, <6>1, Zenon
          <5>2. tokens'[c] + (Unit + paid) <= Full(c) + gain
            BY <1>1, <1>2, <3>2, <3>3, <4>1
          <5> QED BY <5>1, <5>2 DEF gain
        <4>2. CASE tokens'[c] = Refilled(c) /\ passed'[c] = passed[c]
          BY <3>3, <4>2
        <4> QED BY <1>4, <4>1, <4>2
    <2>3. tokens'[c] <= Full(c)
      BY <1>1, <1>2, <1>4
    <2>4. \A t \in 0..clock' : ~(t > last'[c])
      BY <1>2, <1>3, <2>1
    <2> QED BY <1>2, <1>3, <2>1, <2>2, <2>3, <2>4 DEF PaidUpTo
  <1> QED BY <1>5, <1>6, <1>7 DEF LimiterInv, AllPaid

LEMMA LimiterStepInv == LimiterInv /\ [LimiterNext]_limiterVars => LimiterInv'
  <1> SUFFICES ASSUME LimiterInv, [LimiterNext]_limiterVars PROVE LimiterInv'
    OBVIOUS
  <1>1. CASE LimiterTick
    BY <1>1, TickKeepsInv
  <1>2. CASE \E b \in Buckets : Request(b)
    BY <1>2, RequestKeepsInv
  <1>3. CASE UNCHANGED limiterVars
    BY <1>3 DEF limiterVars, LimiterInv, LimiterTypeOK, AllPaid, PaidUpTo, Full
  <1> QED BY <1>1, <1>2, <1>3 DEF LimiterNext

LEMMA PaidIsWithinRate == LimiterInv => WithinRate
  <1> SUFFICES ASSUME LimiterInv, NEW b \in Buckets, NEW t \in 0..clock
               PROVE  Unit * (passed[b] - passedAt[b][t]) <= Full(b) + Rate[b] * (clock - t)
    BY DEF WithinRate
  <1>1. /\ Full(b) \in Nat /\ Rate[b] \in Nat /\ Unit \in Nat
        /\ clock \in Nat /\ t \in Nat /\ clock - t \in Nat
        /\ passed[b] \in Nat /\ passedAt[b][t] \in Nat
        /\ tokens[b] \in Nat /\ last[b] \in Nat /\ last[b] <= clock
    BY FullTyped, RateLimiterAssumption DEF LimiterInv, LimiterTypeOK, AllPaid, PaidUpTo
  <1>2. Rate[b] * (clock - t) \in Nat
    BY <1>1, ProductTyped
  <1>3. Unit * (passed[b] - passedAt[b][t]) \in Int
    BY <1>1, OneMore
  <1>4. CASE b \in made /\ t <= last[b]
    <2>1. tokens[b] + Unit * (passed[b] - passedAt[b][t]) <= Full(b) + Rate[b] * (last[b] - t)
      BY <1>4 DEF LimiterInv, AllPaid, PaidUpTo
    <2>2. Rate[b] * (clock - last[b]) + Rate[b] * (last[b] - t) = Rate[b] * (clock - t)
      BY <1>1, Split
    <2>3. clock - last[b] \in Nat /\ last[b] - t \in Nat
      BY <1>1, <1>4
    <2>4. Rate[b] * (clock - last[b]) \in Nat /\ Rate[b] * (last[b] - t) \in Nat
      BY <1>1, <2>3, ProductTyped
    <2> QED BY <1>1, <1>2, <1>3, <2>1, <2>2, <2>4
  <1>5. CASE ~(b \in made /\ t <= last[b])
    <2>1. passedAt[b][t] = passed[b]
      BY <1>1, <1>5 DEF LimiterInv, AllPaid, PaidUpTo
    <2>2. Unit * (passed[b] - passedAt[b][t]) = 0
      <3>1. passed[b] - passedAt[b][t] = 0 /\ Unit \in Nat
        BY <1>1, <2>1
      <3>2. Unit * 0 = 0
        BY <3>1
      <3> QED BY <3>1, <3>2
    <2> QED BY <1>1, <1>2, <2>2
  <1> QED BY <1>4, <1>5

(***************************************************************************)
(* The limit counts as it should whatever the rates, the bursts and the    *)
(* time: no refusal takes a token, and what a bucket gains over its brim   *)
(* is lost (bucket.Allow).                                                 *)
(***************************************************************************)
THEOREM LimiterInvariance == LimiterSpec => []LimiterInv
  BY LimiterInitInv, LimiterStepInv, PTL DEF LimiterSpec

(***************************************************************************)
(* From the beginning of any tick on, a client sends no more requests to a *)
(* path than its burst and what its rate allows since (bucket.Allow).      *)
(***************************************************************************)
THEOREM RequestsWithinRate == LimiterSpec => []WithinRate
  BY LimiterInvariance, PaidIsWithinRate, PTL

-----------------------------------------------------------------------------
(* The accounts.                                                           *)

Roles == {"user", "admin"}
Account == [email : Emails, status : Statuses, role : Roles]
ApiKey == [user : Nat, scope : Scopes]

Requests ==
    {NoRequest}
    \cup [at : {"register"}, email : Emails]
    \cup [at : {"login"}, user : Nat]
    \cup [at : {"key"}, user : Nat, scope : Scopes]
    \cup [at : {"auth"}, user : Nat, scope : Scopes]
    \cup [at : {"admitted"}, user : Nat, role : Roles, scope : Scopes]
    \cup [at : {"patch"}, user : Nat, role : Roles]

AccountsTypeOK ==
    /\ ids \in Nat
    /\ DOMAIN users \in SUBSET (1..ids) /\ users \in [DOMAIN users -> Account]
    /\ usersByEmail \in [DOMAIN usersByEmail -> Nat]
    /\ apiKeys \in [DOMAIN apiKeys -> ApiKey]
    /\ request \in [Callers -> Requests]

(* Every account is found by its email.                                    *)
EmailFinds ==
    \A id \in DOMAIN users :
        /\ users[id].email \in DOMAIN usersByEmail
        /\ usersByEmail[users[id].email] = id

AccountsInv == AccountsTypeOK /\ EmailFinds

-----------------------------------------------------------------------------
LEMMA WithoutTyped ==
    ASSUME NEW T, NEW f, f \in [DOMAIN f -> T], NEW S
    PROVE  /\ Without(f, S) \in [DOMAIN f \ S -> T]
           /\ DOMAIN Without(f, S) = DOMAIN f \ S
           /\ \A y \in DOMAIN f \ S : Without(f, S)[y] = f[y]
  BY DEF Without

LEMMA TurnsTyped ==
    ASSUME AccountsTypeOK, NEW c \in Callers, NEW r \in Requests, Turns(c, r)
    PROVE  request' \in [Callers -> Requests]
  BY DEF AccountsTypeOK, Turns

(* What a request knows where it waits.                                    *)
LEMMA RequestTyped ==
    ASSUME AccountsTypeOK, NEW c \in Callers
    PROVE  /\ request[c].at = "register" => request[c].email \in Emails
           /\ request[c].at \in {"login", "key", "auth", "admitted", "patch"} => request[c].user \in Nat
           /\ request[c].at \in {"key", "auth", "admitted"} => request[c].scope \in Scopes
           /\ request[c].at \in {"admitted", "patch"} => request[c].role \in Roles
  BY DEF AccountsTypeOK, Requests, NoRequest

(* A step that leaves the accounts alone and puts well-typed keys and      *)
(* requests in their places keeps the invariant.                           *)
LEMMA AccountsAlone ==
    ASSUME AccountsInv, UNCHANGED <<users, usersByEmail>>,
           ids' \in Nat, ids <= ids',
           apiKeys' \in [DOMAIN apiKeys' -> ApiKey], request' \in [Callers -> Requests]
    PROVE  AccountsInv'
  BY DEF AccountsInv, AccountsTypeOK, EmailFinds

LEMMA OnlyTurns ==
    ASSUME AccountsInv, NEW c \in Callers, NEW r \in Requests, Turns(c, r),
           UNCHANGED <<users, usersByEmail, apiKeys, ids>>
    PROVE  AccountsInv'
  <1>1. ids' \in Nat /\ ids <= ids' /\ apiKeys' \in [DOMAIN apiKeys' -> ApiKey]
    BY DEF AccountsInv, AccountsTypeOK
  <1>2. request' \in [Callers -> Requests]
    BY TurnsTyped DEF AccountsInv
  <1> QED BY <1>1, <1>2, AccountsAlone

-----------------------------------------------------------------------------
(* The steps that touch no account.                                        *)

LEMMA AskingKeeps ==
    ASSUME AccountsInv, NEW c \in Callers,
           \/ \E email \in Emails : Register(c, email) \/ Login(c, email)
           \/ LoginKey(c) \/ Leave(c)
           \/ \E k \in DOMAIN apiKeys : WithKey(c, k)
           \/ \E scope \in Scopes : Auth(c, scope) \/ WithAdminToken(c, scope) \/ CreateKey(c, scope)
           \/ \E id \in DOMAIN users, scope \in Scopes : CreateUserKey(c, id, scope)
    PROVE  AccountsInv'
  <1> USE DEF AccountsInv
  <1>a. NoRequest \in Requests
    BY DEF Requests
  <1>1. ASSUME NEW email \in Emails, Register(c, email) PROVE AccountsInv'
    <2>1. [at |-> "register", email |-> email] \in Requests
      BY DEF Requests
    <2> QED BY <1>1, <2>1, OnlyTurns DEF Register
  <1>2. ASSUME NEW email \in Emails, Login(c, email) PROVE AccountsInv'
    <2>1. PICK id \in DOMAIN users : Turns(c, [at |-> "login", user |-> id])
      BY <1>2 DEF Login, GetUserByEmail
    <2>2. id \in Nat
      BY <2>1 DEF AccountsTypeOK
    <2>3. [at |-> "login", user |-> id] \in Requests
      BY <2>2 DEF Requests
    <2> QED BY <1>2, <2>1, <2>3, OnlyTurns DEF Login
  <1>3. CASE LoginKey(c)
    <2>1. request[c].user \in Nat
      BY <1>3, RequestTyped DEF LoginKey
    <2>2. [at |-> "key", user |-> request[c].user, scope |-> "mcp:read"] \in Requests
      BY <2>1 DEF Requests, Scopes
    <2>3. PICK r \in Requests : Turns(c, r)
      BY <1>a, <1>3, <2>2 DEF LoginKey
    <2> QED BY <1>3, <2>3, OnlyTurns DEF LoginKey
  <1>4. CASE Leave(c)
    BY <1>a, <1>4, OnlyTurns DEF Leave
  <1>5. ASSUME NEW k \in DOMAIN apiKeys, WithKey(c, k) PROVE AccountsInv'
    <2>1. apiKeys[k].user \in Nat /\ apiKeys[k].scope \in Scopes
      BY DEF AccountsTypeOK, ApiKey
    <2>2. [at |-> "auth", user |-> apiKeys[k].user, scope |-> apiKeys[k].scope] \in Requests
      BY <2>1 DEF Requests
    <2> QED BY <1>5, <2>2, OnlyTurns DEF WithKey
  <1>6. ASSUME NEW id \in Nat, NEW role \in Roles, NEW scope \in Scopes
        PROVE  [at |-> "admitted", user |-> id, role |-> role, scope |-> scope] \in Requests
    BY DEF Requests
  <1>7. ASSUME NEW id \in Nat, NEW scope \in Scopes
        PROVE  [at |-> "key", user |-> id, scope |-> scope] \in Requests
    BY DEF Requests
  <1>8. ASSUME NEW scope \in Scopes, Auth(c, scope) PROVE AccountsInv'
    <2>1. request[c].user \in Nat
      BY <1>8, RequestTyped DEF Auth
    <2>2. request[c].user \in DOMAIN users => users[request[c].user].role \in Roles
      BY DEF AccountsTypeOK, Account
    <2>3. PICK r \in Requests : Turns(c, r)
      BY <1>a, <1>6, <1>8, <2>1, <2>2 DEF Auth, Admitted
    <2> QED BY <1>8, <2>3, OnlyTurns DEF Auth
  <1>9. ASSUME NEW scope \in Scopes, WithAdminToken(c, scope) PROVE AccountsInv'
    <2>1. [at |-> "admitted", user |-> 0, role |-> "admin", scope |-> scope] \in Requests
      BY <1>6 DEF Roles
    <2> QED BY <1>9, <2>1, OnlyTurns DEF WithAdminToken, Admitted
  <1>10. ASSUME NEW scope \in Scopes, CreateKey(c, scope) PROVE AccountsInv'
    <2>1. request[c].user \in Nat
      BY <1>10, RequestTyped DEF CreateKey, Served
    <2> QED BY <1>7, <1>10, <2>1, OnlyTurns DEF CreateKey
  <1>11. ASSUME NEW id \in DOMAIN users, NEW scope \in Scopes, CreateUserKey(c, id, scope)
         PROVE  AccountsInv'
    <2>1. id \in Nat
      BY DEF AccountsTypeOK
    <2> QED BY <1>7, <1>11, <2>1, OnlyTurns DEF CreateUserKey
  <1> QED BY <1>1, <1>2, <1>3, <1>4, <1>5, <1>8, <1>9, <1>10, <1>11

LEMMA KeysKeep ==
    ASSUME AccountsInv, NEW c \in Callers,
           \/ CreateApiKey(c)
           \/ \E k \in DOMAIN apiKeys, id \in Nat : DeleteApiKey(c, k, id)
    PROVE  AccountsInv'
  <1>1. NoRequest \in Requests /\ ids \in Nat /\ AccountsTypeOK
    BY DEF Requests, AccountsInv, AccountsTypeOK
  <1>2. CASE CreateApiKey(c)
    <2>1. [user |-> request[c].user, scope |-> request[c].scope] \in ApiKey
      BY <1>1, <1>2, RequestTyped DEF CreateApiKey, ApiKey
    <2>2. apiKeys' \in [DOMAIN apiKeys' -> ApiKey]
      BY <1>1, <1>2, <2>1 DEF CreateApiKey, AccountsTypeOK, With
    <2>3. request' \in [Callers -> Requests]
      BY <1>1, <1>2, TurnsTyped DEF CreateApiKey
    <2> QED BY <1>1, <1>2, <2>2, <2>3, AccountsAlone DEF CreateApiKey
  <1>3. ASSUME NEW k \in DOMAIN apiKeys, NEW id \in Nat, DeleteApiKey(c, k, id)
        PROVE  AccountsInv'
    <2>1. apiKeys' \in [DOMAIN apiKeys' -> ApiKey]
      BY <1>1, <1>3, WithoutTyped DEF DeleteApiKey, AccountsTypeOK
    <2>2. request' \in [Callers -> Requests]
      BY <1>1, <1>3, TurnsTyped DEF DeleteApiKey
    <2> QED BY <1>1, <1>3, <2>1, <2>2, AccountsAlone DEF DeleteApiKey
  <1> QED BY <1>2, <1>3

-----------------------------------------------------------------------------
(* The steps that write accounts.                                          *)

(* Status and role may be anything; the emails stay whose they are.        *)
LEMMA Rewriting ==
    ASSUME AccountsInv, UNCHANGED <<usersByEmail, apiKeys, ids>>,
           DOMAIN users' = DOMAIN users, users' \in [DOMAIN users -> Account],
           \A id \in DOMAIN users : users'[id].email = users[id].email,
           request' \in [Callers -> Requests]
    PROVE  AccountsInv'
  BY DEF AccountsInv, AccountsTypeOK, EmailFinds

LEMMA CreateUserKeeps ==
    ASSUME AccountsInv, NEW c \in Callers, CreateUser(c)
    PROVE  AccountsInv'
  <1> DEFINE email == request[c].email
             new == [email |-> email, status |-> "pending", role |-> "user"]
  <1>1. AccountsTypeOK /\ EmailFinds /\ NoRequest \in Requests /\ ids \in Nat
    BY DEF AccountsInv, AccountsTypeOK, Requests
  <1>2. email \in Emails
    BY <1>1, RequestTyped DEF CreateUser
  <1>3. new \in Account
    BY <1>2 DEF Account, Statuses, Roles
  <1>4. request' \in [Callers -> Requests]
    BY <1>1, TurnsTyped DEF CreateUser
  <1>5. CASE MayCreate(email)
    <2>1. /\ ids' = ids + 1 /\ apiKeys' = apiKeys
          /\ users' = With(users, ids + 1, new)
          /\ usersByEmail' = With(usersByEmail, email, ids + 1)
      BY <1>5 DEF CreateUser
    <2>2. ids + 1 \notin DOMAIN users /\ ids + 1 \in Nat
      BY <1>1 DEF AccountsTypeOK
    <2>3. /\ users' \in [DOMAIN users \cup {ids + 1} -> Account]
          /\ DOMAIN users' = DOMAIN users \cup {ids + 1}
          /\ users'[ids + 1] = new
          /\ \A id \in DOMAIN users : users'[id] = users[id]
      <3> HIDE DEF new
      <3>1. users \in [DOMAIN users -> Account]
        BY <1>1 DEF AccountsTypeOK
      <3> QED BY <1>3, <2>1, <2>2, <3>1 DEF With
    <2>4. /\ usersByEmail' \in [DOMAIN usersByEmail \cup {email} -> Nat]
          /\ DOMAIN usersByEmail' = DOMAIN usersByEmail \cup {email}
          /\ usersByEmail'[email] = ids + 1
          /\ \A e \in DOMAIN usersByEmail : e # email => usersByEmail'[e] = usersByEmail[e]
      <3> HIDE DEF email
      <3>1. usersByEmail \in [DOMAIN usersByEmail -> Nat]
        BY <1>1 DEF AccountsTypeOK
      <3> QED BY <2>1, <2>2, <3>1 DEF With
    <2>5. AccountsTypeOK'
      BY <1>1, <1>4, <2>1, <2>3, <2>4 DEF AccountsTypeOK
    <2>6. EmailFinds'
      <3>1. ASSUME NEW id \in DOMAIN users
            PROVE  users'[id].email \in DOMAIN usersByEmail' /\ usersByEmail'[users'[id].email] = id
        BY <1>1, <1>5, <2>3, <2>4 DEF EmailFinds, MayCreate
      <3>2. users'[ids + 1].email = email
        BY <2>3
      <3> QED BY <2>3, <2>4, <3>1, <3>2 DEF EmailFinds
    <2> QED BY <2>5, <2>6 DEF AccountsInv
  <1>6. CASE ~MayCreate(email)
    <2>1. UNCHANGED <<users, usersByEmail, ids, apiKeys>>
      BY <1>6 DEF CreateUser
    <2> QED BY <1>1, <1>4, <2>1, AccountsAlone DEF AccountsTypeOK
  <1> QED BY <1>5, <1>6

LEMMA ModeratingKeeps ==
    ASSUME AccountsInv, NEW c \in Callers, NEW id \in DOMAIN users, NEW status \in Statuses,
           ModerateUser(c, id, status) \/ \E role \in Roles : PatchStatus(c, id, status, role)
    PROVE  AccountsInv'
  <1>1. AccountsTypeOK /\ NoRequest \in Requests /\ id \in Nat
    BY DEF AccountsInv, AccountsTypeOK, Requests
  <1>2. users' = [users EXCEPT ![id].status = status] /\ UNCHANGED <<usersByEmail, apiKeys, ids>>
    BY DEF ModerateUser, PatchStatus
  <1>3. /\ DOMAIN users' = DOMAIN users /\ users' \in [DOMAIN users -> Account]
        /\ \A u \in DOMAIN users : users'[u].email = users[u].email
    BY <1>1, <1>2 DEF AccountsTypeOK, Account
  <1>4. ASSUME NEW role \in Roles
        PROVE  [at |-> "patch", user |-> id, role |-> role] \in Requests
    BY <1>1 DEF Requests
  <1>5. PICK r \in Requests : Turns(c, r)
    BY <1>1, <1>4 DEF ModerateUser, PatchStatus
  <1>6. request' \in [Callers -> Requests]
    BY <1>1, <1>5, TurnsTyped
  <1> QED BY <1>2, <1>3, <1>6, Rewriting

LEMMA PatchRoleKeeps ==
    ASSUME AccountsInv, NEW c \in Callers, PatchRole(c)
    PROVE  AccountsInv'
  <1>1. AccountsTypeOK /\ NoRequest \in Requests
    BY DEF AccountsInv, Requests
  <1>2. request[c].role \in Roles
    BY <1>1, RequestTyped DEF PatchRole
  <1>3. /\ DOMAIN users' = DOMAIN users /\ users' \in [DOMAIN users -> Account]
        /\ \A u \in DOMAIN users : users'[u].email = users[u].email
    BY <1>1, <1>2 DEF PatchRole, AccountsTypeOK, Account
  <1>4. request' \in [Callers -> Requests]
    BY <1>1, TurnsTyped DEF PatchRole
  <1> QED BY <1>3, <1>4, Rewriting DEF PatchRole

LEMMA DeleteUserKeeps ==
    ASSUME AccountsInv, NEW c \in Callers, NEW id \in DOMAIN users, DeleteUser(c, id)
    PROVE  AccountsInv'
  <1> DEFINE email == users[id].email
  <1>1. AccountsTypeOK /\ EmailFinds /\ NoRequest \in Requests
    BY DEF AccountsInv, Requests
  <1>2. /\ users' = Without(users, {id}) /\ usersByEmail' = Without(usersByEmail, {email})
        /\ apiKeys' = Without(apiKeys, KeysOf(id)) /\ ids' = ids
    BY DEF DeleteUser
  <1>3. /\ users' \in [DOMAIN users \ {id} -> Account] /\ DOMAIN users' = DOMAIN users \ {id}
        /\ \A u \in DOMAIN users \ {id} : users'[u] = users[u]
    BY <1>1, <1>2, WithoutTyped DEF AccountsTypeOK
  <1>4. /\ usersByEmail' \in [DOMAIN usersByEmail \ {email} -> Nat]
        /\ DOMAIN usersByEmail' = DOMAIN usersByEmail \ {email}
        /\ \A e \in DOMAIN usersByEmail \ {email} : usersByEmail'[e] = usersByEmail[e]
    <2> HIDE DEF email
    <2> QED BY <1>1, <1>2 DEF AccountsTypeOK, Without
  <1>5. apiKeys' \in [DOMAIN apiKeys' -> ApiKey]
    BY <1>1, <1>2, WithoutTyped DEF AccountsTypeOK
  <1>6. request' \in [Callers -> Requests]
    BY <1>1, TurnsTyped DEF DeleteUser
  <1>7. AccountsTypeOK'
    BY <1>1, <1>2, <1>3, <1>4, <1>5, <1>6 DEF AccountsTypeOK
  <1>8. EmailFinds'
    <2>1. ASSUME NEW u \in DOMAIN users \ {id}
          PROVE  users[u].email \in DOMAIN usersByEmail \ {email} /\ usersByEmail[users[u].email] = u
      BY <1>1 DEF EmailFinds
    <2> QED BY <1>3, <1>4, <2>1 DEF EmailFinds
  <1> QED BY <1>7, <1>8 DEF AccountsInv

-----------------------------------------------------------------------------
LEMMA AccountsInitInv == AccountsInit => AccountsInv
  BY DEF AccountsInit, AccountsInv, AccountsTypeOK, EmailFinds, Requests

LEMMA AccountsStepInv == AccountsInv /\ [AccountsNext]_accountVars => AccountsInv'
  <1> SUFFICES ASSUME AccountsInv, [AccountsNext]_accountVars PROVE AccountsInv'
    OBVIOUS
  <1>1. ASSUME NEW c \in Callers, Handle(c) PROVE AccountsInv'
    <2>1. AccountsTypeOK
      BY DEF AccountsInv
    <2>2. CASE CreateUser(c)
      BY <2>2, CreateUserKeeps
    <2>3. CASE LoginKey(c) \/ Leave(c)
      BY <2>3, AskingKeeps
    <2>4. CASE CreateApiKey(c)
      BY <2>4, KeysKeep
    <2>5. CASE PatchRole(c)
      BY <2>5, PatchRoleKeeps
    <2>6. CASE \E email \in Emails : Register(c, email) \/ Login(c, email)
      BY <2>6, AskingKeeps
    <2>7. CASE \E k \in DOMAIN apiKeys : WithKey(c, k) \/ DeleteKey(c, k)
      <3>1. ASSUME NEW k \in DOMAIN apiKeys, DeleteKey(c, k) PROVE AccountsInv'
        <4>1. request[c].user \in Nat
          BY <2>1, <3>1, RequestTyped DEF DeleteKey, Served
        <4> QED BY <3>1, <4>1, KeysKeep DEF DeleteKey
      <3> QED BY <2>7, <3>1, AskingKeeps
    <2>8. CASE \E scope \in Scopes : Auth(c, scope) \/ WithAdminToken(c, scope) \/ CreateKey(c, scope)
      BY <2>8, AskingKeeps
    <2>9. ASSUME NEW id \in DOMAIN users,
                 \/ DeleteUser(c, id)
                 \/ \E k \in KeysOf(id) : DeleteUserKey(c, k, id)
                 \/ \E scope \in Scopes : CreateUserKey(c, id, scope)
                 \/ \E status \in Statuses :
                     \/ ModerateUser(c, id, status)
                     \/ \E role \in Roles : PatchStatus(c, id, status, role)
          PROVE  AccountsInv'
      <3>1. CASE DeleteUser(c, id)
        BY <3>1, DeleteUserKeeps
      <3>2. CASE \E k \in KeysOf(id) : DeleteUserKey(c, k, id)
        <4>1. id \in Nat
          BY <2>1 DEF AccountsTypeOK
        <4> QED BY <3>2, <4>1, KeysKeep DEF DeleteUserKey, KeysOf
      <3>3. CASE \E scope \in Scopes : CreateUserKey(c, id, scope)
        BY <3>3, AskingKeeps
      <3>4. CASE \E status \in Statuses :
                     \/ ModerateUser(c, id, status)
                     \/ \E role \in Roles : PatchStatus(c, id, status, role)
        BY <3>4, ModeratingKeeps
      <3> QED BY <2>9, <3>1, <3>2, <3>3, <3>4
    <2> QED BY <1>1, <2>2, <2>3, <2>4, <2>5, <2>6, <2>7, <2>8, <2>9 DEF Handle, Roles
  <1>2. CASE UNCHANGED accountVars
    BY <1>2 DEF accountVars, AccountsInv, AccountsTypeOK, EmailFinds
  <1> QED BY <1>1, <1>2 DEF AccountsNext

LEMMA FoundIsOwn == AccountsInv => EmailsAreOwn
  BY DEF AccountsInv, EmailFinds, EmailsAreOwn, GetUserByEmail

(***************************************************************************)
(* The accounts, their keys and the requests about them are of their types *)
(* and every account is found by its email (MemoryStore.CreateUser,        *)
(* DeleteUser, UpdateUserStatus).                                          *)
(***************************************************************************)
THEOREM AccountsInvariance == AccountsSpec => []AccountsInv
  BY AccountsInitInv, AccountsStepInv, PTL DEF AccountsSpec

(***************************************************************************)
(* However many register, are moderated and are deleted side by side, an   *)
(* email finds the account that has it, and there is one (handleRegister). *)
(***************************************************************************)
THEOREM AccountsAreByEmail == AccountsSpec => []EmailsAreOwn
  BY AccountsInvariance, FoundIsOwn, PTL
==============================================================================
