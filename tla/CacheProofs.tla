----------------------------- MODULE CacheProofs -----------------------------
(***************************************************************************)
(* What is proved of the two caches, of places (GeocodeCache) and of the   *)
(* network (NetworkCache): one call for what lives, and rides of one       *)
(* edition, for any number of callers, keys, trips and writes.             *)
(***************************************************************************)
EXTENDS GeocodeCache, NetworkCache, FiniteSetTheorems, TLAPS

Found == [at : Nat, seed : BOOLEAN, verified : BOOLEAN]
Asking == [at : {"lock", "look", "pay", "call", "keep"}, key : Keys, alive : BOOLEAN, tries : Nat]

GeocodeTypeOK ==
    /\ hour \in Nat /\ units \in Nat
    /\ entry \in [Keys -> SUBSET Found]
    /\ lock \in [Keys -> SUBSET Clients]
    /\ client \in [Clients -> {Idle} \cup Asking]
    /\ fetched \in [Keys -> Seq(Nat)]

(* Where a query's lock is held, and where it was found to be due.         *)
Locked == {"look", "pay", "call", "keep"}
Going == {"pay", "call", "keep"}

LastFetched(q) == fetched[q][Len(fetched[q])]

HoldsItsLock(c) ==
    client[c].at \in Locked /\ client[c].key \in Queries => lock[client[c].key] = {c}

(* What was fetched last no longer lives when it is fetched again.         *)
Due(q) == fetched[q] # <<>> => hour - LastFetched(q) >= TtlDisputed

GoesWhenDue(c) == client[c].at \in Going /\ client[c].key \in Queries => Due(client[c].key)

KeepsTheLast(q) ==
    fetched[q] # <<>> => entry[q] = {[at |-> LastFetched(q), seed |-> FALSE, verified |-> FALSE]}

Spaced(q) ==
    /\ \A i \in DOMAIN fetched[q] : fetched[q][i] <= hour
    /\ \A i, j \in DOMAIN fetched[q] : i < j => fetched[q][j] - fetched[q][i] >= TtlDisputed

GeocodeInv ==
    /\ GeocodeTypeOK
    /\ \A c \in Clients : HoldsItsLock(c) /\ GoesWhenDue(c)
    /\ \A q \in Queries : KeepsTheLast(q) /\ Spaced(q)

-----------------------------------------------------------------------------
LEMMA ConstantsTyped ==
    /\ TtlDisputed \in Nat \ {0} /\ Attempts \in Nat
    /\ \A q \in Queries : q \in Keys /\ q \notin Surroundings
    /\ \A k \in Surroundings : k \in Keys /\ k \notin Queries
  BY GeocodeCacheAssumption DEF Keys

(* What is not fresh was fetched long enough ago.                          *)
LEMMA NotFreshIsDue ==
    ASSUME GeocodeInv, NEW q \in Queries, ~Lives(q)
    PROVE  Due(q)
  <1> SUFFICES ASSUME fetched[q] # <<>> PROVE hour - LastFetched(q) >= TtlDisputed
    BY DEF Due
  <1> DEFINE e == [at |-> LastFetched(q), seed |-> FALSE, verified |-> FALSE]
  <1>1. e \in entry[q]
    BY DEF GeocodeInv, KeepsTheLast
  <1>2. e.at = LastFetched(q) /\ TtlFor(e) = TtlDisputed
    BY DEF TtlFor
  <1>3. ~(hour - e.at < TtlFor(e))
    BY <1>1, ConstantsTyped DEF Lives
  <1>4. LastFetched(q) \in Nat /\ hour \in Nat
    BY ConstantsTyped DEF GeocodeInv, GeocodeTypeOK, LastFetched
  <1> QED BY <1>2, <1>3, <1>4, ConstantsTyped

(* One caller moves, and no lock changes but what was nobody's or its own. *)
LEMMA Moving ==
    ASSUME GeocodeInv, NEW c \in Clients, NEW x \in {Idle} \cup Asking,
           UNCHANGED <<hour, entry, fetched>>, units' \in Nat,
           client' = [client EXCEPT ![c] = x],
           lock' \in [Keys -> SUBSET Clients],
           \A q \in Queries : lock'[q] = lock[q] \/ lock[q] = {} \/ lock[q] = {c},
           x.at \in Locked /\ x.key \in Queries => lock'[x.key] = {c},
           x.at \in Going /\ x.key \in Queries => Due(x.key)
    PROVE  GeocodeInv'
  <1>1. GeocodeTypeOK'
    BY DEF GeocodeInv, GeocodeTypeOK
  <1>2. ASSUME NEW d \in Clients PROVE HoldsItsLock(d)' /\ GoesWhenDue(d)'
    <2>1. CASE d = c
      <3>1. client'[d] = x
        BY <2>1 DEF GeocodeInv, GeocodeTypeOK
      <3> QED BY <2>1, <3>1 DEF HoldsItsLock, GoesWhenDue, Due, LastFetched
    <2>2. CASE d # c
      <3>1. client'[d] = client[d]
        BY <2>2 DEF GeocodeInv, GeocodeTypeOK
      <3>2. HoldsItsLock(d) /\ GoesWhenDue(d)
        BY DEF GeocodeInv
      <3>3. GoesWhenDue(d)'
        BY <3>1, <3>2 DEF GoesWhenDue, Due, LastFetched
      <3>4. ASSUME client[d].at \in Locked, client[d].key \in Queries
            PROVE  lock'[client[d].key] = {d}
        <4>1. lock[client[d].key] = {d} /\ client[d].key \in Keys
          BY <3>2, <3>4, ConstantsTyped DEF HoldsItsLock
        <4>2. {d} # {} /\ {d} # {c}
          BY <2>2
        <4> QED BY <3>4, <4>1, <4>2
      <3> QED BY <3>1, <3>3, <3>4 DEF HoldsItsLock
    <2> QED BY <2>1, <2>2
  <1>3. \A q \in Queries : KeepsTheLast(q)' /\ Spaced(q)'
    BY DEF GeocodeInv, KeepsTheLast, Spaced, LastFetched
  <1> QED BY <1>1, <1>2, <1>3 DEF GeocodeInv

(* The same where the caller lets go, and is served or refused.            *)
LEMMA Releasing ==
    ASSUME GeocodeInv, NEW c \in Clients, client[c].at \in Locked, Release(c),
           UNCHANGED <<hour, entry, fetched>>, units' \in Nat
    PROVE  GeocodeInv'
  <1> DEFINE k == client[c].key
  <1>1. client[c] \in Asking
    BY DEF GeocodeInv, GeocodeTypeOK, Locked, Idle
  <1>2. k \in Keys
    BY <1>1 DEF Asking
  <1>3. lock' = [lock EXCEPT ![k] = @ \ {c}] /\ client' = [client EXCEPT ![c] = Idle]
    BY DEF Release
  <1>4. lock' \in [Keys -> SUBSET Clients]
    BY <1>3 DEF GeocodeInv, GeocodeTypeOK
  <1>5. ASSUME NEW q \in Queries PROVE lock'[q] = lock[q] \/ lock[q] = {} \/ lock[q] = {c}
    <2>1. CASE q = k
      BY <2>1 DEF GeocodeInv, HoldsItsLock
    <2>2. CASE q # k
      BY <1>2, <1>3, <2>2, ConstantsTyped DEF GeocodeInv, GeocodeTypeOK
    <2> QED BY <2>1, <2>2
  <1>6. Idle.at \notin Locked /\ Idle.at \notin Going
    BY DEF Idle, Locked, Going
  <1> QED BY <1>3, <1>4, <1>5, <1>6, Moving

(* Going on with what is asked for, without a word about locks.            *)
LEMMA GoingOn ==
    ASSUME GeocodeInv, NEW c \in Clients, client[c].at \in Going,
           NEW at \in Going, NEW tries \in Nat,
           client' = [client EXCEPT ![c] = [client[c] EXCEPT !.at = at, !.tries = tries]],
           UNCHANGED <<hour, entry, fetched, lock>>, units' \in Nat
    PROVE  GeocodeInv'
  <1> DEFINE x == [client[c] EXCEPT !.at = at, !.tries = tries]
  <1>1. client[c] \in Asking
    BY DEF GeocodeInv, GeocodeTypeOK, Going, Idle
  <1>2. x \in Asking /\ x.at = at /\ x.key = client[c].key
    BY <1>1 DEF Asking, Going
  <1>3. client[c].at \in Locked /\ at \in Locked
    BY DEF Locked, Going
  <1>4. x.at \in Locked /\ x.key \in Queries => lock'[x.key] = {c}
    BY <1>2, <1>3 DEF GeocodeInv, HoldsItsLock
  <1>5. x.at \in Going /\ x.key \in Queries => Due(x.key)
    BY <1>2 DEF GeocodeInv, GoesWhenDue
  <1>6. lock' \in [Keys -> SUBSET Clients]
    BY DEF GeocodeInv, GeocodeTypeOK
  <1> HIDE DEF x
  <1>7. client' = [client EXCEPT ![c] = x]
    BY DEF x
  <1> QED BY <1>2, <1>4, <1>5, <1>6, <1>7, Moving

-----------------------------------------------------------------------------
LEMMA GeocodeInitInv == GeocodeInit => GeocodeInv
  <1> SUFFICES ASSUME GeocodeInit PROVE GeocodeInv
    OBVIOUS
  <1>1. GeocodeTypeOK
    <2>1. [at |-> 0, seed |-> TRUE, verified |-> FALSE] \in Found
      BY DEF Found
    <2>2. entry \in [Keys -> SUBSET Found]
      BY <2>1 DEF GeocodeInit, NoEntry
    <2> QED BY <2>2, GeocodeCacheAssumption DEF GeocodeInit, GeocodeTypeOK
  <1>2. \A c \in Clients : client[c].at = "idle"
    BY DEF GeocodeInit, Idle
  <1>3. \A c \in Clients : HoldsItsLock(c) /\ GoesWhenDue(c)
    BY <1>2 DEF HoldsItsLock, GoesWhenDue, Locked, Going
  <1>4. \A q \in Queries : fetched[q] = <<>>
    BY ConstantsTyped DEF GeocodeInit
  <1>5. \A q \in Queries : KeepsTheLast(q) /\ Spaced(q)
    BY <1>4 DEF KeepsTheLast, Spaced
  <1> QED BY <1>1, <1>3, <1>5 DEF GeocodeInv

LEMMA HourKeeps == ASSUME GeocodeInv, HourPasses PROVE GeocodeInv'
  <1>1. /\ hour \in Nat /\ hour' = hour + 1
        /\ UNCHANGED <<entry, lock, client, units, fetched>>
    BY DEF HourPasses, GeocodeInv, GeocodeTypeOK
  <1>2. GeocodeTypeOK'
    BY <1>1 DEF GeocodeInv, GeocodeTypeOK
  <1>3. ASSUME NEW q \in Queries, Due(q) PROVE Due(q)'
    <2>1. fetched[q] # <<>> => LastFetched(q) \in Nat
      BY ConstantsTyped DEF GeocodeInv, GeocodeTypeOK, LastFetched
    <2>2. LastFetched(q)' = LastFetched(q)
      BY <1>1 DEF LastFetched
    <2> QED BY <1>1, <1>3, <2>1, <2>2, ConstantsTyped DEF Due
  <1>4. \A c \in Clients : HoldsItsLock(c)' /\ GoesWhenDue(c)'
    BY <1>1, <1>3 DEF GeocodeInv, HoldsItsLock, GoesWhenDue
  <1>5. ASSUME NEW q \in Queries PROVE KeepsTheLast(q)' /\ Spaced(q)'
    <2>1. fetched[q] \in Seq(Nat)
      BY ConstantsTyped DEF GeocodeInv, GeocodeTypeOK
    <2>2. \A i \in DOMAIN fetched[q] : fetched[q][i] \in Nat
      BY <2>1
    <2> QED BY <1>1, <2>2 DEF GeocodeInv, KeepsTheLast, Spaced, LastFetched
  <1> QED BY <1>2, <1>4, <1>5 DEF GeocodeInv

LEMMA AskKeeps ==
    ASSUME GeocodeInv, NEW c \in Clients, NEW k \in Keys, AskFor(c, k)
    PROVE  GeocodeInv'
  <1> DEFINE at == IF k \in Surroundings THEN "pay" ELSE "lock"
             asks == [at |-> at, key |-> k, alive |-> TRUE, tries |-> 0]
             x == IF Lives(k) THEN Idle ELSE asks
  <1>1. asks \in Asking
    BY DEF Asking
  <1>2. x.at \in Locked => x.key \notin Queries
    BY ConstantsTyped DEF Locked, Idle
  <1>3. x.at \in Going => x.at \in Locked
    BY DEF Going, Locked
  <1>4. /\ UNCHANGED <<hour, entry, fetched, lock>> /\ units' \in Nat
        /\ lock' \in [Keys -> SUBSET Clients]
    BY DEF AskFor, GeocodeInv, GeocodeTypeOK
  <1>5. client' = [client EXCEPT ![c] = x]
    BY DEF AskFor
  <1>6. x \in {Idle} \cup Asking
    BY <1>1
  <1> HIDE DEF x
  <1> QED BY <1>2, <1>3, <1>4, <1>5, <1>6, Moving

LEMMA CancelKeeps ==
    ASSUME GeocodeInv, NEW c \in Clients, Cancel(c)
    PROVE  GeocodeInv'
  <1> DEFINE x == [client[c] EXCEPT !.alive = FALSE]
  <1>1. client[c] \in Asking
    BY DEF Cancel, GeocodeInv, GeocodeTypeOK, Idle
  <1>2. x \in Asking /\ x.at = client[c].at /\ x.key = client[c].key
    BY <1>1 DEF Asking
  <1>3. /\ x.at \in Locked /\ x.key \in Queries => lock[x.key] = {c}
        /\ x.at \in Going /\ x.key \in Queries => Due(x.key)
    BY <1>2 DEF GeocodeInv, HoldsItsLock, GoesWhenDue
  <1>4. /\ UNCHANGED <<hour, entry, fetched, lock>> /\ units' \in Nat
        /\ lock' \in [Keys -> SUBSET Clients]
    BY DEF Cancel, GeocodeInv, GeocodeTypeOK
  <1>5. client' = [client EXCEPT ![c] = x]
    BY DEF Cancel
  <1> HIDE DEF x
  <1> QED BY <1>2, <1>3, <1>4, <1>5, Moving

LEMMA TakeLockKeeps ==
    ASSUME GeocodeInv, NEW c \in Clients, TakeLock(c)
    PROVE  GeocodeInv'
  <1> DEFINE x == [client[c] EXCEPT !.at = "look"]
  <1>1. client[c] \in Asking
    BY DEF TakeLock, GeocodeInv, GeocodeTypeOK, Idle
  <1>2. x \in Asking /\ x.at = "look" /\ x.key = client[c].key /\ x.key \in Keys
    BY <1>1 DEF Asking
  <1>3. /\ UNCHANGED <<hour, entry, fetched>> /\ units' \in Nat
        /\ lock[x.key] = {} /\ lock' = [lock EXCEPT ![x.key] = {c}]
        /\ client' = [client EXCEPT ![c] = x]
    BY <1>2 DEF TakeLock, Goes, GeocodeInv, GeocodeTypeOK
  <1> HIDE DEF x
  <1>4. lock' \in [Keys -> SUBSET Clients] /\ lock'[x.key] = {c}
    BY <1>2, <1>3 DEF GeocodeInv, GeocodeTypeOK
  <1>5. ASSUME NEW q \in Queries PROVE lock'[q] = lock[q] \/ lock[q] = {} \/ lock[q] = {c}
    BY <1>2, <1>3, ConstantsTyped DEF GeocodeInv, GeocodeTypeOK
  <1>6. x.at \notin Going
    BY <1>2 DEF Going
  <1> QED BY <1>2, <1>3, <1>4, <1>5, <1>6, Moving

LEMMA LookKeeps ==
    ASSUME GeocodeInv, NEW c \in Clients, LookAgain(c)
    PROVE  GeocodeInv'
  <1> DEFINE k == client[c].key
             x == [client[c] EXCEPT !.at = "pay"]
  <1>1. client[c] \in Asking /\ client[c].at = "look" /\ client[c].at \in Locked
    BY DEF LookAgain, GeocodeInv, GeocodeTypeOK, Idle, Locked
  <1>2. UNCHANGED <<hour, entry, fetched>> /\ units' \in Nat
    BY DEF LookAgain, GeocodeInv, GeocodeTypeOK
  <1>3. CASE Lives(k)
    BY <1>1, <1>2, <1>3, Releasing DEF LookAgain
  <1>4. CASE ~Lives(k)
    <2>1. x \in Asking /\ x.at = "pay" /\ x.key = k
      BY <1>1 DEF Asking
    <2>2. lock' = lock /\ client' = [client EXCEPT ![c] = x]
      BY <1>4 DEF LookAgain, Goes
    <2>3. lock' \in [Keys -> SUBSET Clients]
      BY <2>2 DEF GeocodeInv, GeocodeTypeOK
    <2>4. k \in Queries => Due(k) /\ lock[k] = {c}
      BY <1>1, <1>4, NotFreshIsDue DEF GeocodeInv, HoldsItsLock
    <2> HIDE DEF x
    <2> QED BY <1>2, <2>1, <2>2, <2>3, <2>4, Moving
  <1> QED BY <1>3, <1>4

LEMMA PayKeeps ==
    ASSUME GeocodeInv, NEW c \in Clients, Pay(c)
    PROVE  GeocodeInv'
  <1>1. /\ client[c].at = "pay" /\ client[c] \in Asking
        /\ client[c].at \in Going /\ client[c].at \in Locked
        /\ UNCHANGED <<hour, entry, fetched>>
    BY DEF Pay, GeocodeInv, GeocodeTypeOK, Idle, Going, Locked
  <1>2. units' \in Nat
    BY DEF Pay, GeocodeInv, GeocodeTypeOK
  <1>3. CASE Release(c)
    BY <1>1, <1>2, <1>3, Releasing
  <1>4. CASE Goes(c, "call") /\ UNCHANGED lock
    <2>1. client[c].tries \in Nat
      BY <1>1 DEF Asking
    <2>2. client' = [client EXCEPT ![c] = [client[c] EXCEPT !.at = "call", !.tries = client[c].tries]]
      BY <1>1, <1>4 DEF Goes, Asking
    <2> QED BY <1>1, <1>2, <1>4, <2>1, <2>2, GoingOn DEF Going
  <1> QED BY <1>3, <1>4 DEF Pay

LEMMA FailsKeeps ==
    ASSUME GeocodeInv, NEW c \in Clients, Fails(c)
    PROVE  GeocodeInv'
  <1>1. /\ client[c].at = "call" /\ client[c] \in Asking
        /\ client[c].at \in Going /\ client[c].at \in Locked
        /\ UNCHANGED <<hour, entry, fetched>> /\ units' \in Nat
    BY DEF Fails, GeocodeInv, GeocodeTypeOK, Idle, Going, Locked
  <1>2. CASE Release(c)
    BY <1>1, <1>2, Releasing
  <1>3. CASE client' = [client EXCEPT ![c].tries = @ + 1] /\ UNCHANGED lock
    <2>1. client[c].tries + 1 \in Nat
      BY <1>1 DEF Asking
    <2>2. client' = [client EXCEPT ![c] =
                        [client[c] EXCEPT !.at = "call", !.tries = client[c].tries + 1]]
      BY <1>1, <1>3 DEF Asking
    <2> QED BY <1>1, <1>3, <2>1, <2>2, GoingOn DEF Going
  <1> QED BY <1>2, <1>3 DEF Fails

LEMMA AnswersKeeps ==
    ASSUME GeocodeInv, NEW c \in Clients, Answers(c)
    PROVE  GeocodeInv'
  <1>1. /\ client[c].at = "call" /\ client[c] \in Asking /\ client[c].at \in Going
        /\ UNCHANGED <<hour, entry, fetched, lock>> /\ units' \in Nat
    BY DEF Answers, GeocodeInv, GeocodeTypeOK, Idle, Going
  <1>2. client[c].tries \in Nat
    BY <1>1 DEF Asking
  <1>3. client' = [client EXCEPT ![c] = [client[c] EXCEPT !.at = "keep", !.tries = client[c].tries]]
    BY <1>1 DEF Answers, Goes, Asking
  <1> QED BY <1>1, <1>2, <1>3, GoingOn DEF Going

-----------------------------------------------------------------------------
(* What is kept comes after what was fetched before, and long enough.      *)
LEMMA AppendSpaced ==
    ASSUME NEW s \in Seq(Nat), NEW h \in Nat, NEW ttl \in Nat,
           \A i \in DOMAIN s : s[i] <= h,
           \A i, j \in DOMAIN s : i < j => s[j] - s[i] >= ttl,
           s # <<>> => h - s[Len(s)] >= ttl
    PROVE  LET t == Append(s, h)
           IN /\ t \in Seq(Nat) /\ t # <<>> /\ t[Len(t)] = h
              /\ \A i \in DOMAIN t : t[i] <= h
              /\ \A i, j \in DOMAIN t : i < j => t[j] - t[i] >= ttl
  <1> DEFINE t == Append(s, h)
  <1>1. /\ t \in Seq(Nat) /\ Len(t) = Len(s) + 1 /\ Len(s) \in Nat /\ t[Len(t)] = h
        /\ DOMAIN s = 1..Len(s) /\ DOMAIN t = 1..(Len(s) + 1)
        /\ \A i \in 1..Len(s) : t[i] = s[i] /\ s[i] \in Nat
    OBVIOUS
  <1>2. t # <<>>
    BY <1>1
  <1> HIDE DEF t
  <1>3. \A i \in DOMAIN s : h - s[i] >= ttl
    <2> SUFFICES ASSUME NEW i \in 1..Len(s) PROVE h - s[i] >= ttl
      BY <1>1
    <2>1. Len(s) \in 1..Len(s) /\ s # <<>>
      BY <1>1
    <2>2. h - s[Len(s)] >= ttl /\ s[i] \in Nat /\ s[Len(s)] \in Nat
      BY <1>1, <2>1
    <2>3. CASE i = Len(s)
      BY <2>2, <2>3
    <2>4. CASE i < Len(s)
      <3> DEFINE first == s[i]
                 final == s[Len(s)]
      <3>1. final - first >= ttl /\ h - final >= ttl /\ first \in Nat /\ final \in Nat
        BY <1>1, <2>1, <2>2, <2>4
      <3> HIDE DEF first, final
      <3>2. h - first >= ttl
        BY <3>1
      <3> QED BY <3>2 DEF first
    <2>5. i = Len(s) \/ i < Len(s)
      <3> DEFINE n == Len(s)
      <3>1. n \in Nat /\ i \in 1..n
        OBVIOUS
      <3> HIDE DEF n
      <3>2. i = n \/ i < n
        BY <3>1
      <3> QED BY <3>2 DEF n
    <2> QED BY <2>3, <2>4, <2>5
  <1>4. \A i \in DOMAIN t : t[i] <= h
    <2> SUFFICES ASSUME NEW i \in 1..(Len(s) + 1) PROVE t[i] <= h
      BY <1>1
    <2>1. CASE i = Len(s) + 1
      BY <1>1, <2>1
    <2>2. CASE i # Len(s) + 1
      <3>1. i \in DOMAIN s /\ t[i] = s[i]
        BY <1>1, <2>2
      <3> QED BY <3>1
    <2> QED BY <2>1, <2>2
  <1>5. ASSUME NEW i \in DOMAIN t, NEW j \in DOMAIN t, i < j PROVE t[j] - t[i] >= ttl
    <2>1. i \in 1..Len(s)
      BY <1>1, <1>5
    <2>2. CASE j = Len(s) + 1
      BY <1>1, <1>3, <2>1, <2>2
    <2>3. CASE j # Len(s) + 1
      <3>1. j \in 1..Len(s)
        BY <1>1, <2>3
      <3> QED BY <1>1, <1>5, <2>1, <3>1
    <2> QED BY <2>2, <2>3
  <1> QED BY <1>1, <1>2, <1>4, <1>5 DEF t

LEMMA KeepAnswerKeeps ==
    ASSUME GeocodeInv, NEW c \in Clients, KeepAnswer(c)
    PROVE  GeocodeInv'
  <1> DEFINE k == client[c].key
             new == [at |-> hour, seed |-> FALSE, verified |-> FALSE]
  <1>1. /\ client[c] \in Asking /\ client[c].at \in Locked /\ client[c].at \in Going
        /\ hour \in Nat /\ new \in Found
    BY DEF KeepAnswer, GeocodeInv, GeocodeTypeOK, Idle, Locked, Going, Found
  <1>2. k \in Keys
    BY <1>1 DEF Asking
  <1>3. /\ entry' = [entry EXCEPT ![k] = {new}]
        /\ fetched' = [fetched EXCEPT ![k] = Append(fetched[k], hour)]
        /\ lock' = [lock EXCEPT ![k] = lock[k] \ {c}]
        /\ client' = [client EXCEPT ![c] = Idle]
        /\ hour' = hour /\ units' = units
    BY DEF KeepAnswer, Release
  <1>4. fetched[k] \in Seq(Nat) /\ Append(fetched[k], hour) \in Seq(Nat)
    BY <1>1, <1>2 DEF GeocodeInv, GeocodeTypeOK
  <1> HIDE DEF new
  <1>5. GeocodeTypeOK'
    <2>1. client' \in [Clients -> {Idle} \cup Asking]
      BY <1>3 DEF GeocodeInv, GeocodeTypeOK
    <2>2. lock' \in [Keys -> SUBSET Clients] /\ entry' \in [Keys -> SUBSET Found]
      BY <1>1, <1>3 DEF GeocodeInv, GeocodeTypeOK
    <2>3. fetched' \in [Keys -> Seq(Nat)]
      BY <1>3, <1>4 DEF GeocodeInv, GeocodeTypeOK
    <2> QED BY <1>1, <1>3, <2>1, <2>2, <2>3 DEF GeocodeInv, GeocodeTypeOK
  <1>6. ASSUME NEW q \in Queries, q # k
        PROVE  fetched'[q] = fetched[q] /\ entry'[q] = entry[q] /\ lock'[q] = lock[q]
    BY <1>3, <1>6, ConstantsTyped DEF GeocodeInv, GeocodeTypeOK
  <1>7. ASSUME NEW d \in Clients PROVE HoldsItsLock(d)' /\ GoesWhenDue(d)'
    <2>1. CASE d = c
      <3>1. client'[d].at = "idle"
        BY <1>3, <2>1 DEF GeocodeInv, GeocodeTypeOK, Idle
      <3> QED BY <3>1 DEF HoldsItsLock, GoesWhenDue, Locked, Going
    <2>2. CASE d # c
      <3>1. client'[d] = client[d]
        BY <1>3, <2>2 DEF GeocodeInv, GeocodeTypeOK
      <3>2. HoldsItsLock(d) /\ GoesWhenDue(d) /\ HoldsItsLock(c)
        BY DEF GeocodeInv
      <3>3. ASSUME client[d].at \in Locked, client[d].key \in Queries PROVE client[d].key # k
        BY <1>1, <2>2, <3>2, <3>3 DEF HoldsItsLock
      <3>4. Going \subseteq Locked
        BY DEF Going, Locked
      <3>5. HoldsItsLock(d)'
        BY <1>6, <3>1, <3>2, <3>3 DEF HoldsItsLock
      <3>6. GoesWhenDue(d)'
        BY <1>3, <1>6, <3>1, <3>2, <3>3, <3>4 DEF GoesWhenDue, Due, LastFetched
      <3> QED BY <3>5, <3>6
    <2> QED BY <2>1, <2>2
  <1>8. ASSUME NEW q \in Queries PROVE KeepsTheLast(q)' /\ Spaced(q)'
    <2>1. CASE q = k
      <3> DEFINE s == fetched[k]
                 t == Append(s, hour)
      <3>1. fetched'[q] = t /\ entry'[q] = {new}
        BY <1>2, <1>3, <2>1 DEF GeocodeInv, GeocodeTypeOK
      <3>2. /\ \A i \in DOMAIN s : s[i] <= hour
            /\ \A i, j \in DOMAIN s : i < j => s[j] - s[i] >= TtlDisputed
        BY <2>1 DEF GeocodeInv, Spaced
      <3>3. s # <<>> => hour - s[Len(s)] >= TtlDisputed
        BY <1>1, <2>1 DEF GeocodeInv, GoesWhenDue, Due, LastFetched
      <3>4. TtlDisputed \in Nat
        BY ConstantsTyped
      <3>5. /\ t # <<>> /\ t[Len(t)] = hour
            /\ \A i \in DOMAIN t : t[i] <= hour
            /\ \A i, j \in DOMAIN t : i < j => t[j] - t[i] >= TtlDisputed
        BY <1>1, <1>4, <3>2, <3>3, <3>4, AppendSpaced
      <3> HIDE DEF t
      <3>6. KeepsTheLast(q)'
        BY <3>1, <3>5 DEF KeepsTheLast, LastFetched, new
      <3>7. Spaced(q)'
        BY <1>3, <3>1, <3>5 DEF Spaced
      <3> QED BY <3>6, <3>7
    <2>2. CASE q # k
      BY <1>3, <1>6, <2>2 DEF GeocodeInv, KeepsTheLast, Spaced, LastFetched
    <2> QED BY <2>1, <2>2
  <1> QED BY <1>5, <1>7, <1>8 DEF GeocodeInv

-----------------------------------------------------------------------------
LEMMA GeocodeStepInv == GeocodeInv /\ [GeocodeNext]_geocodeVars => GeocodeInv'
  <1> SUFFICES ASSUME GeocodeInv, [GeocodeNext]_geocodeVars PROVE GeocodeInv'
    OBVIOUS
  <1>1. CASE HourPasses
    BY <1>1, HourKeeps
  <1>2. ASSUME NEW c \in Clients, NEW k \in Keys, AskFor(c, k) PROVE GeocodeInv'
    BY <1>2, AskKeeps
  <1>3. ASSUME NEW c \in Clients, Cancel(c) \/ TakeLock(c) \/ LookAgain(c) \/ Pay(c)
        PROVE  GeocodeInv'
    BY <1>3, CancelKeeps, TakeLockKeeps, LookKeeps, PayKeeps
  <1>4. ASSUME NEW c \in Clients, Fails(c) \/ Answers(c) \/ KeepAnswer(c) PROVE GeocodeInv'
    BY <1>4, FailsKeeps, AnswersKeeps, KeepAnswerKeeps
  <1>5. CASE UNCHANGED geocodeVars
    BY <1>5 DEF geocodeVars, GeocodeInv, GeocodeTypeOK, HoldsItsLock, GoesWhenDue, Due,
                KeepsTheLast, Spaced, LastFetched
  <1> QED BY <1>1, <1>2, <1>3, <1>4, <1>5 DEF GeocodeNext

(***************************************************************************)
(* Whoever looks a query up at a provider holds its lock, and what was     *)
(* found before lives no longer; the cache has what was found last         *)
(* (CachedGeocoder.revalidate).                                            *)
(***************************************************************************)
THEOREM GeocodeInvariance == GeocodeSpec => []GeocodeInv
  BY GeocodeInitInv, GeocodeStepInv, PTL DEF GeocodeSpec

(***************************************************************************)
(* What was found for a query is not put into the cache again while it     *)
(* lives, however many ask for it at once and give up                      *)
(* (CachedGeocoder.revalidate).                                            *)
(***************************************************************************)
THEOREM OneCallWhileItLives == GeocodeSpec => []OneCallPerLife
  <1>1. GeocodeInv => OneCallPerLife
    BY DEF GeocodeInv, Spaced, OneCallPerLife
  <1> QED BY <1>1, GeocodeInvariance, PTL

-----------------------------------------------------------------------------
(* The network of a day.                                                   *)

(* Every ride of a network keeps to one edition of its trip.               *)
KeepsToEditions(rides) ==
    \A ride \in rides :
        ride.trip \in Trips /\ \E edition \in everHad[ride.trip] : Rides(ride.calls, edition)

RowsAreEditions ==
    /\ DOMAIN everHad = Trips /\ DOMAIN trips \subseteq Trips
    /\ \A t \in DOMAIN trips : trips[t].calls \in everHad[t]
    /\ \A t \in Trips : \A calls \in everHad[t] : calls \in Seq(Range(calls))

IdleFields == {"at", "told"}
LoadFields == {"at", "when", "alive", "stops", "routes", "trips", "told"}

ReaderTyped(r) ==
    /\ reader[r].at \in {"idle", "stops", "routes", "trips", "times", "keep"}
    /\ DOMAIN reader[r] = IF reader[r].at = "idle" THEN IdleFields ELSE LoadFields

ReadIsOfRows(r) == reader[r].at = "times" => DOMAIN reader[r].trips \subseteq DOMAIN trips

ReadKeepsToEditions(r) == reader[r].at = "keep" => KeepsToEditions(reader[r].trips)

ToldKeepsToEditions(r) ==
    \A told \in reader[r].told :
        told.net.key = DayKey(told.when) /\ KeepsToEditions(told.net.trips)

ReaderInvariant(r) ==
    ReaderTyped(r) /\ ReadIsOfRows(r) /\ ReadKeepsToEditions(r) /\ ToldKeepsToEditions(r)

(* At most one network is kept.                                            *)
KeptKeepsToEditions ==
    /\ \A net, other \in kept : net = other
    /\ \A net \in kept : KeepsToEditions(net.trips)

NetworkInvariant ==
    /\ RowsAreEditions
    /\ KeptKeepsToEditions
    /\ DOMAIN reader = Readers
    /\ \A r \in Readers : ReaderInvariant(r)

-----------------------------------------------------------------------------
(* A finite set of numbers has an n-th, for every n up to its size.        *)
LEMMA NthIsRanked ==
    ASSUME NEW P \in SUBSET Nat, IsFiniteSet(P), NEW n \in 1..Cardinality(P)
    PROVE  Nth(P, n) \in P /\ Cardinality({j \in P : j <= Nth(P, n)}) = n
<1> DEFINE upTo(i) == {j \in P : j <= i}
           rank == [i \in P |-> Cardinality(upTo(i))]
           places == 1..Cardinality(P)
<1>1. Cardinality(P) \in Nat
  BY FS_CardinalityType
<1>2. ASSUME NEW i \in P
      PROVE  IsFiniteSet(upTo(i)) /\ Cardinality(upTo(i)) \in places
  <2>1. upTo(i) \in SUBSET P /\ i \in upTo(i)
    OBVIOUS
  <2>2. IsFiniteSet(upTo(i)) /\ Cardinality(upTo(i)) <= Cardinality(P)
    BY <2>1, FS_Subset
  <2>3. Cardinality(upTo(i)) \in Nat /\ Cardinality(upTo(i)) # 0
    BY <2>1, <2>2, FS_CardinalityType, FS_EmptySet
  <2> QED
    BY <1>1, <2>2, <2>3
<1>3. ASSUME NEW i \in P, NEW j \in P, i < j
      PROVE  Cardinality(upTo(i)) # Cardinality(upTo(j))
  <2>1. upTo(i) \in SUBSET upTo(j) /\ j \in upTo(j) /\ j \notin upTo(i)
    <3>1. i \in Nat /\ j \in Nat /\ \A l \in P : l \in Nat
      OBVIOUS
    <3>2. \A l \in P : l <= i => l <= j
      BY <1>3, <3>1
    <3>3. j \in upTo(j) /\ j \notin upTo(i)
      BY <1>3, <3>1
    <3>4. upTo(i) \subseteq upTo(j)
      BY <3>2
    <3> QED
      BY <3>3, <3>4
  <2> HIDE DEF upTo
  <2> QED
    BY <1>2, <2>1, FS_Subset
<1>4. rank \in Injection(P, places)
  <2>1. rank \in [P -> places]
    BY <1>2
  <2>2. ASSUME NEW i \in P, NEW j \in P, rank[i] = rank[j]
        PROVE  i = j
    <3>1. i \in Nat /\ j \in Nat
      OBVIOUS
    <3>2. ~(i < j) /\ ~(j < i)
      BY <1>3, <2>2
    <3> QED
      BY <3>1, <3>2
  <2> QED
    BY <2>1, <2>2 DEF Injection, IsInjective
<1>5. IsFiniteSet(places) /\ Cardinality(places) = Cardinality(P)
  BY <1>1, FS_Interval
<1>6. rank \in Surjection(P, places)
  BY <1>4, <1>5, FS_Injection
<1>7. PICK i \in P : rank[i] = n
  BY <1>6 DEF Surjection
<1> QED
  BY <1>7 DEF Nth

(* What is read of the first rows of an edition rides as the edition does. *)
LEMMA PartsRide ==
    ASSUME NEW edition, edition \in Seq(Range(edition)), NEW m \in 0..Len(edition),
           NEW rows, rows = SubSeq(edition, 1, m), NEW known
    PROVE  Rides(OfStops(rows, known), edition)
<1> DEFINE P == {i \in DOMAIN rows : rows[i].stop \in known}
<1>1. DOMAIN rows = 1..m /\ \A i \in 1..m : rows[i] = edition[i]
  OBVIOUS
<1>2. P \in SUBSET Nat /\ P \subseteq 1..m
  BY <1>1
<1>3. IsFiniteSet(P) /\ Cardinality(P) \in Nat
  <2>1. IsFiniteSet(1..m)
    BY FS_Interval
  <2>2. P \in SUBSET (1..m)
    BY <1>2
  <2> HIDE DEF P
  <2> QED
    BY <2>1, <2>2, FS_Subset, FS_CardinalityType
<1>4. OfStops(rows, known) = [k \in 1..Cardinality(P) |-> rows[Nth(P, k)]]
  BY DEF OfStops
<1> HIDE DEF P
<1>5. Len(OfStops(rows, known)) = Cardinality(P)
  BY <1>3, <1>4
<1> SUFFICES ASSUME NEW k \in 1..(Cardinality(P) - 1)
             PROVE  \E i, j \in DOMAIN edition :
                        /\ i < j /\ edition[i] = OfStops(rows, known)[k]
                        /\ edition[j] = OfStops(rows, known)[k + 1]
  BY <1>5 DEF Rides
<1> DEFINE i == Nth(P, k)
           j == Nth(P, k + 1)
<1>6. k \in 1..Cardinality(P) /\ k + 1 \in 1..Cardinality(P)
  BY <1>3
<1>7. /\ i \in P /\ Cardinality({l \in P : l <= i}) = k
      /\ j \in P /\ Cardinality({l \in P : l <= j}) = k + 1
  BY <1>2, <1>3, <1>6, NthIsRanked
<1> HIDE DEF i, j
<1>8. i < j
  <2> SUFFICES ASSUME j <= i
               PROVE  FALSE
    BY <1>2, <1>7
  <2>1. {l \in P : l <= j} \in SUBSET {l \in P : l <= i}
    <3>1. i \in Nat /\ j \in Nat /\ \A l \in P : l \in Nat
      BY <1>2, <1>7
    <3> QED
      BY <3>1
  <2>2. IsFiniteSet({l \in P : l <= i})
    BY <1>3, FS_Subset
  <2> QED
    BY <1>6, <1>7, <2>1, <2>2, FS_Subset
<1>9. /\ OfStops(rows, known)[k] = edition[i] /\ OfStops(rows, known)[k + 1] = edition[j]
      /\ i \in DOMAIN edition /\ j \in DOMAIN edition
  <2>1. OfStops(rows, known)[k] = rows[i] /\ OfStops(rows, known)[k + 1] = rows[j]
    BY <1>4, <1>6 DEF i, j
  <2>2. i \in 1..m /\ j \in 1..m
    BY <1>2, <1>7
  <2> QED
    BY <1>1, <2>1, <2>2
<1> QED
  BY <1>8, <1>9

-----------------------------------------------------------------------------
(* Editions are only added to, so that what kept to them goes on to.       *)
LEMMA EditionsStay ==
    ASSUME RowsAreEditions, RowsAreEditions',
           \A t \in Trips : everHad[t] \subseteq everHad'[t]
    PROVE  \A rides : KeepsToEditions(rides) => KeepsToEditions(rides)'
  BY DEF KeepsToEditions

LEMMA NetworkInitInvariant == NetworkInit => NetworkInvariant
<1> SUFFICES ASSUME NetworkInit
             PROVE  NetworkInvariant
  OBVIOUS
<1>1. RowsAreEditions
  BY DEF NetworkInit, RowsAreEditions
<1>2. ASSUME NEW r \in Readers
      PROVE  ReaderInvariant(r)
  BY DEF NetworkInit, ReaderInvariant, ReaderTyped, IdleFields, ReadIsOfRows,
         ReadKeepsToEditions, ToldKeepsToEditions
<1> QED
  BY <1>1, <1>2 DEF NetworkInit, NetworkInvariant, KeptKeepsToEditions

(* The canon is written: readers and what is kept stay.                    *)
LEMMA WritesKeep ==
    ASSUME NetworkInvariant, RowsAreEditions', DOMAIN trips \subseteq DOMAIN trips',
           \A t \in Trips : everHad[t] \subseteq everHad'[t],
           UNCHANGED <<kept, reader>>
    PROVE  NetworkInvariant'
<1>1. \A rides : KeepsToEditions(rides) => KeepsToEditions(rides)'
  BY EditionsStay DEF NetworkInvariant
<1>2. ASSUME NEW r \in Readers
      PROVE  ReaderInvariant(r)'
  <2>1. ReaderTyped(r)' /\ ReadIsOfRows(r)'
    BY DEF NetworkInvariant, ReaderInvariant, ReaderTyped, ReadIsOfRows
  <2>2. ReadKeepsToEditions(r)'
    BY <1>1 DEF NetworkInvariant, ReaderInvariant, ReadKeepsToEditions, KeepsToEditions
  <2>3. ToldKeepsToEditions(r)'
    <3>1. ToldKeepsToEditions(r)
      BY DEF NetworkInvariant, ReaderInvariant
    <3>2. \A told \in reader[r].told : KeepsToEditions(told.net.trips)'
      BY <1>1, <3>1 DEF ToldKeepsToEditions, KeepsToEditions
    <3> QED
      BY <3>1, <3>2 DEF ToldKeepsToEditions, KeepsToEditions
  <2> QED
    BY <2>1, <2>2, <2>3 DEF ReaderInvariant
<1>3. KeptKeepsToEditions'
  <2>1. \A net \in kept : KeepsToEditions(net.trips)'
    BY <1>1 DEF NetworkInvariant, KeptKeepsToEditions, KeepsToEditions
  <2> QED
    BY <2>1 DEF NetworkInvariant, KeptKeepsToEditions, KeepsToEditions
<1> QED
  BY <1>2, <1>3 DEF NetworkInvariant

LEMMA PersistTripKeeps ==
    ASSUME NetworkInvariant, NEW t \in Trips, NEW e \in Editions[t], PersistTrip(t, e)
    PROVE  NetworkInvariant'
<1>1. e.calls \in Seq(Range(e.calls))
  BY NetworkCacheAssumption
<1>2. /\ trips' = [u \in DOMAIN trips \cup {t} |->
                      IF u = t THEN [days |-> e.days, valid |-> TRUE, calls |-> e.calls] ELSE trips[u]]
      /\ everHad' = [everHad EXCEPT ![t] = @ \cup {e.calls}]
      /\ UNCHANGED <<kept, reader>>
  BY DEF PersistTrip, Rewritten
<1>3. /\ DOMAIN trips' = DOMAIN trips \cup {t}
      /\ DOMAIN everHad' = Trips
      /\ everHad'[t] = everHad[t] \cup {e.calls}
      /\ \A u \in Trips \ {t} : everHad'[u] = everHad[u]
  BY <1>2 DEF NetworkInvariant, RowsAreEditions
<1>4. \A u \in DOMAIN trips' : trips'[u].calls \in everHad'[u]
  BY <1>2, <1>3 DEF NetworkInvariant, RowsAreEditions
<1>5. \A u \in Trips : \A calls \in everHad'[u] : calls \in Seq(Range(calls))
  BY <1>1, <1>3 DEF NetworkInvariant, RowsAreEditions
<1>6. RowsAreEditions'
  BY <1>3, <1>4, <1>5 DEF NetworkInvariant, RowsAreEditions
<1> QED
  BY <1>2, <1>3, <1>6, WritesKeep

LEMMA TombstoneTripKeeps ==
    ASSUME NetworkInvariant, NEW t \in Trips, TombstoneTrip(t)
    PROVE  NetworkInvariant'
<1>1. /\ trips' = [trips EXCEPT ![t].valid = FALSE] /\ t \in DOMAIN trips
      /\ UNCHANGED <<everHad, kept, reader>>
  BY DEF TombstoneTrip
<1>2. DOMAIN trips' = DOMAIN trips
  BY <1>1
<1>3. \A u \in DOMAIN trips : trips'[u].calls = trips[u].calls
  BY <1>1
<1>4. RowsAreEditions'
  BY <1>1, <1>2, <1>3 DEF NetworkInvariant, RowsAreEditions
<1> QED
  BY <1>1, <1>2, <1>4, WritesKeep

-----------------------------------------------------------------------------
(* The canon stays, and one reader goes on.                                *)
LEMMA ReaderGoesOn ==
    ASSUME NetworkInvariant, UNCHANGED <<trips, everHad>>, DOMAIN reader' = Readers,
           \A net, other \in kept' : net = other, \A net \in kept' : KeepsToEditions(net.trips),
           NEW r \in Readers, \A o \in Readers \ {r} : reader'[o] = reader[o],
           ReaderInvariant(r)'
    PROVE  NetworkInvariant'
<1>1. ASSUME NEW o \in Readers \ {r}
      PROVE  ReaderInvariant(o)'
  BY DEF NetworkInvariant, ReaderInvariant, ReaderTyped, ReadIsOfRows, ReadKeepsToEditions,
         ToldKeepsToEditions, KeepsToEditions
<1>2. RowsAreEditions'
  BY DEF NetworkInvariant, RowsAreEditions
<1>3. KeptKeepsToEditions'
  BY DEF KeptKeepsToEditions, KeepsToEditions
<1> QED
  BY <1>1, <1>2, <1>3 DEF NetworkInvariant

LEMMA TellingKeeps ==
    ASSUME NetworkInvariant, UNCHANGED <<trips, everHad>>,
           NEW r \in Readers, NEW when, NEW net, Told(r, when, net),
           net.key = DayKey(when), KeepsToEditions(net.trips),
           kept' = kept \/ kept' = {net}
    PROVE  NetworkInvariant'
<1>1. /\ reader'[r] = [at |-> "idle", told |-> {[when |-> when, net |-> net]}]
      /\ DOMAIN reader' = Readers /\ \A o \in Readers \ {r} : reader'[o] = reader[o]
  BY DEF Told, NetworkInvariant
<1>2. ReaderTyped(r)' /\ ReadIsOfRows(r)' /\ ReadKeepsToEditions(r)'
  BY <1>1 DEF ReaderTyped, IdleFields, ReadIsOfRows, ReadKeepsToEditions
<1>3. ToldKeepsToEditions(r)'
  BY <1>1 DEF ToldKeepsToEditions, KeepsToEditions
<1>4. /\ \A other, another \in kept' : other = another
      /\ \A other \in kept' : KeepsToEditions(other.trips)
  BY DEF NetworkInvariant, KeptKeepsToEditions
<1> QED
  BY <1>1, <1>2, <1>3, <1>4, ReaderGoesOn DEF ReaderInvariant

LEMMA AskNetworkKeeps ==
    ASSUME NetworkInvariant, NEW r \in Readers, NEW when \in Whens, AskNetwork(r, when)
    PROVE  NetworkInvariant'
<1>1. UNCHANGED <<trips, everHad, kept>> /\ KeptKeepsToEditions
  BY DEF AskNetwork, NetworkInvariant
<1>2. CASE \E net \in kept : net.key = DayKey(when)
  <2>1. PICK net \in kept : Told(r, when, net)
    BY <1>2 DEF AskNetwork
  <2>2. net.key = DayKey(when) /\ KeepsToEditions(net.trips)
    BY <1>1, <1>2 DEF KeptKeepsToEditions
  <2> QED
    BY <1>1, <2>1, <2>2, TellingKeeps
<1>3. CASE ~\E net \in kept : net.key = DayKey(when)
  <2>1. /\ reader'[r] = [at |-> "stops", when |-> when, alive |-> TRUE,
                         stops |-> {}, routes |-> {}, trips |-> <<>>, told |-> {}]
        /\ DOMAIN reader' = Readers /\ \A o \in Readers \ {r} : reader'[o] = reader[o]
    BY <1>3 DEF AskNetwork, NetworkInvariant
  <2>2. ReaderInvariant(r)'
    BY <2>1 DEF ReaderInvariant, ReaderTyped, LoadFields, ReadIsOfRows, ReadKeepsToEditions,
                ToldKeepsToEditions
  <2> QED
    BY <1>1, <2>1, <2>2, ReaderGoesOn DEF KeptKeepsToEditions
<1> QED
  BY <1>2, <1>3

LEMMA CancelLoadKeeps ==
    ASSUME NetworkInvariant, NEW r \in Readers, CancelLoad(r)
    PROVE  NetworkInvariant'
<1>1. /\ reader' = [reader EXCEPT ![r].alive = FALSE] /\ reader[r].at # "idle"
      /\ UNCHANGED <<trips, everHad, kept>>
  BY DEF CancelLoad
<1>2. /\ DOMAIN reader' = Readers /\ \A o \in Readers \ {r} : reader'[o] = reader[o]
      /\ DOMAIN reader'[r] = DOMAIN reader[r]
      /\ \A f \in DOMAIN reader[r] \ {"alive"} : reader'[r][f] = reader[r][f]
  BY <1>1 DEF NetworkInvariant
<1>3. reader'[r].at = reader[r].at /\ reader'[r].trips = reader[r].trips /\ reader'[r].told = reader[r].told
  BY <1>1, <1>2 DEF NetworkInvariant, ReaderInvariant, ReaderTyped, LoadFields
<1>4. ReaderInvariant(r)'
  BY <1>1, <1>2, <1>3 DEF NetworkInvariant, ReaderInvariant, ReaderTyped, ReadIsOfRows,
                          ReadKeepsToEditions, ToldKeepsToEditions, KeepsToEditions
<1>5. (\A net, other \in kept' : net = other) /\ \A net \in kept' : KeepsToEditions(net.trips)
  BY <1>1 DEF NetworkInvariant, KeptKeepsToEditions
<1> QED
  BY <1>1, <1>2, <1>4, <1>5, ReaderGoesOn

(* A query of the load is answered.                                        *)
LEMMA ReadsKeep ==
    ASSUME NetworkInvariant, NEW r \in Readers,
           NEW at \in {"stops", "routes", "trips"}, NEW next \in {"routes", "trips", "times"},
           NEW value, Reads(r, at, at, value, next),
           next = "times" => at = "trips" /\ DOMAIN value \subseteq DOMAIN trips
    PROVE  NetworkInvariant'
<1>1. /\ reader' = [reader EXCEPT ![r][at] = value, ![r].at = next]
      /\ reader[r].at = at /\ UNCHANGED <<trips, everHad, kept>>
  BY DEF Reads
<1>2. DOMAIN reader[r] = LoadFields
  BY <1>1 DEF NetworkInvariant, ReaderInvariant, ReaderTyped
<1>3. /\ DOMAIN reader' = Readers /\ \A o \in Readers \ {r} : reader'[o] = reader[o]
      /\ reader'[r] = [[reader[r] EXCEPT ![at] = value] EXCEPT !.at = next]
  BY <1>1 DEF NetworkInvariant
<1>4. /\ DOMAIN reader'[r] = LoadFields
      /\ reader'[r].at = next /\ reader'[r][at] = value /\ reader'[r].told = reader[r].told
  BY <1>2, <1>3 DEF LoadFields
<1>5. ReaderTyped(r)' /\ ReadIsOfRows(r)' /\ ReadKeepsToEditions(r)'
  BY <1>1, <1>4 DEF ReaderTyped, ReadIsOfRows, ReadKeepsToEditions
<1>6. ToldKeepsToEditions(r)'
  BY <1>1, <1>4 DEF NetworkInvariant, ReaderInvariant, ToldKeepsToEditions, KeepsToEditions
<1>7. (\A net, other \in kept' : net = other) /\ \A net \in kept' : KeepsToEditions(net.trips)
  BY <1>1 DEF NetworkInvariant, KeptKeepsToEditions
<1> QED
  BY <1>1, <1>3, <1>5, <1>6, <1>7, ReaderGoesOn DEF ReaderInvariant

LEMMA ReadTripsKeep ==
    ASSUME NetworkInvariant, NEW r \in Readers, ReadTrips(r)
    PROVE  NetworkInvariant'
<1> DEFINE read == [t \in {u \in DOMAIN trips : trips[u].valid} |-> trips[t].days]
<1>1. DOMAIN read \subseteq DOMAIN trips
  OBVIOUS
<1>2. Reads(r, "trips", "trips", read, "times")
  BY DEF ReadTrips
<1> HIDE DEF read
<1> QED
  BY <1>1, <1>2, ReadsKeep

(* What a reader reads of a trip's calls rides as its edition does.        *)
LEMMA CallsReadRide ==
    ASSUME RowsAreEditions, NEW r \in Readers, NEW t \in DOMAIN trips,
           NEW last, NEW n, n \in (IF last \in DOMAIN trips THEN 0..Len(trips[last].calls) ELSE {0})
    PROVE  t \in Trips /\ \E edition \in everHad[t] : Rides(CallsRead(r, t, last, n), edition)
<1> DEFINE edition == trips[t].calls
           rows == Rows(t, last, n)
<1>1. t \in Trips /\ edition \in everHad[t] /\ edition \in Seq(Range(edition))
  BY DEF RowsAreEditions
<1>2. \E m \in 0..Len(edition) : rows = SubSeq(edition, 1, m)
  <2>1. CASE t < last
    <3>1. rows = edition
      BY <2>1 DEF Rows
    <3>2. Len(edition) \in 0..Len(edition) /\ edition = SubSeq(edition, 1, Len(edition))
      BY <1>1
    <3> QED
      BY <3>1, <3>2
  <2>2. CASE t = last
    BY <2>2 DEF Rows
  <2>3. CASE ~(t < last) /\ t # last
    <3>1. rows = <<>>
      BY <1>1, <2>3 DEF Rows
    <3>2. 0 \in 0..Len(edition) /\ <<>> = SubSeq(edition, 1, 0)
      BY <1>1
    <3> QED
      BY <3>1, <3>2
  <2> QED
    BY <1>1, <2>1, <2>2, <2>3
<1>3. Rides(OfStops(rows, reader[r].stops), edition)
  <2> HIDE DEF edition, rows
  <2> QED
    BY <1>1, <1>2, PartsRide
<1> QED
  BY <1>1, <1>3 DEF CallsRead

LEMMA ReadTimesKeeps ==
    ASSUME NetworkInvariant, NEW r \in Readers, ReadTimes(r)
    PROVE  NetworkInvariant'
<1>1. PICK last \in (IF reader[r].alive THEN {After} ELSE DOMAIN trips \cup {0}) :
       \E n \in (IF last \in DOMAIN trips THEN 0..Len(trips[last].calls) ELSE {0}) :
       \E S \in OneOfEachName(r, Assembled(r, last, n)) :
            reader' = [reader EXCEPT ![r].at = "keep", ![r].trips = S]
  BY DEF ReadTimes
<1>2. PICK n \in (IF last \in DOMAIN trips THEN 0..Len(trips[last].calls) ELSE {0}) :
       \E S \in OneOfEachName(r, Assembled(r, last, n)) :
            reader' = [reader EXCEPT ![r].at = "keep", ![r].trips = S]
  BY <1>1
<1>3. PICK S \in OneOfEachName(r, Assembled(r, last, n)) :
            reader' = [reader EXCEPT ![r].at = "keep", ![r].trips = S]
  BY <1>2
<1>4. reader[r].at = "times" /\ UNCHANGED <<trips, everHad, kept>>
  BY DEF ReadTimes
<1>5. /\ RowsAreEditions /\ DOMAIN reader[r] = LoadFields
      /\ DOMAIN reader[r].trips \subseteq DOMAIN trips
  BY <1>4 DEF NetworkInvariant, ReaderInvariant, ReaderTyped, ReadIsOfRows
<1>7. \A ride \in S : \E t \in DOMAIN trips : ride.trip = t /\ ride.calls = CallsRead(r, t, last, n)
  BY <1>5 DEF OneOfEachName, Assembled
<1>8. KeepsToEditions(S)
  BY <1>5, <1>7, CallsReadRide DEF KeepsToEditions
<1>9. /\ DOMAIN reader' = Readers /\ \A o \in Readers \ {r} : reader'[o] = reader[o]
      /\ DOMAIN reader'[r] = LoadFields
      /\ reader'[r].at = "keep" /\ reader'[r].trips = S /\ reader'[r].told = reader[r].told
  BY <1>3, <1>5 DEF NetworkInvariant, LoadFields
<1>10. ReaderInvariant(r)'
  BY <1>4, <1>8, <1>9 DEF NetworkInvariant, ReaderInvariant, ReaderTyped, ReadIsOfRows,
                          ReadKeepsToEditions, ToldKeepsToEditions, KeepsToEditions
<1>11. (\A net, other \in kept' : net = other) /\ \A net \in kept' : KeepsToEditions(net.trips)
  BY <1>4 DEF NetworkInvariant, KeptKeepsToEditions
<1> QED
  BY <1>4, <1>9, <1>10, <1>11, ReaderGoesOn

LEMMA KeepNetworkKeeps ==
    ASSUME NetworkInvariant, NEW r \in Readers, KeepNetwork(r)
    PROVE  NetworkInvariant'
<1> DEFINE net == [key |-> DayKey(reader[r].when), trips |-> reader[r].trips]
<1>1. /\ UNCHANGED <<trips, everHad>> /\ Told(r, reader[r].when, net) /\ kept' = {net}
      /\ reader[r].at = "keep"
  BY DEF KeepNetwork
<1>2. net.key = DayKey(reader[r].when) /\ KeepsToEditions(net.trips)
  BY <1>1 DEF NetworkInvariant, ReaderInvariant, ReadKeepsToEditions
<1> HIDE DEF net
<1> QED
  BY <1>1, <1>2, TellingKeeps

LEMMA FallBackKeeps ==
    ASSUME NetworkInvariant, NEW r \in Readers, FallBack(r)
    PROVE  NetworkInvariant'
<1>1. /\ UNCHANGED <<trips, everHad, kept>> /\ reader'[r] = [at |-> "idle", told |-> {}]
      /\ DOMAIN reader' = Readers /\ \A o \in Readers \ {r} : reader'[o] = reader[o]
  BY DEF FallBack, NetworkInvariant
<1>2. ReaderInvariant(r)'
  BY <1>1 DEF ReaderInvariant, ReaderTyped, IdleFields, ReadIsOfRows, ReadKeepsToEditions,
              ToldKeepsToEditions
<1> QED
  BY <1>1, <1>2, ReaderGoesOn DEF NetworkInvariant, KeptKeepsToEditions

-----------------------------------------------------------------------------
LEMMA NetworkStepInvariant ==
    NetworkInvariant /\ [NetworkNext]_networkVars => NetworkInvariant'
<1> SUFFICES ASSUME NetworkInvariant, [NetworkNext]_networkVars
             PROVE  NetworkInvariant'
  OBVIOUS
<1>1. CASE \E t \in Trips : TombstoneTrip(t) \/ \E e \in Editions[t] : PersistTrip(t, e)
  BY <1>1, TombstoneTripKeeps, PersistTripKeeps
<1>2. ASSUME NEW r \in Readers, NEW when \in Whens, AskNetwork(r, when)
      PROVE  NetworkInvariant'
  BY <1>2, AskNetworkKeeps
<1>3. ASSUME NEW r \in Readers, CancelLoad(r)
      PROVE  NetworkInvariant'
  BY <1>3, CancelLoadKeeps
<1>4. ASSUME NEW r \in Readers, ReadStops(r)
      PROVE  NetworkInvariant'
  BY <1>4, ReadsKeep DEF ReadStops
<1>5. ASSUME NEW r \in Readers, ReadRoutes(r)
      PROVE  NetworkInvariant'
  BY <1>5, ReadsKeep DEF ReadRoutes
<1>6. ASSUME NEW r \in Readers, ReadTrips(r)
      PROVE  NetworkInvariant'
  BY <1>6, ReadTripsKeep
<1>7. ASSUME NEW r \in Readers, ReadTimes(r)
      PROVE  NetworkInvariant'
  BY <1>7, ReadTimesKeeps
<1>8. ASSUME NEW r \in Readers, KeepNetwork(r)
      PROVE  NetworkInvariant'
  BY <1>8, KeepNetworkKeeps
<1>9. ASSUME NEW r \in Readers, FallBack(r)
      PROVE  NetworkInvariant'
  BY <1>9, FallBackKeeps
<1>10. CASE UNCHANGED networkVars
  BY <1>10 DEF networkVars, NetworkInvariant, KeptKeepsToEditions, RowsAreEditions, ReaderInvariant,
               ReaderTyped, ReadIsOfRows, ReadKeepsToEditions, ToldKeepsToEditions, KeepsToEditions
<1> QED
  BY <1>1, <1>2, <1>3, <1>4, <1>5, <1>6, <1>7, <1>8, <1>9, <1>10 DEF NetworkNext

(* Whatever was read, kept and told keeps to editions, for any number of   *)
(* readers, trips and writes between their queries.                        *)
THEOREM NetworkInvariance == NetworkSpec => []NetworkInvariant
<1>1. NetworkInit => NetworkInvariant
  BY NetworkInitInvariant
<1>2. NetworkInvariant /\ [NetworkNext]_networkVars => NetworkInvariant'
  BY NetworkStepInvariant
<1> QED
  BY <1>1, <1>2, PTL DEF NetworkSpec

(* Nobody is told a ride that mixes two editions of a trip (LoadNetwork).  *)
THEOREM NetworksRideOneEdition == NetworkSpec => []RidesOfOneEdition
<1>1. NetworkInvariant => RidesOfOneEdition
  BY DEF NetworkInvariant, ReaderInvariant, ToldKeepsToEditions, KeepsToEditions, RidesOfOneEdition
<1> QED
  BY <1>1, NetworkInvariance, PTL
=============================================================================
