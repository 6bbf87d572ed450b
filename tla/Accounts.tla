------------------------------ MODULE Accounts ------------------------------
(***************************************************************************)
(* Accounts and their keys: the handlers of internal/server/server.go, each*)
(* a few calls to the store, over internal/store/memory/store.go, whose    *)
(* calls are atomic.  (The store of PostgreSQL implements none of them.)   *)
(*                                                                         *)
(* Passwords, settings and what is merely shown are left out.              *)
(***************************************************************************)
EXTENDS Integers, FiniteSets

CONSTANTS
    Callers, Emails,
    MaxId           \* bound: how many accounts and keys are ever made

ASSUME AccountsAssumption == MaxId \in Nat

VARIABLES
    users,          \* the accounts, by number
    usersByEmail,
    apiKeys,        \* the keys, by number
    ids,            \* the last number given out, of accounts and keys
    request         \* what everyone asks, and how far it is served

accountVars == <<users, usersByEmail, apiKeys, ids, request>>

Scopes == {"mcp:read", "admin"}
Statuses == {"pending", "active", "blocked"}
NoRequest == [at |-> "idle"]

AccountsInit ==
    /\ users = <<>> /\ usersByEmail = <<>> /\ apiKeys = <<>> /\ ids = 0
    /\ request = [c \in Callers |-> NoRequest]

GetUserByEmail(email) == {id \in DOMAIN users : email \in DOMAIN usersByEmail /\ usersByEmail[email] = id}

With(f, x, value) == [y \in DOMAIN f \cup {x} |-> IF y = x THEN value ELSE f[y]]
Without(f, S) == [y \in DOMAIN f \ S |-> f[y]]

Turns(c, next) == request' = [request EXCEPT ![c] = next]

-----------------------------------------------------------------------------
(* An account is looked for first, and again where it is made.             *)
Register(c, email) ==
    /\ request[c].at = "idle"
    /\ GetUserByEmail(email) = {}
    /\ Turns(c, [at |-> "register", email |-> email])
    /\ UNCHANGED <<users, usersByEmail, apiKeys, ids>>

(* Mutant: it is not looked for again.                                     *)
IsNew(email) == TRUE

MayCreate(email) == email \notin DOMAIN usersByEmail

CreateUser(c) ==
    /\ request[c].at = "register"
    /\ LET email == request[c].email
       IN IF MayCreate(email)
          THEN /\ ids < MaxId /\ ids' = ids + 1
               /\ users' = With(users, ids + 1, [email |-> email, status |-> "pending", role |-> "user"])
               /\ usersByEmail' = With(usersByEmail, email, ids + 1)
          ELSE UNCHANGED <<users, usersByEmail, ids>>
    /\ Turns(c, NoRequest)
    /\ UNCHANGED apiKeys

Login(c, email) ==
    /\ request[c].at = "idle"
    /\ \E id \in GetUserByEmail(email) :
        /\ users[id].status = "active"
        /\ Turns(c, [at |-> "login", user |-> id])
    /\ UNCHANGED <<users, usersByEmail, apiKeys, ids>>

KeysOf(id) == {k \in DOMAIN apiKeys : apiKeys[k].user = id}

(* Who has a key is told one of them; another is given a new one, be the   *)
(* account still there or not.                                             *)
LoginKey(c) ==
    /\ request[c].at = "login"
    /\ Turns(c, IF KeysOf(request[c].user) # {} THEN NoRequest
                ELSE [at |-> "key", user |-> request[c].user, scope |-> "mcp:read"])
    /\ UNCHANGED <<users, usersByEmail, apiKeys, ids>>

CreateApiKey(c) ==
    /\ request[c].at = "key" /\ ids < MaxId
    /\ ids' = ids + 1
    /\ apiKeys' = With(apiKeys, ids + 1, [user |-> request[c].user, scope |-> request[c].scope])
    /\ Turns(c, NoRequest)
    /\ UNCHANGED <<users, usersByEmail>>

-----------------------------------------------------------------------------
(* auth looks for the key and then for its account, and what it found goes *)
(* with the request.  With the token of the configuration the request is   *)
(* that of account 0, which the store does not have.                       *)
WithKey(c, k) ==
    /\ request[c].at = "idle" /\ k \in DOMAIN apiKeys
    /\ Turns(c, [at |-> "auth", user |-> apiKeys[k].user, scope |-> apiKeys[k].scope])
    /\ UNCHANGED <<users, usersByEmail, apiKeys, ids>>

Admitted(c, id, role, scope) ==
    Turns(c, [at |-> "admitted", user |-> id, role |-> role, scope |-> scope])

Auth(c, scope) ==
    /\ request[c].at = "auth"
    /\ LET id == request[c].user
       IN IF id \in DOMAIN users /\ users[id].status = "active"
             /\ (request[c].scope = scope \/ users[id].role = "admin")
          THEN Admitted(c, id, users[id].role, scope)
          ELSE Turns(c, NoRequest)
    /\ UNCHANGED <<users, usersByEmail, apiKeys, ids>>

WithAdminToken(c, scope) ==
    /\ request[c].at = "idle"
    /\ Admitted(c, 0, "admin", scope)
    /\ UNCHANGED <<users, usersByEmail, apiKeys, ids>>

Served(c, scope) == request[c].at = "admitted" /\ request[c].scope = scope

CreateKey(c, scope) ==
    /\ Served(c, "mcp:read") /\ request[c].user # 0
    /\ scope = "admin" => request[c].role = "admin"
    /\ Turns(c, [at |-> "key", user |-> request[c].user, scope |-> scope])
    /\ UNCHANGED <<users, usersByEmail, apiKeys, ids>>

DeleteApiKey(c, k, id) ==
    /\ k \in KeysOf(id)
    /\ apiKeys' = Without(apiKeys, {k})
    /\ Turns(c, NoRequest)
    /\ UNCHANGED <<users, usersByEmail, ids>>

DeleteKey(c, k) == Served(c, "mcp:read") /\ DeleteApiKey(c, k, request[c].user)

DeleteUserKey(c, k, id) == Served(c, "admin") /\ DeleteApiKey(c, k, id)

CreateUserKey(c, id, scope) ==
    /\ Served(c, "admin") /\ id \in DOMAIN users
    /\ Turns(c, [at |-> "key", user |-> id, scope |-> scope])
    /\ UNCHANGED <<users, usersByEmail, apiKeys, ids>>

ModerateUser(c, id, status) ==
    /\ Served(c, "admin") /\ id \in DOMAIN users
    /\ users' = [users EXCEPT ![id].status = status]
    /\ Turns(c, NoRequest)
    /\ UNCHANGED <<usersByEmail, apiKeys, ids>>

(* A patch of both status and role writes them one after the other.        *)
PatchStatus(c, id, status, role) ==
    /\ Served(c, "admin") /\ id \in DOMAIN users
    /\ users' = [users EXCEPT ![id].status = status]
    /\ Turns(c, [at |-> "patch", user |-> id, role |-> role])
    /\ UNCHANGED <<usersByEmail, apiKeys, ids>>

PatchRole(c) ==
    /\ request[c].at = "patch"
    /\ users' = [id \in DOMAIN users |-> IF id = request[c].user THEN [users[id] EXCEPT !.role = request[c].role]
                                         ELSE users[id]]
    /\ Turns(c, NoRequest)
    /\ UNCHANGED <<usersByEmail, apiKeys, ids>>

DeleteUser(c, id) ==
    /\ Served(c, "admin") /\ id \in DOMAIN users
    /\ users' = Without(users, {id})
    /\ usersByEmail' = Without(usersByEmail, {users[id].email})
    /\ apiKeys' = Without(apiKeys, KeysOf(id))
    /\ Turns(c, NoRequest)
    /\ UNCHANGED ids

(* A request that is refused, or whose caller goes away, changes nothing   *)
(* more.                                                                   *)
Leave(c) ==
    /\ request[c].at # "idle"
    /\ Turns(c, NoRequest)
    /\ UNCHANGED <<users, usersByEmail, apiKeys, ids>>

Handle(c) ==
    \/ CreateUser(c) \/ LoginKey(c) \/ CreateApiKey(c) \/ PatchRole(c) \/ Leave(c)
    \/ \E email \in Emails : Register(c, email) \/ Login(c, email)
    \/ \E k \in DOMAIN apiKeys : WithKey(c, k) \/ DeleteKey(c, k)
    \/ \E scope \in Scopes : Auth(c, scope) \/ WithAdminToken(c, scope) \/ CreateKey(c, scope)
    \/ \E id \in DOMAIN users :
        \/ DeleteUser(c, id)
        \/ \E k \in KeysOf(id) : DeleteUserKey(c, k, id)
        \/ \E scope \in Scopes : CreateUserKey(c, id, scope)
        \/ \E status \in Statuses :
            \/ ModerateUser(c, id, status)
            \/ \E role \in {"user", "admin"} : PatchStatus(c, id, status, role)

AccountsNext == \E c \in Callers : Handle(c)

AccountsSpec == AccountsInit /\ [][AccountsNext]_accountVars

-----------------------------------------------------------------------------
(***************************************************************************)
(* Everybody's account is the one their email finds, so that there are no  *)
(* two of one email, though two register it at once, or one does while an  *)
(* administrator deletes it (handleRegister, MemoryStore.CreateUser).      *)
(***************************************************************************)
EmailsAreOwn ==
    \A id \in DOMAIN users : GetUserByEmail(users[id].email) = {id}
=============================================================================
