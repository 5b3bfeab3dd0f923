----------------------------- MODULE ApiKeyAuth -----------------------------
(***************************************************************************)
(* Authentication by API key (gateway-auth middleware.rs) through the      *)
(* cache of looked-up keys (api_key_cache.rs), while administrators change *)
(* what the database says of a key: the role of its owner, or that it is   *)
(* revoked.  A request is a task; the two queries are awaits.              *)
(*                                                                         *)
(* The cache is a sharded map.  Keys are the keys of one shard, since      *)
(* shards do not wait for each other.  Keys are created without an expiry  *)
(* of their own, so being inactive is all a row can have against a key.    *)
(***************************************************************************)
EXTENDS Integers, FiniteSets

CONSTANTS
    ApiKeys,        \* API keys whose hashes fall in one shard of the map
    Users,          \* the requests that authenticate
    Roles,          \* the roles an owner may be given
    KeyTtl          \* api_key_cache_ttl_secs, in ticks

ASSUME KeyAssumption ==
    /\ IsFiniteSet(Users)
    /\ KeyTtl \in Nat \ {0}

VARIABLES
    row,        \* the row of each key, with the role of its owner
    entry,      \* the cache
    keyPc,      \* where each request is in authenticate_api_key
    keyOf,      \* the key it presents
    roleOf      \* the role it found

keyVars == <<row, entry, keyPc, keyOf, roleOf>>

NoEntry == [role |-> "absent", age |-> 0]
Entries == [role : Roles, age : 0..KeyTtl] \union {NoEntry}

KeySteps == {"idle", "get", "key", "user", "insert", "stuck", "served"}

KeyInit ==
    /\ row \in [ApiKeys -> [active : {TRUE}, role : Roles]]
    /\ entry = [k \in ApiKeys |-> NoEntry]
    /\ keyPc = [u \in Users |-> "idle"]
    /\ keyOf \in [Users -> ApiKeys]
    /\ roleOf = [u \in Users |-> "none"]

GotoKey(u, s) == keyPc' = [keyPc EXCEPT ![u] = s]

ResetKey(u) ==
    /\ GotoKey(u, "idle")
    /\ roleOf' = [roleOf EXCEPT ![u] = "none"]
    /\ UNCHANGED <<row, entry, keyOf>>

Present(u) ==
    /\ keyPc[u] = "idle"
    /\ GotoKey(u, "get")
    /\ \E k \in ApiKeys : keyOf' = [keyOf EXCEPT ![u] = k]
    /\ UNCHANGED <<row, entry, roleOf>>

\* What get finds: nothing, a live entry, or an expired one.
Cached(k) == entry[k] # NoEntry
Live(k) == Cached(k) /\ entry[k].age < KeyTtl

\* Mutant: a hit renews the entry.
HitRenewing(u) ==
    /\ keyPc[u] = "get"
    /\ Live(keyOf[u])
    /\ roleOf' = [roleOf EXCEPT ![u] = entry[keyOf[u]].role]
    /\ entry' = [entry EXCEPT ![keyOf[u]].age = 0]
    /\ GotoKey(u, "served")
    /\ UNCHANGED <<row, keyOf>>

Hit(u) ==
    /\ keyPc[u] = "get"
    /\ Live(keyOf[u])
    /\ roleOf' = [roleOf EXCEPT ![u] = entry[keyOf[u]].role]
    /\ GotoKey(u, "served")
    /\ UNCHANGED <<row, entry, keyOf>>

Miss(u) ==
    /\ keyPc[u] = "get"
    /\ ~Cached(keyOf[u])
    /\ GotoKey(u, "key")
    /\ UNCHANGED <<row, entry, keyOf, roleOf>>

\* The expired arm of get: the read guard of the match's subject is alive to
\* the end of the match, and remove asks for the write lock of the same
\* shard.  The task (and its thread) waits for itself; nothing releases it.
HitExpired(u) ==
    /\ keyPc[u] = "get"
    /\ Cached(keyOf[u]) /\ ~Live(keyOf[u])
    /\ GotoKey(u, "stuck")
    /\ UNCHANGED <<row, entry, keyOf, roleOf>>

\* A writer of the shard waits while a read guard is out.
Writable == \A u \in Users : keyPc[u] # "stuck"

\* Mutant: what is cached is the key as found, its owner not yet resolved.
FindKeyOnly(u) ==
    /\ keyPc[u] = "key"
    /\ \/ row[keyOf[u]].active /\ GotoKey(u, "insert")
       \/ GotoKey(u, "idle")
    /\ UNCHANGED <<row, entry, keyOf, roleOf>>

\* find_by_hash, then find_by_id of the owner; a failed query refuses.
FindKey(u) ==
    /\ keyPc[u] = "key"
    /\ \/ row[keyOf[u]].active /\ GotoKey(u, "user")
       \/ GotoKey(u, "idle")
    /\ UNCHANGED <<row, entry, keyOf, roleOf>>

FindUser(u) ==
    /\ keyPc[u] = "user"
    /\ \/ /\ roleOf' = [roleOf EXCEPT ![u] = row[keyOf[u]].role]
          /\ GotoKey(u, "insert")
       \/ GotoKey(u, "idle") /\ UNCHANGED roleOf
    /\ UNCHANGED <<row, entry, keyOf>>

Insert(u) ==
    /\ keyPc[u] = "insert"
    /\ Writable
    /\ entry' = [entry EXCEPT ![keyOf[u]] = [role |-> roleOf[u], age |-> 0]]
    /\ GotoKey(u, "served")
    /\ UNCHANGED <<row, keyOf, roleOf>>

\* The request goes on with its AuthContext, and ends.
Served(u) == keyPc[u] = "served" /\ ResetKey(u)

\* The client goes away while the request awaits a query.
DropRequest(u) == keyPc[u] \in {"key", "user"} /\ ResetKey(u)

\* The handlers of the administrators write the database and not the cache.
RevokeKey(k) ==
    /\ row[k].active
    /\ row' = [row EXCEPT ![k].active = FALSE]
    /\ UNCHANGED <<entry, keyPc, keyOf, roleOf>>

ChangeRole(k) ==
    /\ \E role \in Roles : row' = [row EXCEPT ![k].role = role]
    /\ UNCHANGED <<entry, keyPc, keyOf, roleOf>>

\* The cleanup worker, and the reload handler of the administrators.
CleanCache ==
    /\ Writable
    /\ entry' = [k \in ApiKeys |-> IF Live(k) THEN entry[k] ELSE NoEntry]
    /\ UNCHANGED <<row, keyPc, keyOf, roleOf>>

AgeCache ==
    /\ entry' = [k \in ApiKeys |->
          IF Live(k) THEN [role |-> entry[k].role, age |-> entry[k].age + 1] ELSE entry[k]]
    /\ UNCHANGED <<row, keyPc, keyOf, roleOf>>

KeyRun(u) ==
    \/ Hit(u) \/ Miss(u) \/ HitExpired(u) \/ FindKey(u) \/ FindUser(u)
    \/ Insert(u) \/ Served(u)

KeyNext ==
    \/ \E u \in Users : Present(u) \/ KeyRun(u) \/ DropRequest(u)
    \/ \E k \in ApiKeys : RevokeKey(k) \/ ChangeRole(k)
    \/ CleanCache
    \/ AgeCache

KeySpec == KeyInit /\ [][KeyNext]_keyVars

(***************************************************************************)
(* The runtime polls every task that is ready, the database answers, time  *)
(* passes.                                                                 *)
(***************************************************************************)
KeyFairness ==
    /\ \A u \in Users : WF_keyVars(KeyRun(u))
    /\ WF_keyVars(AgeCache)

KeyFairSpec == KeySpec /\ KeyFairness
-----------------------------------------------------------------------------
KeyTypeOK ==
    /\ row \in [ApiKeys -> [active : BOOLEAN, role : Roles]]
    /\ entry \in [ApiKeys -> Entries]
    /\ keyPc \in [Users -> KeySteps]
    /\ keyOf \in [Users -> ApiKeys]
    /\ roleOf \in [Users -> Roles \union {"none"}]

(***************************************************************************)
(* What the database stopped saying of a key stops counting, although      *)
(* nothing invalidates the cache and a lookup that began before may insert *)
(* after: a key that stays revoked is refused from some time on, and one   *)
(* whose owner keeps a role is served with that role only.                 *)
(***************************************************************************)
StaleAnswersEnd ==
    \A k \in ApiKeys : \A said \in [active : BOOLEAN, role : Roles] :
        <>[](row[k] = said)
        => <>[](\A u \in Users :
                   keyPc[u] = "served" /\ keyOf[u] = k => said.active /\ roleOf[u] = said.role)

(***************************************************************************)
(* api_key_cache.rs:35 "Look up a cached entry by key hash. Returns `None` *)
(* if missing or expired": the lookup returns.                             *)
(***************************************************************************)
LookupReturns == \A u \in Users : keyPc[u] = "get" ~> keyPc[u] \in {"served", "key"}
=============================================================================
