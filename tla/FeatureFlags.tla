---------------------------- MODULE FeatureFlags ----------------------------
(***************************************************************************)
(* Feature flags (src/modules/featureflags): the registry of flags in the  *)
(* process, the overrides in the database, and the middleware that         *)
(* computes a request's flags and caches them per principals and version   *)
(* of the registry.                                                        *)
(*                                                                         *)
(* Each read of the registry, each use of the cache and each SQL statement *)
(* is a step, so that registrations, operators that change overrides, and  *)
(* other requests come between them.                                       *)
(***************************************************************************)
EXTENDS FlagLRU

CONSTANTS
    Requests,   \* requests that are in the middleware at a time
    Operators,  \* runs of the command that sets an override, at a time
    Flags,      \* flag keys
    Principals, \* what a request can act as: [user, tenant, roles]
    Targets,    \* what an override can be for: [flag, type, id]
    Tables,     \* the tables of overrides a process may start with
    None,       \* no user, no tenant, no id, no pending insert
    MaxChanges, \* bound on the registrations and commands, together
    MaxFetch,   \* bound on the ticks between listing the keys and caching
    MayFail     \* whether a query may lose rows

\* The types of override, the strongest first.
Ranking == <<"user", "role", "tenant", "global">>

ASSUME FlagsAssumption ==
    /\ IsFiniteSet(Flags)
    /\ MaxChanges \in Nat /\ MaxFetch \in Nat
    /\ MayFail \in BOOLEAN
    /\ \A table \in Tables : table \in [DOMAIN table -> BOOLEAN] /\ DOMAIN table \subseteq Targets
    /\ \A t \in Targets : t.flag \in Flags /\ \E i \in DOMAIN Ranking : t.type = Ranking[i]

VARIABLES
    registered, \* the registry: a function from registered flags to defaults
    version,    \* regVer
    overrides,  \* the table: a function from targets to values
    inserting,  \* per operator, the row it will insert because UPDATE found none
    cache,      \* globalCache
    req,        \* what each request in the middleware knows
    changes,    \* how many registrations and commands there were
    quiet,      \* history: ticks since the table, the registry or a query changed things
    older       \* history: the pairs of cached keys of which the first was last used before the second

vars == <<registered, version, overrides, inserting, cache, req, changes, quiet, older>>

\* A request that is not in the middleware.
Idle == [stage |-> "idle"]

\* As many versions as flags at the start, and one for each change.
MaxVersion == Cardinality(Flags) + MaxChanges

\* The longest an entry can lag behind: fetched, then kept until it expires.
MaxLag == TTL + MaxFetch

-----------------------------------------------------------------------------
(* Precedence.                                                             *)

\* Whether an override is for a request that acts as p.
Concerns(t, p) ==
    \/ t.type = "global"
    \/ t.type = "tenant" /\ p.tenant # None /\ t.id = p.tenant
    \/ t.type = "role" /\ t.id \in p.roles
    \/ t.type = "user" /\ p.user # None /\ t.id = p.user

\* The rows ListOverrides selects for the given flags and principals.
Selected(table, keys, p) == {t \in DOMAIN table : t.flag \in keys /\ Concerns(t, p)}

\* The values the rows of one type give a flag.
Given(rows, flag, type) == {rows[t] : t \in {t \in DOMAIN rows : t.flag = flag /\ t.type = type}}

\* computeEffective for one flag, by its chain of lookups.
ComputeEffective(rows, flag, default) ==
    IF Given(rows, flag, "user") # {} THEN TRUE \in Given(rows, flag, "user")
    ELSE IF Given(rows, flag, "role") # {} THEN TRUE \in Given(rows, flag, "role")
    ELSE IF Given(rows, flag, "tenant") # {} THEN TRUE \in Given(rows, flag, "tenant")
    ELSE IF Given(rows, flag, "global") # {} THEN TRUE \in Given(rows, flag, "global")
    ELSE default

\* getDefault: FALSE for a flag that is not registered.
Default(flag) == flag \in DOMAIN registered /\ registered[flag]

\* Enabled for a request with these computed flags.
Enabled(flags, flag) ==
    /\ flag \in DOMAIN registered
    /\ IF flag \in DOMAIN flags THEN flags[flag] ELSE Default(flag)

-----------------------------------------------------------------------------
SomeFlags == UNION {[S -> BOOLEAN] : S \in SUBSET Flags}

\* The process starts: packages have registered flags when they were
\* initialised, and the database has the overrides of earlier processes.
Init ==
    /\ registered \in SomeFlags
    /\ version = Cardinality(DOMAIN registered)
    /\ overrides \in Tables
    /\ inserting = [o \in Operators |-> None]
    /\ cache = EmptyCache
    /\ req = [r \in Requests |-> Idle]
    /\ changes = 0
    /\ quiet = 0
    /\ older = {}

\* f with x mapped to y.
Put(f, x, y) == [z \in DOMAIN f \cup {x} |-> IF z = x THEN y ELSE f[z]]

\* A plausible bug: a description and a default make a version each.
RegisterCountsTwice(f, default) ==
    /\ changes < MaxChanges
    /\ changes' = changes + 1
    /\ version' = version + 2
    /\ registered' = Put(registered, f, default)
    /\ quiet' = 0
    /\ UNCHANGED <<overrides, inserting, cache, req, older>>

\* RegisterFlags with one flag, as in production: a new flag, a new default or
\* a new description makes a new version.  (One that repeats what is registered
\* changes nothing.)
RegisterFlags(f, default) ==
    /\ changes < MaxChanges
    /\ changes' = changes + 1
    /\ version' = version + 1
    /\ registered' = Put(registered, f, default)
    /\ quiet' = 0
    /\ UNCHANGED <<overrides, inserting, cache, req, older>>

\* SetOverride, its UPDATE: a row is changed, or one must be inserted.
UpdateOverride(o, t, value) ==
    /\ inserting[o] = None
    /\ changes < MaxChanges
    /\ changes' = changes + 1
    /\ IF t \in DOMAIN overrides
       THEN /\ overrides' = Put(overrides, t, value)
            /\ quiet' = 0
            /\ UNCHANGED inserting
       ELSE /\ inserting' = [inserting EXCEPT ![o] = [target |-> t, value |-> value]]
            /\ UNCHANGED <<overrides, quiet>>
    /\ UNCHANGED <<registered, version, cache, req, older>>

\* SetOverride, its INSERT: the unique index refuses a second row.
InsertOverride(o) ==
    /\ inserting[o] # None
    /\ inserting' = [inserting EXCEPT ![o] = None]
    /\ IF inserting[o].target \in DOMAIN overrides
       THEN UNCHANGED <<overrides, quiet>>
       ELSE /\ overrides' = Put(overrides, inserting[o].target, inserting[o].value)
            /\ quiet' = 0
    /\ UNCHANGED <<registered, version, cache, req, changes, older>>

DeleteOverride(t) ==
    /\ t \in DOMAIN overrides
    /\ changes < MaxChanges
    /\ changes' = changes + 1
    /\ overrides' = Without(overrides, {t})
    /\ quiet' = 0
    /\ UNCHANGED <<registered, version, inserting, cache, req, older>>

-----------------------------------------------------------------------------
(* WithFlags, one step per read.                                           *)

\* The request moves on to a new stage.
Becomes(r, state) == req' = [req EXCEPT ![r] = state]

\* The key is used last; a key that has left the cache has no place.
NowUsed(k) ==
    LET kept == DOMAIN cache'.items
    IN  older' = {pair \in kept \X kept :
                     pair[1] \notin {k, pair[2]} /\ (pair[2] = k \/ pair \in older)}

\* listKeys
ListKeys(r, p) ==
    /\ req[r] = Idle
    /\ Becomes(r, [stage |-> "listed", p |-> p, keys |-> DOMAIN registered, lag |-> 0])
    /\ UNCHANGED <<registered, version, overrides, inserting, changes, cache, quiet, older>>

\* makeCacheKey: the version is read after the keys.
MakeCacheKey(r) ==
    /\ req[r].stage = "listed"
    /\ Becomes(r, [stage |-> "keyed", key |-> [p |-> req[r].p, ver |-> version],
                   keys |-> req[r].keys, lag |-> req[r].lag])
    /\ UNCHANGED <<registered, version, overrides, inserting, changes, cache, quiet, older>>

\* globalCache.get: on a hit the request leaves with the cached flags.
CacheGet(r) ==
    /\ req[r].stage = "keyed"
    /\ cache' = AfterGet(cache, req[r].key)
    /\ Becomes(r, IF Hit(cache, req[r].key) THEN Idle
                  ELSE [stage |-> "missed", key |-> req[r].key,
                        keys |-> req[r].keys, lag |-> req[r].lag])
    /\ NowUsed(req[r].key)
    /\ UNCHANGED <<registered, version, overrides, inserting, changes, quiet>>

\* ListOverrides: its error is dropped, and so is one that ends the rows early.
ListOverrides(r) ==
    /\ req[r].stage = "missed"
    /\ LET all == Selected(overrides, req[r].keys, req[r].key.p)
       IN  \E seen \in SUBSET all :
             /\ MayFail \/ seen = all
             /\ Becomes(r, [stage |-> "computing", key |-> req[r].key, todo |-> req[r].keys,
                            rows |-> [t \in seen |-> overrides[t]],
                            flags |-> [f \in {} |-> FALSE], lag |-> req[r].lag])
             /\ quiet' = IF seen = all THEN quiet ELSE 0
    /\ UNCHANGED <<registered, version, overrides, inserting, changes, cache, older>>

\* One turn of the loop of computeEffective.  The default is read now.
ComputeFlag(r, f) ==
    /\ req[r].stage = "computing"
    /\ f \in req[r].todo
    /\ Becomes(r, [stage |-> "computing", key |-> req[r].key, todo |-> req[r].todo \ {f},
                   rows |-> req[r].rows, lag |-> req[r].lag,
                   flags |-> Put(req[r].flags, f, ComputeEffective(req[r].rows, f, Default(f)))])
    /\ UNCHANGED <<registered, version, overrides, inserting, changes, cache, quiet, older>>

\* globalCache.set, and the request leaves with the flags.
CacheSet(r) ==
    /\ req[r].stage = "computing" /\ req[r].todo = {}
    /\ cache' = AfterSet(cache, req[r].key, [age |-> 0, data |-> req[r].flags])
    /\ Becomes(r, Idle)
    /\ NowUsed(req[r].key)
    /\ UNCHANGED <<registered, version, overrides, inserting, changes, quiet>>

\* The clock.  MaxFetch bounds how long a request is between two stages.
Tick ==
    /\ \A r \in Requests : req[r].stage # "idle" => req[r].lag < MaxFetch
    /\ cache' = Aged(cache)
    /\ req' = [r \in Requests |->
                  IF req[r].stage = "idle" THEN req[r] ELSE [req[r] EXCEPT !.lag = @ + 1]]
    /\ quiet' = IF quiet > MaxLag THEN quiet ELSE quiet + 1
    /\ UNCHANGED <<registered, version, overrides, inserting, changes, older>>

Next ==
    \/ \E f \in Flags, default \in BOOLEAN : RegisterFlags(f, default)
    \/ \E o \in Operators, t \in Targets, value \in BOOLEAN : UpdateOverride(o, t, value)
    \/ \E o \in Operators : InsertOverride(o)
    \/ \E t \in Targets : DeleteOverride(t)
    \/ \E r \in Requests, p \in Principals : ListKeys(r, p)
    \/ \E r \in Requests : \/ MakeCacheKey(r) \/ CacheGet(r) \/ ListOverrides(r) \/ CacheSet(r)
                           \/ \E f \in Flags : ComputeFlag(r, f)
    \/ Tick

Spec == Init /\ [][Next]_vars

-----------------------------------------------------------------------------
(* Properties.                                                             *)

Keys == [p : Principals, ver : 0..MaxVersion]

\* Types of the registry, the cache and what the requests carry.
TypeOK ==
    /\ registered \in SomeFlags
    /\ version \in 0..MaxVersion
    /\ DOMAIN overrides \subseteq Targets
    /\ DOMAIN cache.items \subseteq Keys
    /\ \A k \in DOMAIN cache.items : cache.items[k].age \in 0..(TTL + 1)
                                     /\ cache.items[k].data \in SomeFlags
    /\ \A i \in DOMAIN cache.order : cache.order[i] \in Keys
    /\ \A r \in Requests : req[r] # Idle => req[r].lag \in 0..MaxFetch

\* The order lists every cached key once and nothing else, and the cache holds
\* no more than its capacity: set may then take the head of the order for the
\* entry to evict (cache.go:59-64), and no entry can outlive its place.
CacheIsConsistent == Consistent(cache)

\* An entry leaves the cache only when it has expired, or when a new key
\* needs room and every other entry was used after it (cache.go:34-65).
EvictsLeastRecentlyUsed ==
    [][\A k \in DOMAIN cache.items \ DOMAIN cache'.items :
          \/ cache.items[k].age > TTL
          \/ /\ Cardinality(DOMAIN cache.items) = Cap
             /\ \A x \in DOMAIN cache.items \ {k} : <<k, x>> \in older]_vars

\* The strongest overrides of a flag for a request that acts as p.
Strongest(f, p) ==
    LET mine == Selected(overrides, {f}, p)
        rank(t) == CHOOSE i \in DOMAIN Ranking : Ranking[i] = t.type
    IN  {t \in mine : \A u \in mine : rank(t) <= rank(u)}

\* What the flag should be for p: on if one of the strongest overrides turns it
\* on, off if they all turn it off, the default if there is none.
Effective(f, p) ==
    IF Strongest(f, p) = {} THEN registered[f]
    ELSE \E t \in Strongest(f, p) : overrides[t]

\* Once nothing has changed for the time to live of an entry and the time a
\* request takes to compute one, every entry that would be served gives each
\* flag its value by precedence.  This covers entries computed from
\* keys, rows and defaults that were read at different times, entries under a
\* version that came after the keys were listed, and entries computed from a
\* query that failed (middleware.go:54-72).
StaleForAWhileOnly ==
    quiet > MaxLag =>
       \A k \in DOMAIN cache.items : Hit(cache, k) =>
          \A f \in DOMAIN registered : Enabled(cache.items[k].data, f) = Effective(f, k.p)

=============================================================================
