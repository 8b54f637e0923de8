-------------------------- MODULE TenantDatabases --------------------------
(***************************************************************************)
(* The databases of tenants (src/modules/multitenancy): the splitter that  *)
(* finds the tenant of a request's host, GetTenantDB with the connections  *)
(* it keeps behind a read-write lock, and CreateTenant, which a handler or *)
(* the command line calls.                                                 *)
(*                                                                         *)
(* Requests and creations are processes that run once.  A connection is    *)
(* named by the process that opened it.  A tenant's database is a file of  *)
(* its own, of which the model keeps how many of the tenant migrations     *)
(* have been applied; goose reads the number first, then applies what is   *)
(* missing, each migration in a transaction that fails on a schema that    *)
(* has it already.                                                         *)
(***************************************************************************)
EXTENDS Naturals, FiniteSets

CONSTANTS Tenants,
          Requests,
          Creations,    \* calls of CreateTenant
          Commands,     \* those made by the command line, in a process of their own
          Latest,       \* how many tenant migrations there are
          Calls,        \* the hosts the processes may be about
          MaxFaults,    \* bound: opens, queries and migrations that fail by themselves
          Base,         \* the host of the application itself
          Central,      \* the central database
          None

ASSUME CommandsAssumption == Commands \subseteq Creations
ASSUME BoundsAssumption == Latest \in Nat /\ MaxFaults \in Nat

VARIABLES
    tenant,    \* the rows of the tenants table, None for no row
    version,   \* the migrations each tenant's database has
    tenantDBs, \* the connections the repository keeps
    lock,      \* who holds tenantsMutex for writing
    at,        \* where each process is
    host,      \* what each process is about: [tenant, custom] or Base
    seen,      \* the version goose has read, while a process migrates
    db,        \* the connection a process has opened or found
    faults     \* how many faults there have been

vars == <<tenant, version, tenantDBs, lock, at, host, seen, db, faults>>

Processes == Requests \cup Creations
Hosts == [tenant : Tenants, custom : BOOLEAN]
Rows == [active : BOOLEAN, custom : BOOLEAN]

\* A creation is about a tenant, a request about one or the application.
ASSUME CallsAssumption ==
    /\ \A call \in Calls : /\ call \in [Processes -> Hosts \cup {Base}]
                           /\ \A c \in Creations : call[c] # Base
    /\ Requests \cap Creations = {}
ASSUME NamesAssumption ==
    /\ Base \notin Hosts /\ None \notin Rows
    /\ None \notin Processes /\ Central \notin Processes /\ None # Central

Init ==
    /\ tenant = [t \in Tenants |-> None]
    /\ version = [t \in Tenants |-> 0]
    /\ tenantDBs = [t \in Tenants |-> None]
    /\ lock = None
    /\ at = [p \in Processes |-> "start"]
    /\ host \in Calls
    /\ seen = [p \in Processes |-> 0]
    /\ db = [p \in Processes |-> None]
    /\ faults = 0

Of(p) == host[p].tenant

Goes(p, place) == at' = [at EXCEPT ![p] = place]

Fault == faults < MaxFaults /\ faults' = faults + 1

Unlock(p) == lock' = IF lock = p THEN None ELSE lock

\* The deferred Unlock of createTenantDB runs on every way out.
Leaves(p, place) == Goes(p, place) /\ Unlock(p)

-----------------------------------------------------------------------------
(* The splitter.                                                           *)

\* A host finds its tenant by subdomain or by custom domain.
Found(r) == host[r] # Base /\ tenant[Of(r)] # None
            /\ (host[r].custom => tenant[Of(r)].custom)

\* The root application runs on the central database; a subdomain without a
\* tenant, or whose query fails, is not found.
NoTenant(r) ==
    IF host[r] # Base /\ ~host[r].custom
    THEN Goes(r, "notfound") /\ db' = db
    ELSE Goes(r, "serve") /\ db' = [db EXCEPT ![r] = Central]

Split(r) ==
    /\ at[r] = "start"
    /\ \/ /\ IF ~Found(r) THEN NoTenant(r)
             ELSE Goes(r, IF tenant[Of(r)].active THEN "get" ELSE "pending") /\ db' = db
          /\ faults' = faults
       \/ Fault /\ host[r] # Base /\ NoTenant(r)
    /\ UNCHANGED <<tenant, version, tenantDBs, lock, host, seen>>

\* Mutant: the default middlewares of the application are inherited.
InheritedGlobals(found) == Central

\* What the router of the tenants makes of the connection in the context: it
\* has no global middlewares, so that none puts the central database there.
Inherited(found) == found

-----------------------------------------------------------------------------
(* GetTenantDB and createTenantDB.                                         *)

Get(r) ==
    /\ at[r] = "get" /\ lock = None
    /\ db' = [db EXCEPT ![r] = tenantDBs[Of(r)]]
    /\ Goes(r, IF tenantDBs[Of(r)] # None THEN "dispatch" ELSE "lock")
    /\ UNCHANGED <<tenant, version, tenantDBs, lock, host, seen, faults>>

\* Mutant: the connection is created without the lock.
LockSkipped(r) ==
    /\ at[r] = "lock" /\ lock = None
    /\ Goes(r, "recheck")
    /\ UNCHANGED <<tenant, version, tenantDBs, lock, host, seen, db, faults>>

Lock(r) ==
    /\ at[r] = "lock" /\ lock = None
    /\ lock' = r
    /\ Goes(r, "recheck")
    /\ UNCHANGED <<tenant, version, tenantDBs, host, seen, db, faults>>

\* Mutant: the map is not looked at again once the lock is there.
RecheckSkipped(r) ==
    /\ at[r] = "recheck"
    /\ Goes(r, "find") /\ UNCHANGED <<lock, db>>
    /\ UNCHANGED <<tenant, version, tenantDBs, host, seen, faults>>

Recheck(r) ==
    /\ at[r] = "recheck"
    /\ IF tenantDBs[Of(r)] # None
       THEN Leaves(r, "dispatch") /\ db' = [db EXCEPT ![r] = tenantDBs[Of(r)]]
       ELSE Goes(r, "find") /\ UNCHANGED <<lock, db>>
    /\ UNCHANGED <<tenant, version, tenantDBs, host, seen, faults>>

\* Mutant: the Unlock is not deferred, and a panic passes it by.
FindTenantKeepsLock(r) ==
    /\ at[r] = "find"
    /\ \/ tenant[Of(r)] # None /\ Goes(r, "open") /\ UNCHANGED <<lock, faults>>
       \/ tenant[Of(r)] = None /\ Goes(r, "panic") /\ UNCHANGED <<lock, faults>>
       \/ Fault /\ Leaves(r, "error")
    /\ UNCHANGED <<tenant, version, tenantDBs, host, seen, db>>

\* FindByID answers a missing row with nil and no error: the next line panics.
FindTenant(r) ==
    /\ at[r] = "find"
    /\ \/ tenant[Of(r)] # None /\ Goes(r, "open") /\ UNCHANGED <<lock, faults>>
       \/ tenant[Of(r)] = None /\ Leaves(r, "panic") /\ faults' = faults
       \/ Fault /\ Leaves(r, "error")
    /\ UNCHANGED <<tenant, version, tenantDBs, host, seen, db>>

\* sqlite.New, then the version goose finds in the database.
Open(p) ==
    /\ at[p] = "open"
    /\ \/ /\ db' = [db EXCEPT ![p] = p]
          /\ seen' = [seen EXCEPT ![p] = version[Of(p)]]
          /\ Goes(p, "migrate") /\ UNCHANGED <<lock, faults>>
       \/ Fault /\ Leaves(p, "error") /\ UNCHANGED <<db, seen>>
    /\ UNCHANGED <<tenant, version, tenantDBs, host>>

Apply(p) ==
    /\ at[p] = "migrate" /\ seen[p] < Latest /\ version[Of(p)] = seen[p]
    /\ version' = [version EXCEPT ![Of(p)] = @ + 1]
    /\ seen' = [seen EXCEPT ![p] = @ + 1]
    /\ UNCHANGED <<tenant, tenantDBs, lock, at, host, db, faults>>

\* Another caller has applied it meanwhile, and it can be applied again: one
\* that creates its table IF NOT EXISTS.
Reapply(p) ==
    /\ at[p] = "migrate" /\ seen[p] < Latest /\ version[Of(p)] > seen[p]
    /\ seen' = [seen EXCEPT ![p] = @ + 1]
    /\ UNCHANGED <<tenant, version, tenantDBs, lock, at, host, db, faults>>

\* It cannot, or it fails by itself: the connection stays open, and nobody
\* has it.
Clashes(p) == version[Of(p)] > seen[p] /\ faults' = faults

ApplyFails(p) ==
    /\ at[p] = "migrate" /\ seen[p] < Latest
    /\ \/ Clashes(p) /\ Leaves(p, "clash")
       \/ Fault /\ Leaves(p, "error")
    /\ UNCHANGED <<tenant, version, tenantDBs, host, seen, db>>

Keep(r) ==
    /\ at[r] = "migrate" /\ seen[r] = Latest
    /\ tenantDBs' = [tenantDBs EXCEPT ![Of(r)] = db[r]]
    /\ Leaves(r, "dispatch")
    /\ UNCHANGED <<tenant, version, host, seen, db, faults>>

Dispatch(r) ==
    /\ at[r] = "dispatch"
    /\ db' = [db EXCEPT ![r] = Inherited(@)]
    /\ Goes(r, "serve")
    /\ UNCHANGED <<tenant, version, tenantDBs, lock, host, seen, faults>>

Answer(r) ==
    /\ at[r] = "serve"
    /\ Goes(r, "answered")
    /\ UNCHANGED <<tenant, version, tenantDBs, lock, host, seen, db, faults>>

-----------------------------------------------------------------------------
(* CreateTenant, and what the application does with the rows.              *)

\* subdomain is UNIQUE: a second creation of the tenant fails.
Insert(c) ==
    /\ at[c] = "start"
    /\ IF tenant[Of(c)] = None
       THEN /\ \E active \in BOOLEAN :
                 tenant' = [tenant EXCEPT ![Of(c)] = [active |-> active, custom |-> FALSE]]
            /\ Goes(c, "open")
       ELSE Goes(c, "error") /\ tenant' = tenant
    /\ UNCHANGED <<version, tenantDBs, lock, host, seen, db, faults>>

\* The connection replaces one a request has opened meanwhile.  The command
\* line has a map of its own, that ends with it.
Put(c) ==
    /\ at[c] = "migrate" /\ seen[c] = Latest /\ lock = None
    /\ tenantDBs' = IF c \in Commands THEN tenantDBs
                    ELSE [tenantDBs EXCEPT ![Of(c)] = db[c]]
    /\ Goes(c, "answered")
    /\ UNCHANGED <<tenant, version, lock, host, seen, db, faults>>

\* The command is interrupted.
Killed(c) ==
    /\ c \in Commands /\ at[c] \in {"open", "migrate"} /\ Fault
    /\ Goes(c, "killed")
    /\ UNCHANGED <<tenant, version, tenantDBs, lock, host, seen, db>>

\* The application activates a tenant and gives it a domain, or removes it.
Activate(t) ==
    /\ tenant[t] # None
    /\ tenant' = [tenant EXCEPT ![t] = [active |-> TRUE, custom |-> TRUE]]
    /\ UNCHANGED <<version, tenantDBs, lock, at, host, seen, db, faults>>

Remove(t) ==
    /\ tenant[t] # None /\ Fault
    /\ tenant' = [tenant EXCEPT ![t] = None]
    /\ UNCHANGED <<version, tenantDBs, lock, at, host, seen, db>>

-----------------------------------------------------------------------------

Migration(p) == Open(p) \/ Apply(p) \/ Reapply(p) \/ ApplyFails(p)

Request(r) ==
    \/ Split(r) \/ Get(r) \/ Lock(r) \/ Recheck(r) \/ FindTenant(r)
    \/ Migration(r) \/ Keep(r) \/ Dispatch(r) \/ Answer(r)

Creation(c) == Insert(c) \/ Migration(c) \/ Put(c) \/ Killed(c)

Next ==
    \/ \E r \in Requests : Request(r)
    \/ \E c \in Creations : Creation(c)
    \/ \E t \in Tenants : Activate(t) \/ Remove(t)

\* The goroutine of a request runs on until it is answered.
Fairness == \A r \in Requests : WF_vars(Request(r))

Spec == Init /\ [][Next]_vars /\ Fairness

-----------------------------------------------------------------------------
(* Properties.                                                             *)

Places == {"start", "get", "lock", "recheck", "find", "open", "migrate", "dispatch", "serve",
           "notfound", "pending", "panic", "error", "clash", "killed", "answered"}

\* Every variable has its type, and the lock is held exactly inside of
\* createTenantDB (db.go:107).
TypeOK ==
    /\ tenant \in [Tenants -> Rows \cup {None}]
    /\ version \in [Tenants -> 0..Latest]
    /\ tenantDBs \in [Tenants -> Processes \cup {None}]
    /\ lock \in Requests \cup {None}
    /\ at \in [Processes -> Places]
    /\ host \in [Processes -> Hosts \cup {Base}]
    /\ seen \in [Processes -> 0..Latest]
    /\ db \in [Processes -> Processes \cup {Central, None}]
    /\ faults \in 0..MaxFaults
    /\ \A r \in Requests : lock = r <=> at[r] \in {"recheck", "find", "open", "migrate"}

\* A tenant's handler runs on the tenant's own database with every migration
\* applied, a connection kept for another tenant or the central database is
\* never in its context (module.go:146, router.go:230); the root application
\* runs on the central one, and never for a subdomain.
ServedFromOwnDatabase ==
    \A r \in Requests : at[r] = "serve" =>
        IF db[r] = Central THEN host[r] # Base => host[r].custom
        ELSE Of(db[r]) = Of(r) /\ version[Of(r)] = Latest

\* An open connection that is neither kept nor in anybody's hands: its
\* migration failed, or CreateTenant put another one over it (db.go:129, 173).
\* Two requests never open the same tenant twice.
LostConnectionsAreExplained ==
    \A p \in Requests :
        db[p] = p /\ at[p] # "migrate" /\ tenantDBs[Of(p)] # p
        => at[p] \in {"clash", "error"} \/ tenantDBs[Of(p)] \in Creations

\* Requests do not get in the way of each other's migrations: one is refused
\* because a migration was there already only if CreateTenant, which migrates
\* without the lock, is at the same database (db.go:129, 166).
ClashOnlyWithCreation ==
    \A r \in Requests : at[r] = "clash" =>
        \E c \in Creations : Of(c) = Of(r) /\ db[c] = c

\* Every request is answered: whatever way createTenantDB is left, by an
\* error or a panic, the lock is free for the others (db.go:108).
EveryRequestIsAnswered ==
    \A r \in Requests : at[r] # "start" ~> at[r] \in {"notfound", "pending", "panic", "error",
                                                      "clash", "answered"}
=============================================================================
