# A TLA+ verification of tracks

tracks is a Go web framework: a router with middleware and resource actions, a
small ORM, sessions, multitenancy, background jobs, feature flags, mail,
storage, WebSockets and a command line that generates projects. This directory
holds TLA+ models of the parts of it whose correctness depends on the order in
which several actors take their steps, the TLC configurations that check them
on small instances, and proofs checked by TLAPS for every instance.

Check a model with `tlc -workers 2 -config DBSessions.cfg MCDBSessions`, a
proof with `tlapm DBSessionsProofs.tla`. `PROJECT.json` maps every definition to
the lines of the source it models.

## 1. The system

Paths are below `src/`.

| component | source | state | operations | interacts with |
|---|---|---|---|---|
| Router | `router.go`, `middleware.go`, `versioning.go`, `resource.go` | middleware slices, module and route lists, the mux, the queue | registration, `Clone`, `Version`, `Handler`, `Run`, shutdown | everything; starts and stops the job queue |
| Actions, requests, responses | `action.go`, `content.go`, `request.go`, `response.go`, ... | none of their own | one request to one response, content negotiation, rendering | sessions (flash messages), templates, router |
| Templates, assets | `templates.go` | one template per route with its functions, layouts | `Load`, `Func`, `resolve` | actions |
| CSRF middleware | `csrf.go` | a cookie with a token | `CSRFProtection`, `CSRFField` | actions, templates |
| Session middleware | `session/sessions.go` | per request: the response writer with `initialID`, `saved`, the announced cookie | `ServeHTTP`, `load`, `save` at the first write or at the end | one of the two stores, the browser's cookie |
| Database sessions | `session/db` | table `sessions`; per request a private `sessionData` | `Load`, `Create`, `save`, `invalidate`, `Flash`, `Authenticate` | repository, `modules/authentication` |
| In-memory sessions | `session/inmemory` | map of shared `sessionData` objects | the same | the same |
| Background jobs | `jobs.go` | a channel, worker goroutines, sleeping goroutines, a context | `Enqueue`, `EnqueueAt`, `Start`, `Stop`, pick-up, retry | router, mail |
| Feature flags | `modules/featureflags` | registry with a version, table of overrides, process-wide LRU cache | `RegisterFlags`, `SetOverride`, `DeleteOverride`, `WithFlags`, `Enabled` | sessions, tenants, database |
| Repository, query builder, hooks | `database/repository.go`, `database/query.go`, `database/db.go` | tables; domain and skips in the context | `Create`, `Update`, `Delete`, `AtomicUpdate`, queries, `unique_per_domain` | all that persists |
| Transactions | `database/transaction.go` | the transaction in the context | `WithTransaction`, nested | repository |
| Connection and migrations | `database/sqlite/driver.go`, `database/goose.go`, ... | goose's global base file system | open, `MigrateUpDir`, `MigrateUpFS` | tenants |
| Multitenancy | `modules/multitenancy` | map of connections behind a lock, table of tenants | choice of a database per request, `CreateTenant`, `Close` | database, router |
| Domain databases | `domain_db.go` | map of connections, initialised schemas | double-checked open, initialisation | router |
| Users, activation | `modules/authentication` | users, activation tokens | sign up, activate, `SetPasswordWithToken`, login, logout | sessions, repository, mail |
| Tag cache | `cache.go` | entries, keys per tag | `Get`, `Set`, `SetWithTags`, `Delete`, `InvalidateTag`, `InvalidateAll` | handlers |
| Rate limiter | `ratelimit.go` | hits per key | sliding window | router |
| WebSocket hub | `websocket.go` | rooms as maps of connections | `Join`, `Leave`, `Broadcast` | handlers |
| Storage | `modules/storage` | files and rows of blobs | `Attach`, `Get`, drivers | repository, the subdomain of a request |
| Health checks | `health.go` | none | `HealthCheck`, a report of other components | router |
| Mail, i18n, validation, telemetry, CLI, test helpers | | none, or one memo | functions of one request, I/O, or code generation | |

What is hard about it:

* **Interleaving.** Every request runs in its own goroutine. With the database
  store each request edits a private copy of the session and writes the whole row
  back; with the in-memory store they edit one object, one locked method at a
  time. Workers of the job queue are receivers and senders of one channel. All
  requests for a route set the functions of one template, and a broadcast ranges
  over a map that joins and leaves go on changing. Checks are followed by inserts:
  `unique_per_domain`, the sign-up, a login (the session is looked at, then changed), the
  first connection to a tenant.
* **Partial failure.** The session store logs SQL errors and carries on;
  invalidation is a `DELETE` and then an `INSERT`; the flags middleware drops the
  error of its query and caches what it got. `CreateTenant` inserts a row, opens a
  file and migrates it; an attachment is a file and then a row.
* **Ordering.** The session is saved by the *first write* of a response, which
  decides what a handler and a template can still see.
* **Stale state.** Flags are cached per principals and version of the registry,
  and the keys, the version, the overrides and the defaults are read at four
  different times.
* **Limits and shutdown.** The channel has 1000 places; `Stop` waits for workers
  that may be blocked; postponed jobs are held by goroutines nobody waits for.

What makes each component correct is stated by the properties of section 3.
`PROJECT.json` lists the hazards line by line with the properties that cover them.

## 2. The modules

| module | models | used by |
|---|---|---|
| `DBSessions` | session middleware over the database store, with the handlers that log in, log out and flash | `MCDBSessions`, `DBSessionPages`, `DBSessionsProofs` |
| `DBSessionPages` | `DBSessions` with handlers that end in `renderHTML` | `MCDBSessionPages` |
| `MemSessions` | session middleware over the in-memory store | `MCMemSessions`, `MemSessionsProofs` |
| `JobLifecycle` | abstract: what the queue promises for each job | `JobQueue` (refinement) |
| `JobQueue` | channel, workers, sleepers, start and stop | `MCJobQueue`, `JobQueueProofs` |
| `FlagLRU` | the LRU cache, as operators on a cache | `FeatureFlags` |
| `FeatureFlags` | registry, overrides, middleware | `MCFeatureFlags`, `FeatureFlagsProofs` |
| `Repository` | repository operations, hooks, domain scope, nested transactions over SQLite's snapshots | `MCRepository`, `RepositoryProofs` |
| `TenantDatabases` | splitter, `GetTenantDB`, `CreateTenant`, migrations | `MCTenantDatabases`, `TenantDatabasesProofs` |
| `Accounts` | sign-up, login, activation links, passwords set by them | `Application` |
| `RateLimit` | the sliding window | `Application` |
| `TagCache` | the cache between readers and writers | `Application` |
| `Hub` | rooms and broadcasts | `Application` |
| `Attachments` | files and rows of the storage module | `Application` |
| `Routing` | registration of middlewares and routes, clones, versions, errors, `Run` | `Application` |
| `Pages` | rendering of pages, template functions, CSRF tokens | `Application`, `MCPages` |
| `Application` | composes the seven modules before it | `MCApplication`, `ApplicationProofs` (with `RoutingProofs`) |

The `MC...` modules give values to constants. A module that is proved about
declares no recursive operator. Definitions that a comment calls *a plausible
bug* or introduces by *Mutant* are mutated forms of the definition that follows
or uses them; no specification uses them. They show that a property can fail: with the mutated
form in place of the definition, TLC finds the property violated.

### 2.1 DBSessions

One action per SQL statement, since requests interleave nowhere else: each has
its own `sessionData`, so what happens between two statements of one request is
invisible to the others.

| state | code |
|---|---|
| `table` | the table `sessions` (`user` is the `user_id` of the column `data`, `flash` the column of that name) |
| `sess[r]` | the private `sessionData` of request r: `id`, `data`, `oldFlash`, `newFlash` |
| `pc`, `cookie`, `header`, `saved` | progress of `ServeHTTP`; the cookie presented; the last `Set-Cookie`; `sessionResponseWriter.saved` |
| `jar`, `issued` | the cookie the browser holds; ids that `generateSessionID` has returned |
| `revoked`, `loggedIn`, `stale`, `resetters`, `faults` | history variables for the properties: deleted ids, ids of logins, requests with an outdated copy, requests that set a password, errors so far |

| action | code |
|---|---|
| `Arrive`, `Deliver`, `Lose` | the browser and the network: a request is sent with the cookie held at that time, a response comes back or does not |
| `LoadFound`, `LoadMissing`, `CreateSession` | `load` in `sessions.go`, `Load` and `Create` in `store.go`; a query error is treated as an unknown session, a failed `INSERT` is only logged |
| `Login` | `SessionsResource.Create`: returns early when the session is authenticated (its private copy, so that check and change are one step) |
| `SetPasswordWithToken` | the handler of that name: `Authenticate` whoever the session belonged to |
| `Flash` | `sessionData.Flash` |
| `InvalidateDelete`, `InvalidateReissue` | `invalidate`, a `DELETE`, then a new id with empty maps and an `INSERT` |
| `Write`, `FinishUnsaved`, `FinishOrPanic` | the first write, a handler that returns without having written, one that returns after it or panics |
| `Restart` | the process dies: the table and the cookie survive |

A statement's outcome is one of: applied and reported as done; reported as failed
and not applied; reported as failed *although applied* (the repository reads the
row back after its `INSERT`; a context is cancelled after the statement ran). `MaxFaults` bounds the
errors, and is 0 in the two runs in which a fault-free counterexample is wanted. Ids are never
reused: they are 32 random bytes.

`DBSessionPages` adds what `renderHTML` does: once `WriteHeader` has saved the
session (`Write`), `RenderFlash` puts `FlashMessages` on the page. Its histories
are the messages a request loaded and those its page shows.

### 2.2 MemSessions

All requests with one cookie hold the same object, so the steps are the methods
that take its lock, plus each of the middleware's three unlocked reads of `ID()`
(`Announce`, `Begin`, `SaveCookie`). A login takes the lock twice, with a query and
bcrypt in between: `LoginCheck` finds the session anonymous, and `Login` authenticates it
whatever has come of it since, or `LoginRefused` does not. `SetPasswordWithToken`
looks at nothing. The history `loggedIn` has each request's own user, `replaced` the
requests after which another one has authenticated the same object. `store` is keyed by the id an object was
*created* with, as `Store.sessions` is; `Invalidate` changes the object's `id` and
not its key. A restart loses all objects. A flash map is atomic here: the data
race of a template that ranges over a live map is outside the model.

### 2.3 JobQueue and JobLifecycle

A Go channel serves blocked senders in the order of their arrival. The channel
and its blocked senders are therefore one sequence `line`: its first `Capacity`
entries are the buffer, an entry behind them belongs to a goroutine blocked in
its send. A send is an append; a worker whose entry is behind the buffer is
`Blocked` and takes no step until receives have moved the entry forward. Each
entry names its sender.

`EnqueueAt` covers `Enqueue` and `EnqueueAt` by any goroutine in any phase,
also before `Start` and after `Stop`, as nothing in the code looks at the phase.
`Postpone` and `Wake` are the goroutine that sleeps until a job's time and sends
it again; `Retry`, `Succeed` and `GiveUp` are what follows `Handle`; `Leave` is the
branch `<-ctx.Done()` of the select. When both branches are ready Go chooses
either, and so does the model. `Start`, `CancelRun`, `Stop` and `StopReturns` are
what `run` in `router.go` does with the queue. Time is reduced to whether a job is
still early: a worker that receives an early job postpones it or, its time
having come while it was queued, handles it; a job that has been slept on is due.

`JobLifecycle` is the promise: new, queued, running, then done, queued
again or dead, where a job runs at most `MaxRetries + 1` times and is given
up only after its last run. `StatusOf` maps the concrete state to it.

### 2.4 FeatureFlags and FlagLRU

`FlagLRU` has one operator per method of `lruCache` (each runs under its mutex):
`AfterGet`, `AfterSet`, `Touch`, `RemoveFromOrder`, `Evict`. An entry keeps its age
instead of the time it was stored at. `FeatureFlags` splits `WithFlags` at each
read of shared state: `ListKeys`, `MakeCacheKey` (the version), `CacheGet`,
`ListOverrides`, one `ComputeFlag` per turn of the loop (it reads the default),
`CacheSet`. `RegisterFlags`, the two statements of `SetOverride`
(`UpdateOverride`, `InsertOverride`, with the unique index between them) and
`DeleteOverride` come in between. `older` is a history of the uses of the cache, kept apart from the
cache's own order: the pairs of cached keys of which the first was last used before the
second. A query may fail: `ListOverrides` then sees
some of its rows, and the middleware drops the error. `ComputeEffective` is the code's chain of lookups; the
property compares it with a definition by rank (`Strongest`, `Effective`).

### 2.5 Repository

Each SQL statement is an action, and so is each hook that may refuse. `table` is
the committed rows; `tx[r]` is the transaction in the context of request r, with
the snapshot it reads (`view`), whether that is still the newest (`fresh`) and
whether it `writes`; `depth[r]` counts the `WithTransaction` calls r is inside of;
`op[r]` is the operation on its way and `copy[r]` a record it has loaded.

| action | code |
|---|---|
| `Begin`, `Nest`, `ReturnNested`, `Close`, `Panic`, `Cancel` | `WithTransaction`: a nested call runs its callback in the outer transaction and begins and ends nothing, so an inner error that the outer callback swallows is committed |
| `CreateStart`, `Check`, `Insert`, `ReadBack`, `After` | `Create`: `BeforeCreate`, the query of `unique_per_domain`, the `INSERT`, `FindByID`, `AfterCreate` |
| `Load`, `Find` | `FindByID`, and the queries with the domain of the context (`Scope`; `Build` gives the clause the joined text means, each `AND` binding before each `OR`) |
| `UpdateStart`, `Update`, `DeleteStart`, `Delete`, `AtomicUpdate` | the others; `Update` writes every column of the record it is given |

SQLite is modelled from how `sqlite/driver.go` opens it: WAL mode, deferred
transactions that read the snapshot of their first statement, one writer, and
`SQLITE_BUSY` for a write to an outdated snapshot (`CanWrite`, `Outdated`). The
rows carry history fields: how often they were incremented, and whether the last
write was a `stale` copy or a `loose` one, that is one for which no check in the
same transaction vouches.

### 2.6 TenantDatabases

A request is split by its host (`Split`), then goes through `GetTenantDB`: a look
under the read lock (`Get`), the write lock (`Lock`), another look (`Recheck`),
the row (`FindTenant`: a row that has gone makes the code panic, and the deferred
unlock runs), `Open`, one `Apply` per migration, `Keep`, then the tenants' router
(`Dispatch`) and its handler. `CreateTenant` inserts the row, opens and migrates without
the lock and takes it only to store the connection (`Put`), over whatever is there.
The command line does the same in a process of its own, which may be killed. A
migration that another process has applied meanwhile is applied again, as one that creates a
table `IF NOT EXISTS` can be (`Reapply`), or fails (`Clashes`).

### 2.7 Accounts, RateLimit, TagCache, Hub, Attachments, Routing, Pages

*Accounts.* One action per statement of the handlers: `SignUp` looks the email up, `Insert` and
`Welcome` create the row and read it back, `LogIn` and `Password`, `Activate`,
`FindToken` and `SetPassword` (a `Update` of every column of the copy that was
loaded). The token that is posted may be empty, and is looked up like any other (`Posted`).
The application invites users (`Invite`) and edits them (`EditLoad`,
`EditStore`) by the same full-row update.

*RateLimit.* A request is one step, as the limiter's lock is held for all of it:
`Pass`, `Refuse`, or `Panic`, which indexes an empty list when the limit is 0 or negative. The
times of a key are in order, so that the ones `Allow` drops are the first (`Dropped`, `Recent`).

*TagCache.* `source` is what the cache holds copies of. A reader looks the key up
(`Get`), reads the source (`Read`) and stores (`Store`), with the tag or without
one; a writer changes the source (`Change`) and then invalidates by tag, by key or
everything (`Invalidate`). The lists of keys by tag keep keys that were deleted or
overwritten, as in the code.

*Hub.* A room's map is an object, named by the call that made it. `Broadcast`
takes it under the lock, and ranges over it without: `Marshal`, `Range`, `Write`, `Done`.
`Leave` removes an entry from the range if that has not come to it; `Join` may add
one. `Collide` is the runtime's fatal error for a range and a write at a time.

*Attachments.* `Create` and `Copy` are the driver's two steps, `Insert` the row,
`Clean` the removal of the file after a failed insert, `Get` a request that finds
the file by the row; `Kill` ends the process. The prefix of a file is what the registered extractor
gives: the `Subdomain` of the request at hand, which is empty for the root application and on a
custom domain (`ByDomain`).

*Routing.* Registration is sequential; a step is one call on a router that the
program keeps or on what the last call returned, which may be an error router or a
version. `arrays` are the arrays behind the slices of request middlewares:
`Clone` copies the slice and shares the array, and `append` writes into it when there is room.
A value remembers by which kinds of calls registrations have `failed` on the way to it: on
a router, which returns an error router; of a single route on a version, or of a `HealthCheck`, which
both drop that. `Run` builds the handler, panics or does not come back from a recursion.

*Pages.* `Install` puts a request's functions into the route's template, `Text` and
`Form` are calls of them while the page is executed. `Protect` (safe methods, with a `Token`),
`Unsafe` (the others, without one) and `Submit` are the CSRF middleware, `field` is the name
it is configured to read a form's token from, and `Exempt` has the requests of exempt paths. `Act` chooses
how the answer goes on: the renderers that execute no template, the redirects (303, and 202
for HTMX) and 406 end it there.

### 2.8 Application

The seven modules of 2.7 share no state, and each is small. `Application` puts them side by
side: `part` is chosen in the initial state, the behaviour is one of that part, and the
variables of the others are `None` throughout. Its properties are those of the modules,
each under the condition that its module is the part, and its assumptions are those of the
modules. Reachable states are the sum, not the product, of the parts' states. `MCApplication` gives
the constants their values.

## 3. What the runs check

| run | module / cfg | expectation | distinct states |
|---|---|---|---|
| `db_sessions` | `MCDBSessions` / `DBSessions.cfg` | pass | 1.6 million |
| `saved_login_stays` | `MCDBSessions` / `DBSessionsLogin.cfg` | violation | |
| `page_shows_flash` | `MCDBSessionPages` / `DBSessionPages.cfg` | violation | |
| `mem_sessions` | `MCMemSessions` / `MemSessions.cfg` | pass | 1.0 million |
| `announced_id_loads` | `MCMemSessions` / `MemSessionsReissued.cfg` | violation | |
| `jobs` | `MCJobQueue` / `JobQueue.cfg` | pass | 24 thousand |
| `jobs_are_handled` | `MCJobQueue` / `JobQueueStall.cfg` | violation | |
| `feature_flags` | `MCFeatureFlags` / `FeatureFlags.cfg` | pass | 3.0 million |
| `repository` | `MCRepository` / `Repository.cfg` | pass | 1.1 million |
| `tenant_databases` | `MCTenantDatabases` / `TenantDatabases.cfg` | pass | 0.2 million |
| `application` | `MCApplication` / `Application.cfg` | pass | 2.5 million |
| `page_shows_its_own_request` | `MCPages` / `PagesShared.cfg` | violation | |

**db_sessions.** A deleted session never returns, not even by the save of a
request that loaded it before (`RevokedStaysDead`): this rests on the save being
an `UPDATE` and on ids being fresh. A stored session has a user only under an id a
login was carried out for (`AuthenticationNeedsLogin`). As long as no
statement fails, announced ids resolve unless they were logged out of
(`CookieResolves`). A stored user leaves a row only by a request that loaded the row before
that user was saved; or it gives way to another user by a request that set that one's password,
which asks nobody who is logged in (`StoredUserIsKept`). A stored flash message goes only by a request
that had it to show, or by a stale save (`FlashDroppedOnlyAfterLoaded`). The last
two say exactly how far the full-row save may go wrong.

**mem_sessions.** When a request that logged in has been answered, its cookie
names a logged-in session, with its own user unless another request has authenticated
the object since, whatever the requests that share the object did, logouts excepted; and a login that found the
session anonymous replaces somebody only if another request shares the session with
it (`LoginIsAnswered`). The flash of a request can vanish before the
next one only if the object was shared (`OwnFlashLostOnlyIfShared`).

**jobs.** A job is in one place at a time (`EachJobOnce`), and the queue implements `JobLifecycle`
(`ImplementsLifecycle`); after `Stop` has returned nothing runs or is started
(`NothingAfterStop`). Under fairness, each job enqueued while the pool runs is settled unless
the pool is cancelled or all workers block in their own sends (`JobsSettle`), and `Stop`
returns unless a worker is left in such a send (`StopEnds`).

**feature_flags.** The order of the cache lists each cached key once and nothing else
(`CacheIsConsistent`, without which `set` would index an empty slice or never
evict); the victim of an eviction is the least recently used key, where the
history `older` records uses independently of the cache's order
(`EvictsLeastRecentlyUsed`). Entries mix reads of several moments and of failed queries, but
once nothing has changed for the time to live plus the time a
request takes, each entry that would be served has the value by precedence
(`StaleForAWhileOnly`). The bound needs the age not to be renewed by a hit.

**repository.** What a transaction wrote is in the table only if the outermost
callback returned nil and the commit succeeded (`OnlyCommittedTransactions`). The
others say how far a guarantee goes, by naming what breaks it. Two rows of a
domain share a unique value only if one was written outside of a transaction, in
another domain or without a scope, or by `Update` (`DuplicatesAreLoose`: inside, the
outdated snapshot makes the second insert fail). Increments are lost only to an `Update`
of a stale copy (`IncrementsAreLostToStaleCopies`). `Create` answers with nothing
only for a row outside of its scope or outside of a transaction
(`CreatedRowIsReturned`), and a scoped query leaves its domain only by an `OR`
(`OnlyAnOrLeavesTheDomain`).

**tenant_databases.** A tenant's handler runs on the tenant's own migrated
database, the application's on the central one (`ServedFromOwnDatabase`). Two requests
never open one tenant twice: a connection is lost only if its migration failed or a
creation replaced it (`LostConnectionsAreExplained`). A migration clashes only with a
creation's (`ClashOnlyWithCreation`). Every request is answered, so the lock is
given back on every way out (`EveryRequestIsAnswered`).

**application.** Of requests that sign up with one email one at most is told that
it has; the account has its maker's password, or that of a request that set one by the token the
account had, which is the empty one for an account without an invitation; and one that is refused has
left no account of its own (`OneAccountPerEmail`). A token is not there again after it was used, and sets a
second password only for a request that had found it before, unless an edit of an
outdated copy stores it again (`SpentTokenStaysSpent`). Of two requests that passed
and are the limit apart the second came a window after the first, so that no window, wherever it
begins, has more than the limit; who is refused is told exactly how long it lasts: the end of the
window of the request that is the limit-th last, before which nobody passes; and a panic comes only of a limit that
lets nobody pass (`RateBound`; the header has whole seconds of it, which the model leaves out). An old value is in the tag cache only until its writer has
invalidated it, or because its reader read before the change and stored after it,
or stored it without the tag (`StaleOnlyByRace`). A broadcast that returns has reached everybody who
was in the room throughout and nobody who never was (`BroadcastReachesTheRoom`). A row of an
attachment has its whole file, unless its request has deleted the file because the row, though
inserted, could not be read back; a whole file without a
row is explained by a failure or a kill; and the file is found by the requests that come by the
subdomain it was stored by, or, if it was stored without one, by all that come without one
(`RowsAndFilesAgree`). A route runs the
middlewares of its router and of its ancestors before the clone, in order. If not, another router has been given what it was up to a place and then
something else, and the place is one in an array that `append` had made with
room for it: after 3, 5, 6 or 7 middlewares, or 9 and more, never after 0, 1, 2, 4 or 8 (`RoutesRunTheirMiddlewares`). A failed
registration ends in an error of `Run`, unless all that failed were health checks and single routes on
versions (`FailedRegistrationIsReported`). With the default name of the field, the form of a page that answers
a safe request is refused only if its page or its browser's tokens met another request; the
form of any other page is accepted only by another request's functions, and with another name
none is (`RefusedForAReason`).

**page_shows_its_own_request.** Two requests for one page: the first calls the
functions of the second.

Each module has one type invariant, `TypeOK`. Deadlock is checked except where the
system may really stop: all jobs may be settled and the queue stopped; the
single request of `DBSessionPages` may use up its ids; requests for flags may simply wait
for a clock that the bound of a fetch holds back; requests, creations and calls of
the other runs are each made once and then all are answered.

## 4. Findings

The findings 1, 2, 3, 5 and 6 are runs that expect a violation; the others were seen while
modelling, and the models have the behaviour they describe.

1. **A saved login can be undone** (`SavedLoginStays`). The changelog of v0.0.46
   promises that updates of a session, "like login", are visible to subsequent
   requests at once. A request that loaded the session before a login and answers after
   it writes its anonymous copy over the row (`session/db/store.go:110`).
2. **A page never shows the flash of the previous request** (`PageShowsFlash`).
   `FlashMessages` "returns all flash messages from the previous request"
   (`session/sessions.go:41`); `renderHTML` writes the header first
   (`action.go:217`), the header saves the session, and the save rotates the messages
   away before they are read (`action.go:267`).
3. **The workers can all block on their own channel** (`JobsAreHandled`). A retry
   is sent to the channel the worker receives from (`jobs.go:91`). With the
   channel full and each worker's job due for a retry nobody receives any more, and
   `Stop` does not return.
4. **The number of workers is ignored.** `NewMemoryQueue` drops its argument and
   `Start` always starts five (`jobs.go:59`), although the number is configurable
   (`router.go:143`). Seen while modelling; no run is needed for it.
5. **The cookie issued by an invalidation does not load** (`AnnouncedIdLoads`).
   The changelog of v0.0.41 introduces new cookies for changed ids; the in-memory
   store keeps the object under its old key (`session/inmemory/data.go:92`).
6. **A page shows another request's values** (`PageShowsItsOwnRequest`). "Every
   request will overwrite these funcs" (`templates.go:161`), in the one template of
   the route (`action.go:235`): language, view vars and CSRF token are those of the
   request that came last.
7. **The status of an HTML response is mostly ignored.** `StatusCode` "is the HTTP
   status code to be returned" (`response.go:7`); only the branch for 200 writes
   it (`action.go:200`). `Pages` leaves the status that is written out.
8. **Clones overwrite each other's middlewares** when the array they share has
   room (`router.go:247`); `RoutesRunTheirMiddlewares` has exactly this exception.
9. **A version hides failed registrations.** The error router promises that `Run`
   returns the error (`router.go:74`); the methods of a version that
   register a single route drop it (`versioning.go:68`). `FailedRegistrationIsReported` has exactly
   this exception and that of finding 16.
10. **`Func` leaves the map of layouts nil** (`templates.go:187`), and the next `Load` that
    finds a layout panics.
11. **A version mounted on its own router** makes `Run` recurse without end
    (`router.go:514`), which is how the documentation mounts it.
12. **An After hook cannot cancel** outside of a transaction: its error is returned
    and the row stays (`database/repository.go:249`).
13. **A condition with an `OR` leaves the domain** (`database/query.go:147`): the conditions
    are joined without parentheses.
14. **The tenants' own migrations are not found**: an absolute path is looked up in
    an embedded file system and the error dropped (`modules/multitenancy/module.go:41`).
15. **The check for a fresh domain database is never true**, so the error of
    `SchemaInit` is dropped (`domain_db.go:75`).
16. **A health check hides its failed registration**: `HealthCheck` returns the router it was
    given, not what `GetFunc` has returned (`health.go:65`).
17. **An empty activation token is one**: `SetPasswordWithToken` looks it up
    (`modules/authentication/users.go:219`), where `Activate` turns it away, and it is the token of each account
    without an invitation. `OneAccountPerEmail` says what is left.
18. **Some forms are refused by design of the middleware**: a page that answers an
    unsafe request has no token in its context and an empty `csrf_field` (`csrf.go:79`), and `CSRFField` ignores a
    configured `FieldName` (`csrf.go:129`).
19. **Files are kept apart by subdomain, not by tenant** (`modules/storage/module.go:57`). The changelog promises
    "Multi-tenant isolation for storage keys."; on custom domains there is no prefix, and a tenant does
    not find by the one host what it has stored by the other.

## 5. Bounds and fairness

*Slots.* `Requests` bounds how many requests are in flight, not how many there
are: a slot returns to idle and is used again. Two slots are the least with which
one request can be stale because of another.

*Ids.* Three session ids allow one session, its invalidation, and another
invalidation or another session. Every property relates a request to one id at
a time, or an id to the one before it. Requests and ids are interchangeable and only safety is
checked there, so symmetry over them is sound; the job runs check liveness and
use no symmetry.

*Users, messages, errors.* Two users, so that one can replace the other; one message, as the
properties ask whether a given message is there. One error of the database in `db_sessions` (`MaxFaults`), at any
statement; the proofs cover any number of them.

*Jobs.* Two workers, one place and three jobs, two of which may be retried, are the least
with which the channel is full while each worker holds a failing job. The proofs
cover every other size.

*Flags.* `MaxChanges` bounds registrations and commands together, `MaxFetch` the
ticks between listing the keys and caching the result, `TTL` and `Cap` are the
cache's. One change suffices to make an entry stale: the starting
table already has overrides of each type that contradict each other, and a failing
query is not counted as a change. Two places in the cache and up to four keys
(two principals, two versions) make evictions, hits, expiry and re-use meet.
`MaxFetch` is an assumption about scheduling which the bound of
staleness needs: a request that is held up forever after its query
could cache an old result at any time. A development-mode process panics on
programming errors instead of registering them; production mode is modelled.

*Repository.* Two requests in one domain, two rows, two values of the unique
column, one request with two operations and one with one: a check and an insert
race with the other insert, and an update with a copy races with an increment.
Nesting goes to depth 2, since a third call of `WithTransaction` meets the same
context as the second. Ids are interchangeable, only safety is checked.

*Tenants.* Two tenants, two requests and two creations, one of them of the command line;
`Calls` has them all at one tenant, at two, and beside the application itself. Two
migrations let a creation and a request each apply one. One fault: a second would have
to meet the first, and every process runs once.

*Application.* Three requests for accounts, readers, attachments and pages, so that
a third comes between two; one email, as different emails are different rows; limits from
-1 to 2, on both sides of letting anybody pass; a window of three ticks in seven, so that windows begin and end at every tick of
another; five moves in one room of three connections, so that it is emptied and made
anew during a broadcast; two requests of one tenant, of which one comes by its custom domain, and one
of another tenant that does, too; one request under an exempt path, and both names of the field; five request middlewares, the least with which `append` leaves room
after a clone and both sides go on.

*Fairness.* `TenantDatabases`: weak fairness of each request, whose goroutine runs on
until it is answered; a request that waits for the lock is not enabled, and
nothing is assumed of creations, which hold the lock for one step only.
`JobQueue`: weak fairness of each worker's `Select` and
`Handle`, of each sleeper's `Wake` and of `StopReturns`: the Go scheduler runs every
goroutine that can run, sleeps end, and handlers are assumed to return; a
blocked goroutine is not enabled, so fairness gives it nothing. Nothing is assumed of `EnqueueAt`, `Start`,
`CancelRun` and `Stop`. `Select` is fair as a whole: a select with two ready
branches may take either, so `Leave` is not forced as long as there are jobs to
receive. In the model it comes to be taken because jobs are finite, in the code
because Go picks a ready branch at random.

## 6. What is proved

Every safety and action property of every run that passes, and the refinement of `JobLifecycle`, is a
theorem: each holds for every value of the constants, any number of requests, keys, tenants or
workers, not only for the instance TLC is given. The assumptions are the named ones of the
modules, which TLC evaluates for each instance: mostly that `None` and its like are no
values, that bounds and capacities are numbers (the capacity of the queue and the depth of a transaction are
positive), that there are finitely many flags, and that requests ask about what there is. One is about the
application: `StoredAssumption` has a table at the start whose rows
no request of the model has written: their counters are exact, and no check vouches for them. The limit of the limiter may be any integer.

A theorem is named for what it says and is about the property it names. Most properties are not
inductive; what is, is the conjunction (mostly `IInv`) of the facts below, of which each is a
definition with a comment in its module.

**DBSessionsProofs** (`TypeCorrect`, `LogoutIsFinal`, `LoginIsRequired`,
`UsersLeaveKnowingly`, `FlashLostOnlyAfterLoad`, `AnnouncedIdsResolve`). That
deleted rows stay deleted needs that an `INSERT` does
not use a revoked id, hence `IdsIssued` (rows, copies and revoked ids have been
issued). Logins need
`CopiesNeedLogin`: a private copy, too, has a user only after a login under its
id. That users leave only by stale saves and set passwords needs `CopiesAreCurrent`: a request that
is neither stale nor already saved holds what the row had when it was loaded. The ids that
are announced need `IdsResolve`: while no statement has failed, the id of an open
request has a row or was revoked.

**MemSessionsProofs** (`TypesStay`, `LoginsAreAnswered`, `FlashesOfOneAreKept`). An object is
reached by its key while its id changes, so the facts are about keys: a request that has
begun has an object (`HasObject`), only a handler has flashed or logged in (`HandlersOnly`), an object
has the id its request began with unless it was logged out of (`KeepsItsId`), and the user of
a login, or of one that has replaced it, until then (`StaysLoggedIn`); a login that finds somebody there after its check has
shared the object (`RacesShow`). That a flash is
lost only if the object was shared needs `SharingShows` (two requests at one object both know)
and `KeepsItsFlashes` (the object of a request that is alone has what it flashed).

**JobQueueProofs** (`QueueTypeCorrect`, `JobsAreNotDuplicated`, `StopIsFinal`,
`QueueImplementsLifecycle`). The invariant
adds to `TypeOK` and `EachJobOnce`: `Counts` (the attempt an entry carries is
the number of runs before it, which ties the travelling counter to the history
`runs`), `SettledOnce` (no job is both done and dead, and both kinds were submitted) and `PoolPhase` (workers exist only once started, and all
have left when stopped). The refinement has one step per action; postponing,
waking, starting and stopping are stutters.

**FeatureFlagsProofs** (`CacheStaysConsistent`, `TypesStay`, `StalenessEnds`, `EvictionIsInTurn`).
`ShapeInv` gives the cache its
shape (a finite map, a sequence of keys); lemmas say what cutting a key out of a
sequence, appending, touching and evicting do to distinct sequences. `ComputesEffective` says that the code's chain of
lookups gives the strongest override, for every table. Staleness is then a matter of
clocks: `Timely` (a request during which nothing has changed has listed the keys and the rows as they are, and has computed what
is right) and `EntryTimely` (an entry that is younger than the last change by more than
a request takes is right). Evictions need `Placed`: the order of the list agrees with the history of uses.

**RepositoryProofs** (`Typed`, `CommitsAreAtomic`, `UniquePerDomain`, `IncrementsCount`,
`CreateAnswers`, `QueriesStayInTheDomain`). What holds of the table holds of every transaction's
view of it (`ViewOK`: no two rows that are not loose share a value, the counter is the
number of increments, the rows it did not write are of committed transactions). The rest says what a request may rely on between its statements: a copy that its transaction has read and not
changed since is the row it sees (`Exact`), so that an `Update` by one has the counter of the row (`Current`); a
row that is created is its own and counts from the start (`Fresh`); no row of the
view clashes with one whose check has passed (`Checked`); the row it has inserted is there to be read
back (`There`). That a query stays in its domain is a lemma about
`Build`, on the sequence of conditions with the domain as the last one.

**TenantDatabasesProofs** (`TypesStay`, `TenantsDoNotShareDatabases`, `NoOtherConnectionIsLost`,
`RequestsDoNotClash`). Who serves
whom needs `Kept` (a kept connection is one of the tenant's, to a migrated database),
`Opened` (a migrating process has its own connection and has read no version ahead of
the database) and `Handed`; what is lost needs `Alone` (nothing is kept for a tenant
whose connection is being made, since `Put` waits for the lock); what clashes needs `Behind` (a
request is behind its database only if a creation is at it). One lemma
(`StepOfAProcess`) covers every step that touches neither a database nor the map.

**ApplicationProofs** proves the ten properties of the run `application`. The invariant is one per part,
under the condition that its module is the part:

* *Accounts* (`AccountsAreOne`, `TokensStaySpent`): a
  row is stored under its email (`AccountsKeyed`), a row that a sign-up has inserted has the inserter's password, in the table and in the copy an edit will
  store, or that of a request that set one by the token it found there (`Inserters`, `Untouched`); a token has one email wherever it is (`Homes`), one an edit
  has made is nowhere else yet (`NewToken`), and a spent one is in no row (`Gone`).
* *RateLimit* (`WindowsStayBounded`): the list of a key is the latter part of what has passed, and what is not
  on it has left the window (`KeepsTheLast`); with `InOrder` that makes the requests `Spaced`, and
  `Told` what a refusal has promised. That there is a place up to which times have left the window is an
  induction, for which a least number stands in (`LeastNumber`, from the library's theorem that the
  order of the naturals is well founded).
* *TagCache* (`StalenessIsExplained`): `Listed` (an entry is in the list of each of its
  tags) makes an invalidation reach it; `Reads` ties what a reader carries to the
  source.
* *Hub* (`BroadcastsReachTheRoom`): `OwnMaps` (a map is one
  room's, and has who is in it), `OwnCasts` (a broadcast's map is or was its room's), `Reaches` (who
  has stayed is due or reached).
* *Attachments* (`RowsHaveTheirFiles`): `Progress` says how far each request on its way has come with its file and row.
* *Routing* (`RoutesHaveTheirMiddlewares`, `FailuresAreReported`), with its lemmas in **RoutingProofs**:
  arrays have the sizes `append` gives them and are more than half full (`Sizes`); two routers that share
  one were given the same as far as both go, or parted where it had room
  (`SharersPart`); so a slice with something else in it has a router that explains it
  (`SlicesExplained`, `RoutesExplained`).
* *Pages* (`RefusalsAreExplained`): whoever is in flight has met all others in flight
  (`InFlightMet`); the functions in a template, the token in a form and the one in a cookie
  are a request's own, or those of one that it has met (`FunctionsAreOwn`, `FormsAreOwn`, `CookiesAreCreated`,
  `CreatorsMet`); what a form was `Judged` as stays explained when the browser's cookie changes later.

`TypesStay` puts the type invariants of the seven together.

*Only model-checked:* liveness (`JobsSettle`, `StopEnds`, `EveryRequestIsAnswered`), since the prover has no
backend for fairness and `ENABLED`. The properties of the five runs that expect a
violation are false, and there is nothing to prove.

## 7. Plan

What is left, in this order.

1. The order of shutdown: the server, the queue and the modules, `Routing.Run`
   composed with `JobQueue`, and `TenantRepository.Close` against requests on their way, with
   the proof that no job is handled on a closed database, or the run that shows one.
2. An abstract unit of work that `Repository` implements for a request whose operations
   are all inside of one `WithTransaction`: the invariants of `RepositoryProofs` (`Exact`,
   `Current`) are most of that refinement.
3. `DomainDB`, if it comes to differ from `TenantDatabases` in more than its `SchemaInit`.

## 8. What is not modelled

Whole components: translation, validation, mail drivers, telemetry,
test helpers, command line and generators are functions of one input or plain I/O,
with no state that several actors share (the command that creates a tenant is part
of `TenantDatabases`). A health report reads other components; its registration is in `Routing`. `DomainDB` keeps connections behind the same double-checked lock as
`TenantRepository`, without creations that go past it.

Within the modelled components: the session entries besides `user_id` (written and lost the same way),
the expiry attributes of cookies, `UpsertFlags`, which copies the registry to a table only
operators read, the functions `Get` of the flags module, and torn reads of the
maps that the in-memory sessions hand out; statements that hooks run themselves, columns besides a
counter and a unique name, ordering and limits of queries; `TenantRepository.Close`,
`UseCentralDB`, the roles of a tenant and the migrations of modules at startup; the email that
carries an activation link; the whole seconds of `Retry-After` and what the default key of
the limiter is made of (the remote address with its port); `CacheMiddleware`, which caches nothing; the
drivers of the storage module besides files on disk; how the mux of the standard library matches a path; the
text of templates, their layouts and the icon cache.
