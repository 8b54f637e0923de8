------------------------------ MODULE Routing ------------------------------
(***************************************************************************)
(* How an application is put together (src/router.go, middleware.go,       *)
(* versioning.go, health.go): the calls by which the program registers     *)
(* middlewares and routes on its router, its clones and its versions, and  *)
(* the Run that builds the handler from them.                              *)
(*                                                                         *)
(* Registration is sequential.  Each step is one call, on a *router the    *)
(* program has kept or on the value of type Router that the previous call  *)
(* has returned: [router, version, errored] tells a *router from a         *)
(* *versionRouter in front of it and from an errRouter.  A slice of        *)
(* request middlewares is an array and a length, since Clone shares the    *)
(* array.  The n-th request middleware is n, and n names the array that    *)
(* its append allocates, if it does.                                       *)
(***************************************************************************)
EXTENDS Naturals, Sequences, Relation

CONSTANTS Routers,   \* the *routers there may be
          Root,      \* the one of New
          Paths,     \* what routes are registered for
          MaxUsed,   \* bound: request middlewares
          MaxCalls,  \* bound: the program's other calls
          None

VARIABLES
    routers,  \* what is behind every *router, None before Clone creates it
    arrays,   \* the arrays of the request middlewares
    used,     \* how many request middlewares have been registered
    routes,   \* the routes of all the muxes
    cur,      \* what the last call has returned
    calls,    \* how many of the other calls there have been
    app       \* "registering", "panicked", or what Run has come to

vars == <<routers, arrays, used, routes, cur, calls, app>>

\* failed is history: by which kinds of calls the registrations have failed
\* that led to this value.
Value(r) == [router |-> r, version |-> FALSE, errored |-> FALSE, failed |-> {}]

\* given is history: the request middlewares the router should have.
Fresh == [parent |-> None, array |-> 0, len |-> 0, given |-> <<>>, layouts |-> TRUE, mounts |-> {}]

Failed(h, by) == [h EXCEPT !.failed = @ \cup {by}]

\* A failed registration on a *router is known by the value it returns.
ErrRouter(h) == [Failed(h, "router") EXCEPT !.errored = TRUE]

\* New: what it sets up may fail, and then there is only the errRouter.
Init ==
    /\ cur \in {Value(Root), ErrRouter(Value(Root))}
    /\ routers = [r \in Routers |-> IF r = Root /\ ~cur.errored THEN Fresh ELSE None]
    /\ arrays = [n \in 0..MaxUsed |-> <<>>]
    /\ used = 0
    /\ routes = {}
    /\ calls = 0
    /\ app = "registering"

Created == {r \in Routers : routers[r] # None}
Values == {Value(r) : r \in Created} \cup {cur}

Counted == calls < MaxCalls /\ calls' = calls + 1

\* A call on a router that works, and one that an errRouter answers with itself.
Works(h) == app = "registering" /\ ~h.errored
On(h) == Works(h) /\ Counted

Ignored ==
    /\ app = "registering" /\ cur.errored /\ Counted
    /\ UNCHANGED <<routers, arrays, used, routes, cur, app>>

-----------------------------------------------------------------------------
(* Middlewares.                                                            *)

Slice(r) == SubSeq(arrays[routers[r].array], 1, routers[r].len)

\* append writes into the array if it has room, and else copies the slice
\* into one of twice its size.
Room(r) == routers[r].len < Len(arrays[routers[r].array])

Doubled(s, m) == Append(s, m) \o [i \in 1..(IF s = <<>> THEN 0 ELSE Len(s) - 1) |-> 0]

Apply(r, m) ==
    LET at == routers[r].array
        n == routers[r].len + 1
    IN /\ arrays' = IF Room(r) THEN [arrays EXCEPT ![at][n] = m]
                    ELSE [arrays EXCEPT ![m] = Doubled(Slice(r), m)]
       /\ routers' = [routers EXCEPT ![r].array = IF Room(r) THEN at ELSE m,
                                     ![r].len = n, ![r].given = Append(@, m)]

RequestMiddleware(h) ==
    /\ Works(h) /\ used < MaxUsed
    /\ used' = used + 1
    /\ Apply(h.router, used')
    /\ cur' = h
    /\ UNCHANGED <<routes, calls, app>>

\* Mutant: the clone is meant to begin with none, l: r.requestMiddlewares.l[:0].
ClonedEmpty(h) ==
    /\ On(h)
    /\ \E c \in Routers \ Created :
         /\ routers' = [routers EXCEPT ![c] = [routers[h.router] EXCEPT !.parent = h.router, !.len = 0,
                                                 !.given = <<>>, !.mounts = {}, !.layouts = TRUE]]
         /\ cur' = [h EXCEPT !.router = c]
    /\ UNCHANGED <<arrays, used, routes, app>>

\* A new mux, no global middlewares, and the parent's slice.  A version's
\* clone is a version of the clone.
Clone(h) ==
    /\ On(h)
    /\ \E c \in Routers \ Created :
         /\ routers' = [routers EXCEPT ![c] = [routers[h.router] EXCEPT !.parent = h.router,
                                                 !.mounts = {}, !.layouts = TRUE]]
         /\ cur' = [h EXCEPT !.router = c]
    /\ UNCHANGED <<arrays, used, routes, app>>

\* A version of a version is one of the router behind it.
Version(h) ==
    /\ On(h)
    /\ cur' = [h EXCEPT !.version = TRUE]
    /\ UNCHANGED <<routers, arrays, used, routes, app>>

-----------------------------------------------------------------------------
(* Routes.                                                                 *)

Route(h, p, sub) ==
    [router |-> h.router, version |-> h.version, path |-> p, sub |-> sub,
     chain |-> Slice(h.router), given |-> routers[h.router].given]

\* The mux panics at a pattern it has already.
Registers(new, returned) ==
    LET pattern(t) == <<t.router, t.version, t.path, t.sub>>
    IN IF \E t \in routes, n \in new : pattern(t) = pattern(n)
       THEN app' = "panicked" /\ UNCHANGED <<routes, cur>>
       ELSE routes' = routes \cup new /\ cur' = returned /\ app' = app

\* Func has left no map that Load could put the layout into.
LoadPanics(h) ==
    ~routers[h.router].layouts /\ app' = "panicked" /\ UNCHANGED <<routes, cur>>

\* A version drops what the router behind it has returned.
Refused(h) == IF h.version THEN Failed(h, "version") ELSE ErrRouter(h)

\* The view is there or is not needed, or it or a middleware is broken.
serve(h, p) ==
    \/ Registers({Route(h, p, FALSE)}, h)
    \/ Registers({}, Refused(h))
    \/ LoadPanics(h)

\* GetFunc to DeleteFunc, Get, Page and Serve, and the controllers, whose
\* Register calls these.
GetFunc(h, p) ==
    /\ On(h)
    /\ serve(h, p)
    /\ UNCHANGED <<routers, arrays, used>>

\* HealthCheck drops what its GetFunc returns; a version adds no prefix.
HealthCheck(h, p) ==
    /\ On(h)
    /\ \/ Registers({[Route(h, p, FALSE) EXCEPT !.version = FALSE]}, h)
       \/ Registers({}, Failed(h, "health"))
       \/ LoadPanics(h)
    /\ UNCHANGED <<routers, arrays, used>>

\* A middleware that is broken is a panic here.
WebSocket(h, p) ==
    /\ On(h)
    /\ \/ Registers({Route(h, p, FALSE)}, h)
       \/ app' = "panicked" /\ UNCHANGED <<routes, cur>>
    /\ UNCHANGED <<routers, arrays, used>>

\* The resources and controllers of a version return the router behind it.
Behind(h) == [h EXCEPT !.version = FALSE]

\* Mutant: what the registration of the subresource returns is dropped.
SubresourceDropped(h) == Failed(Behind(h), "router")

\* What a resource returns after its subresource has failed.
Subresource(h) == ErrRouter(h)

\* ResourceAtPath: the resource's own routes, of which one stands for all (a
\* failure may be any one's), and one of a subresource, registered on what
\* the others have returned.
Resource(h, p) ==
    /\ On(h)
    /\ \/ Registers({Route(h, p, FALSE), Route(h, p, TRUE)}, Behind(h))
       \/ Registers({}, ErrRouter(h))
       \/ Registers({Route(h, p, FALSE)}, Subresource(h))
       \/ LoadPanics(h)
    /\ UNCHANGED <<routers, arrays, used>>

\* Static, Redirect: the request middlewares do not apply, a version adds no
\* prefix.
Static(h, p) ==
    /\ On(h)
    /\ Registers({[router |-> h.router, version |-> FALSE, path |-> p, sub |-> FALSE,
                   chain |-> <<>>, given |-> <<>>]}, h)
    /\ UNCHANGED <<routers, arrays, used>>

\* Func and Views, which replace the map of the layouts.
Layouts(h) ==
    /\ On(h)
    /\ \E there \in BOOLEAN : routers' = [routers EXCEPT ![h.router].layouts = there]
    /\ cur' = h
    /\ UNCHANGED <<arrays, used, routes, app>>

-----------------------------------------------------------------------------
(* Run.                                                                    *)

\* VersionFromHeader and VersionFromQuery, and the module that puts a clone
\* behind the hosts of tenants: a global middleware that builds the handler
\* of another router when its own is built.
Mount(h, other) ==
    /\ On(h)
    /\ routers' = [routers EXCEPT ![h.router].mounts = @ \cup {other}]
    /\ cur' = h
    /\ UNCHANGED <<arrays, used, routes, app>>

Mounts(r) == {o.router : o \in {m \in routers[r].mounts : ~m.errored}}

Builds == TransitiveClosure([p \in Created \X Created |-> p[2] \in Mounts(p[1])], Created)

\* A clone runs its parent, and so the root.
Built == {r \in Created : r = Root \/ Builds[Root, r]}

Run(h) ==
    /\ app = "registering"
    /\ app' = IF h.errored THEN "error"
              ELSE IF \E r \in Built : Builds[r, r] THEN "overflow"
              ELSE IF \E r \in Built : \E m \in routers[r].mounts : m.errored THEN "error"
              ELSE "serving"
    /\ cur' = h
    /\ UNCHANGED <<routers, arrays, used, routes, calls>>

Next ==
    \/ Ignored
    \/ \E h \in Values :
         \/ RequestMiddleware(h) \/ Clone(h) \/ Version(h) \/ Layouts(h) \/ Run(h)
         \/ \E p \in Paths : \/ GetFunc(h, p) \/ HealthCheck(h, p) \/ WebSocket(h, p)
                             \/ Resource(h, p) \/ Static(h, p)
         \/ \E o \in Values : Mount(h, o)

-----------------------------------------------------------------------------
(* Properties.                                                             *)

ValueType == [router : Routers, version : BOOLEAN, errored : BOOLEAN, failed : SUBSET {"router", "version", "health"}]

RouterType ==
    [parent : Routers \cup {None}, array : 0..MaxUsed, len : 0..MaxUsed, given : Seq(1..MaxUsed),
     layouts : BOOLEAN, mounts : SUBSET ValueType]

RouteType ==
    [router : Routers, version : BOOLEAN, path : Paths, sub : BOOLEAN,
     chain : Seq(0..MaxUsed), given : Seq(1..MaxUsed)]

\* Every variable has its type; a slice is not longer than its array.
TypeOK ==
    /\ routers \in [Routers -> RouterType \cup {None}]
    /\ arrays \in [0..MaxUsed -> Seq(0..MaxUsed)]
    /\ \A r \in Created : /\ routers[r].len <= Len(arrays[routers[r].array])
                          /\ routers[r].parent \in Created \cup {None}
    /\ used \in 0..MaxUsed
    /\ calls \in 0..MaxCalls
    /\ routes \subseteq RouteType
    /\ \A t \in routes : t.router \in Created
    /\ cur \in ValueType
    /\ cur.errored \/ cur.router \in Created
    /\ app \in {"registering", "panicked", "error", "overflow", "serving"}

\* The first place in which two lists differ is one in an array that append
\* had allocated with room for it.
Parted(s, u) ==
    \E n \in DOMAIN s \cap DOMAIN u :
        /\ s[n] # u[n]
        /\ \A i \in 1..(n - 1) : s[i] = u[i]
        /\ n - 1 \notin {0, 1, 2, 4, 8}

\* Requests of a route pass the middlewares that had been registered on its
\* router, or on those it is a clone of before they were cloned, in that
\* order.  Only if two of these routers went on registering after a clone
\* that left room in the array they share, one has another's (router.go:247).
RoutesRunTheirMiddlewares ==
    \A t \in routes : t.chain # t.given =>
        \E r \in Created \ {t.router} : Parted(t.given, routers[r].given)

\* Run serves although a registration has failed only if every one that has
\* was of a HealthCheck, or of a single route on a version: whatever has been
\* chained to another, the subresources of a resource, a version's resources,
\* clones, or has been mounted behind a header, Run returns its error
\* (router.go:74, health.go:65, versioning.go:68).
FailedRegistrationIsReported ==
    app = "serving" =>
        \A v \in {cur} \cup UNION {routers[r].mounts : r \in Built} : v.failed \subseteq {"version", "health"}

=============================================================================
