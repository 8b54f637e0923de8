---------------------------- MODULE Application ----------------------------
(***************************************************************************)
(* Seven parts of an application that share no state, in one module so     *)
(* that they are checked in one run and proved about in one place: a       *)
(* behaviour is one of one of them, the part, and the variables of the     *)
(* others are None throughout.                                             *)
(***************************************************************************)
EXTENDS Integers

CONSTANTS
    Requests,                                        \* Accounts, Attachments, Pages
    Emails, Tokens, NoToken, Calls, MaxFaults,       \* Accounts
    Clients, Limits, Window, MaxTime,                \* RateLimit, whose keys are clients
    Readers, Writers, Keys, Tags, Subject,           \* TagCache
    Rooms, Conns, Broadcasts, MaxMoves,              \* Hub
    Tenant, ByDomain,                                \* Attachments
    Routers, Root, Paths, MaxUsed, MaxCalls,         \* Routing
    Views, Browser, Exempt,                          \* Pages, with NoToken
    None

VARIABLES
    part, at,
    users, call, copy, user, edit, issued, spent, raced, restored, faults,  \* Accounts
    limit, now, data, passed, refused, panicked,                            \* RateLimit
    items, tags, source, reading, writing,                                  \* TagCache
    connections, maps, moves, casts, joined, stayed, came,                  \* Hub
    files, blobs, got, unread,                                              \* Attachments
    routers, arrays, used, routes, cur, calls, app,                         \* Routing
    field, view, cookie, token, own, fns, shown, form, meant, met           \* Pages

Accounts == INSTANCE Accounts
RateLimit == INSTANCE RateLimit WITH Keys <- Clients
TagCache == INSTANCE TagCache
Hub == INSTANCE Hub
Attachments == INSTANCE Attachments
Routing == INSTANCE Routing
Pages == INSTANCE Pages

\* A request asks about an email, and one that sets a password posts a token
\* that the application has made, or none.
ASSUME AccountsAssumption ==
    /\ None \notin Requests /\ None \notin Accounts!RowType
    /\ NoToken \notin Tokens
    /\ MaxFaults \in Nat
    /\ \A c \in Calls, r \in Requests :
         c[r].email \in Emails /\ (c[r].do = "set password" => c[r].token \in Tokens \cup {NoToken})

\* The limit is an int that nobody checks.
ASSUME RateLimitAssumption == Limits \subseteq Int /\ Window \in Nat /\ MaxTime \in Nat

\* Every key has a subject, and is not what a writer that has no key writes.
ASSUME TagCacheAssumption == Subject \in [Keys -> Tags] /\ "start" \notin Keys

\* New makes the first router.
ASSUME RoutingAssumption ==
    /\ Root \in Routers /\ None \notin Routing!RouterType
    /\ MaxUsed \in Nat /\ MaxCalls \in Nat

\* A map is named by a number.
ASSUME HubAssumption == MaxMoves \in Nat /\ None \notin 1..MaxMoves /\ None \notin Rooms

\* A token that is made is not the empty one.
ASSUME PagesAssumption == NoToken \notin Requests

accounts == <<users, call, copy, user, edit, issued, spent, raced, restored, faults>>
rateLimit == <<limit, now, data, passed, refused, panicked>>
tagCache == <<items, tags, source, reading, writing>>
hub == <<connections, maps, moves, casts, joined, stayed, came>>
attachments == <<files, blobs, got, unread>>
routing == <<routers, arrays, used, routes, cur, calls, app>>
pages == <<field, view, cookie, token, own, fns, shown, form, meant, met>>

vars == <<part, at, accounts, rateLimit, tagCache, hub, attachments, routing, pages>>

NoAccounts ==
    /\ users = None /\ call = None /\ copy = None /\ user = None /\ edit = None
    /\ issued = None /\ spent = None /\ raced = None /\ restored = None /\ faults = None
NoRateLimit == limit = None /\ now = None /\ data = None /\ passed = None /\ refused = None /\ panicked = None
NoTagCache == items = None /\ tags = None /\ source = None /\ reading = None /\ writing = None
NoHub ==
    /\ connections = None /\ maps = None /\ moves = None /\ casts = None
    /\ joined = None /\ stayed = None /\ came = None
NoAttachments == files = None /\ blobs = None /\ got = None /\ unread = None
NoRouting ==
    /\ routers = None /\ arrays = None /\ used = None /\ routes = None
    /\ cur = None /\ calls = None /\ app = None
NoPages ==
    /\ field = None /\ view = None /\ cookie = None /\ token = None /\ own = None /\ fns = None
    /\ shown = None /\ form = None /\ meant = None /\ met = None

Init ==
    \/ /\ part = "accounts" /\ Accounts!Init
       /\ NoRateLimit /\ NoTagCache /\ NoHub /\ NoAttachments /\ NoRouting /\ NoPages
    \/ /\ part = "rate limit" /\ RateLimit!Init /\ at = None
       /\ NoAccounts /\ NoTagCache /\ NoHub /\ NoAttachments /\ NoRouting /\ NoPages
    \/ /\ part = "tag cache" /\ TagCache!Init /\ at = None
       /\ NoAccounts /\ NoRateLimit /\ NoHub /\ NoAttachments /\ NoRouting /\ NoPages
    \/ /\ part = "hub" /\ Hub!Init /\ at = None
       /\ NoAccounts /\ NoRateLimit /\ NoTagCache /\ NoAttachments /\ NoRouting /\ NoPages
    \/ /\ part = "attachments" /\ Attachments!Init
       /\ NoAccounts /\ NoRateLimit /\ NoTagCache /\ NoHub /\ NoRouting /\ NoPages
    \/ /\ part = "routing" /\ Routing!Init /\ at = None
       /\ NoAccounts /\ NoRateLimit /\ NoTagCache /\ NoHub /\ NoAttachments /\ NoPages
    \/ /\ part = "pages" /\ Pages!Init
       /\ NoAccounts /\ NoRateLimit /\ NoTagCache /\ NoHub /\ NoAttachments /\ NoRouting

Next ==
    /\ part' = part
    /\ \/ /\ part = "accounts" /\ Accounts!Next
          /\ UNCHANGED <<rateLimit, tagCache, hub, attachments, routing, pages>>
       \/ /\ part = "rate limit" /\ RateLimit!Next
          /\ UNCHANGED <<at, accounts, tagCache, hub, attachments, routing, pages>>
       \/ /\ part = "tag cache" /\ TagCache!Next
          /\ UNCHANGED <<at, accounts, rateLimit, hub, attachments, routing, pages>>
       \/ /\ part = "hub" /\ Hub!Next
          /\ UNCHANGED <<at, accounts, rateLimit, tagCache, attachments, routing, pages>>
       \/ /\ part = "attachments" /\ Attachments!Next
          /\ UNCHANGED <<accounts, rateLimit, tagCache, hub, routing, pages>>
       \/ /\ part = "routing" /\ Routing!Next
          /\ UNCHANGED <<at, accounts, rateLimit, tagCache, hub, attachments, pages>>
       \/ /\ part = "pages" /\ Pages!Next
          /\ UNCHANGED <<accounts, rateLimit, tagCache, hub, attachments, routing>>

Spec == Init /\ [][Next]_vars

-----------------------------------------------------------------------------
(* Properties.                                                             *)

\* The state of the part is of its type.
TypeOK ==
    /\ part = "accounts" => Accounts!TypeOK
    /\ part = "rate limit" => RateLimit!TypeOK
    /\ part = "tag cache" => TagCache!TypeOK
    /\ part = "hub" => Hub!TypeOK
    /\ part = "attachments" => Attachments!TypeOK
    /\ part = "routing" => Routing!TypeOK
    /\ part = "pages" => Pages!TypeOK

\* users.go, schema.go: of the sign-ups that looked an email up before one of
\* them inserted it, one at most succeeds, and the account is its own until a
\* password is set by the account's token, the empty one included.
OneAccountPerEmail == part = "accounts" => Accounts!OneAccountPerEmail

\* users.go:230: a token that has been used works again only by a write of an
\* outdated copy.
SpentTokenStaysSpent == part = "accounts" => Accounts!SpentTokenStaysSpent

\* ratelimit.go: no window passes more than the limit, and who is refused is
\* told when the next can pass.
RateBound == part = "rate limit" => RateLimit!RateBound

\* cache.go: what is cached is old only for a reason a caller has given.
StaleOnlyByRace == part = "tag cache" => TagCache!StaleOnlyByRace

\* websocket.go:71: whoever is in the room throughout a Broadcast is written to.
BroadcastReachesTheRoom == part = "hub" => Hub!BroadcastReachesTheRoom

\* service.go:105, module.go:57: rows have their files, files their rows, and
\* who finds them goes by the subdomain.
RowsAndFilesAgree == part = "attachments" => Attachments!RowsAndFilesAgree

\* router.go:247: the middlewares of a route are those of its router.
RoutesRunTheirMiddlewares == part = "routing" => Routing!RoutesRunTheirMiddlewares

\* router.go:74: after a registration that failed Run returns an error.
FailedRegistrationIsReported == part = "routing" => Routing!FailedRegistrationIsReported

\* action.go:235, csrf.go:63-130: a form is refused only if requests were in
\* flight together, the page has no token or the field another name.
RefusedForAReason == part = "pages" => Pages!RefusedForAReason
=============================================================================
