---------------------------- MODULE MemSessions -----------------------------
(***************************************************************************)
(* Sessions kept in memory: the session middleware                         *)
(* (src/session/sessions.go) over the store of src/session/inmemory, run   *)
(* by concurrent requests of one browser.                                  *)
(*                                                                         *)
(* All requests with the same cookie share one sessionData, and every      *)
(* method of it that takes the lock is one step.  ID() takes no lock and   *)
(* the middleware calls it several times: each call is a step of its own.  *)
(* A sessionData is named by the key the store has it under, the id it had *)
(* when it was created.                                                    *)
(***************************************************************************)
EXTENDS Naturals, FiniteSets

CONSTANTS
    Requests,   \* request slots: at most this many requests are in flight
    Ids,        \* the session ids generateSessionID can return (a bound)
    Users,      \* user ids a login can authenticate
    Messages,   \* flash messages
    None        \* no cookie, no user, no session

ASSUME NoneAssumption == None \notin Ids /\ None \notin Users

VARIABLES
    store,      \* Store.sessions: a function from keys to the shared objects
    issued,     \* the ids generated so far
    jar,        \* the "sessions" cookie the browser holds
    pc,         \* where each request is
    cookie,     \* the cookie each request presented
    key,        \* the key of the object each request uses
    initial,    \* sessionResponseWriter.initialID
    header,     \* the session id in each response's last Set-Cookie
    saved,      \* sessionResponseWriter.saved
    out,        \* history: keys of objects that were invalidated
    loggedIn,   \* history: the user each request has logged in
    replaced,   \* history: requests whose login another request's has replaced
    flashed,    \* history: the messages each request flashed
    shared      \* history: requests that used their object together with another

vars == <<store, issued, jar, pc, cookie, key, initial, header, saved,
          out, loggedIn, replaced, flashed, shared>>
history == <<out, loggedIn, replaced, flashed, shared>>

Data == [id : Ids, user : Users \cup {None}, old : SUBSET Messages, new : SUBSET Messages]
Stages == {"idle", "load", "announce", "begin", "serve", "login", "rotate", "done"}

EmptyData(id) == [id |-> id, user |-> None, old |-> {}, new |-> {}]

\* A request that holds a reference to its object.
Using(r) == pc[r] \notin {"idle", "load", "done"}

-----------------------------------------------------------------------------
Init ==
    /\ store = [k \in {} |-> EmptyData(k)]
    /\ issued = {}
    /\ jar = None
    /\ pc = [r \in Requests |-> "idle"]
    /\ cookie = [r \in Requests |-> None]
    /\ key = [r \in Requests |-> None]
    /\ initial = [r \in Requests |-> None]
    /\ header = [r \in Requests |-> None]
    /\ saved = [r \in Requests |-> FALSE]
    /\ out = {}
    /\ loggedIn = [r \in Requests |-> None]
    /\ replaced = {}
    /\ flashed = [r \in Requests |-> {}]
    /\ shared = {}

Goto(r, stage) == pc' = [pc EXCEPT ![r] = stage]

\* The browser sends a request with the cookie it holds now.
Arrive(r) ==
    /\ pc[r] = "idle"
    /\ Goto(r, "load")
    /\ cookie' = [cookie EXCEPT ![r] = jar]
    /\ UNCHANGED <<store, issued, jar, key, initial, header, saved, history>>

\* The request has the object under key k from now on.
Takes(r, k) ==
    LET others == {s \in Requests \ {r} : Using(s) /\ key[s] = k}
    IN  /\ key' = [key EXCEPT ![r] = k]
        /\ shared' = IF others = {} THEN shared ELSE shared \cup others \cup {r}
        /\ Goto(r, "announce")
        /\ UNCHANGED <<jar, cookie, initial, header, saved, out, loggedIn, replaced, flashed>>

\* Store.Load finds the cookie's key: the request gets the shared object.
LoadFound(r) ==
    /\ pc[r] = "load"
    /\ cookie[r] \in DOMAIN store
    /\ Takes(r, cookie[r])
    /\ UNCHANGED <<store, issued>>

\* A plausible bug: a new session that is handed out but never stored.
NotStored(s, id) == s

\* The map with a new object under a new id.
Stored(s, id) == [k \in DOMAIN s \cup {id} |-> IF k = id THEN EmptyData(id) ELSE s[k]]

\* Store.Create, for a request without a cookie or with an unknown one.
CreateSession(r) ==
    /\ pc[r] = "load"
    /\ cookie[r] \notin DOMAIN store
    /\ \E id \in Ids \ issued :
          /\ issued' = issued \cup {id}
          /\ store' = Stored(store, id)
          /\ Takes(r, id)

\* load sets the cookie to the id the object has now.
Announce(r) ==
    /\ pc[r] = "announce"
    /\ header' = [header EXCEPT ![r] = store[key[r]].id]
    /\ Goto(r, "begin")
    /\ UNCHANGED <<store, issued, jar, cookie, key, initial, saved, history>>

\* ServeHTTP reads the id again, for the comparison in save.
Begin(r) ==
    /\ pc[r] = "begin"
    /\ initial' = [initial EXCEPT ![r] = store[key[r]].id]
    /\ Goto(r, "serve")
    /\ UNCHANGED <<store, issued, jar, cookie, key, header, saved, history>>

-----------------------------------------------------------------------------
(* What handlers do with the shared object.                                *)

\* A handler changes the shared object.
Changes(r, data) == store' = [store EXCEPT ![key[r]] = data]

\* SessionsResource.Create and UsersResource.Create, up to IsAuthenticated: only
\* an anonymous session goes on to the credentials.  The callers are actions,
\* which answer when they have returned.
LoginCheck(r) ==
    /\ pc[r] = "serve"
    /\ ~saved[r]
    /\ store[key[r]].user = None
    /\ Goto(r, "login")
    /\ UNCHANGED <<store, issued, jar, cookie, key, initial, header, saved, history>>

\* The credentials are wrong, or the query fails.
LoginRefused(r) ==
    /\ pc[r] = "login"
    /\ Goto(r, "serve")
    /\ UNCHANGED <<store, issued, jar, cookie, key, initial, header, saved, history>>

\* The other requests that have logged in with r's object.
LoggedInBeside(r) ==
    {s \in Requests \ {r} : loggedIn[s] # None /\ key[s] = key[r]}

\* The object's Authenticate: the user replaces whoever it had.
Authenticate(r, u) ==
    /\ Changes(r, [store[key[r]] EXCEPT !.user = u])
    /\ loggedIn' = [loggedIn EXCEPT ![r] = u]
    /\ replaced' = (replaced \cup LoggedInBeside(r)) \ {r}
    /\ Goto(r, "serve")
    /\ UNCHANGED <<issued, jar, cookie, key, initial, header, saved, out, flashed, shared>>

\* The login goes through: nobody looks at the session again.
Login(r, u) ==
    /\ pc[r] = "login"
    /\ Authenticate(r, u)

\* SetPasswordWithToken authenticates whoever the session belonged to before.
SetPasswordWithToken(r, u) ==
    /\ pc[r] = "serve"
    /\ ~saved[r]
    /\ Authenticate(r, u)

\* A plausible bug: the message is for this request only.
FlashedNow(d, m) == [d EXCEPT !.old = @ \cup {m}]

Flashed(d, m) == [d EXCEPT !.old = @ \cup {m}, !.new = @ \cup {m}]

\* Flash shows the message in this request and keeps it for the next one.
Flash(r, m) ==
    /\ pc[r] = "serve"
    /\ Changes(r, Flashed(store[key[r]], m))
    /\ flashed' = [flashed EXCEPT ![r] = @ \cup {m}]
    /\ UNCHANGED <<issued, jar, pc, cookie, key, initial, header, saved, out, loggedIn, replaced, shared>>

\* Invalidate: a new id and empty maps.  The store's key stays what it was.
Invalidate(r) ==
    /\ pc[r] = "serve"
    /\ \E id \in Ids \ issued :
          /\ issued' = issued \cup {id}
          /\ Changes(r, EmptyData(id))
    /\ out' = out \cup {key[r]}
    /\ UNCHANGED <<jar, pc, cookie, key, initial, header, saved, loggedIn, replaced, flashed, shared>>

-----------------------------------------------------------------------------
(* Saving and answering.                                                   *)

\* save, first half: a new cookie if the id is no longer the initial one.
\* The handler's first write and the end of the handler both come here.
SaveCookie(r) ==
    /\ pc[r] = "serve"
    /\ ~saved[r]
    /\ header' = [header EXCEPT ![r] =
                     IF store[key[r]].id # initial[r] THEN store[key[r]].id ELSE @]
    /\ Goto(r, "rotate")
    /\ UNCHANGED <<store, issued, jar, cookie, key, initial, saved, history>>

\* A plausible bug: the save starts over with empty data.
RotatedBlank(d) == [id |-> d.id, user |-> None, old |-> d.new, new |-> {}]

Rotated(d) == [id |-> d.id, user |-> d.user, old |-> d.new, new |-> {}]

\* save, second half: Save makes the new messages the old ones.
SaveRotate(r) ==
    /\ pc[r] = "rotate"
    /\ Changes(r, Rotated(store[key[r]]))
    /\ saved' = [saved EXCEPT ![r] = TRUE]
    /\ Goto(r, "serve")
    /\ UNCHANGED <<issued, jar, cookie, key, initial, header, history>>

\* The handler returns after its save.
Finish(r) ==
    /\ pc[r] = "serve"
    /\ saved[r]
    /\ Goto(r, "done")
    /\ UNCHANGED <<store, issued, jar, cookie, key, initial, header, saved, history>>

\* The handler panics: CatchAll answers, and nothing is saved any more.
HandlerPanics(r) ==
    /\ pc[r] = "serve"
    /\ ~saved[r]
    /\ Goto(r, "done")
    /\ UNCHANGED <<store, issued, jar, cookie, key, initial, header, saved, history>>

\* What a request knew is gone once it has been answered or killed.
Gone(S) ==
    /\ pc' = [r \in Requests |-> IF r \in S THEN "idle" ELSE pc[r]]
    /\ cookie' = [r \in Requests |-> IF r \in S THEN None ELSE cookie[r]]
    /\ key' = [r \in Requests |-> IF r \in S THEN None ELSE key[r]]
    /\ initial' = [r \in Requests |-> IF r \in S THEN None ELSE initial[r]]
    /\ header' = [r \in Requests |-> IF r \in S THEN None ELSE header[r]]
    /\ saved' = [r \in Requests |-> IF r \in S THEN FALSE ELSE saved[r]]
    /\ loggedIn' = [r \in Requests |-> IF r \in S THEN None ELSE loggedIn[r]]
    /\ replaced' = replaced \ S
    /\ flashed' = [r \in Requests |-> IF r \in S THEN {} ELSE flashed[r]]
    /\ shared' = shared \ S

\* The browser receives the response and keeps its cookie.
Deliver(r) ==
    /\ pc[r] = "done"
    /\ jar' = header[r]
    /\ Gone({r})
    /\ UNCHANGED <<store, issued, out>>

\* The response never reaches the browser.
Lose(r) ==
    /\ pc[r] = "done"
    /\ Gone({r})
    /\ UNCHANGED <<store, issued, jar, out>>

\* The process dies and starts again: its sessions are gone.
Restart ==
    /\ DOMAIN store # {} \/ \E r \in Requests : pc[r] # "idle"
    /\ store' = [k \in {} |-> EmptyData(k)]
    /\ out' = {}
    /\ Gone(Requests)
    /\ UNCHANGED <<issued, jar>>

Next ==
    \/ \E r \in Requests :
          \/ Arrive(r) \/ LoadFound(r) \/ CreateSession(r) \/ Announce(r) \/ Begin(r)
          \/ LoginCheck(r) \/ LoginRefused(r)
          \/ \E u \in Users : Login(r, u) \/ SetPasswordWithToken(r, u)
          \/ \E m \in Messages : Flash(r, m)
          \/ Invalidate(r)
          \/ SaveCookie(r) \/ SaveRotate(r) \/ Finish(r) \/ HandlerPanics(r)
          \/ Deliver(r) \/ Lose(r)
    \/ Restart

Spec == Init /\ [][Next]_vars

-----------------------------------------------------------------------------
(* Properties.                                                             *)

\* Every variable has its type, and a request's key is one the store has.
TypeOK ==
    /\ DOMAIN store \subseteq issued
    /\ \A k \in DOMAIN store : store[k] \in Data
    /\ issued \subseteq Ids
    /\ jar \in Ids \cup {None}
    /\ pc \in [Requests -> Stages]
    /\ cookie \in [Requests -> Ids \cup {None}]
    /\ \A r \in Requests : Using(r) => key[r] \in DOMAIN store
    /\ initial \in [Requests -> Ids \cup {None}]
    /\ header \in [Requests -> Ids \cup {None}]
    /\ saved \in [Requests -> BOOLEAN]
    /\ loggedIn \in [Requests -> Users \cup {None}]

\* When a request that logged in has been answered, the cookie of its response
\* names a session that is logged in, as the request's own user unless another
\* request's login has replaced it, whatever else was done to the shared object
\* in between, unless somebody logged out of it (sessions.go:169-202 with Save
\* and Put of inmemory/data.go).  And a login that has found the session
\* anonymous replaces somebody only if another request overlaps with it:
\* IsAuthenticated and Authenticate (modules/authentication/sessions.go:27 and
\* 73) take the lock twice.
LoginIsAnswered ==
    /\ \A r \in Requests :
          (loggedIn[r] # None /\ pc[r] = "done" /\ key[r] \notin out) =>
          /\ header[r] \in DOMAIN store
          /\ store[header[r]].user # None
          /\ r \notin replaced => store[header[r]].user = loggedIn[r]
    /\ \A r \in Requests :
          (pc[r] = "login" /\ store[key[r]].user # None) => r \in shared

\* The save of a request drops a message the request itself flashed only if the
\* request shared the object: another save then came first and made the message
\* an old one (inmemory/data.go:79-86).
OwnFlashLostOnlyIfShared ==
    [][\A r \in Requests :
          (pc[r] = "rotate" /\ pc'[r] = "serve" /\ r \notin shared /\ key[r] \notin out)
          => flashed[r] \subseteq store'[key[r]].old]_vars

\* CHANGELOG v0.0.41 promises a new cookie when the session's id changes: the
\* id that a response announces should then be one the next request can load.
AnnouncedIdLoads ==
    \A r \in Requests : (pc[r] = "done" /\ saved[r]) => header[r] \in DOMAIN store

=============================================================================
