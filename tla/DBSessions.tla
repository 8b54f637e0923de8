----------------------------- MODULE DBSessions -----------------------------
(***************************************************************************)
(* Sessions kept in the database: the session middleware                   *)
(* (src/session/sessions.go), the store behind it (src/session/db) and the *)
(* handlers that change a session, run by concurrent requests of one       *)
(* browser.                                                                *)
(*                                                                         *)
(* Every request works on a private copy of the row (Load builds a new     *)
(* sessionData), and each SQL statement is one step, so requests           *)
(* interleave at the statements and nowhere else.  Of the session's data   *)
(* only the "user_id" entry is kept: ip, user_agent and login-referer are  *)
(* written the same way and no property tells them apart.                  *)
(***************************************************************************)
EXTENDS Naturals, FiniteSets

CONSTANTS
    Requests,   \* request slots: at most this many requests are in flight
    Ids,        \* the session ids generateSessionID can return (a bound)
    Users,      \* user ids a login can authenticate
    Messages,   \* flash messages
    None,       \* no cookie, no user
    MaxFaults   \* how many errors the database may report (a bound)

ASSUME ConstantsAssumption ==
    /\ None \notin Ids \cup Users
    /\ MaxFaults \in Nat

VARIABLES
    table,      \* the sessions table: a function from the ids that have a row
    issued,     \* the ids generated so far
    jar,        \* the "sessions" cookie the browser holds
    pc,         \* where each request is
    cookie,     \* the cookie each request presented, until it has been looked up
    sess,       \* each request's sessionData
    header,     \* the session id in each response's last Set-Cookie
    saved,      \* sessionResponseWriter.saved
    revoked,    \* history: ids whose row an Invalidate has deleted
    loggedIn,   \* history: ids a login has been carried out under
    stale,      \* history: requests that have yet to save a row which another
                \* request has saved since
    resetters,  \* history: requests that have yet to save the user whose
                \* password they set
    faults      \* history: how many errors the database has reported

vars == <<table, issued, jar, pc, cookie, sess, header, saved,
          revoked, loggedIn, stale, resetters, faults>>
history == <<revoked, loggedIn, stale, resetters, faults>>

Row == [user : Users \cup {None}, flash : SUBSET Messages]
Session == [id : Ids \cup {None}, user : Users \cup {None},
            old : SUBSET Messages, new : SUBSET Messages]
Stages == {"idle", "load", "create", "serve", "reissue", "done"}

EmptySession(id) == [id |-> id, user |-> None, old |-> {}, new |-> {}]
EmptyRow == [user |-> None, flash |-> {}]
AsRow(s) == [user |-> s.user, flash |-> s.new]

\* What can come of a statement: it is applied and reports success, or it
\* reports an error, after or without having been applied (Repository.Create
\* reads the row back after its INSERT; a connection is lost; the request's
\* context is cancelled).
Outcomes ==
    {o \in [ok : BOOLEAN, applied : BOOLEAN] :
        (o.ok => o.applied) /\ (faults < MaxFaults \/ o.ok)}

\* The errors reported once a statement has had outcome o.
Counted(o) == IF o.ok THEN faults ELSE faults + 1

\* A request that is between the load and the end of its handler.
Open(r) == pc[r] \in {"serve", "reissue"}

-----------------------------------------------------------------------------
(* The three statements the store executes.                                *)

\* A plausible bug: a session that is handed out but never stored.
InsertNothing(t, id, row) == t

InsertRow(t, id, row) ==
    [i \in DOMAIN t \cup {id} |-> IF i = id THEN row ELSE t[i]]

\* A plausible bug: an UPDATE that creates the row when it is missing.
UpsertRow(t, id, row) ==
    [i \in DOMAIN t \cup {id} |-> IF i = id THEN row ELSE t[i]]

\* UPDATE ... WHERE id = ?: no row with that id is no error, and no change.
UpdateRow(t, id, row) ==
    [i \in DOMAIN t |-> IF i = id THEN row ELSE t[i]]

\* A plausible bug: a DELETE that blanks the row and leaves its id behind.
BlankRow(t, id) == [i \in DOMAIN t |-> IF i = id THEN None ELSE t[i]]

DeleteRow(t, id) == [i \in DOMAIN t \ {id} |-> t[i]]

-----------------------------------------------------------------------------
Init ==
    /\ table = [i \in {} |-> EmptyRow]
    /\ issued = {}
    /\ jar = None
    /\ pc = [r \in Requests |-> "idle"]
    /\ cookie = [r \in Requests |-> None]
    /\ sess = [r \in Requests |-> EmptySession(None)]
    /\ header = [r \in Requests |-> None]
    /\ saved = [r \in Requests |-> FALSE]
    /\ revoked = {}
    /\ loggedIn = {}
    /\ stale = {}
    /\ resetters = {}
    /\ faults = 0

\* The browser sends a request with the cookie it holds now.
Arrive(r) ==
    /\ pc[r] = "idle"
    /\ pc' = [pc EXCEPT ![r] = "load"]
    /\ cookie' = [cookie EXCEPT ![r] = jar]
    /\ UNCHANGED <<table, issued, jar, sess, header, saved, history>>

\* What both ways of obtaining a session do to the request: the handler may
\* run, the response carries the session's cookie, nothing is saved yet.
Serve(r, s) ==
    /\ sess' = [sess EXCEPT ![r] = s]
    /\ header' = [header EXCEPT ![r] = s.id]
    /\ saved' = [saved EXCEPT ![r] = FALSE]
    /\ pc' = [pc EXCEPT ![r] = "serve"]
    /\ cookie' = [cookie EXCEPT ![r] = None]
    /\ stale' = stale \ {r}
    /\ resetters' = resetters \ {r}

\* A plausible bug: the stored data is not unmarshalled.
LoadedBlank(id) ==
    [id |-> id, user |-> None, old |-> table[id].flash, new |-> {}]

\* A plausible bug: the stored flash messages are not unmarshalled.
LoadedWithoutFlash(id) ==
    [id |-> id, user |-> table[id].user, old |-> {}, new |-> {}]

\* The session a Load returns for a row.
Loaded(id) ==
    [id |-> id, user |-> table[id].user, old |-> table[id].flash, new |-> {}]

\* The cookie names a row: the request gets its own copy of it.
LoadFound(r) ==
    /\ pc[r] = "load"
    /\ cookie[r] \in DOMAIN table
    /\ Serve(r, Loaded(cookie[r]))
    /\ UNCHANGED <<table, issued, jar, revoked, loggedIn, faults>>

\* No cookie, no row, or a query error: a new session will be created.
LoadMissing(r) ==
    /\ pc[r] = "load"
    /\ \/ /\ cookie[r] \notin DOMAIN table
          /\ UNCHANGED faults
       \/ /\ faults < MaxFaults
          /\ faults' = faults + 1
    /\ pc' = [pc EXCEPT ![r] = "create"]
    /\ cookie' = [cookie EXCEPT ![r] = None]
    /\ UNCHANGED <<table, issued, jar, sess, header, saved,
                   revoked, loggedIn, stale, resetters>>

\* Create: a failed INSERT is logged, and the session is handed out all the same.
CreateSession(r) ==
    /\ pc[r] = "create"
    /\ \E id \in Ids \ issued, o \in Outcomes :
          /\ issued' = issued \cup {id}
          /\ table' = IF o.applied THEN InsertRow(table, id, EmptyRow) ELSE table
          /\ faults' = Counted(o)
          /\ Serve(r, EmptySession(id))
    /\ UNCHANGED <<jar, revoked, loggedIn>>

-----------------------------------------------------------------------------
(* What handlers do with the session.                                      *)

\* The session's Authenticate: the user replaces whoever the session had.  Its
\* callers are actions, which answer when they have returned.
Authenticate(r, u) ==
    /\ pc[r] = "serve"
    /\ ~saved[r]
    /\ sess' = [sess EXCEPT ![r].user = u]
    /\ loggedIn' = loggedIn \cup {sess[r].id}
    /\ UNCHANGED <<table, issued, jar, pc, cookie, header, saved,
                   revoked, stale, faults>>

\* SessionsResource.Create and UsersResource.Create: only an anonymous session
\* is authenticated.
Login(r, u) ==
    /\ sess[r].user = None
    /\ Authenticate(r, u)
    /\ UNCHANGED resetters

\* SetPasswordWithToken authenticates whoever the session belonged to before.
SetPasswordWithToken(r, u) ==
    /\ Authenticate(r, u)
    /\ resetters' = resetters \cup {r}

Flashed(s, m) == [s EXCEPT !.old = @ \cup {m}, !.new = @ \cup {m}]

\* Flash shows the message in this request and keeps it for the next one.
Flash(r, m) ==
    /\ pc[r] = "serve"
    /\ sess' = [sess EXCEPT ![r] = Flashed(@, m)]
    /\ UNCHANGED <<table, issued, jar, pc, cookie, header, saved, history>>

\* invalidate, first half: DELETE.  A failed DELETE is logged and ignored.
InvalidateDelete(r) ==
    /\ pc[r] = "serve"
    /\ \E o \in Outcomes :
          /\ table' = IF o.applied THEN DeleteRow(table, sess[r].id) ELSE table
          /\ revoked' = IF o.applied THEN revoked \cup {sess[r].id} ELSE revoked
          /\ faults' = Counted(o)
    /\ pc' = [pc EXCEPT ![r] = "reissue"]
    /\ UNCHANGED <<issued, jar, cookie, sess, header, saved,
                   loggedIn, stale, resetters>>

\* A plausible bug: a new id for the old data.
ReissuedWithData(s, id) == [s EXCEPT !.id = id]

\* The session an invalidation leaves under the new id.
Reissued(s, id) == EmptySession(id)

\* invalidate, second half: a new id, empty maps, INSERT of the new row.
InvalidateReissue(r) ==
    /\ pc[r] = "reissue"
    /\ \E id \in Ids \ issued, o \in Outcomes :
          /\ issued' = issued \cup {id}
          /\ sess' = [sess EXCEPT ![r] = Reissued(sess[r], id)]
          /\ table' = IF o.applied THEN InsertRow(table, id, EmptyRow) ELSE table
          /\ faults' = Counted(o)
    /\ pc' = [pc EXCEPT ![r] = "serve"]
    /\ stale' = stale \ {r}
    /\ resetters' = resetters \ {r}
    /\ UNCHANGED <<jar, cookie, header, saved, revoked, loggedIn>>

-----------------------------------------------------------------------------
(* Saving and answering.                                                   *)

\* The cookie save puts on the response: the session's id, if it is no longer
\* the one load announced.
SavedCookie(r) == IF sess[r].id # header[r] THEN sess[r].id ELSE header[r]

\* The sessionData after a save: once the UPDATE has reported success, the
\* messages of this request become the previous ones.
AfterSave(s, ok) == IF ok THEN [s EXCEPT !.old = s.new, !.new = {}] ELSE s

\* The requests that have yet to save a copy of r's row.
Sharing(r) == {s \in Requests : Open(s) /\ ~saved[s] /\ sess[s].id = sess[r].id}

\* sessionResponseWriter.save: announce the id if it changed, then write the
\* private copy over the row.  A failed UPDATE is logged.
Save(r, o) ==
    /\ ~saved[r]
    /\ header' = [header EXCEPT ![r] = SavedCookie(r)]
    /\ faults' = Counted(o)
    /\ IF o.applied
       THEN /\ table' = UpdateRow(table, sess[r].id, AsRow(sess[r]))
            /\ stale' = (stale \cup Sharing(r)) \ {r}
       ELSE /\ stale' = stale \ {r}
            /\ UNCHANGED table
    /\ resetters' = resetters \ {r}
    /\ UNCHANGED <<issued, jar, cookie, revoked, loggedIn>>

\* The handler's first Write or WriteHeader saves the session; it goes on after.
Write(r) ==
    /\ pc[r] = "serve"
    /\ \E o \in Outcomes :
          /\ Save(r, o)
          /\ sess' = [sess EXCEPT ![r] = AfterSave(@, o.ok)]
    /\ saved' = [saved EXCEPT ![r] = TRUE]
    /\ UNCHANGED pc

\* The handler returns with nothing written yet: ServeHTTP saves, and the
\* request's sessionData is garbage.
FinishUnsaved(r) ==
    /\ pc[r] = "serve"
    /\ \E o \in Outcomes : Save(r, o)
    /\ sess' = [sess EXCEPT ![r] = EmptySession(None)]
    /\ pc' = [pc EXCEPT ![r] = "done"]
    /\ UNCHANGED saved

\* The handler returns after having written, or panics: no (further) save.
FinishOrPanic(r) ==
    /\ pc[r] = "serve"
    /\ pc' = [pc EXCEPT ![r] = "done"]
    /\ sess' = [sess EXCEPT ![r] = EmptySession(None)]
    /\ saved' = [saved EXCEPT ![r] = FALSE]
    /\ UNCHANGED <<table, issued, jar, cookie, header, history>>

\* What a request knew is gone once it has been answered or killed.
Gone(S) ==
    /\ pc' = [r \in Requests |-> IF r \in S THEN "idle" ELSE pc[r]]
    /\ cookie' = [r \in Requests |-> IF r \in S THEN None ELSE cookie[r]]
    /\ sess' = [r \in Requests |-> IF r \in S THEN EmptySession(None) ELSE sess[r]]
    /\ header' = [r \in Requests |-> IF r \in S THEN None ELSE header[r]]
    /\ saved' = [r \in Requests |-> IF r \in S THEN FALSE ELSE saved[r]]
    /\ stale' = stale \ S
    /\ resetters' = resetters \ S
    /\ UNCHANGED <<table, issued, revoked, loggedIn, faults>>

\* The browser receives the response and keeps its cookie.
Deliver(r) ==
    /\ pc[r] = "done"
    /\ jar' = header[r]
    /\ Gone({r})

\* The response never reaches the browser.
Lose(r) ==
    /\ pc[r] = "done"
    /\ Gone({r})
    /\ UNCHANGED jar

\* The server process dies and starts again: the table survives, requests do not.
Restart ==
    /\ \E r \in Requests : pc[r] # "idle"
    /\ Gone(Requests)
    /\ UNCHANGED jar

Handler(r) ==
    \/ \E u \in Users : Login(r, u) \/ SetPasswordWithToken(r, u)
    \/ \E m \in Messages : Flash(r, m)
    \/ InvalidateDelete(r)
    \/ InvalidateReissue(r)
    \/ Write(r)
    \/ FinishUnsaved(r)
    \/ FinishOrPanic(r)

Next ==
    \/ \E r \in Requests :
          \/ Arrive(r)
          \/ LoadFound(r)
          \/ LoadMissing(r)
          \/ CreateSession(r)
          \/ Handler(r)
          \/ Deliver(r)
          \/ Lose(r)
    \/ Restart

Spec == Init /\ [][Next]_vars

-----------------------------------------------------------------------------
(* Properties.                                                             *)

\* Every variable has its type; sessionData and rows are what Save and Load
\* convert into one another.
TypeOK ==
    /\ DOMAIN table \subseteq Ids
    /\ \A i \in DOMAIN table : table[i] \in Row
    /\ issued \subseteq Ids
    /\ jar \in Ids \cup {None}
    /\ pc \in [Requests -> Stages]
    /\ cookie \in [Requests -> Ids \cup {None}]
    /\ sess \in [Requests -> Session]
    /\ header \in [Requests -> Ids \cup {None}]
    /\ saved \in [Requests -> BOOLEAN]
    /\ revoked \subseteq Ids
    /\ loggedIn \subseteq Ids
    /\ stale \subseteq Requests
    /\ resetters \subseteq Requests
    /\ faults \in 0..MaxFaults

\* A logout is final: once Invalidate has deleted a session's row no request
\* brings it back, not even one that loaded it before and saves it afterwards
\* (store.go update is an UPDATE, and touches no row that is gone).
RevokedStaysDead == revoked \cap DOMAIN table = {}

\* A row holds a user only if a login was carried out under that very id: what
\* Invalidate hands to the browser after a logout starts anonymous, whatever
\* the interleaving of logins, logouts and saves.
AuthenticationNeedsLogin ==
    \A i \in DOMAIN table : table[i].user # None => i \in loggedIn

\* While the database reports no error, every answered or running request's
\* cookie names a row, unless a logout deleted that row: the id a response
\* announces is one the next request can load.
CookieResolves ==
    faults = 0 => \A r \in Requests :
        pc[r] \in {"serve", "done"} => header[r] \in DOMAIN table \cup revoked

\* A step in which request r saves (or panics, which changes no row).
Saves(r) == ~saved[r] /\ (saved'[r] \/ pc'[r] = "done")

\* A stored user leaves the row only by the save of a request that had loaded
\* the row before the user was saved; or it gives way to another user by the
\* save of a request that set that user's password (SetPasswordWithToken never
\* asks who is logged in).  A login proper replaces nobody, and a request that
\* loads the row after the login keeps the user.
StoredUserIsKept ==
    [][\A i \in DOMAIN table \cap DOMAIN table' :
          (table[i].user # None /\ table'[i].user # table[i].user)
          => \E r \in Requests :
                /\ Saves(r) /\ sess[r].id = i
                /\ r \in stale \/ (r \in resetters /\ table'[i].user # None)]_vars

\* A flash message leaves its row only when a request that had loaded it (so
\* that its handler could show it) saves, or by a stale save.
FlashDroppedOnlyAfterLoaded ==
    [][\A i \in DOMAIN table \cap DOMAIN table' :
          \A m \in table[i].flash \ table'[i].flash :
             \E r \in Requests :
                /\ Saves(r) /\ sess[r].id = i
                /\ r \in stale \/ m \in sess[r].old]_vars

\* CHANGELOG v0.0.46 promises that a login is visible to subsequent requests:
\* a login that was saved is found by whoever loads the session later.
SavedLoginStays ==
    [][\A i \in DOMAIN table \cap DOMAIN table' :
          table[i].user # None => table'[i].user # None]_vars

=============================================================================
