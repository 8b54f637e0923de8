----------------------------- MODULE Accounts -----------------------------
(***************************************************************************)
(* Users (src/modules/authentication): signing up, signing in and setting  *)
(* a password with the token of an activation link.                        *)
(*                                                                         *)
(* A handler's statements are steps.  The users table has the primary key  *)
(* id, which is the email.  A password is the request that has chosen it.  *)
(* The application gives users their activation tokens, and its edits, by  *)
(* the repository's Update, write every column of the copy they have       *)
(* loaded, as the handlers do.                                             *)
(***************************************************************************)
EXTENDS Naturals

CONSTANTS Requests,
          Emails,
          Tokens,    \* the tokens the application makes
          NoToken,   \* ""
          Calls,     \* what the requests ask for, one function for each mix
          MaxFaults, \* bound: statements that fail by themselves
          None

VARIABLES
    users,    \* the users table, by id
    at,       \* where each request is
    call,     \* what it asks for: [do, email, password, token]
    copy,     \* the row it has loaded
    user,     \* whom its session is authenticated as
    edit,     \* an edit of the application: [loaded, row], or None
    issued,   \* the tokens that have been made
    spent,    \* history: the requests that have set a password, by what they posted
    raced,    \* history: the requests whose update was of an outdated copy
    restored, \* history: the tokens that edits of outdated copies have stored
    faults    \* how many statements have failed by themselves

vars == <<users, at, call, copy, user, edit, issued, spent, raced, restored, faults>>

Ids == Emails
Rows == {i \in Ids : users[i] # None}
WithEmail(e) == {i \in Rows : users[i].email = e}
WithToken(t) == {i \in Rows : users[i].token = t}

\* What a browser may post as a token: nothing is refused (users.go:219).
Posted == Tokens \cup {NoToken}

Init ==
    /\ users = [i \in Ids |-> None]
    /\ at = [r \in Requests |-> "start"]
    /\ call \in Calls
    /\ copy = [r \in Requests |-> None]
    /\ user = [r \in Requests |-> None]
    /\ edit = None
    /\ issued = {}
    /\ spent = [t \in Posted |-> {}]
    /\ raced = {}
    /\ restored = {}
    /\ faults = 0

Goes(r, place) == at' = [at EXCEPT ![r] = place]
Starts(r, do) == at[r] = "start" /\ call[r].do = do
Loads(r, i) == copy' = [copy EXCEPT ![r] = users[i]]
Authenticate(r, id) == user' = [user EXCEPT ![r] = id]
Fault == faults < MaxFaults /\ faults' = faults + 1

NewRow(e, password, token) == [email |-> e, password |-> password, token |-> token]

-----------------------------------------------------------------------------
(* Signing up.                                                             *)

\* A browser that is signed in already is sent away; fields that are missing
\* or differ, or are too long for bcrypt, are refused; then the email is
\* looked up.
SignUp(r) ==
    /\ Starts(r, "sign up")
    /\ \/ Goes(r, "redirected") /\ faults' = faults
       \/ Goes(r, "refused") /\ (Fault \/ faults' = faults)
       \/ /\ Goes(r, IF WithEmail(call[r].email) = {} THEN "free" ELSE "refused")
          /\ faults' = faults
    /\ UNCHANGED <<users, call, copy, user, edit, issued, spent, raced, restored>>

Id(r) == call[r].email

Inserted(r) == users' = [users EXCEPT ![Id(r)] = NewRow(call[r].email, r, NoToken)]

\* Mutant: the error of the INSERT is dropped.
InsertIgnored(r) ==
    /\ at[r] = "free"
    /\ IF Id(r) \in Rows THEN users' = users ELSE Inserted(r)
    /\ Goes(r, "inserted") /\ faults' = faults
    /\ UNCHANGED <<call, copy, user, edit, issued, spent, raced, restored>>

\* The INSERT, and the SELECT that reads the row back: if that fails the
\* answer is the same refusal, but the row is there.
Insert(r) ==
    /\ at[r] = "free"
    /\ \/ Id(r) \in Rows /\ Goes(r, "refused") /\ UNCHANGED <<users, faults>>
       \/ Fault /\ Goes(r, "refused") /\ users' = users
       \/ Id(r) \notin Rows /\ Fault /\ Inserted(r) /\ Goes(r, "unread")
       \/ Id(r) \notin Rows /\ Inserted(r) /\ Goes(r, "inserted") /\ faults' = faults
    /\ UNCHANGED <<call, copy, user, edit, issued, spent, raced, restored>>

\* The hooks, whose errors are only logged, and the session.
Welcome(r) ==
    /\ at[r] = "inserted"
    /\ Authenticate(r, Id(r))
    /\ Goes(r, "created")
    /\ UNCHANGED <<users, call, copy, edit, issued, spent, raced, restored, faults>>

-----------------------------------------------------------------------------
(* Signing in.                                                             *)

\* SessionsResource.Create.  The lookup is in the request's database: the
\* central one, or on a tenant's host the tenant's, where nobody has signed up.
LogIn(r) ==
    /\ Starts(r, "log in")
    /\ \/ Goes(r, "redirected") /\ UNCHANGED <<copy, faults>>
       \/ Goes(r, "refused") /\ UNCHANGED <<copy, faults>>
       \/ Goes(r, "failed") /\ Fault /\ copy' = copy
       \/ \E i \in WithEmail(call[r].email) : Loads(r, i) /\ Goes(r, "loaded") /\ faults' = faults
    /\ UNCHANGED <<users, call, user, edit, issued, spent, raced, restored>>

Password(r) ==
    /\ at[r] = "loaded"
    /\ IF copy[r].password = call[r].password
       THEN Authenticate(r, copy[r].email) /\ Goes(r, "signed in")
       ELSE user' = user /\ Goes(r, "refused")
    /\ UNCHANGED <<users, call, copy, edit, issued, spent, raced, restored, faults>>

-----------------------------------------------------------------------------
(* Activation.                                                             *)

\* The page of an activation link.
Activate(r) ==
    /\ Starts(r, "activate")
    /\ \/ /\ Goes(r, IF call[r].token = NoToken \/ WithToken(call[r].token) = {} THEN "refused" ELSE "shown")
          /\ faults' = faults
       \/ Goes(r, "refused") /\ Fault
    /\ UNCHANGED <<users, call, copy, user, edit, issued, spent, raced, restored>>

\* SetPasswordWithToken: the fields, the lookup and bcrypt.  An empty token
\* is looked up like another, and is that of every account without one.
FindToken(r) ==
    /\ Starts(r, "set password")
    /\ \/ Goes(r, "refused") /\ copy' = copy /\ (Fault \/ faults' = faults)
       \/ Goes(r, "failed") /\ WithToken(call[r].token) # {} /\ UNCHANGED <<copy, faults>>
       \/ \E i \in WithToken(call[r].token) : Loads(r, i) /\ Goes(r, "found") /\ faults' = faults
    /\ UNCHANGED <<users, call, user, edit, issued, spent, raced, restored>>

\* Mutants: ClearActivationToken is left out, or makes the column NULL.
TokenKept(row) == row
TokenNulled(row) == [row EXCEPT !.token = None]

ClearActivationToken(row) == [row EXCEPT !.token = NoToken]

\* The UPDATE of the whole copy, and the session.
SetPassword(r) ==
    /\ at[r] = "found"
    /\ \/ Fault /\ Goes(r, "failed") /\ UNCHANGED <<users, user, spent, raced>>
       \/ LET e == copy[r].email
          IN /\ users' = [users EXCEPT ![e] = ClearActivationToken([copy[r] EXCEPT !.password = r])]
             /\ spent' = [spent EXCEPT ![call[r].token] = @ \cup {r}]
             /\ raced' = raced \cup (IF users[e] = copy[r] THEN {} ELSE {r})
             /\ Authenticate(r, e)
             /\ Goes(r, "set") /\ faults' = faults
    /\ UNCHANGED <<call, copy, edit, issued, restored>>

-----------------------------------------------------------------------------
(* The application (external): it invites users without a password and     *)
(* edits users, with GenerateActivationToken or without.                   *)

Invite(e, t) ==
    /\ e \notin Rows /\ t \notin issued
    /\ users' = [users EXCEPT ![e] = NewRow(e, None, t)]
    /\ issued' = issued \cup {t}
    /\ UNCHANGED <<at, call, copy, user, edit, spent, raced, restored, faults>>

EditLoad(i) ==
    /\ edit = None
    /\ \/ edit' = [loaded |-> users[i], row |-> users[i]] /\ issued' = issued
       \/ \E t \in Tokens \ issued : /\ edit' = [loaded |-> users[i], row |-> [users[i] EXCEPT !.token = t]]
                                     /\ issued' = issued \cup {t}
    /\ UNCHANGED <<users, at, call, copy, user, spent, raced, restored, faults>>

EditStore ==
    /\ edit # None
    /\ LET e == edit.row.email
       IN /\ users' = [users EXCEPT ![e] = edit.row]
          /\ restored' = restored \cup (IF users[e] = edit.loaded THEN {} ELSE {edit.row.token})
    /\ edit' = None
    /\ UNCHANGED <<at, call, copy, user, issued, spent, raced, faults>>

Next ==
    \/ \E r \in Requests : \/ SignUp(r) \/ Insert(r) \/ Welcome(r) \/ LogIn(r) \/ Password(r)
                           \/ Activate(r) \/ FindToken(r) \/ SetPassword(r)
    \/ \E e \in Emails, t \in Tokens : Invite(e, t)
    \/ \E i \in Rows : EditLoad(i)
    \/ EditStore

Spec == Init /\ [][Next]_vars

-----------------------------------------------------------------------------
(* Properties.                                                             *)

RowType == [email : Emails, password : Requests \cup {None}, token : Tokens \cup {NoToken}]

\* Every variable has its type; a row's password is the request that has chosen it.
TypeOK ==
    /\ users \in [Ids -> RowType \cup {None}]
    /\ at \in [Requests -> {"start", "free", "inserted", "unread", "created", "loaded", "signed in", "shown",
                            "found", "set", "redirected", "refused", "failed"}]
    /\ copy \in [Requests -> RowType \cup {None}]
    /\ user \in [Requests -> Ids \cup {None}]
    /\ edit = None \/ edit \in [loaded : RowType, row : RowType]
    /\ issued \subseteq Tokens
    /\ spent \in [Posted -> SUBSET Requests]
    /\ raced \subseteq Requests
    /\ restored \subseteq Tokens \cup {NoToken}
    /\ faults \in 0..MaxFaults

\* r has set the password of e, by the token that e had when r looked it up.
HasSet(r, e) == at[r] = "set" /\ copy[r].email = e /\ copy[r].token = call[r].token

\* However many requests look an email up before one of them inserts it, one
\* of them at most is told that it has signed up; the account keeps its
\* password, whatever copies are stored, until a request sets one by the
\* token the account had, which is "" for whoever posts none (users.go:230);
\* and a sign-up that was refused with an account there means the account is
\* another's, unless reading the row back has failed.
OneAccountPerEmail ==
    \A r \in Requests : call[r].do = "sign up" =>
        /\ at[r] = "created" =>
             \A q \in Requests \ {r} : at[q] = "created" => call[q].email # call[r].email
        /\ at[r] = "created" =>
             users[Id(r)].password \in {r} \cup {q \in Requests : HasSet(q, Id(r))}
        /\ at[r] = "refused" => \A i \in Rows : users[i].password # r

\* A token with which a password has been set is in the table again only if
\* the application has stored a copy that was outdated, and sets a second
\* password only for a request that had looked it up before (users.go:230).
SpentTokenStaysSpent ==
    \A t \in Tokens \ restored : spent[t] # {} =>
        /\ WithToken(t) = {}
        /\ \A p, q \in spent[t] \ raced : p = q
=============================================================================
