------------------------------- MODULE Pages -------------------------------
(***************************************************************************)
(* How an answer is written (src/action.go, templates.go) and how a form   *)
(* in it comes back (src/csrf.go).                                         *)
(*                                                                         *)
(* A route has one template for all its requests.  renderHTML replaces the *)
(* template's functions by closures of its own request and executes it;    *)
(* every call in the page looks its function up when it is executed.  The  *)
(* middleware of forms gives a safe request the token of its browser's     *)
(* cookie, or a new one, and lets a form pass if it carries the token of   *)
(* the cookie.  An unsafe request has none, whatever page it answers with. *)
(*                                                                         *)
(* A page calls a function for a text (t or v) and then csrf_field.  A     *)
(* request stands for its values and for the token it creates.             *)
(***************************************************************************)

CONSTANTS Requests,
          Views,      \* the templates
          Browser,    \* whose request it is
          Exempt,     \* requests of a path that is exempt from the protection
          NoToken,    \* the empty token
          None

VARIABLES
    at,      \* where each request is
    field,   \* CSRFConfig.FieldName: what a form's token is read from
    view,    \* the template of its route, None if there is no view
    cookie,  \* the token cookie of each browser
    token,   \* the token in a request's context
    own,     \* requests that got a template of their own, for their domain
    fns,     \* whose functions each template has, None for the placeholders
    shown,   \* whose functions a page has called
    form,    \* the token in a page's form
    meant,   \* the status of the action's response: 200, or another, 404
    met      \* history: pairs of requests that have been in flight together

vars == <<at, field, view, cookie, token, own, fns, shown, form, meant, met>>

Browsers == {Browser[r] : r \in Requests}

\* The default, and any other.
FieldNames == {"csrf_token", "other"}

Init ==
    /\ at = [r \in Requests |-> "start"]
    /\ field \in FieldNames
    /\ view \in [Requests -> Views \cup {None}]
    /\ cookie = [b \in Browsers |-> None]
    /\ token = [r \in Requests |-> None]
    /\ own = {}
    /\ fns = [v \in Views |-> None]
    /\ shown = [r \in Requests |-> {}]
    /\ form = [r \in Requests |-> None]
    /\ meant = [r \in Requests |-> None]
    /\ met = {}

Goes(r, place) == at' = [at EXCEPT ![r] = place]

InFlight == {r \in Requests : at[r] \notin {"start", "open", "accepted", "refused"}}

-----------------------------------------------------------------------------

\* Mutant: every page gets a new token.
NewToken(r) == r

\* getOrCreateToken: the cookie's, as it is when the request is sent.
Token(r) == IF cookie[Browser[r]] # None THEN cookie[Browser[r]] ELSE r

\* A request of a safe method.
Protect(r) ==
    /\ at[r] = "start"
    /\ token' = [token EXCEPT ![r] = Token(r)]
    /\ met' = met \cup {{r, q} : q \in InFlight}
    /\ Goes(r, "action")
    /\ UNCHANGED <<field, view, cookie, own, fns, shown, form, meant>>

\* A request of another method, that is exempt or has the token of its cookie
\* in its header or form: there is no token in its context.
Unsafe(r) ==
    /\ at[r] = "start"
    /\ r \in Exempt \/ cookie[Browser[r]] # None
    /\ met' = met \cup {{r, q} : q \in InFlight}
    /\ Goes(r, "action")
    /\ UNCHANGED <<field, view, cookie, token, own, fns, shown, form, meant>>

\* The action, and the choice of a renderer from the Accept header.  Only HTML
\* executes a template, of an answer of 200 that has a view and no location,
\* and of an error; all others are written at once: JSON, XML and text, 406,
\* the redirects by 303 and for HTMX by 202, the error whose template is nil.
Act(r) ==
    /\ at[r] = "action"
    /\ \E code \in {"200", "404"} :
         /\ meant' = [meant EXCEPT ![r] = code]
         /\ \/ Goes(r, "answered")
            \/ code = "200" /\ view[r] # None /\ Goes(r, "install")
            \/ code = "404" /\ view[r] # None /\ Goes(r, "error")
    /\ UNCHANGED <<field, view, cookie, token, own, fns, shown, form, met>>

\* resolve, and tpl.Funcs.
Install(r) ==
    /\ at[r] = "install"
    /\ \/ own' = own \cup {r} /\ fns' = fns
       \/ fns' = [fns EXCEPT ![view[r]] = r] /\ own' = own
    /\ Goes(r, "text")
    /\ UNCHANGED <<field, view, cookie, token, shown, form, meant, met>>

Functions(r) == IF r \in own THEN r ELSE fns[view[r]]

\* CSRFField, under the default name: nothing for the placeholder of it and
\* for a context without a token.
Field(r) ==
    IF Functions(r) = None \/ token[Functions(r)] = None THEN NoToken ELSE token[Functions(r)]

\* If anything fails in the page, the rest of it is JSON.
Text(r) ==
    /\ at[r] = "text"
    /\ shown' = [shown EXCEPT ![r] = @ \cup {Functions(r)}]
    /\ \/ Goes(r, "form")
       \/ Goes(r, "answered")
    /\ UNCHANGED <<field, view, cookie, token, own, fns, form, meant, met>>

Form(r) ==
    /\ at[r] = "form"
    /\ shown' = [shown EXCEPT ![r] = @ \cup {Functions(r)}]
    /\ form' = [form EXCEPT ![r] = Field(r)]
    /\ Goes(r, "answered")
    /\ UNCHANGED <<field, view, cookie, token, own, fns, meant, met>>

\* A status page is executed as the template is, with whatever functions that
\* has; or the error is sent as JSON.
Error(r) ==
    /\ at[r] = "error"
    /\ \/ /\ shown' = [shown EXCEPT ![r] = {Functions(r)}]
          /\ form' = [form EXCEPT ![r] = Field(r)]
       \/ UNCHANGED <<shown, form>>
    /\ Goes(r, "answered")
    /\ UNCHANGED <<field, view, cookie, token, own, fns, meant, met>>

-----------------------------------------------------------------------------
(* The browser: the answer arrives, and the form in it is sent.            *)

Arrive(r) ==
    /\ at[r] = "answered"
    /\ cookie' = [cookie EXCEPT ![Browser[r]] = IF token[r] = r THEN r ELSE @]
    /\ Goes(r, "open")
    /\ UNCHANGED <<field, view, token, own, fns, shown, form, meant, met>>

\* CSRFProtection of the form, under a path that is not exempt: what it reads
\* is empty if it looks for another name than CSRFField's.
Submit(r) ==
    /\ at[r] = "open" /\ form[r] # None
    /\ Goes(r, IF field = "csrf_token" /\ form[r] # NoToken /\ form[r] = cookie[Browser[r]]
              THEN "accepted" ELSE "refused")
    /\ UNCHANGED <<field, view, cookie, token, own, fns, shown, form, meant, met>>

Next ==
    \E r \in Requests :
        \/ Protect(r) \/ Unsafe(r) \/ Act(r) \/ Install(r) \/ Text(r)
        \/ Form(r) \/ Error(r) \/ Arrive(r) \/ Submit(r)

-----------------------------------------------------------------------------
(* Properties.                                                             *)

Places == {"start", "action", "install", "text", "form", "error", "answered", "open", "accepted", "refused"}

\* Every variable has its type; functions and tokens are those of requests.
TypeOK ==
    /\ at \in [Requests -> Places]
    /\ field \in FieldNames
    /\ cookie \in [Browsers -> Requests \cup {None}]
    /\ token \in [Requests -> Requests \cup {None}]
    /\ fns \in [Views -> Requests \cup {None}]
    /\ shown \in [Requests -> SUBSET (Requests \cup {None})]
    /\ form \in [Requests -> Requests \cup {NoToken, None}]
    /\ meant \in [Requests -> {"200", "404", None}]

\* Another request for the same view was in flight with r, and has lent r's
\* page its functions (action.go:235).
Overlapped(r) == \E q \in Requests \ {r} : {r, q} \in met /\ view[q] = view[r]

\* Two requests of r's browser were in flight together, and both had to create
\* a token (csrf.go:107).
TokensCollided(r) ==
    \E p, q \in Requests : /\ p # q /\ {p, q} \in met
                           /\ Browser[p] = Browser[r] /\ Browser[q] = Browser[r]
                           /\ token[p] = p /\ token[q] = q

\* The form of a page is refused only for what has been in flight with it, if
\* the page answers a safe request and the name of the field is the default;
\* a page of an unsafe request is accepted only with another's functions, and
\* with another name nothing is (csrf.go:63-96, 127-130).
RefusedForAReason ==
    \A r \in Requests : meant[r] = "200" =>
        /\ at[r] = "refused" => field # "csrf_token" \/ token[r] = None \/ Overlapped(r) \/ TokensCollided(r)
        /\ at[r] = "accepted" => field = "csrf_token" /\ (token[r] # None \/ Overlapped(r))

\* The functions a page calls have the context of its own request: "every
\* request will overwrite these funcs" (templates.go:161).
PageShowsItsOwnRequest ==
    \A r \in Requests : meant[r] = "200" => shown[r] \subseteq {r}
=============================================================================
