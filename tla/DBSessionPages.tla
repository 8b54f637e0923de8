--------------------------- MODULE DBSessionPages ---------------------------
(***************************************************************************)
(* The HTML response of an action on top of DBSessions: which of the flash *)
(* messages a request loaded does the page it renders show?                *)
(*                                                                         *)
(* renderHTML (src/action.go) sends the status line, which saves the       *)
(* session, and then asks the session for its flash messages.              *)
(***************************************************************************)
EXTENDS DBSessions

VARIABLES
    carried,    \* history: the flash messages each request loaded
    pages       \* the pages each request rendered, as the messages they show

pagesVars == <<vars, carried, pages>>

PagesInit ==
    /\ Init
    /\ carried = [r \in Requests |-> {}]
    /\ pages = [r \in Requests |-> {}]

\* A request takes its session's messages along when it loads the row.
LoadCarrying(r) ==
    /\ LoadFound(r)
    /\ carried' = [carried EXCEPT ![r] = sess'[r].old]
    /\ UNCHANGED pages

\* renderHTML, after its WriteHeader: FlashMessages is put on the page.
RenderFlash(r) ==
    /\ pc[r] = "serve"
    /\ saved[r]
    /\ pages[r] = {}
    /\ pages' = [pages EXCEPT ![r] = {sess[r].old}]
    /\ UNCHANGED <<vars, carried>>

\* A request that ends forgets both.
Leave(r) ==
    /\ Deliver(r) \/ Lose(r)
    /\ carried' = [carried EXCEPT ![r] = {}]
    /\ pages' = [pages EXCEPT ![r] = {}]

PagesNext ==
    \E r \in Requests :
       \/ LoadCarrying(r)
       \/ RenderFlash(r)
       \/ Leave(r)
       \/ /\ Arrive(r) \/ LoadMissing(r) \/ CreateSession(r) \/ Handler(r)
          /\ UNCHANGED <<carried, pages>>

PagesSpec == PagesInit /\ [][PagesNext]_pagesVars

\* sessions.go:41 says FlashMessages returns the messages of the previous
\* request: a page shows every message its request loaded with the session.
PageShowsFlash ==
    \A r \in Requests : \A p \in pages[r] : carried[r] \subseteq p

=============================================================================
