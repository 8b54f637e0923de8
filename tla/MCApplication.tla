--------------------------- MODULE MCApplication ---------------------------
(***************************************************************************)
(* Application with three requests, connections and readers, and two of    *)
(* what else there is: the least that every part's properties can fail in. *)
(***************************************************************************)
EXTENDS Application, Integers, TLC

CONSTANTS r1, r2, r3, e1, t1, t2, k1, k2, w1, w2, c1, c2, c3, m1, b1, ra, rb, p1, v1

MCRequests == {r1, r2, r3}
MCEmails == {e1}
MCTokens == {t1, t2}

Does(do, password, t) == [do |-> do, email |-> e1, password |-> password, token |-> t]

\* A sign-up, another or an activation, and one of the rest.
MCCalls ==
    {r1 :> Does("sign up", r1, NoToken) @@ r2 :> a @@ r3 :> b :
        a \in {Does("sign up", r2, NoToken), Does("set password", r2, t1)},
        b \in {Does("log in", r1, NoToken)} \cup
              {Does(do, r3, t) : do \in {"activate", "set password"}, t \in {t1, NoToken}}}

MCClients == {k1}
MCLimits == {-1, 0, 1, 2}
MCReaders == {r1, r2, r3}
MCWriters == {w1, w2}
MCKeys == {k1, k2}
MCTags == {t1}
MCSubject == k1 :> t1 @@ k2 :> t1
MCRooms == {m1}
MCConns == {c1, c2, c3}
MCBroadcasts == {b1}
MCTenant == r1 :> t1 @@ r2 :> t1 @@ r3 :> t2
MCByDomain == {r2, r3}
MCRouters == {ra, rb}
MCPaths == {p1}
MCViews == {v1}
MCBrowser == r1 :> b1 @@ r2 :> b1 @@ r3 :> c1
MCExempt == {r3}
=============================================================================
