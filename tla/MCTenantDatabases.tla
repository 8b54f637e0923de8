------------------------- MODULE MCTenantDatabases -------------------------
(***************************************************************************)
(* TenantDatabases with two tenants, two requests and two creations, one   *)
(* of them by the command line, two migrations and at most one fault.      *)
(***************************************************************************)
EXTENDS TenantDatabases, TLC

CONSTANTS t1, t2, r1, r2, c1, c2

MCTenants == {t1, t2}
MCRequests == {r1, r2}
MCCreations == {c1, c2}
MCCommands == {c2}

Subdomain(t) == [tenant |-> t, custom |-> FALSE]
Custom(t) == [tenant |-> t, custom |-> TRUE]

\* Everybody at one tenant, two tenants at once, and the application itself.
MCCalls == {r1 :> Subdomain(t1) @@ r2 :> Custom(t1) @@ c1 :> Subdomain(t1) @@ c2 :> Subdomain(t1),
            r1 :> Subdomain(t1) @@ r2 :> Subdomain(t2) @@ c1 :> Subdomain(t1) @@ c2 :> Subdomain(t2),
            r1 :> Subdomain(t1) @@ r2 :> Base @@ c1 :> Subdomain(t1) @@ c2 :> Subdomain(t1)}
=============================================================================
