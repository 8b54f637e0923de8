--------------------------- MODULE MCFeatureFlags ---------------------------
(***************************************************************************)
(* A member of a tenant who has a role in it, and a visitor of the tenant; *)
(* one flag, and overrides of it for the member, the role and the tenant.  *)
(***************************************************************************)
EXTENDS FeatureFlags, TLC

CONSTANTS f, u, t, editor

MCPrincipals == {[user |-> u, tenant |-> t, roles |-> {editor}],
                 [user |-> None, tenant |-> t, roles |-> {}]}
MCTargets == {[flag |-> f, type |-> "user", id |-> u],
              [flag |-> f, type |-> "role", id |-> editor],
              [flag |-> f, type |-> "tenant", id |-> t]}

\* None yet, or one of each type: the member's and the role's disagree, and
\* so do the role's and the tenant's.
MCTables == {[x \in {} |-> FALSE], [x \in MCTargets |-> x.type # "role"]}

Symmetry == Permutations(Requests)
=============================================================================
