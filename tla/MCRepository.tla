--------------------------- MODULE MCRepository ---------------------------
(***************************************************************************)
(* Repository with two requests of one domain, two rows, and a second      *)
(* domain the rows may belong to: the least in which two requests race for *)
(* a unique value or a counter, inside and outside of transactions.        *)
(***************************************************************************)
EXTENDS Repository, TLC

CONSTANTS r1, r2, i1, i2, a, b, blue, red

MCRequests == {r1, r2}
MCIds == {i1, i2}
MCNames == {a, b}
MCDomains == {blue, red}

Context(skipScope, skipHooks) ==
    [domain |-> blue, filtering |-> TRUE, skipScope |-> skipScope, skipHooks |-> skipHooks]

\* One request runs the hooks, the other skips them and may skip the scope.
MCContexts == {r1 :> Context(FALSE, FALSE) @@ r2 :> Context(skip, TRUE) : skip \in BOOLEAN}

\* No row, or one that a request of the domain has created.
Old == [domain |-> blue, name |-> a, n |-> 0, incs |-> 0,
        stale |-> FALSE, loose |-> TRUE, writer |-> None]
MCStored == {[i \in MCIds |-> IF i \in used THEN Old ELSE None] : used \in {{}, {i1}, {i2}}}

MCMaxOps == r1 :> 2 @@ r2 :> 1

Named(value) == [field |-> "name", value |-> value]
MCQueries == { << <<Named(a)>> >>, << <<Named(a), Named(b)>> >> }

Symmetry == Permutations(MCIds)
=============================================================================
