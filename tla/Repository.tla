---------------------------- MODULE Repository ----------------------------
(***************************************************************************)
(* The generic repository of src/database: Create, Update, Delete,         *)
(* AtomicUpdate and the queries, with their lifecycle hooks, the domain    *)
(* that scopes them and the transactions of WithTransaction they join.     *)
(*                                                                         *)
(* Each request runs at most MaxOps[r] operations, some of them inside one *)
(* outermost transaction and the transactions nested in it.  Every SQL     *)
(* statement is a step of its own, and so is every hook that may refuse.   *)
(* The database is SQLite in WAL mode with the driver's defaults           *)
(* (sqlite/driver.go): a deferred transaction reads the snapshot of its    *)
(* first statement, one connection writes at a time, and a snapshot that   *)
(* is no longer the newest cannot be written to.                           *)
(*                                                                         *)
(* A row has the column n that AtomicUpdate increments, the column name    *)
(* that carries the unique_per_domain tag, and four history fields that no *)
(* statement reads: incs counts its increments, stale and loose tell how   *)
(* it was last written, and writer is the transaction that wrote it.       *)
(***************************************************************************)
EXTENDS Naturals, Sequences

CONSTANTS Requests,   \* the requests that run
          Ids,        \* the identifiers a row can have
          Names,      \* the values of the unique column
          Domains,    \* the domains
          NoDomain,   \* "", a context without a domain
          Contexts,   \* what the requests' contexts may carry
          Queries,    \* the WHERE conditions the application uses
          Stored,     \* the tables there may be when the requests begin
          MaxOps,     \* bound: how many operations each request runs
          MaxDepth,   \* bound: nested calls of WithTransaction
          None

ASSUME DomainAssumption == NoDomain \notin Domains
ASSUME ContextAssumption ==
    Contexts \subseteq [Requests -> [domain : Domains \cup {NoDomain}, filtering : BOOLEAN,
                                     skipScope : BOOLEAN, skipHooks : BOOLEAN]]
ASSUME BoundsAssumption == MaxOps \in [Requests -> Nat] /\ MaxDepth \in Nat \ {0}

\* A condition has an alternative at least, and an alternative is "field = ?".
Atom == [field : {"domain", "name"}, value : Domains \cup {NoDomain} \cup Names]
ASSUME QueriesAssumption == Queries \subseteq Seq(Seq(Atom) \ {<<>>})

Row == [domain : Domains \cup {NoDomain}, name : Names, n : Nat, incs : Nat,
        stale : BOOLEAN, loose : BOOLEAN, writer : Requests \cup {None}]

Transactions == [began : BOOLEAN, view : [Ids -> Row \cup {None}],
                 fresh : BOOLEAN, writes : BOOLEAN, cancelled : BOOLEAN]

Creations == [kind : {"create"}, stage : {"check", "insert", "read", "after"}, row : Row,
              id : Ids \cup {None}, got : SUBSET Ids]
Updates == [kind : {"update"}, stage : {"write", "after"}, row : Row, id : Ids, got : {{}},
            own : BOOLEAN]
Deletions == [kind : {"delete"}, stage : {"write", "after"}, row : {None}, id : Ids, got : {{}}]
Finds == [kind : {"find"}, stage : {"after"}, row : {None}, id : Queries,
          got : SUBSET (Domains \cup {NoDomain})]
Operations == Creations \cup Updates \cup Deletions \cup Finds

Copies == [id : Ids, row : Row, own : BOOLEAN]

ASSUME NoneAssumption == None \notin Row \cup Transactions \cup Operations \cup Copies

\* The history of a stored row begins with the requests.
ASSUME StoredAssumption ==
    \A stored \in Stored :
        /\ stored \in [Ids -> Row \cup {None}]
        /\ \A i \in Ids : stored[i] # None =>
              /\ stored[i].writer = None /\ stored[i].incs = stored[i].n
              /\ stored[i].loose /\ ~stored[i].stale

VARIABLES
    ctx,      \* the values the request's context carries
    table,    \* the committed rows
    tx,       \* the transaction in the request's context, or None
    depth,    \* the WithTransaction calls the request is inside of
    op,       \* the repository operation in progress, or None
    copy,     \* a record the request has loaded, or None
    left,     \* operations the request may still start
    outcome   \* history: how the request's outermost transaction ended

vars == <<ctx, table, tx, depth, op, copy, left, outcome>>

Init ==
    /\ ctx \in Contexts
    /\ table \in Stored
    /\ tx = [r \in Requests |-> None]
    /\ depth = [r \in Requests |-> 0]
    /\ op = [r \in Requests |-> None]
    /\ copy = [r \in Requests |-> None]
    /\ left = MaxOps
    /\ outcome = [r \in Requests |-> "none"]

-----------------------------------------------------------------------------
(* The database.                                                           *)

InTx(r) == tx[r] # None

\* FromContext: the transaction if the context carries one, the pool if not.
Seen(r) == IF InTx(r) /\ tx[r].began THEN tx[r].view ELSE table

CanRead(r) == InTx(r) => ~tx[r].cancelled

CanWrite(r) ==
    /\ CanRead(r)
    /\ InTx(r) /\ tx[r].began => tx[r].fresh
    /\ \A q \in Requests \ {r} : InTx(q) => ~tx[q].writes

\* A commit leaves every snapshot but the committer's behind.
Outdated(r, new) ==
    [q \in Requests |-> IF q # r /\ InTx(q) /\ tx[q].began /\ new # table
                        THEN [tx[q] EXCEPT !.fresh = FALSE] ELSE tx[q]]

\* A query; the first statement of a transaction takes its snapshot.
Reads(r) ==
    /\ CanRead(r)
    /\ tx' = IF InTx(r) THEN [tx EXCEPT ![r].began = TRUE, ![r].view = Seen(r)] ELSE tx
    /\ UNCHANGED table

\* A statement that leaves the rows as in new.
Writes(r, new) ==
    /\ CanWrite(r)
    /\ IF InTx(r)
       THEN /\ tx' = [tx EXCEPT ![r].began = TRUE, ![r].view = new, ![r].writes = TRUE]
            /\ UNCHANGED table
       ELSE /\ tx' = Outdated(r, new)
            /\ table' = new

-----------------------------------------------------------------------------
(* The domain of a statement.                                              *)

Scoped(r) == ctx[r].filtering /\ ~ctx[r].skipScope

Scope(r) == IF Scoped(r) THEN ctx[r].domain ELSE NoDomain

\* "WHERE id = ?", and "AND domain = ?" in a scope.
Hit(r, i) == /\ Seen(r)[i] # None
             /\ Scope(r) # NoDomain => Seen(r)[i].domain = Scope(r)

\* A condition is the sequence of the alternatives its text joins by OR.  Build
\* joins the conditions, and the domain, by AND without parentheses: AND binds
\* more tightly, so the last alternative of the k-th is joined to the first
\* ones of those that follow, up to the next OR.
Joined(cs, k) ==
    {cs[l][1] : l \in {m \in (k + 1)..Len(cs) : \A o \in (k + 1)..(m - 1) : Len(cs[o]) = 1}}

\* Mutant: the context of a transaction does not carry the domain.
InDomainOutsideTx(r) == IF Scope(r) = NoDomain \/ InTx(r) THEN <<>>
                        ELSE << << [field |-> "domain", value |-> Scope(r)] >> >>

InDomain(r) == IF Scope(r) = NoDomain THEN <<>>
               ELSE << << [field |-> "domain", value |-> Scope(r)] >> >>

\* The clause: what stands between two ORs, as a set of atoms.
Build(r, conditions) ==
    LET cs == conditions \o InDomain(r)
    IN {Joined(cs, 0)} \cup
       UNION {{{cs[k][j]} \cup (IF j = Len(cs[k]) THEN Joined(cs, k) ELSE {}) : j \in 2..Len(cs[k])} :
              k \in DOMAIN cs}

Selected(r, conditions) ==
    {i \in Ids : /\ Seen(r)[i] # None
                 /\ \E atoms \in Build(r, conditions) :
                      \A atom \in atoms : Seen(r)[i][atom.field] = atom.value}

Exists(r, name) == Selected(r, << << [field |-> "name", value |-> name] >> >>) # {}

\* First swallows the error of a row that is not there.
First(r, i) == IF Hit(r, i) THEN {i} ELSE {}

-----------------------------------------------------------------------------
(* WithTransaction.                                                        *)

Idle(r) == op[r] = None

Begin(r) ==
    /\ Idle(r) /\ depth[r] = 0 /\ outcome[r] = "none" /\ left[r] > 0
    /\ tx' = [tx EXCEPT ![r] = [began |-> FALSE, view |-> table, fresh |-> TRUE,
                                writes |-> FALSE, cancelled |-> FALSE]]
    /\ depth' = [depth EXCEPT ![r] = 1]
    /\ outcome' = [outcome EXCEPT ![r] = "open"]
    /\ UNCHANGED <<ctx, table, op, copy, left>>

\* The context already carries a txWrapper: the callback is called, no more.
Nest(r) ==
    /\ Idle(r) /\ depth[r] \in 1..(MaxDepth - 1) /\ left[r] > 0
    /\ depth' = [depth EXCEPT ![r] = @ + 1]
    /\ UNCHANGED <<ctx, table, tx, op, copy, left, outcome>>

\* Mutant: every WithTransaction call commits what has been done so far.
ReturnNestedCommits(r) ==
    /\ Idle(r) /\ depth[r] > 1
    /\ depth' = [depth EXCEPT ![r] = @ - 1]
    /\ table' = IF tx[r].writes THEN tx[r].view ELSE table
    /\ UNCHANGED <<ctx, tx, op, copy, left, outcome>>

\* A nested callback returns; what it returns is the outer callback's to judge.
ReturnNested(r) ==
    /\ Idle(r) /\ depth[r] > 1
    /\ depth' = [depth EXCEPT ![r] = @ - 1]
    /\ UNCHANGED <<ctx, table, tx, op, copy, left, outcome>>

Close(r, result) ==
    /\ depth' = [depth EXCEPT ![r] = 0]
    /\ outcome' = [outcome EXCEPT ![r] = result]

\* The outermost callback returns nil.
Commit(r) ==
    /\ Idle(r) /\ depth[r] = 1 /\ ~tx[r].cancelled
    /\ LET new == IF tx[r].writes THEN tx[r].view ELSE table
       IN /\ table' = new
          /\ tx' = [Outdated(r, new) EXCEPT ![r] = None]
    /\ Close(r, "committed")
    /\ UNCHANGED <<ctx, op, copy, left>>

\* It returns an error, or nil after the context was cancelled.
Rollback(r) ==
    /\ Idle(r) /\ depth[r] = 1
    /\ tx' = [tx EXCEPT ![r] = None]
    /\ Close(r, "failed")
    /\ UNCHANGED <<ctx, table, op, copy, left>>

\* Mutant: without the deferred Rollback a panic leaves the transaction open.
PanicKeepsTx(r) ==
    /\ depth[r] > 0
    /\ Close(r, "failed")
    /\ op' = [op EXCEPT ![r] = None]
    /\ left' = [left EXCEPT ![r] = 0]
    /\ UNCHANGED <<ctx, table, tx, copy>>

\* A panic, in a callback at any depth or in a hook, ends the request.
Panic(r) ==
    /\ depth[r] > 0
    /\ tx' = [tx EXCEPT ![r] = None]
    /\ Close(r, "failed")
    /\ op' = [op EXCEPT ![r] = None]
    /\ left' = [left EXCEPT ![r] = 0]
    /\ UNCHANGED <<ctx, table, copy>>

\* database/sql rolls back the transaction of a cancelled context.
Cancel(r) ==
    /\ InTx(r) /\ ~tx[r].cancelled
    /\ tx' = [tx EXCEPT ![r].cancelled = TRUE, ![r].writes = FALSE]
    /\ UNCHANGED <<ctx, table, depth, op, copy, left, outcome>>

-----------------------------------------------------------------------------
(* Operations.                                                             *)

\* An operation begins with its Before hook, which may refuse.
Start(r, o) ==
    /\ Idle(r) /\ left[r] > 0
    /\ left' = [left EXCEPT ![r] = @ - 1]
    /\ \/ op' = [op EXCEPT ![r] = o]
       \/ ~ctx[r].skipHooks /\ op' = op
    /\ copy' = [copy EXCEPT ![r] = None]
    /\ UNCHANGED <<ctx, table, tx, depth, outcome>>

At(r, kind, stage) == op[r] # None /\ op[r].kind = kind /\ op[r].stage = stage

GoesTo(r, stage) == op' = [op EXCEPT ![r].stage = stage]

Ends(r) == op' = [op EXCEPT ![r] = None]

\* A statement fails: the context is cancelled, or SQLite is busy.
StatementFails(r) ==
    /\ op[r] # None /\ op[r].stage # "after"
    /\ Ends(r)
    /\ UNCHANGED <<ctx, table, tx, depth, copy, left, outcome>>

\* The After hook returns; its error, if any, becomes the operation's.
After(r) ==
    /\ op[r] # None /\ op[r].stage = "after"
    /\ Ends(r)
    /\ UNCHANGED <<ctx, table, tx, depth, copy, left, outcome>>

New(r, name, domain) ==
    [domain |-> IF domain = NoDomain THEN Scope(r) ELSE domain, name |-> name,
     n |-> 0, incs |-> 0, stale |-> FALSE,
     loose |-> TRUE, writer |-> IF InTx(r) THEN r ELSE None]

CreateStart(r, name, domain) ==
    Start(r, [kind |-> "create", stage |-> IF Scoped(r) THEN "check" ELSE "insert",
              row |-> New(r, name, domain), id |-> None, got |-> {}])

\* Mutant: Exists runs on the pool, outside of the request's transaction.
CheckOutsideTx(r) ==
    /\ At(r, "create", "check")
    /\ IF \E i \in Ids : table[i] # None /\ table[i].name = op[r].row.name
                         /\ table[i].domain = Scope(r)
       THEN Ends(r)
       ELSE op' = [op EXCEPT ![r].stage = "insert",
                             ![r].row.loose = ~InTx(r) \/ op[r].row.domain # Scope(r)]
    /\ UNCHANGED <<ctx, table, tx, depth, copy, left, outcome>>

\* Exists: another statement than the INSERT.
Check(r) ==
    /\ At(r, "create", "check")
    /\ Reads(r)
    /\ IF Exists(r, op[r].row.name)
       THEN Ends(r)
       ELSE op' = [op EXCEPT ![r].stage = "insert",
                             ![r].row.loose = ~InTx(r) \/ op[r].row.domain # Scope(r)]
    /\ UNCHANGED <<ctx, depth, copy, left, outcome>>

\* The identifier is the database's choice, or the model's own if it has no
\* auto-increment id; one in use already makes the statement fail.
Insert(r) ==
    /\ At(r, "create", "insert")
    /\ \E i \in Ids :
         /\ Seen(r)[i] = None
         /\ Writes(r, [Seen(r) EXCEPT ![i] = op[r].row])
         /\ op' = [op EXCEPT ![r].stage = "read", ![r].id = i]
    /\ UNCHANGED <<ctx, depth, copy, left, outcome>>

\* Mutant: the row is read back on the pool.
ReadBackOutsideTx(r) ==
    /\ At(r, "create", "read")
    /\ op' = [op EXCEPT ![r].stage = "after", ![r].got = {i \in {op[r].id} : table[i] # None}]
    /\ UNCHANGED <<ctx, table, tx, depth, copy, left, outcome>>

\* FindByID reads the row back, in the domain of the context; a row that is
\* not found is no error, and the AfterCreate hook runs on nothing.
ReadBack(r) ==
    /\ At(r, "create", "read")
    /\ Reads(r)
    /\ op' = [op EXCEPT ![r].stage = "after", ![r].got = First(r, op[r].id)]
    /\ UNCHANGED <<ctx, depth, copy, left, outcome>>

\* FindByID: the copy is exact while the transaction that read it goes on.
Load(r, i) ==
    /\ Idle(r) /\ left[r] > 0
    /\ Reads(r)
    /\ left' = [left EXCEPT ![r] = @ - 1]
    /\ copy' = [copy EXCEPT ![r] = IF First(r, i) = {} THEN None
                                   ELSE [id |-> i, row |-> Seen(r)[i], own |-> InTx(r)]]
    /\ UNCHANGED <<ctx, depth, op, outcome>>

Find(r, conditions) ==
    /\ Idle(r) /\ left[r] > 0
    /\ Reads(r)
    /\ left' = [left EXCEPT ![r] = @ - 1]
    /\ op' = [op EXCEPT ![r] = [kind |-> "find", stage |-> "after",
                                row |-> None, id |-> conditions,
                                got |-> {Seen(r)[i].domain : i \in Selected(r, conditions)}]]
    /\ UNCHANGED <<ctx, depth, copy, outcome>>

\* The statement of Update, Delete and AtomicUpdate: no row hit is no error.
Change(r, kind, i, row) ==
    /\ At(r, kind, "write")
    /\ Writes(r, IF Hit(r, i) THEN [Seen(r) EXCEPT ![i] = row] ELSE Seen(r))

UpdateStart(r, name) ==
    /\ copy[r] # None
    /\ Start(r, [kind |-> "update", stage |-> "write", id |-> copy[r].id, got |-> {},
                 own |-> copy[r].own /\ InTx(r), row |-> [copy[r].row EXCEPT !.name = name]])

\* Every column is written from the copy, the unique one unchecked.
Update(r) ==
    /\ LET i == op[r].id
       IN Change(r, "update", i,
             [op[r].row EXCEPT !.incs = Seen(r)[i].incs, !.stale = Seen(r)[i].stale \/ ~op[r].own,
                               !.loose = TRUE, !.writer = IF InTx(r) THEN r ELSE None])
    /\ GoesTo(r, "after")
    /\ UNCHANGED <<ctx, depth, copy, left, outcome>>

DeleteStart(r) ==
    /\ copy[r] # None
    /\ Start(r, [kind |-> "delete", stage |-> "write", id |-> copy[r].id, got |-> {}, row |-> None])

Delete(r) ==
    /\ Change(r, "delete", op[r].id, None)
    /\ GoesTo(r, "after")
    /\ UNCHANGED <<ctx, depth, copy, left, outcome>>

\* Mutant: the new value is computed from the copy the request has loaded.
AtomicUpdateOfCopy(r, i) ==
    /\ Idle(r) /\ left[r] > 0
    /\ Writes(r, IF Hit(r, i)
                 THEN [Seen(r) EXCEPT ![i].n = (IF copy[r] = None THEN @ ELSE copy[r].row.n) + 1,
                                      ![i].incs = @ + 1]
                 ELSE Seen(r))
    /\ left' = [left EXCEPT ![r] = @ - 1]
    /\ UNCHANGED <<ctx, depth, op, copy, outcome>>

\* AtomicUpdate has no hooks: n = n + 1 in one statement.
AtomicUpdate(r, i) ==
    /\ Idle(r) /\ left[r] > 0
    /\ Writes(r, IF Hit(r, i)
                 THEN [Seen(r) EXCEPT ![i].n = @ + 1, ![i].incs = @ + 1,
                                      ![i].writer = IF InTx(r) THEN r ELSE None]
                 ELSE Seen(r))
    /\ left' = [left EXCEPT ![r] = @ - 1]
    /\ copy' = [copy EXCEPT ![r] = IF @ = None THEN @ ELSE [@ EXCEPT !.own = FALSE]]
    /\ UNCHANGED <<ctx, depth, op, outcome>>

Transaction(r) ==
    \/ Begin(r) \/ Nest(r) \/ ReturnNested(r)
    \/ Commit(r) \/ Rollback(r) \/ Panic(r) \/ Cancel(r)

Operation(r) ==
    \/ \E name \in Names : UpdateStart(r, name)
    \/ \E name \in Names, domain \in {NoDomain} \cup (Domains \ {Scope(r)}) :
         CreateStart(r, name, domain)
    \/ \E i \in Ids : Load(r, i) \/ AtomicUpdate(r, i)
    \/ \E conditions \in Queries : Find(r, conditions)
    \/ DeleteStart(r) \/ Check(r) \/ Insert(r) \/ ReadBack(r)
    \/ Update(r) \/ Delete(r) \/ After(r) \/ StatementFails(r)

Next == \E r \in Requests : Transaction(r) \/ Operation(r)

Spec == Init /\ [][Next]_vars
-----------------------------------------------------------------------------
(* Properties.                                                             *)

\* Every variable has its type, and a request is inside of WithTransaction
\* exactly while its context carries a transaction (transaction.go:29).
TypeOK ==
    /\ ctx \in Contexts
    /\ table \in [Ids -> Row \cup {None}]
    /\ tx \in [Requests -> Transactions \cup {None}]
    /\ op \in [Requests -> Operations \cup {None}]
    /\ copy \in [Requests -> Copies \cup {None}]
    /\ depth \in [Requests -> 0..MaxDepth]
    /\ \A r \in Requests : depth[r] > 0 <=> InTx(r)
    /\ left \in [Requests -> Nat] /\ \A r \in Requests : left[r] <= MaxOps[r]
    /\ outcome \in [Requests -> {"none", "open", "committed", "failed"}]

\* What a transaction wrote, at whatever depth of nested WithTransaction calls,
\* is in the table only if the outermost callback returned nil and the commit
\* succeeded: never while it runs, nor after an error, a panic or a cancelled
\* context (transaction.go:37 to 74).
OnlyCommittedTransactions ==
    \A i \in Ids : table[i] # None /\ table[i].writer # None
                   => outcome[table[i].writer] = "committed"

\* unique_per_domain is a query and then an INSERT (repository.go:179, 225),
\* and yet two rows of a domain share the value only if one of them was
\* written outside of a transaction, in another domain than the one that was
\* looked at, without a scope or by Update, which does not look.
DuplicatesAreLoose ==
    \A i, j \in Ids :
        /\ i # j /\ table[i] # None /\ table[j] # None
        /\ table[i].domain = table[j].domain /\ table[i].name = table[j].name
        => table[i].loose \/ table[j].loose

\* The counter of a row is the number of its AtomicUpdates that took effect,
\* unless an Update wrote a copy that was not read in its own transaction, or
\* that the transaction had incremented since (repository.go:55, 278).
IncrementsAreLostToStaleCopies ==
    \A i \in Ids : table[i] # None /\ table[i].n # table[i].incs => table[i].stale

\* Create answers with the row it inserted (repository.go:234): it comes back
\* empty-handed, with no error and an AfterCreate hook on nothing, only for a
\* row of another domain, or outside of a transaction, where another request
\* may delete the row in between.
CreatedRowIsReturned ==
    \A r \in Requests :
        At(r, "create", "after") /\ op[r].got = {}
        => ~InTx(r) \/ (Scope(r) # NoDomain /\ op[r].row.domain # Scope(r))

\* A query in a scope returns rows of another domain only if one of its
\* conditions has an OR, that the missing parentheses let escape
\* (query.go:140, 147).
OnlyAnOrLeavesTheDomain ==
    \A r \in Requests :
        /\ At(r, "find", "after") /\ Scope(r) # NoDomain
        /\ ~(op[r].got \subseteq {Scope(r)})
        => \E k \in DOMAIN op[r].id : Len(op[r].id[k]) > 1
=============================================================================
