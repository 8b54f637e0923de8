-------------------------- MODULE RepositoryProofs --------------------------
(***************************************************************************)
(* What the rows of the table have in common, for any requests, contexts,  *)
(* queries and depths of transactions: the argument goes from what a       *)
(* transaction sees to what it commits.                                    *)
(***************************************************************************)
EXTENDS Repository, TLAPS

Tables == [Ids -> Row \cup {None}]

\* What DuplicatesAreLoose says of the rows v.
Unique(v) ==
    \A i, j \in Ids :
        /\ i # j /\ v[i] # None /\ v[j] # None
        /\ v[i].domain = v[j].domain /\ v[i].name = v[j].name
        => v[i].loose \/ v[j].loose

\* What IncrementsAreLostToStaleCopies says of the rows v.
Counted(v) == \A i \in Ids : v[i] # None /\ v[i].n # v[i].incs => v[i].stale

Committed(q) == outcome[q] = "committed"

\* The transactions that wrote the rows of v have been committed, but for r's.
Written(v, r) ==
    \A i \in Ids : v[i] # None /\ v[i].writer # None => v[i].writer = r \/ Committed(v[i].writer)

TableOK == Unique(table) /\ Counted(table) /\ OnlyCommittedTransactions

\* The rows a transaction sees are as those of the table, or its own.
ViewOK(r) == InTx(r) => Unique(tx[r].view) /\ Counted(tx[r].view) /\ Written(tx[r].view, r)

\* A request's one transaction is open exactly while its context carries it.
Once(r) == InTx(r) <=> outcome[r] = "open"

\* A copy that the request's transaction has read is the row it sees: an
\* operation that may change rows has dropped it.
Exact(r) ==
    copy[r] # None =>
        /\ op[r] = None \/ op[r].kind = "find"
        /\ copy[r].own => /\ outcome[r] # "none"
                          /\ InTx(r) => tx[r].began /\ tx[r].view[copy[r].id] = copy[r].row

\* An Update of such a copy has the row's counter.
Current(r) ==
    At(r, "update", "write") /\ op[r].own =>
        /\ InTx(r) /\ tx[r].began
        /\ tx[r].view[op[r].id] # None /\ tx[r].view[op[r].id].n = op[r].row.n

\* A row that is created is new, and the request's own.
Fresh(r) ==
    op[r] # None /\ op[r].kind = "create" =>
        /\ op[r].row.n = op[r].row.incs
        /\ op[r].row.writer = IF InTx(r) THEN r ELSE None
        /\ op[r].stage = "check" => op[r].row.loose

\* Nothing the transaction sees clashes with a row whose check has passed.
Checked(r) ==
    At(r, "create", "insert") /\ ~op[r].row.loose =>
        /\ InTx(r) /\ tx[r].began
        /\ \A i \in Ids : tx[r].view[i] # None =>
             tx[r].view[i].domain # op[r].row.domain \/ tx[r].view[i].name # op[r].row.name

\* A row that is about to be read back is there, as its transaction sees it.
There(r) ==
    At(r, "create", "read") =>
        /\ op[r].id \in Ids
        /\ InTx(r) => tx[r].began /\ tx[r].view[op[r].id] = op[r].row

\* CreatedRowIsReturned and OnlyAnOrLeavesTheDomain, of one request.
Returned(r) ==
    At(r, "create", "after") /\ op[r].got = {}
    => ~InTx(r) \/ (Scope(r) # NoDomain /\ op[r].row.domain # Scope(r))
Kept(r) ==
    /\ At(r, "find", "after") /\ Scope(r) # NoDomain
    /\ ~(op[r].got \subseteq {Scope(r)})
    => \E k \in DOMAIN op[r].id : Len(op[r].id[k]) > 1

Local(r) ==
    /\ ViewOK(r) /\ Once(r) /\ Exact(r) /\ Current(r) /\ Fresh(r) /\ Checked(r) /\ There(r)
    /\ Returned(r) /\ Kept(r)

IInv == TypeOK /\ TableOK /\ \A r \in Requests : Local(r)

-----------------------------------------------------------------------------
(* Rows.                                                                   *)

\* What a request may do to a row of a table without duplicates.
LEMMA UniqueAfter ==
  ASSUME NEW v \in Tables, Unique(v), NEW i \in Ids, NEW row \in Row \cup {None},
         \/ row = None \/ row.loose
         \/ \A j \in Ids : v[j] # None => v[j].domain # row.domain \/ v[j].name # row.name
         \/ v[i] # None /\ v[i].domain = row.domain /\ v[i].name = row.name /\ v[i].loose = row.loose
  PROVE  Unique([v EXCEPT ![i] = row])
BY DEF Unique, Tables

LEMMA CountedAfter ==
  ASSUME NEW v \in Tables, Counted(v), NEW i \in Ids, NEW row \in Row \cup {None},
         row = None \/ row.n = row.incs \/ row.stale
  PROVE  Counted([v EXCEPT ![i] = row])
BY DEF Counted, Tables

LEMMA WrittenAfter ==
  ASSUME NEW v \in Tables, NEW r, Written(v, r), NEW i \in Ids, NEW row \in Row \cup {None},
         row = None \/ row.writer \in {None, r}
  PROVE  Written([v EXCEPT ![i] = row], r)
BY DEF Written, Tables

\* The rows of a view are typed.
LEMMA SeenIsATable ==
  ASSUME TypeOK, NEW r \in Requests
  PROVE  Seen(r) \in Tables
BY DEF TypeOK, Seen, InTx, Tables, Transactions

-----------------------------------------------------------------------------
(* Statements.                                                             *)

\* A statement of r's leaves what another sees as it is.
Same(q) == /\ InTx(q)' <=> InTx(q)
           /\ InTx(q) => tx'[q].view = tx[q].view /\ tx'[q].began = tx[q].began

LEMMA ReadsEffect ==
  ASSUME TypeOK, NEW r \in Requests, Reads(r)
  PROVE  /\ table' = table /\ tx' \in [Requests -> Transactions \cup {None}]
         /\ \A q \in Requests \ {r} : Same(q)
         /\ InTx(r)' <=> InTx(r)
         /\ InTx(r) => tx'[r].began /\ tx'[r].view = Seen(r)
         /\ ~InTx(r) => Seen(r) = table
<1>1. tx \in [Requests -> Transactions \cup {None}] /\ Seen(r) \in Tables
  BY SeenIsATable DEF TypeOK
<1>2. table' = table /\ (~InTx(r) => Seen(r) = table)
  BY DEF Reads, Seen
<1>3. CASE ~InTx(r)
  BY <1>1, <1>2, <1>3 DEF Reads, Same, InTx
<1>4. CASE InTx(r)
  <2>1. tx[r] \in Transactions
    BY <1>1, <1>4 DEF InTx
  <2>2. tx' = [tx EXCEPT ![r] = [[tx[r] EXCEPT !.began = TRUE] EXCEPT !.view = Seen(r)]]
    BY <1>1, <1>4 DEF Reads
  <2>3. /\ tx'[r] \in Transactions /\ tx'[r].began /\ tx'[r].view = Seen(r)
    BY <1>1, <2>1, <2>2 DEF Transactions, Tables
  <2>4. tx' \in [Requests -> Transactions \cup {None}] /\ \A q \in Requests \ {r} : tx'[q] = tx[q]
    BY <1>1, <2>2, <2>3
  <2> QED BY <1>2, <1>4, <2>3, <2>4, NoneAssumption DEF Same, InTx
<1> QED BY <1>3, <1>4

LEMMA FreshnessIsLost ==
  ASSUME NEW t \in Transactions
  PROVE  /\ [t EXCEPT !.fresh = FALSE] \in Transactions
         /\ [t EXCEPT !.fresh = FALSE].view = t.view /\ [t EXCEPT !.fresh = FALSE].began = t.began
BY DEF Transactions

LEMMA WritesEffect ==
  ASSUME TypeOK, NEW r \in Requests, NEW new \in Tables, Writes(r, new)
  PROVE  /\ table' \in Tables /\ tx' \in [Requests -> Transactions \cup {None}]
         /\ \A q \in Requests \ {r} : Same(q)
         /\ InTx(r)' <=> InTx(r)
         /\ InTx(r) => tx'[r].began /\ tx'[r].view = new /\ table' = table
         /\ ~InTx(r) => table' = new
<1>1. tx \in [Requests -> Transactions \cup {None}] /\ table \in Tables
  BY DEF TypeOK, Tables
<1>3. CASE ~InTx(r)
  <2>1. table' = new /\ tx' = Outdated(r, new)
    BY <1>3 DEF Writes
  <2>2. ASSUME NEW q \in Requests
        PROVE  tx'[q] = tx[q] \/ (tx[q] \in Transactions /\ tx'[q] = [tx[q] EXCEPT !.fresh = FALSE])
    BY <1>1, <2>1 DEF Outdated, InTx
  <2>3. ASSUME NEW q \in Requests
        PROVE  tx'[q] \in Transactions \cup {None} /\ Same(q)
    <3>1. CASE tx'[q] = tx[q]
      BY <1>1, <3>1 DEF Same, InTx
    <3>2. CASE tx[q] \in Transactions /\ tx'[q] = [tx[q] EXCEPT !.fresh = FALSE]
      <4>1. tx'[q] \in Transactions /\ tx'[q].view = tx[q].view /\ tx'[q].began = tx[q].began
        BY <3>2, FreshnessIsLost
      <4> QED BY <3>2, <4>1, NoneAssumption DEF Same, InTx
    <3> QED BY <2>2, <3>1, <3>2
  <2>4. tx' \in [Requests -> Transactions \cup {None}]
    BY <2>1, <2>3 DEF Outdated
  <2> QED BY <1>3, <2>1, <2>3, <2>4 DEF Same, InTx
<1>4. CASE InTx(r)
  <2>1. tx[r] \in Transactions /\ table' = table
    BY <1>1, <1>4 DEF InTx, Writes
  <2>2. tx' = [tx EXCEPT ![r] = [[[tx[r] EXCEPT !.began = TRUE] EXCEPT !.view = new] EXCEPT !.writes = TRUE]]
    BY <1>1, <1>4 DEF Writes
  <2>3. /\ tx'[r] \in Transactions /\ tx'[r].began /\ tx'[r].view = new
    BY <1>1, <2>1, <2>2 DEF Transactions, Tables
  <2>4. tx' \in [Requests -> Transactions \cup {None}] /\ \A q \in Requests \ {r} : tx'[q] = tx[q]
    BY <1>1, <2>2, <2>3
  <2> QED BY <1>1, <1>4, <2>1, <2>3, <2>4, NoneAssumption DEF Same, InTx
<1> QED BY <1>3, <1>4
-----------------------------------------------------------------------------
(* A step of one request.                                                  *)

LEMMA OthersKeep ==
  ASSUME TypeOK, NEW q \in Requests, Local(q), Same(q), ctx' = ctx,
         op'[q] = op[q], copy'[q] = copy[q], outcome'[q] = outcome[q],
         \A p \in Requests : Committed(p) => Committed(p)'
  PROVE  Local(q)'
<1>1. ViewOK(q)'
  <2>1. SUFFICES ASSUME InTx(q)' PROVE ViewOK(q)'
    BY DEF ViewOK
  <2>2. /\ InTx(q) /\ tx'[q].view = tx[q].view /\ tx[q].view \in Tables
        /\ Unique(tx[q].view) /\ Counted(tx[q].view) /\ Written(tx[q].view, q)
    BY <2>1 DEF Same, InTx, TypeOK, Transactions, Tables, Local, ViewOK
  <2>3. \A i \in Ids : tx[q].view[i] # None => tx[q].view[i].writer \in Requests \cup {None}
    BY <2>2 DEF Tables, Row
  <2>4. Unique(tx[q].view)' /\ Counted(tx[q].view)'
    BY <2>2 DEF Unique, Counted
  <2>5. Written(tx[q].view, q)'
    BY <2>2, <2>3 DEF Written
  <2> QED BY <2>4, <2>5 DEF ViewOK
<1>2. Once(q)' /\ Exact(q)'
  BY DEF Local, Once, Exact, Same
<1>3. Current(q)' /\ Fresh(q)' /\ Checked(q)' /\ There(q)'
  BY DEF Local, Current, Fresh, Checked, There, At, Same
<1>4. Returned(q)' /\ Kept(q)'
  BY DEF Local, Returned, Kept, At, Scope, Scoped, Same
<1> QED BY <1>1, <1>2, <1>3, <1>4 DEF Local

\* A step of r's leaves the context and the other requests as they are.
StepOf(r) ==
    /\ ctx' = ctx /\ (Committed(r) => Committed(r)')
    /\ \A q \in Requests \ {r} :
         Same(q) /\ op'[q] = op[q] /\ copy'[q] = copy[q] /\ outcome'[q] = outcome[q]

LEMMA StepKeeps ==
  ASSUME IInv, NEW r \in Requests, StepOf(r), TypeOK', TableOK', Local(r)'
  PROVE  IInv'
<1>1. \A p \in Requests : Committed(p) => Committed(p)'
  BY DEF StepOf, Committed
<1>2. ASSUME NEW q \in Requests \ {r}
      PROVE  Local(q)'
  BY <1>1, <1>2, OthersKeep DEF StepOf, IInv
<1> QED BY <1>2 DEF IInv

\* The table is as it was, or what the request's transaction sees.
LEMMA TableKeeps ==
  ASSUME IInv, NEW r \in Requests, StepOf(r), table' = table
  PROVE  TableOK'
<1>1. \A p \in Requests : Committed(p) => Committed(p)'
  BY DEF StepOf, Committed
<1>2. \A i \in Ids : table[i] # None => table[i].writer \in Requests \cup {None}
  BY DEF IInv, TypeOK, Row
<1>3. OnlyCommittedTransactions'
  BY <1>1, <1>2 DEF IInv, TableOK, OnlyCommittedTransactions, Committed
<1> QED BY <1>3 DEF IInv, TableOK, Unique, Counted

\* A view that r's step leaves as it is.
LEMMA ViewKeeps ==
  ASSUME IInv, NEW r \in Requests, StepOf(r), InTx(r)', InTx(r), tx'[r].view = tx[r].view
  PROVE  ViewOK(r)'
<1>1. \A p \in Requests : Committed(p) => Committed(p)'
  BY DEF StepOf, Committed
<1>2. /\ tx[r].view \in Tables
      /\ Unique(tx[r].view) /\ Counted(tx[r].view) /\ Written(tx[r].view, r)
  BY DEF IInv, Local, ViewOK, TypeOK, Transactions, InTx, Tables
<1>3. \A i \in Ids : tx[r].view[i] # None => tx[r].view[i].writer \in Requests \cup {None}
  BY <1>2 DEF Tables, Row
<1>4. Unique(tx[r].view)' /\ Counted(tx[r].view)' /\ Written(tx[r].view, r)'
  BY <1>1, <1>2, <1>3 DEF Unique, Counted, Written
<1> QED BY <1>4 DEF ViewOK

-----------------------------------------------------------------------------
(* WithTransaction.                                                        *)

LEMMA InitHolds == Init => IInv
<1> SUFFICES ASSUME Init PROVE IInv
  OBVIOUS
<1>1. table \in Tables /\ \A i \in Ids : table[i] # None =>
          table[i].writer = None /\ table[i].n = table[i].incs /\ table[i].loose
  BY StoredAssumption DEF Init, Tables
<1>2. TypeOK
  BY <1>1, BoundsAssumption DEF Init, TypeOK, Tables, InTx
<1>3. TableOK
  BY <1>1 DEF TableOK, Unique, Counted, OnlyCommittedTransactions
<1>4. ASSUME NEW r \in Requests PROVE Local(r)
  <2>1. tx[r] = None /\ op[r] = None /\ copy[r] = None /\ outcome[r] = "none"
    BY DEF Init
  <2>2. ViewOK(r) /\ Once(r) /\ Exact(r)
    BY <2>1 DEF ViewOK, Once, Exact, InTx
  <2>3. Current(r) /\ Fresh(r) /\ Checked(r) /\ There(r) /\ Returned(r) /\ Kept(r)
    BY <2>1 DEF Current, Fresh, Checked, There, Returned, Kept, At
  <2> QED BY <2>2, <2>3 DEF Local
<1> QED BY <1>2, <1>3, <1>4 DEF IInv

\* Between operations a request has no operation's obligations.
LEMMA IdleIsLocal ==
  ASSUME NEW r \in Requests, op[r] = None
  PROVE  Current(r) /\ Fresh(r) /\ Checked(r) /\ There(r) /\ Returned(r) /\ Kept(r)
BY DEF Current, Fresh, Checked, There, Returned, Kept, At

LEMMA BeginKeeps ==
  ASSUME IInv, NEW r \in Requests, Begin(r)
  PROVE  IInv'
<1> DEFINE new == [began |-> FALSE, view |-> table, fresh |-> TRUE, writes |-> FALSE, cancelled |-> FALSE]
<1>1. TypeOK
  BY DEF IInv
<1>2. new \in Transactions /\ new # None /\ table \in Tables
  <2>1. new \in Transactions /\ table \in Tables
    BY <1>1 DEF TypeOK, Transactions, Tables
  <2> QED BY <2>1, NoneAssumption
<1>3. tx' = [tx EXCEPT ![r] = new] /\ depth' = [depth EXCEPT ![r] = 1] /\ outcome' = [outcome EXCEPT ![r] = "open"]
  BY DEF Begin
<1>4. UNCHANGED <<ctx, table, op, copy, left>> /\ outcome[r] = "none" /\ op[r] = None
  BY DEF Begin, Idle
<1> HIDE DEF new
<1>5. tx'[r] = new /\ \A q \in Requests \ {r} : tx'[q] = tx[q]
  BY <1>1, <1>3 DEF TypeOK
<1>6. StepOf(r)
  BY <1>1, <1>3, <1>4, <1>5 DEF StepOf, Same, InTx, Committed, TypeOK
<1>7. TypeOK'
  BY <1>1, <1>2, <1>3, <1>4, <1>5, BoundsAssumption DEF TypeOK, InTx
<1>8. TableOK'
  BY <1>4, <1>6, TableKeeps
<1>9. ViewOK(r)'
  <2>1. tx'[r].view = table
    BY <1>5 DEF new
  <2>2. Unique(table)' /\ Counted(table)' /\ Written(table, r)'
    BY <1>4, <1>8 DEF TableOK, OnlyCommittedTransactions, Written, Committed
  <2> QED BY <1>4, <2>1, <2>2 DEF ViewOK, Unique, Counted, Written
<1>10. Once(r)' /\ Exact(r)'
  BY <1>1, <1>2, <1>3, <1>4, <1>5 DEF Once, Exact, InTx, TypeOK, IInv, Local
<1>11. Local(r)'
  <2>1. op'[r] = None
    BY <1>4
  <2>2. (Current(r) /\ Fresh(r) /\ Checked(r) /\ There(r) /\ Returned(r) /\ Kept(r))'
    BY <2>1 DEF Current, Fresh, Checked, There, Returned, Kept, At
  <2> QED BY <1>9, <1>10, <2>2 DEF Local
<1> QED BY <1>6, <1>7, <1>8, <1>11, StepKeeps

\* Nothing but the depth and the operations left changes.
LEMMA OnlyCountersChange ==
  ASSUME IInv, NEW r \in Requests, TypeOK', UNCHANGED <<ctx, table, tx, op, copy, outcome>>
  PROVE  IInv'
<1>1. \A q \in Requests : Same(q)
  BY DEF Same, InTx
<1>2. TableOK'
  BY DEF IInv, TableOK, Unique, Counted, OnlyCommittedTransactions
<1>3. ASSUME NEW q \in Requests PROVE Local(q)'
  BY <1>1, <1>3, OthersKeep DEF IInv, Committed
<1> QED BY <1>2, <1>3 DEF IInv

LEMMA NestKeeps ==
  ASSUME IInv, NEW r \in Requests, Nest(r)
  PROVE  IInv'
<1>1. TypeOK'
  BY BoundsAssumption DEF IInv, TypeOK, Nest, InTx
<1> QED BY <1>1, OnlyCountersChange DEF Nest

LEMMA ReturnNestedKeeps ==
  ASSUME IInv, NEW r \in Requests, ReturnNested(r)
  PROVE  IInv'
<1>1. TypeOK'
  BY BoundsAssumption DEF IInv, TypeOK, ReturnNested, InTx
<1> QED BY <1>1, OnlyCountersChange DEF ReturnNested

\* What a commit does to the snapshots of the others.
LEMMA OutdatedEffect ==
  ASSUME TypeOK, NEW r \in Requests, NEW new, tx' = [Outdated(r, new) EXCEPT ![r] = None]
  PROVE  /\ tx' \in [Requests -> Transactions \cup {None}]
         /\ tx'[r] = None
         /\ \A q \in Requests \ {r} : Same(q)
<1>1. tx \in [Requests -> Transactions \cup {None}]
  BY DEF TypeOK
<1>2. tx'[r] = None /\ DOMAIN tx' = Requests
  BY DEF Outdated
<1>3. ASSUME NEW q \in Requests \ {r}
      PROVE  tx'[q] \in Transactions \cup {None} /\ Same(q)
  <2>1. \/ tx'[q] = tx[q]
        \/ tx[q] \in Transactions /\ tx'[q] = [tx[q] EXCEPT !.fresh = FALSE]
    BY <1>1 DEF Outdated, InTx
  <2>2. CASE tx'[q] = tx[q]
    BY <1>1, <2>2 DEF Same, InTx
  <2>3. CASE tx[q] \in Transactions /\ tx'[q] = [tx[q] EXCEPT !.fresh = FALSE]
    <3>1. tx'[q] \in Transactions /\ tx'[q].view = tx[q].view /\ tx'[q].began = tx[q].began
      BY <2>3, FreshnessIsLost
    <3> QED BY <2>3, <3>1, NoneAssumption DEF Same, InTx
  <2> QED BY <2>1, <2>2, <2>3
<1>4. tx' = [q \in Requests |-> tx'[q]]
  BY DEF Outdated
<1> QED BY <1>2, <1>3, <1>4

\* A request without a transaction and without an operation.
LEMMA EndedIsLocal ==
  ASSUME NEW r \in Requests, tx'[r] = None, op'[r] = None, outcome'[r] \in {"committed", "failed"}
  PROVE  Local(r)'
<1>1. (Current(r) /\ Fresh(r) /\ Checked(r) /\ There(r) /\ Returned(r) /\ Kept(r))'
  BY DEF Current, Fresh, Checked, There, Returned, Kept, At
<1>2. ViewOK(r)' /\ Once(r)' /\ Exact(r)'
  BY DEF ViewOK, Once, Exact, InTx
<1> QED BY <1>1, <1>2 DEF Local

LEMMA CommitKeeps ==
  ASSUME IInv, NEW r \in Requests, Commit(r)
  PROVE  IInv'
<1> DEFINE new == IF tx[r].writes THEN tx[r].view ELSE table
<1>1. TypeOK /\ InTx(r) /\ TableOK /\ Local(r)
  BY DEF IInv, TypeOK, Commit
<1>2. /\ tx' = [Outdated(r, new) EXCEPT ![r] = None] /\ table' = new
      /\ depth' = [depth EXCEPT ![r] = 0] /\ outcome' = [outcome EXCEPT ![r] = "committed"]
      /\ UNCHANGED <<ctx, op, copy, left>> /\ op[r] = None
  BY DEF Commit, Close, Idle
<1>3. /\ tx' \in [Requests -> Transactions \cup {None}]
      /\ tx'[r] = None
      /\ \A q \in Requests \ {r} : Same(q)
  BY <1>1, <1>2, OutdatedEffect
<1>4. tx[r] \in Transactions /\ tx[r].view \in Tables /\ table \in Tables
  BY <1>1 DEF TypeOK, InTx, Transactions, Tables
<1>5. outcome'[r] = "committed" /\ \A q \in Requests \ {r} : outcome'[q] = outcome[q]
  BY <1>1, <1>2 DEF TypeOK
<1>6. StepOf(r)
  BY <1>2, <1>3, <1>5 DEF StepOf, Committed
<1>7. TypeOK'
  BY <1>1, <1>2, <1>3, <1>4, BoundsAssumption DEF TypeOK, InTx, Tables, Same
<1>8. TableOK'
  <2>1. CASE ~tx[r].writes
    BY <1>2, <1>6, <2>1, TableKeeps
  <2>2. CASE tx[r].writes
    <3>1. table' = tx[r].view
      BY <1>2, <2>2
    <3>2. Unique(tx[r].view) /\ Counted(tx[r].view) /\ Written(tx[r].view, r)
      BY <1>1 DEF Local, ViewOK
    <3>3. \A i \in Ids : tx[r].view[i] # None => tx[r].view[i].writer \in Requests \cup {None}
      BY <1>4 DEF Tables, Row
    <3>4. OnlyCommittedTransactions'
      BY <1>5, <3>1, <3>2, <3>3 DEF OnlyCommittedTransactions, Written, Committed
    <3> QED BY <3>1, <3>2, <3>4 DEF TableOK, Unique, Counted
  <2> QED BY <2>1, <2>2
<1>9. Local(r)'
  BY <1>2, <1>3, <1>5, EndedIsLocal
<1> QED BY <1>6, <1>7, <1>8, <1>9, StepKeeps

\* The transaction ends without a commit.
LEMMA FailedTransactionKeeps ==
  ASSUME IInv, NEW r \in Requests, depth[r] > 0, tx' = [tx EXCEPT ![r] = None], Close(r, "failed"),
         op'[r] = None, \A q \in Requests \ {r} : op'[q] = op[q],
         op' \in [Requests -> Operations \cup {None}],
         left' \in [Requests -> Nat], \A q \in Requests : left'[q] <= MaxOps[q],
         UNCHANGED <<ctx, table, copy>>
  PROVE  IInv'
<1>1. TypeOK /\ InTx(r) /\ Local(r)
  BY DEF IInv, TypeOK
<1>2. depth' = [depth EXCEPT ![r] = 0] /\ outcome' = [outcome EXCEPT ![r] = "failed"]
  BY DEF Close
<1>3. tx'[r] = None /\ outcome'[r] = "failed" /\ outcome[r] = "open"
  BY <1>1, <1>2 DEF TypeOK, Local, Once
<1>4. StepOf(r)
  BY <1>1, <1>2, <1>3 DEF StepOf, Same, InTx, Committed, TypeOK
<1>5. TypeOK'
  BY <1>1, <1>2, BoundsAssumption DEF TypeOK, InTx
<1>6. TableOK'
  BY <1>4, TableKeeps
<1>7. Local(r)'
  BY <1>3, EndedIsLocal
<1> QED BY <1>4, <1>5, <1>6, <1>7, StepKeeps

LEMMA RollbackKeeps ==
  ASSUME IInv, NEW r \in Requests, Rollback(r)
  PROVE  IInv'
<1>1. /\ op[r] = None /\ depth[r] > 0 /\ Close(r, "failed")
      /\ tx' = [tx EXCEPT ![r] = None] /\ UNCHANGED <<ctx, table, op, copy, left>>
  BY BoundsAssumption DEF Rollback, Idle
<1>2. /\ op \in [Requests -> Operations \cup {None}]
      /\ left \in [Requests -> Nat] /\ \A q \in Requests : left[q] <= MaxOps[q]
  BY DEF IInv, TypeOK
<1> QED BY <1>1, <1>2, FailedTransactionKeeps

LEMMA PanicKeeps ==
  ASSUME IInv, NEW r \in Requests, Panic(r)
  PROVE  IInv'
<1>1. /\ depth[r] > 0 /\ Close(r, "failed")
      /\ tx' = [tx EXCEPT ![r] = None] /\ UNCHANGED <<ctx, table, copy>>
      /\ op' = [op EXCEPT ![r] = None] /\ left' = [left EXCEPT ![r] = 0]
  BY DEF Panic
<1>2. /\ op \in [Requests -> Operations \cup {None}]
      /\ left \in [Requests -> Nat] /\ \A q \in Requests : left[q] <= MaxOps[q]
  BY DEF IInv, TypeOK
<1>3. /\ op' \in [Requests -> Operations \cup {None}]
      /\ op'[r] = None /\ \A q \in Requests \ {r} : op'[q] = op[q]
      /\ left' \in [Requests -> Nat] /\ \A q \in Requests : left'[q] <= MaxOps[q]
  BY <1>1, <1>2, BoundsAssumption
<1> QED BY <1>1, <1>3, FailedTransactionKeeps

LEMMA CancelKeeps ==
  ASSUME IInv, NEW r \in Requests, Cancel(r)
  PROVE  IInv'
<1>1. /\ InTx(r) /\ tx' = [tx EXCEPT ![r] = [[tx[r] EXCEPT !.cancelled = TRUE] EXCEPT !.writes = FALSE]]
      /\ UNCHANGED <<ctx, table, depth, op, copy, left, outcome>>
  BY DEF Cancel
<1>2. TypeOK /\ tx[r] \in Transactions /\ Local(r)
  BY <1>1 DEF IInv, TypeOK, InTx
<1>3. tx'[r] \in Transactions /\ tx'[r].view = tx[r].view /\ tx'[r].began = tx[r].began
  BY <1>1, <1>2 DEF TypeOK, Transactions
<1>4. \A q \in Requests \ {r} : tx'[q] = tx[q]
  BY <1>1, <1>2 DEF TypeOK
<1>5. \A q \in Requests : Same(q)
  BY <1>1, <1>3, <1>4, NoneAssumption DEF Same, InTx
<1>6. TypeOK'
  BY <1>1, <1>2, <1>3, <1>5 DEF TypeOK, Same
<1>7. StepOf(r)
  BY <1>1, <1>5 DEF StepOf, Committed
<1>8. TableOK'
  BY <1>1, <1>7, TableKeeps
<1>9. Local(r)'
  BY <1>1, <1>2, <1>5, OthersKeep DEF Committed
<1> QED BY <1>6, <1>7, <1>8, <1>9, StepKeeps

-----------------------------------------------------------------------------
(* Operations.                                                             *)

\* A step that leaves the table and the transactions as they are.
LEMMA OperationStep ==
  ASSUME IInv, NEW r \in Requests, UNCHANGED <<ctx, table, tx, depth, outcome>>,
         op' \in [Requests -> Operations \cup {None}], copy' \in [Requests -> Copies \cup {None}],
         left' \in [Requests -> Nat], \A q \in Requests : left'[q] <= MaxOps[q],
         \A q \in Requests \ {r} : op'[q] = op[q] /\ copy'[q] = copy[q],
         (Exact(r) /\ Current(r) /\ Fresh(r) /\ Checked(r) /\ There(r) /\ Returned(r) /\ Kept(r))'
  PROVE  IInv'
<1>1. TypeOK'
  BY DEF IInv, TypeOK, InTx
<1>2. StepOf(r)
  BY DEF StepOf, Same, InTx, Committed
<1>3. TableOK'
  BY <1>2, TableKeeps
<1>4. ViewOK(r)' /\ Once(r)'
  BY DEF IInv, Local, ViewOK, Once, InTx, Unique, Counted, Written, Committed
<1> QED BY <1>1, <1>2, <1>3, <1>4, StepKeeps DEF Local

LEMMA OneLess ==
  ASSUME NEW r \in Requests, left \in [Requests -> Nat], \A q \in Requests : left[q] <= MaxOps[q],
         left[r] > 0, left' = [left EXCEPT ![r] = @ - 1]
  PROVE  left' \in [Requests -> Nat] /\ \A q \in Requests : left'[q] <= MaxOps[q]
<1>1. left[r] - 1 \in Nat /\ MaxOps[r] \in Nat /\ left[r] - 1 <= MaxOps[r]
  <2>1. left[r] \in Nat /\ MaxOps[r] \in Nat /\ left[r] <= MaxOps[r]
    BY BoundsAssumption
  <2> QED BY <2>1
<1> QED BY <1>1

\* An operation that starts is refused by its hook, or goes on from o.
LEMMA StartKeeps ==
  ASSUME IInv, NEW r \in Requests, NEW o \in Operations, Start(r, o),
         op'[r] = o => (Current(r) /\ Fresh(r) /\ Checked(r) /\ There(r) /\ Returned(r) /\ Kept(r))'
  PROVE  IInv'
<1>1. TypeOK /\ op[r] = None
  BY DEF IInv, Start, Idle
<1>2. /\ UNCHANGED <<ctx, table, tx, depth, outcome>>
      /\ copy' = [copy EXCEPT ![r] = None] /\ left' = [left EXCEPT ![r] = @ - 1] /\ left[r] > 0
      /\ op' = [op EXCEPT ![r] = o] \/ op' = op
  BY DEF Start
<1>3. /\ op' \in [Requests -> Operations \cup {None}] /\ copy' \in [Requests -> Copies \cup {None}]
      /\ \A q \in Requests \ {r} : op'[q] = op[q] /\ copy'[q] = copy[q]
      /\ copy'[r] = None /\ (op'[r] = o \/ op'[r] = None)
  BY <1>1, <1>2 DEF TypeOK
<1>4. left' \in [Requests -> Nat] /\ \A q \in Requests : left'[q] <= MaxOps[q]
  BY <1>1, <1>2, OneLess DEF TypeOK
<1>5. Exact(r)'
  BY <1>3 DEF Exact
<1>6. op'[r] = None => (Current(r) /\ Fresh(r) /\ Checked(r) /\ There(r) /\ Returned(r) /\ Kept(r))'
  BY DEF Current, Fresh, Checked, There, Returned, Kept, At
<1> QED BY <1>2, <1>3, <1>4, <1>5, <1>6, OperationStep

LEMMA EndsKeeps ==
  ASSUME IInv, NEW r \in Requests, Ends(r), UNCHANGED <<ctx, table, tx, depth, copy, left, outcome>>
  PROVE  IInv'
<1>1. op' \in [Requests -> Operations \cup {None}] /\ op'[r] = None /\ \A q \in Requests \ {r} : op'[q] = op[q]
  BY DEF Ends, IInv, TypeOK
<1>2. Exact(r)'
  BY <1>1 DEF IInv, Local, Exact, InTx
<1>3. (Current(r) /\ Fresh(r) /\ Checked(r) /\ There(r) /\ Returned(r) /\ Kept(r))'
  BY <1>1 DEF Current, Fresh, Checked, There, Returned, Kept, At
<1> QED BY <1>1, <1>2, <1>3, OperationStep DEF IInv, TypeOK

LEMMA CreateStartKeeps ==
  ASSUME IInv, NEW r \in Requests, NEW name \in Names,
         NEW domain \in {NoDomain} \cup Domains, CreateStart(r, name, domain)
  PROVE  IInv'
<1> DEFINE o == [kind |-> "create", stage |-> IF Scoped(r) THEN "check" ELSE "insert",
                 row |-> New(r, name, domain), id |-> None, got |-> {}]
<1>1. TypeOK
  BY DEF IInv
<1>2. Scope(r) \in Domains \cup {NoDomain}
  BY <1>1, ContextAssumption DEF TypeOK, Scope
<1>3. New(r, name, domain) \in Row
  BY <1>2 DEF New, Row
<1>4. o \in Operations
  BY <1>3 DEF Operations, Creations
<1>5. Start(r, o) /\ UNCHANGED tx
  BY DEF CreateStart, Start
<1>6. ASSUME op'[r] = o
      PROVE  (Current(r) /\ Fresh(r) /\ Checked(r) /\ There(r) /\ Returned(r) /\ Kept(r))'
  <2>1. /\ op'[r].kind = "create" /\ op'[r].stage \in {"check", "insert"} /\ op'[r].row.loose
        /\ op'[r].row.n = op'[r].row.incs /\ op'[r].row.writer = IF InTx(r) THEN r ELSE None
    BY <1>6 DEF New
  <2>2. Current(r)' /\ There(r)' /\ Returned(r)' /\ Kept(r)'
    BY <2>1 DEF Current, There, Returned, Kept, At
  <2>3. Fresh(r)' /\ Checked(r)'
    BY <1>5, <2>1 DEF Fresh, Checked, At, InTx
  <2> QED BY <2>2, <2>3
<1> HIDE DEF o
<1> QED BY <1>4, <1>5, <1>6, StartKeeps

LEMMA UpdateStartKeeps ==
  ASSUME IInv, NEW r \in Requests, NEW name \in Names, UpdateStart(r, name)
  PROVE  IInv'
<1> DEFINE own == copy[r].own /\ InTx(r)
<1> DEFINE o == [kind |-> "update", stage |-> "write", id |-> copy[r].id, got |-> {},
                 own |-> own, row |-> [copy[r].row EXCEPT !.name = name]]
<1>6. own \in BOOLEAN
  OBVIOUS
<1>4. Start(r, o) /\ UNCHANGED tx /\ copy[r] # None
  BY DEF UpdateStart, Start
<1> HIDE DEF own
<1>1. TypeOK /\ copy[r] \in Copies /\ Exact(r)
  BY DEF IInv, TypeOK, UpdateStart, Local
<1>2. [copy[r].row EXCEPT !.name = name] \in Row /\ [copy[r].row EXCEPT !.name = name].n = copy[r].row.n
  BY <1>1 DEF Copies, Row
<1>3. o \in Operations
  BY <1>1, <1>2, <1>6 DEF Operations, Updates, Copies
<1>5. ASSUME op'[r] = o
      PROVE  (Current(r) /\ Fresh(r) /\ Checked(r) /\ There(r) /\ Returned(r) /\ Kept(r))'
  <2>6. op'[r].kind = "update"
    BY <1>5
  <2>7. op'[r].id = copy[r].id
    BY <1>5
  <2>8. op'[r].row = [copy[r].row EXCEPT !.name = name]
    BY <1>5
  <2>1. op'[r].kind = "update" /\ op'[r].id = copy[r].id /\ op'[r].row.n = copy[r].row.n
    BY <1>2, <2>6, <2>7, <2>8
  <2>5. op'[r].own => copy[r].own /\ InTx(r)
    <3>1. op'[r].own = own
      BY <1>5
    <3> QED BY <3>1 DEF own
  <2>2. Fresh(r)' /\ Checked(r)' /\ There(r)' /\ Returned(r)' /\ Kept(r)'
    BY <2>1 DEF Fresh, Checked, There, Returned, Kept, At
  <2>3. copy[r].row # None
    BY <1>1, NoneAssumption DEF Copies
  <2>4. Current(r)'
    BY <1>1, <1>4, <2>1, <2>3, <2>5 DEF Current, Exact, InTx
  <2> QED BY <2>2, <2>4
<1> HIDE DEF o
<1> QED BY <1>3, <1>4, <1>5, StartKeeps

LEMMA DeleteStartKeeps ==
  ASSUME IInv, NEW r \in Requests, DeleteStart(r)
  PROVE  IInv'
<1> DEFINE o == [kind |-> "delete", stage |-> "write", id |-> copy[r].id, got |-> {}, row |-> None]
<1>1. copy[r] \in Copies
  BY DEF IInv, TypeOK, DeleteStart
<1>2. o \in Operations
  BY <1>1 DEF Operations, Deletions, Copies
<1>3. Start(r, o)
  BY DEF DeleteStart
<1>4. ASSUME op'[r] = o
      PROVE  (Current(r) /\ Fresh(r) /\ Checked(r) /\ There(r) /\ Returned(r) /\ Kept(r))'
  BY <1>4 DEF Current, Fresh, Checked, There, Returned, Kept, At
<1> HIDE DEF o
<1> QED BY <1>2, <1>3, <1>4, StartKeeps

\* A query in an operation: the record goes on from o.
LEMMA QueryKeeps ==
  ASSUME IInv, NEW r \in Requests, Reads(r), UNCHANGED <<ctx, depth, outcome>>,
         op' \in [Requests -> Operations \cup {None}], copy' \in [Requests -> Copies \cup {None}],
         left' \in [Requests -> Nat], \A q \in Requests : left'[q] <= MaxOps[q],
         \A q \in Requests \ {r} : op'[q] = op[q] /\ copy'[q] = copy[q],
         (Exact(r) /\ Current(r) /\ Fresh(r) /\ Checked(r) /\ There(r) /\ Returned(r) /\ Kept(r))'
  PROVE  IInv'
<1>1. TypeOK /\ Local(r)
  BY DEF IInv
<1>2. /\ table' = table /\ tx' \in [Requests -> Transactions \cup {None}]
      /\ \A q \in Requests \ {r} : Same(q)
      /\ InTx(r)' <=> InTx(r)
      /\ InTx(r) => tx'[r].began /\ tx'[r].view = Seen(r)
  BY <1>1, ReadsEffect
<1>3. TypeOK'
  BY <1>1, <1>2 DEF TypeOK, Same
<1>4. StepOf(r)
  BY <1>2 DEF StepOf, Committed
<1>5. TableOK'
  BY <1>2, <1>4, TableKeeps
<1>6. ViewOK(r)'
  <2>1. SUFFICES ASSUME InTx(r) PROVE ViewOK(r)'
    BY <1>2 DEF ViewOK
  <2>2. CASE tx[r].began
    BY <1>2, <1>4, <2>1, <2>2, ViewKeeps DEF Seen
  <2>3. CASE ~tx[r].began
    <3>1. tx'[r].view = table'
      BY <1>2, <2>1, <2>3 DEF Seen
    <3>2. Written(table, r)'
      BY <1>5 DEF TableOK, OnlyCommittedTransactions, Written, Committed
    <3> QED BY <1>5, <3>1, <3>2 DEF TableOK, ViewOK, Unique, Counted, Written
  <2> QED BY <2>2, <2>3
<1>7. Once(r)'
  BY <1>1, <1>2 DEF Local, Once
<1> QED BY <1>3, <1>4, <1>5, <1>6, <1>7, StepKeeps DEF Local

\* The rows that a query without alternatives selects satisfy its conditions
\* and are of the domain.
LEMMA SelectedRows ==
  ASSUME NEW r \in Requests, NEW cs \in Seq(Seq(Atom) \ {<<>>}),
         \A k \in DOMAIN cs : Len(cs[k]) = 1, Scope(r) \in Domains \cup {NoDomain},
         NEW i \in Selected(r, cs)
  PROVE  /\ i \in Ids /\ Seen(r)[i] # None
         /\ \A k \in DOMAIN cs : Seen(r)[i][cs[k][1].field] = cs[k][1].value
         /\ Scope(r) # NoDomain => Seen(r)[i].domain = Scope(r)
<1> DEFINE Conditions == Seq(Atom) \ {<<>>}
           condition == << [field |-> "domain", value |-> Scope(r)] >>
           domain == InDomain(r)
           all == cs \o domain
<1>1. IF Scope(r) = NoDomain THEN domain = <<>> ELSE domain = <<condition>>
  BY DEF InDomain
<1>8. condition \in Conditions /\ Len(condition) = 1
  <2>1. [field |-> "domain", value |-> Scope(r)] \in Atom
    BY DEF Atom
  <2> QED BY <2>1
<1>7. condition[1].field = "domain" /\ condition[1].value = Scope(r)
  OBVIOUS
<1>9. cs \in Seq(Conditions) /\ DOMAIN cs = 1..Len(cs) /\ \A k \in 1..Len(cs) : Len(cs[k]) = 1
  OBVIOUS
<1>10. Build(r, cs) = {Joined(all, 0)} \cup
         UNION {{{all[k][j]} \cup (IF j = Len(all[k]) THEN Joined(all, k) ELSE {}) : j \in 2..Len(all[k])} :
                k \in DOMAIN all}
  BY DEF Build
<1>11. Len(condition) = 1 /\ \A c \in Conditions : Len(c) \in Nat
  BY <1>8
<1> HIDE DEF domain, condition, Conditions
<1>2. /\ domain \in Seq(Conditions) /\ \A k \in 1..Len(domain) : Len(domain[k]) = 1
      /\ Scope(r) # NoDomain => Len(domain) = 1 /\ domain[1] = condition
  <2>1. CASE Scope(r) = NoDomain
    BY <1>1, <2>1
  <2>2. CASE Scope(r) # NoDomain
    <3>1. <<condition>> \in Seq(Conditions) /\ Len(<<condition>>) = 1 /\ <<condition>>[1] = condition
      BY <1>8
    <3>2. \A k \in 1..1 : k = 1
      OBVIOUS
    <3> QED BY <1>1, <1>8, <2>2, <3>1, <3>2
  <2> QED BY <2>1, <2>2
<1>3. /\ all \in Seq(Conditions) /\ Len(all) = Len(cs) + Len(domain)
      /\ \A k \in 1..Len(cs) : k \in 1..Len(all) /\ all[k] = cs[k]
      /\ \A k \in 1..Len(domain) : Len(cs) + k \in 1..Len(all) /\ all[Len(cs) + k] = domain[k]
  BY <1>2, <1>9
<1>12. \A k \in 1..Len(all) : Len(all[k]) = 1
  <2> SUFFICES ASSUME NEW k \in 1..Len(all) PROVE Len(all[k]) = 1
    OBVIOUS
  <2>1. CASE k \in 1..Len(cs)
    BY <1>3, <1>9, <2>1
  <2>2. CASE k \notin 1..Len(cs)
    <3>1. k - Len(cs) \in 1..Len(domain) /\ k = Len(cs) + (k - Len(cs))
      BY <1>2, <1>3, <1>9, <2>2
    <3> QED BY <1>2, <1>3, <3>1
  <2> QED BY <2>1, <2>2
<1>13. Scope(r) # NoDomain => Len(all) \in 1..Len(all) /\ all[Len(all)] = condition
  <2> SUFFICES ASSUME Scope(r) # NoDomain PROVE Len(all) \in 1..Len(all) /\ all[Len(all)] = condition
    OBVIOUS
  <2>1. Len(domain) = 1 /\ domain[1] = condition /\ 1 \in 1..Len(domain)
    BY <1>2
  <2>2. Len(all) = Len(cs) + 1 /\ Len(cs) + 1 \in 1..Len(all) /\ all[Len(cs) + 1] = condition
    BY <1>3, <2>1
  <2> QED BY <2>2
<1>14. DOMAIN all = 1..Len(all) /\ Len(all) \in Nat
  BY <1>3
<1> HIDE DEF all
<1>4. Build(r, cs) = {Joined(all, 0)}
  <2>1. 2..1 = {}
    OBVIOUS
  <2>2. \A k \in DOMAIN all : 2..Len(all[k]) = {}
    BY <1>12, <1>14, <2>1
  <2> QED BY <1>10, <2>2
<1>5. \A k \in 1..Len(all) : all[k][1] \in Joined(all, 0)
  BY <1>12, <1>14 DEF Joined
<1>6. i \in Ids /\ Seen(r)[i] # None /\ \A k \in 1..Len(all) : Seen(r)[i][all[k][1].field] = all[k][1].value
  BY <1>4, <1>5 DEF Selected
<1>15. ASSUME Scope(r) # NoDomain PROVE Seen(r)[i].domain = Scope(r)
  <2>1. Seen(r)[i][condition[1].field] = condition[1].value
    BY <1>6, <1>13, <1>15
  <2> QED BY <1>7, <2>1
<1>16. \A k \in DOMAIN cs : Seen(r)[i][cs[k][1].field] = cs[k][1].value
  BY <1>3, <1>6, <1>9
<1> QED BY <1>6, <1>15, <1>16

LEMMA ScopeType ==
  ASSUME TypeOK, NEW r \in Requests
  PROVE  Scope(r) \in Domains \cup {NoDomain}
BY ContextAssumption DEF TypeOK, Scope

\* A check that finds no row leaves none that clashes.
LEMMA NothingClashes ==
  ASSUME TypeOK, NEW r \in Requests, NEW name \in Names, ~Exists(r, name),
         NEW i \in Ids, Seen(r)[i] # None, Seen(r)[i].name = name
  PROVE  Seen(r)[i].domain # Scope(r)
<1> SUFFICES ASSUME Seen(r)[i].domain = Scope(r) PROVE FALSE
  OBVIOUS
<1> DEFINE named == [field |-> "name", value |-> name]
           located == [field |-> "domain", value |-> Scope(r)]
           cs == <<<<named>>>> \o InDomain(r)
<1>1. Joined(cs, 0) \in Build(r, <<<<named>>>>)
  BY DEF Build
<1>2. \A atom \in Joined(cs, 0) : atom \in {named, located}
  <2> DEFINE both == {<<named>>, <<located>>}
             domain == InDomain(r)
  <2>1. IF Scope(r) = NoDomain THEN domain = <<>> ELSE domain = <<<<located>>>>
    BY DEF InDomain
  <2>2. <<named>> \in both /\ <<located>> \in both /\ \A c \in both : c[1] \in {named, located}
    OBVIOUS
  <2> HIDE DEF both, domain
  <2>3. domain \in Seq(both) /\ <<<<named>>>> \in Seq(both)
    <3>1. \A c \in both : <<c>> \in Seq(both)
      OBVIOUS
    <3>2. <<<<located>>>> \in Seq(both) /\ <<<<named>>>> \in Seq(both) /\ <<>> \in Seq(both)
      BY <2>2, <3>1
    <3> HIDE DEF named, located
    <3> QED BY <2>1, <3>2
  <2>5. cs = <<<<named>>>> \o domain
    BY DEF domain
  <2>4. \A l \in 1..Len(cs) : cs[l][1] \in {named, located}
    <3> HIDE DEF named, located, cs
    <3>1. cs \in Seq(both)
      BY <2>3, <2>5
    <3> QED BY <2>2, <3>1
  <2> HIDE DEF named, located, cs
  <2> QED BY <2>4 DEF Joined
<1>3. Seen(r)[i][named.field] = named.value /\ Seen(r)[i][located.field] = located.value
  OBVIOUS
<1> HIDE DEF named, located, cs
<1>4. i \in Selected(r, <<<<named>>>>)
  BY <1>1, <1>2, <1>3 DEF Selected
<1> QED BY <1>4 DEF Exists, named

-----------------------------------------------------------------------------
(* The operations' queries.                                                *)

\* A request's operation goes on from o.
LEMMA Goes ==
  ASSUME TypeOK, NEW r \in Requests, NEW o \in Operations \cup {None}, op' = [op EXCEPT ![r] = o]
  PROVE  /\ op' \in [Requests -> Operations \cup {None}] /\ op'[r] = o
         /\ \A q \in Requests \ {r} : op'[q] = op[q]
BY DEF TypeOK

\* A copy remains exact while its reader queries.
LEMMA ExactKeeps ==
  ASSUME TypeOK, NEW r \in Requests, Local(r), Reads(r), UNCHANGED <<copy, outcome>>,
         op'[r] = None \/ copy[r] = None \/ op'[r].kind = "find"
  PROVE  Exact(r)'
<1>1. /\ InTx(r)' <=> InTx(r)
      /\ InTx(r) => tx'[r].began /\ tx'[r].view = Seen(r)
  BY ReadsEffect
<1> QED BY <1>1 DEF Local, Exact, Seen

LEMMA CheckKeeps ==
  ASSUME IInv, NEW r \in Requests, Check(r)
  PROVE  IInv'
<1>1. TypeOK /\ Local(r) /\ op[r] \in Creations
  BY DEF IInv, TypeOK, Check, At, Operations, Creations, Updates, Deletions, Finds
<1>2. /\ op[r].kind = "create" /\ op[r].stage = "check" /\ op[r] # None /\ Reads(r)
      /\ UNCHANGED <<ctx, depth, copy, left, outcome>>
  BY DEF Check, At
<1>3. /\ InTx(r)' <=> InTx(r)
      /\ InTx(r) => tx'[r].began /\ tx'[r].view = Seen(r)
  BY <1>1, <1>2, ReadsEffect
<1>4. Exact(r)'
  <2>1. copy[r] = None
    BY <1>1, <1>2 DEF Local, Exact
  <2> QED BY <1>1, <1>2, <2>1, ExactKeeps
<1>5. /\ copy' \in [Requests -> Copies \cup {None}] /\ left' \in [Requests -> Nat]
      /\ \A q \in Requests : left'[q] <= MaxOps[q] /\ copy'[q] = copy[q]
  BY <1>1, <1>2 DEF TypeOK
<1>6. CASE Exists(r, op[r].row.name)
  <2>1. op' = [op EXCEPT ![r] = None]
    BY <1>6 DEF Check, Ends
  <2>2. /\ op' \in [Requests -> Operations \cup {None}] /\ op'[r] = None
        /\ \A q \in Requests \ {r} : op'[q] = op[q]
    BY <1>1, <2>1, Goes
  <2>3. (Current(r) /\ Fresh(r) /\ Checked(r) /\ There(r) /\ Returned(r) /\ Kept(r))'
    BY <2>2 DEF Current, Fresh, Checked, There, Returned, Kept, At
  <2> QED BY <1>2, <1>4, <1>5, <2>2, <2>3, QueryKeeps
<1>7. CASE ~Exists(r, op[r].row.name)
  <2> DEFINE loose == ~InTx(r) \/ op[r].row.domain # Scope(r)
             row == [op[r].row EXCEPT !.loose = loose]
             o == [[op[r] EXCEPT !.stage = "insert"] EXCEPT !.row = row]
  <2>1. op' = [op EXCEPT ![r].stage = "insert", ![r].row.loose = loose]
    BY <1>7 DEF Check
  <2>2. loose \in BOOLEAN
    OBVIOUS
  <2>3. loose = (~InTx(r) \/ op[r].row.domain # Scope(r))
    OBVIOUS
  <2> HIDE DEF loose
  <2>4. op' = [op EXCEPT ![r] = o]
    BY <1>1, <2>1 DEF TypeOK, Creations, Row
  <2>5. op[r].row \in Row
    BY <1>1 DEF Creations
  <2>6. /\ row \in Row /\ row.loose = loose /\ row.domain = op[r].row.domain /\ row.name = op[r].row.name
        /\ row.n = op[r].row.n /\ row.incs = op[r].row.incs /\ row.writer = op[r].row.writer
    BY <2>2, <2>5 DEF Row
  <2> HIDE DEF row
  <2>7. o \in Creations /\ o.kind = "create" /\ o.stage = "insert" /\ o.row = row
    BY <1>1, <2>6 DEF Creations
  <2> HIDE DEF o
  <2>8. o \in Operations
    BY <2>7 DEF Operations
  <2>9. /\ op' \in [Requests -> Operations \cup {None}] /\ op'[r] = o
        /\ \A q \in Requests \ {r} : op'[q] = op[q]
    BY <1>1, <2>4, <2>8, Goes
  <2>10. Current(r)' /\ There(r)' /\ Returned(r)' /\ Kept(r)'
    BY <2>7, <2>9 DEF Current, There, Returned, Kept, At
  <2>11. Fresh(r)'
    BY <1>1, <1>2, <1>3, <2>6, <2>7, <2>9 DEF Fresh, Local
  <2>12. Checked(r)'
    <3>1. SUFFICES ASSUME ~loose
                   PROVE  /\ InTx(r)' /\ tx'[r].began
                          /\ \A i \in Ids : tx'[r].view[i] # None =>
                               tx'[r].view[i].domain # row.domain \/ tx'[r].view[i].name # row.name
      BY <2>6, <2>7, <2>9 DEF Checked, At
    <3>2. InTx(r) /\ row.domain = Scope(r)
      BY <2>3, <2>6, <3>1
    <3>3. op[r].row.name \in Names
      BY <2>5 DEF Row
    <3>4. \A i \in Ids : Seen(r)[i] # None /\ Seen(r)[i].name = row.name => Seen(r)[i].domain # Scope(r)
      BY <1>1, <1>7, <2>6, <3>3, NothingClashes
    <3> QED BY <1>3, <3>2, <3>4
  <2> QED BY <1>2, <1>4, <1>5, <2>9, <2>10, <2>11, <2>12, QueryKeeps
<1> QED BY <1>6, <1>7

LEMMA ReadBackKeeps ==
  ASSUME IInv, NEW r \in Requests, ReadBack(r)
  PROVE  IInv'
<1>1. TypeOK /\ Local(r) /\ op[r] \in Creations
  BY DEF IInv, TypeOK, ReadBack, At, Operations, Creations, Updates, Deletions, Finds
<1>2. /\ At(r, "create", "read") /\ op[r].kind = "create" /\ op[r] # None /\ Reads(r)
      /\ UNCHANGED <<ctx, depth, copy, left, outcome>>
  BY DEF ReadBack, At
<1>3. /\ InTx(r)' <=> InTx(r)
      /\ InTx(r) => tx'[r].began /\ tx'[r].view = Seen(r)
  BY <1>1, <1>2, ReadsEffect
<1>4. /\ copy' \in [Requests -> Copies \cup {None}] /\ left' \in [Requests -> Nat]
      /\ \A q \in Requests : left'[q] <= MaxOps[q] /\ copy'[q] = copy[q]
  BY <1>1, <1>2 DEF TypeOK
<1> DEFINE got == First(r, op[r].id)
           o == [[op[r] EXCEPT !.stage = "after"] EXCEPT !.got = got]
<1>5. op' = [op EXCEPT ![r].stage = "after", ![r].got = got]
  BY DEF ReadBack
<1>6. op[r].id \in Ids /\ got \in SUBSET Ids
  BY <1>1, <1>2 DEF Local, There, First
<1> HIDE DEF got
<1>7. op' = [op EXCEPT ![r] = o]
  BY <1>1, <1>5 DEF TypeOK, Creations
<1>8. o \in Creations /\ o.kind = "create" /\ o.stage = "after" /\ o.row = op[r].row /\ o.got = got
  BY <1>1, <1>6 DEF Creations
<1> HIDE DEF o
<1>9. o \in Operations
  BY <1>8 DEF Operations
<1>10. /\ op' \in [Requests -> Operations \cup {None}] /\ op'[r] = o
       /\ \A q \in Requests \ {r} : op'[q] = op[q]
  BY <1>1, <1>7, <1>9, Goes
<1>11. Exact(r)'
  <2>1. copy[r] = None
    BY <1>1, <1>2 DEF Local, Exact
  <2> QED BY <1>1, <1>2, <2>1, ExactKeeps
<1>12. Current(r)' /\ Checked(r)' /\ There(r)' /\ Kept(r)'
  BY <1>8, <1>10 DEF Current, Checked, There, Kept, At
<1>13. Fresh(r)'
  BY <1>1, <1>2, <1>3, <1>8, <1>10 DEF Fresh, Local
<1>14. Returned(r)'
  <2>1. SUFFICES ASSUME InTx(r), got = {} PROVE Scope(r) # NoDomain /\ op[r].row.domain # Scope(r)
    BY <1>2, <1>3, <1>8, <1>10 DEF Returned, Scope, Scoped
  <2>2. Seen(r)[op[r].id] = op[r].row
    BY <1>1, <1>2, <2>1 DEF Local, There, Seen
  <2>3. op[r].row # None
    BY <1>1, NoneAssumption DEF Creations
  <2>4. ~Hit(r, op[r].id)
    BY <2>1 DEF First, got
  <2> QED BY <2>2, <2>3, <2>4 DEF Hit
<1> QED BY <1>2, <1>4, <1>10, <1>11, <1>12, <1>13, <1>14, QueryKeeps

LEMMA LoadKeeps ==
  ASSUME IInv, NEW r \in Requests, NEW i \in Ids, Load(r, i)
  PROVE  IInv'
<1>1. TypeOK /\ Local(r)
  BY DEF IInv
<1>2. /\ op[r] = None /\ Reads(r) /\ UNCHANGED <<ctx, depth, op, outcome>>
      /\ left[r] > 0 /\ left' = [left EXCEPT ![r] = @ - 1]
  BY DEF Load, Idle
<1>3. /\ InTx(r)' <=> InTx(r)
      /\ InTx(r) => tx'[r].began /\ tx'[r].view = Seen(r)
  BY <1>1, <1>2, ReadsEffect
<1> DEFINE own == InTx(r)
           row == Seen(r)[i]
           c == IF First(r, i) = {} THEN None ELSE [id |-> i, row |-> row, own |-> own]
<1>4. copy' = [copy EXCEPT ![r] = c]
  BY DEF Load
<1>5. Seen(r)[i] \in Row \cup {None} /\ (First(r, i) # {} => Seen(r)[i] # None)
  BY <1>1, SeenIsATable DEF Tables, First, Hit
<1>6. own \in BOOLEAN /\ (own => InTx(r))
  BY DEF own, InTx
<1> HIDE DEF own, row
<1>7. \/ c = None
      \/ c \in Copies /\ c.id = i /\ c.row = row /\ c.own = own
  <2>1. CASE First(r, i) = {}
    BY <2>1
  <2>2. CASE First(r, i) # {}
    <3>1. row \in Row
      BY <1>5, <2>2 DEF row
    <3>2. c = [id |-> i, row |-> row, own |-> own]
      BY <2>2
    <3> HIDE DEF c
    <3> QED BY <1>6, <3>1, <3>2 DEF Copies
  <2> QED BY <2>1, <2>2
<1> HIDE DEF c
<1>8. /\ copy' \in [Requests -> Copies \cup {None}] /\ copy'[r] = c
      /\ \A q \in Requests \ {r} : copy'[q] = copy[q]
  BY <1>1, <1>4, <1>7 DEF TypeOK
<1>9. left' \in [Requests -> Nat] /\ \A q \in Requests : left'[q] <= MaxOps[q]
  BY <1>1, <1>2, OneLess DEF TypeOK
<1>11. op'[r] = None /\ op' \in [Requests -> Operations \cup {None}] /\ \A q \in Requests : op'[q] = op[q]
  BY <1>1, <1>2 DEF TypeOK
<1>10. Exact(r)'
  <2>1. SUFFICES ASSUME c # None, c.own
                 PROVE  outcome[r] # "none" /\ tx'[r].began /\ tx'[r].view[c.id] = c.row
    BY <1>2, <1>8, <1>11 DEF Exact
  <2>2. InTx(r) /\ outcome[r] = "open"
    BY <1>1, <1>6, <1>7, <2>1 DEF Local, Once
  <2> QED BY <1>3, <1>7, <2>1, <2>2 DEF row
<1>12. (Current(r) /\ Fresh(r) /\ Checked(r) /\ There(r) /\ Returned(r) /\ Kept(r))'
  BY <1>11 DEF Current, Fresh, Checked, There, Returned, Kept, At
<1> QED BY <1>2, <1>8, <1>9, <1>10, <1>11, <1>12, QueryKeeps

LEMMA FindKeeps ==
  ASSUME IInv, NEW r \in Requests, NEW conditions \in Queries, Find(r, conditions)
  PROVE  IInv'
<1>1. TypeOK /\ Local(r)
  BY DEF IInv
<1>2. /\ Reads(r) /\ UNCHANGED <<ctx, depth, copy, outcome>>
      /\ left[r] > 0 /\ left' = [left EXCEPT ![r] = @ - 1]
  BY DEF Find
<1> DEFINE got == {Seen(r)[i].domain : i \in Selected(r, conditions)}
           o == [kind |-> "find", stage |-> "after", row |-> None, id |-> conditions, got |-> got]
<1>3. op' = [op EXCEPT ![r] = o]
  BY DEF Find
<1>4. got \subseteq Domains \cup {NoDomain}
  <2>1. ASSUME NEW i \in Selected(r, conditions)
        PROVE  Seen(r)[i].domain \in Domains \cup {NoDomain}
    BY <1>1, SeenIsATable DEF Selected, Tables, Row
  <2> QED BY <2>1
<1>5. /\ Scope(r) # NoDomain /\ ~(got \subseteq {Scope(r)})
      => \E k \in DOMAIN conditions : Len(conditions[k]) > 1
  <2>1. SUFFICES ASSUME Scope(r) # NoDomain, \A k \in DOMAIN conditions : ~(Len(conditions[k]) > 1)
                 PROVE  got \subseteq {Scope(r)}
    OBVIOUS
  <2>2. conditions \in Seq(Seq(Atom) \ {<<>>})
    BY QueriesAssumption
  <2>3. \A k \in DOMAIN conditions : Len(conditions[k]) = 1
    <3> SUFFICES ASSUME NEW k \in DOMAIN conditions PROVE Len(conditions[k]) = 1
      OBVIOUS
    <3>1. conditions[k] \in Seq(Atom) /\ conditions[k] # <<>>
      BY <2>2
    <3>2. Len(conditions[k]) \in Nat /\ Len(conditions[k]) # 0
      BY <3>1
    <3>3. ~(Len(conditions[k]) > 1)
      BY <2>1
    <3> DEFINE n == Len(conditions[k])
    <3>4. n \in Nat /\ n # 0 /\ ~(n > 1)
      BY <3>2, <3>3
    <3> HIDE DEF n
    <3>5. n = 1
      BY <3>4
    <3> QED BY <3>5 DEF n
  <2>4. ASSUME NEW i \in Selected(r, conditions) PROVE Seen(r)[i].domain = Scope(r)
    BY <1>1, <2>1, <2>2, <2>3, ScopeType, SelectedRows
  <2> QED BY <2>4
<1> HIDE DEF got
<1>6. o \in Operations /\ o # None /\ o.kind = "find" /\ o.id = conditions /\ o.got = got
  <2>1. o \in Finds /\ o.kind = "find" /\ o.id = conditions /\ o.got = got
    BY <1>4 DEF Finds
  <2> HIDE DEF o
  <2>2. o \in Operations
    BY <2>1 DEF Operations
  <2> QED BY <2>1, <2>2, NoneAssumption
<1> HIDE DEF o
<1>7. /\ op' \in [Requests -> Operations \cup {None}] /\ op'[r] = o
      /\ \A q \in Requests \ {r} : op'[q] = op[q]
  BY <1>1, <1>3, <1>6, Goes
<1>8. Exact(r)'
  BY <1>1, <1>2, <1>6, <1>7, ExactKeeps
<1>9. (Current(r) /\ Fresh(r) /\ Checked(r) /\ There(r) /\ Returned(r))'
  BY <1>6, <1>7 DEF Current, Fresh, Checked, There, Returned, At
<1>10. Kept(r)'
  BY <1>2, <1>5, <1>6, <1>7 DEF Kept, At, Scope, Scoped
<1>11. left' \in [Requests -> Nat] /\ \A q \in Requests : left'[q] <= MaxOps[q]
  BY <1>1, <1>2, OneLess DEF TypeOK
<1>12. copy' \in [Requests -> Copies \cup {None}] /\ \A q \in Requests : copy'[q] = copy[q]
  BY <1>1, <1>2 DEF TypeOK
<1> QED BY <1>2, <1>7, <1>8, <1>9, <1>10, <1>11, <1>12, QueryKeeps

-----------------------------------------------------------------------------
(* The operations' writes.                                                 *)

\* A statement of r's that leaves the rows as in new.
LEMMA WriteKeeps ==
  ASSUME IInv, NEW r \in Requests, NEW new \in Tables, Writes(r, new), UNCHANGED <<ctx, depth, outcome>>,
         op' \in [Requests -> Operations \cup {None}], copy' \in [Requests -> Copies \cup {None}],
         left' \in [Requests -> Nat], \A q \in Requests : left'[q] <= MaxOps[q],
         \A q \in Requests \ {r} : op'[q] = op[q] /\ copy'[q] = copy[q],
         Unique(new), Counted(new), Written(new, IF InTx(r) THEN r ELSE None),
         (Exact(r) /\ Current(r) /\ Fresh(r) /\ Checked(r) /\ There(r) /\ Returned(r) /\ Kept(r))'
  PROVE  IInv'
<1>1. TypeOK /\ Local(r)
  BY DEF IInv
<1>2. /\ table' \in Tables /\ tx' \in [Requests -> Transactions \cup {None}]
      /\ \A q \in Requests \ {r} : Same(q)
      /\ InTx(r)' <=> InTx(r)
      /\ InTx(r) => tx'[r].began /\ tx'[r].view = new /\ table' = table
      /\ ~InTx(r) => table' = new
  BY <1>1, WritesEffect
<1>3. TypeOK'
  BY <1>1, <1>2 DEF TypeOK, Same, Tables
<1>4. StepOf(r)
  BY <1>2 DEF StepOf, Committed
<1>5. TableOK'
  <2>1. CASE InTx(r)
    BY <1>2, <1>4, <2>1, TableKeeps
  <2>2. CASE ~InTx(r)
    <3>1. table' = new
      BY <1>2, <2>2
    <3>2. OnlyCommittedTransactions'
      BY <2>2, <3>1 DEF OnlyCommittedTransactions, Written, Committed
    <3> QED BY <3>1, <3>2 DEF TableOK, Unique, Counted
  <2> QED BY <2>1, <2>2
<1>6. ViewOK(r)'
  <2>1. SUFFICES ASSUME InTx(r) PROVE ViewOK(r)'
    BY <1>2 DEF ViewOK
  <2>2. tx'[r].view = new
    BY <1>2, <2>1
  <2> QED BY <2>1, <2>2 DEF ViewOK, Unique, Counted, Written, Committed
<1>7. Once(r)'
  BY <1>1, <1>2 DEF Local, Once
<1> QED BY <1>3, <1>4, <1>5, <1>6, <1>7, StepKeeps DEF Local

\* What a request sees is as the table, whether it is in a transaction or not.
LEMMA SeenOK ==
  ASSUME IInv, NEW r \in Requests
  PROVE  /\ Seen(r) \in Tables /\ Unique(Seen(r)) /\ Counted(Seen(r))
         /\ Written(Seen(r), IF InTx(r) THEN r ELSE None)
<1>1. TypeOK /\ Local(r) /\ TableOK
  BY DEF IInv
<1>2. Seen(r) \in Tables
  BY <1>1, SeenIsATable
<1>3. CASE InTx(r) /\ tx[r].began
  BY <1>1, <1>2, <1>3 DEF Seen, Local, ViewOK
<1>4. CASE ~(InTx(r) /\ tx[r].began)
  <2>1. Seen(r) = table
    BY <1>4 DEF Seen
  <2>2. Written(table, IF InTx(r) THEN r ELSE None)
    BY <1>1 DEF TableOK, OnlyCommittedTransactions, Written, Committed
  <2> QED BY <1>1, <1>2, <2>1, <2>2 DEF TableOK
<1> QED BY <1>3, <1>4

\* Whoever writes in a transaction sees what it has written.
LEMMA SeenInTx ==
  ASSUME NEW r \in Requests, InTx(r), tx[r].began
  PROVE  Seen(r) = tx[r].view
BY DEF Seen

LEMMA InsertKeeps ==
  ASSUME IInv, NEW r \in Requests, Insert(r)
  PROVE  IInv'
<1>1. TypeOK /\ Local(r) /\ op[r] \in Creations
  BY DEF IInv, TypeOK, Insert, At, Operations, Creations, Updates, Deletions, Finds
<1>2. /\ At(r, "create", "insert") /\ op[r].kind = "create" /\ op[r] # None
      /\ UNCHANGED <<ctx, depth, copy, left, outcome>>
  BY DEF Insert, At
<1>3. PICK i \in Ids : /\ Seen(r)[i] = None
                       /\ Writes(r, [Seen(r) EXCEPT ![i] = op[r].row])
                       /\ op' = [op EXCEPT ![r].stage = "read", ![r].id = i]
  BY DEF Insert
<1> DEFINE row == op[r].row
           new == [Seen(r) EXCEPT ![i] = row]
           o == [[op[r] EXCEPT !.stage = "read"] EXCEPT !.id = i]
<1>4. row \in Row /\ row # None
  BY <1>1, NoneAssumption DEF Creations
<1>5. /\ Seen(r) \in Tables /\ Unique(Seen(r)) /\ Counted(Seen(r))
      /\ Written(Seen(r), IF InTx(r) THEN r ELSE None)
  BY SeenOK
<1>6. row.n = row.incs /\ row.writer = IF InTx(r) THEN r ELSE None
  BY <1>1, <1>2 DEF Local, Fresh
<1>7. \/ row.loose
      \/ \A j \in Ids : Seen(r)[j] # None => Seen(r)[j].domain # row.domain \/ Seen(r)[j].name # row.name
  BY <1>1, <1>2, SeenInTx DEF Local, Checked
<1>8. op' = [op EXCEPT ![r] = o]
  BY <1>1, <1>3 DEF TypeOK, Creations
<1>9. o \in Creations /\ o.kind = "create" /\ o.stage = "read" /\ o.row = row /\ o.id = i
  BY <1>1 DEF Creations
<1> HIDE DEF o, row
<1>10. new \in Tables /\ new[i] = row
  BY <1>4, <1>5 DEF Tables
<1>11. Unique(new) /\ Counted(new) /\ Written(new, IF InTx(r) THEN r ELSE None)
  BY <1>4, <1>5, <1>6, <1>7, UniqueAfter, CountedAfter, WrittenAfter
<1>12. Writes(r, new)
  BY <1>3 DEF row
<1> HIDE DEF new
<1>13. o \in Operations
  BY <1>9 DEF Operations
<1>14. /\ op' \in [Requests -> Operations \cup {None}] /\ op'[r] = o
       /\ \A q \in Requests \ {r} : op'[q] = op[q]
  BY <1>1, <1>8, <1>13, Goes
<1>15. /\ InTx(r)' <=> InTx(r)
       /\ InTx(r) => tx'[r].began /\ tx'[r].view = new
  BY <1>1, <1>10, <1>12, WritesEffect
<1>16. /\ copy' \in [Requests -> Copies \cup {None}] /\ left' \in [Requests -> Nat]
       /\ \A q \in Requests : left'[q] <= MaxOps[q] /\ copy'[q] = copy[q]
  BY <1>1, <1>2 DEF TypeOK
<1>17. Exact(r)'
  BY <1>1, <1>2, <1>16 DEF Exact, Local
<1>18. Current(r)' /\ Checked(r)' /\ Returned(r)' /\ Kept(r)'
  BY <1>9, <1>14 DEF Current, Checked, Returned, Kept, At
<1>19. Fresh(r)'
  BY <1>6, <1>9, <1>14, <1>15 DEF Fresh
<1>20. There(r)'
  BY <1>9, <1>10, <1>14, <1>15 DEF There
<1> QED BY <1>2, <1>10, <1>11, <1>12, <1>14, <1>16, <1>17, <1>18, <1>19, <1>20, WriteKeeps

\* The rows after a statement that puts a row, or None, where it hits.
LEMMA ChangeOK ==
  ASSUME IInv, NEW r \in Requests, NEW i \in Ids, NEW row \in Row \cup {None},
         Hit(r, i) => \/ row = None
                      \/ /\ row.writer = IF InTx(r) THEN r ELSE None
                         /\ row.n # row.incs => row.stale
                         /\ \/ row.loose
                            \/ /\ row.domain = Seen(r)[i].domain /\ row.name = Seen(r)[i].name
                               /\ row.loose = Seen(r)[i].loose
  PROVE  LET new == IF Hit(r, i) THEN [Seen(r) EXCEPT ![i] = row] ELSE Seen(r)
         IN /\ new \in Tables /\ Unique(new) /\ Counted(new)
            /\ Written(new, IF InTx(r) THEN r ELSE None)
<1> DEFINE new == [Seen(r) EXCEPT ![i] = row]
<1>1. /\ Seen(r) \in Tables /\ Unique(Seen(r)) /\ Counted(Seen(r))
      /\ Written(Seen(r), IF InTx(r) THEN r ELSE None)
  BY SeenOK
<1>2. CASE ~Hit(r, i)
  BY <1>1, <1>2
<1>3. CASE Hit(r, i)
  <2>1. new \in Tables
    BY <1>1 DEF Tables
  <2>2. Seen(r)[i] # None
    BY <1>3 DEF Hit
  <2>3. Unique(new)
    BY <1>1, <1>3, <2>2, UniqueAfter
  <2>4. Counted(new)
    <3>1. CASE row = None \/ row.n = row.incs \/ row.stale
      BY <1>1, <3>1, CountedAfter
    <3> QED BY <1>3, <3>1
  <2>5. Written(new, IF InTx(r) THEN r ELSE None)
    BY <1>1, <1>3, WrittenAfter
  <2> QED BY <1>3, <2>1, <2>3, <2>4, <2>5
<1> QED BY <1>2, <1>3

LEMMA GoesToAfter ==
  ASSUME TypeOK, NEW r \in Requests, GoesTo(r, "after"), op[r] \in Updates \cup Deletions
  PROVE  /\ op' \in [Requests -> Operations \cup {None}] /\ \A q \in Requests \ {r} : op'[q] = op[q]
         /\ op'[r].kind \in {"update", "delete"} /\ op'[r].stage = "after"
<1> DEFINE o == [op[r] EXCEPT !.stage = "after"]
<1>1. op' = [op EXCEPT ![r] = o]
  BY DEF TypeOK, GoesTo
<1>2. o \in Updates \cup Deletions /\ o.kind \in {"update", "delete"} /\ o.stage = "after"
  BY DEF Updates, Deletions
<1> HIDE DEF o
<1>3. o \in Operations
  BY <1>2 DEF Operations
<1> QED BY <1>1, <1>2, <1>3, Goes

\* The statement of an Update or a Delete.
LEMMA ChangeKeeps ==
  ASSUME IInv, NEW r \in Requests, NEW new \in Tables, Writes(r, new),
         Unique(new), Counted(new), Written(new, IF InTx(r) THEN r ELSE None),
         op[r] \in Updates \cup Deletions, op[r] # None,
         GoesTo(r, "after"), UNCHANGED <<ctx, depth, copy, left, outcome>>
  PROVE  IInv'
<1>1. TypeOK /\ Local(r)
  BY DEF IInv
<1>2. /\ op' \in [Requests -> Operations \cup {None}] /\ \A q \in Requests \ {r} : op'[q] = op[q]
      /\ op'[r].kind \in {"update", "delete"} /\ op'[r].stage = "after"
  BY <1>1, GoesToAfter
<1>3. copy[r] = None
  BY <1>1 DEF Local, Exact, Updates, Deletions
<1>4. /\ copy' \in [Requests -> Copies \cup {None}] /\ left' \in [Requests -> Nat]
      /\ \A q \in Requests : left'[q] <= MaxOps[q] /\ copy'[q] = copy[q]
  BY <1>1 DEF TypeOK
<1>5. Exact(r)'
  BY <1>3, <1>4 DEF Exact
<1>6. (Current(r) /\ Fresh(r) /\ Checked(r) /\ There(r) /\ Returned(r) /\ Kept(r))'
  BY <1>2 DEF Current, Fresh, Checked, There, Returned, Kept, At
<1> QED BY <1>2, <1>4, <1>5, <1>6, WriteKeeps

LEMMA UpdateKeeps ==
  ASSUME IInv, NEW r \in Requests, Update(r)
  PROVE  IInv'
<1> DEFINE i == op[r].id
           old == Seen(r)[i]
           stale == old.stale \/ ~op[r].own
           row == [op[r].row EXCEPT !.incs = old.incs, !.stale = stale,
                                    !.loose = TRUE, !.writer = IF InTx(r) THEN r ELSE None]
           new == IF Hit(r, i) THEN [Seen(r) EXCEPT ![i] = row] ELSE Seen(r)
<1>1. TypeOK /\ Local(r) /\ At(r, "update", "write")
  BY DEF IInv, Update, Change
<1>2. op[r] \in Updates /\ op[r] # None
  BY <1>1 DEF TypeOK, At, Operations, Creations, Updates, Deletions, Finds
<1>3. /\ Writes(r, new) /\ GoesTo(r, "after") /\ UNCHANGED <<ctx, depth, copy, left, outcome>>
  BY DEF Update, Change
<1>4. i \in Ids /\ op[r].row \in Row /\ op[r].own \in BOOLEAN
  BY <1>2 DEF Updates
<1>5. CASE ~Hit(r, i)
  <2>1. new = Seen(r)
    BY <1>5
  <2> HIDE DEF new
  <2> QED BY <1>2, <1>3, <2>1, SeenOK, ChangeKeeps
<1>6. CASE Hit(r, i)
  <2>1. old \in Row /\ Counted(Seen(r)) /\ Seen(r)[i] # None
    BY <1>4, <1>6, SeenOK DEF Tables, Hit
  <2>2. op[r].own /\ ~old.stale => op[r].row.n = old.incs
    <3> SUFFICES ASSUME op[r].own, ~old.stale PROVE op[r].row.n = old.incs
      OBVIOUS
    <3>1. Seen(r) = tx[r].view /\ tx[r].view[i].n = op[r].row.n
      BY <1>1, SeenInTx DEF Local, Current
    <3> QED BY <1>4, <2>1, <3>1 DEF Counted
  <2>3. stale \in BOOLEAN /\ (~stale => op[r].own /\ ~old.stale)
    BY <1>4, <2>1 DEF Row
  <2> HIDE DEF stale
  <2>4. /\ row \in Row /\ row.loose /\ row.writer = IF InTx(r) THEN r ELSE None
        /\ row.n = op[r].row.n /\ row.incs = old.incs /\ row.stale = stale
    BY <1>4, <2>1, <2>3 DEF Row
  <2> HIDE DEF row
  <2>5. row.n # row.incs => row.stale
    BY <2>2, <2>3, <2>4
  <2>6. /\ new \in Tables /\ Unique(new) /\ Counted(new)
        /\ Written(new, IF InTx(r) THEN r ELSE None)
    BY <1>4, <2>4, <2>5, ChangeOK
  <2> HIDE DEF new
  <2> QED BY <1>2, <1>3, <2>6, ChangeKeeps
<1> QED BY <1>5, <1>6

LEMMA DeleteKeeps ==
  ASSUME IInv, NEW r \in Requests, Delete(r)
  PROVE  IInv'
<1> DEFINE i == op[r].id
           new == IF Hit(r, i) THEN [Seen(r) EXCEPT ![i] = None] ELSE Seen(r)
<1>1. TypeOK /\ At(r, "delete", "write")
  BY DEF IInv, Delete, Change
<1>2. op[r] \in Deletions /\ op[r] # None
  BY <1>1 DEF TypeOK, At, Operations, Creations, Updates, Deletions, Finds
<1>3. /\ Writes(r, new) /\ GoesTo(r, "after") /\ UNCHANGED <<ctx, depth, copy, left, outcome>>
  BY DEF Delete, Change
<1>4. i \in Ids
  BY <1>2 DEF Deletions
<1>5. /\ new \in Tables /\ Unique(new) /\ Counted(new)
      /\ Written(new, IF InTx(r) THEN r ELSE None)
  BY <1>4, ChangeOK
<1> HIDE DEF new
<1> QED BY <1>2, <1>3, <1>5, ChangeKeeps

LEMMA AtomicUpdateKeeps ==
  ASSUME IInv, NEW r \in Requests, NEW i \in Ids, AtomicUpdate(r, i)
  PROVE  IInv'
<1> DEFINE old == Seen(r)[i]
           writer == IF InTx(r) THEN r ELSE None
           row == [old EXCEPT !.n = @ + 1, !.incs = @ + 1, !.writer = writer]
           new == IF Hit(r, i) THEN [Seen(r) EXCEPT ![i] = row] ELSE Seen(r)
           c == IF copy[r] = None THEN None ELSE [copy[r] EXCEPT !.own = FALSE]
<1>1. TypeOK /\ Local(r) /\ op[r] = None
  BY DEF IInv, AtomicUpdate, Idle
<1>2. /\ UNCHANGED <<ctx, depth, op, outcome>> /\ copy' = [copy EXCEPT ![r] = c]
      /\ left[r] > 0 /\ left' = [left EXCEPT ![r] = @ - 1]
  BY <1>1 DEF AtomicUpdate, TypeOK
<1>3. Seen(r) \in Tables
  BY SeenOK
<1>4. Writes(r, new)
  <2>1. Writes(r, IF Hit(r, i)
                  THEN [Seen(r) EXCEPT ![i].n = @ + 1, ![i].incs = @ + 1,
                                       ![i].writer = IF InTx(r) THEN r ELSE None]
                  ELSE Seen(r))
    BY DEF AtomicUpdate
  <2>2. [Seen(r) EXCEPT ![i].n = @ + 1, ![i].incs = @ + 1,
                        ![i].writer = IF InTx(r) THEN r ELSE None] = [Seen(r) EXCEPT ![i] = row]
    BY <1>3 DEF Tables
  <2> QED BY <2>1, <2>2
<1>5. /\ new \in Tables /\ Unique(new) /\ Counted(new)
      /\ Written(new, IF InTx(r) THEN r ELSE None)
  <2>1. CASE ~Hit(r, i)
    BY <2>1, SeenOK
  <2>2. CASE Hit(r, i)
    <3>1. old \in Row /\ Counted(Seen(r)) /\ Seen(r)[i] # None
      BY <1>3, <2>2, SeenOK DEF Tables, Hit
    <3>2. /\ row \in Row /\ row.writer = writer /\ row.n = old.n + 1
          /\ row.incs = old.incs + 1 /\ row.stale = old.stale /\ row.loose = old.loose
          /\ row.domain = old.domain /\ row.name = old.name
      <4>1. writer \in Requests \cup {None}
        OBVIOUS
      <4> HIDE DEF writer, old
      <4>2. old.n + 1 \in Nat /\ old.incs + 1 \in Nat
        BY <3>1 DEF Row
      <4> QED BY <3>1, <4>1, <4>2 DEF Row
    <3>3. row.n # row.incs => row.stale
      BY <3>1, <3>2 DEF Counted, Row
    <3> HIDE DEF row
    <3> QED BY <3>2, <3>3, ChangeOK
  <2> QED BY <2>1, <2>2
<1> HIDE DEF new
<1>6. copy[r] # None => c \in Copies /\ ~c.own
  BY <1>1 DEF TypeOK, Copies
<1>7. c \in Copies \cup {None} /\ (c # None => ~c.own)
  BY <1>6
<1> HIDE DEF c
<1>8. /\ copy' \in [Requests -> Copies \cup {None}] /\ copy'[r] = c
      /\ \A q \in Requests \ {r} : copy'[q] = copy[q]
  BY <1>1, <1>2, <1>7 DEF TypeOK
<1>9. left' \in [Requests -> Nat] /\ \A q \in Requests : left'[q] <= MaxOps[q]
  BY <1>1, <1>2, OneLess DEF TypeOK
<1>10. op' \in [Requests -> Operations \cup {None}] /\ op'[r] = None /\ \A q \in Requests : op'[q] = op[q]
  BY <1>1, <1>2 DEF TypeOK
<1>11. Exact(r)'
  BY <1>7, <1>8, <1>10 DEF Exact
<1>12. (Current(r) /\ Fresh(r) /\ Checked(r) /\ There(r) /\ Returned(r) /\ Kept(r))'
  BY <1>10 DEF Current, Fresh, Checked, There, Returned, Kept, At
<1> QED BY <1>2, <1>4, <1>5, <1>8, <1>9, <1>10, <1>11, <1>12, WriteKeeps

-----------------------------------------------------------------------------

LEMMA NextKeeps == IInv /\ [Next]_vars => IInv'
<1> SUFFICES ASSUME IInv, [Next]_vars PROVE IInv'
  OBVIOUS
<1>1. CASE UNCHANGED vars
  <2>1. TypeOK'
    BY <1>1 DEF IInv, TypeOK, vars, InTx
  <2>2. TableOK'
    BY <1>1 DEF IInv, TableOK, Unique, Counted, OnlyCommittedTransactions, vars
  <2>3. ASSUME NEW q \in Requests PROVE Local(q)'
    BY <1>1, <2>3, OthersKeep DEF IInv, vars, Same, InTx, Committed
  <2> QED BY <2>1, <2>2, <2>3 DEF IInv
<1>2. ASSUME NEW r \in Requests, Transaction(r) PROVE IInv'
  BY <1>2, BeginKeeps, NestKeeps, ReturnNestedKeeps, CommitKeeps, RollbackKeeps, PanicKeeps, CancelKeeps
     DEF Transaction
<1>3. ASSUME NEW r \in Requests, Operation(r) PROVE IInv'
  <2>1. CASE \E name \in Names : UpdateStart(r, name)
    BY <2>1, UpdateStartKeeps
  <2>2. CASE \E name \in Names, domain \in {NoDomain} \cup (Domains \ {Scope(r)}) :
               CreateStart(r, name, domain)
    BY <2>2, CreateStartKeeps
  <2>3. CASE \E i \in Ids : Load(r, i) \/ AtomicUpdate(r, i)
    BY <2>3, LoadKeeps, AtomicUpdateKeeps
  <2>4. CASE \E conditions \in Queries : Find(r, conditions)
    BY <2>4, FindKeeps
  <2>5. CASE DeleteStart(r) \/ Check(r) \/ Insert(r) \/ ReadBack(r) \/ Update(r) \/ Delete(r)
    BY <2>5, DeleteStartKeeps, CheckKeeps, InsertKeeps, ReadBackKeeps, UpdateKeeps, DeleteKeeps
  <2>6. CASE After(r) \/ StatementFails(r)
    BY <2>6, EndsKeeps DEF After, StatementFails
  <2> QED BY <1>3, <2>1, <2>2, <2>3, <2>4, <2>5, <2>6 DEF Operation
<1> QED BY <1>1, <1>2, <1>3 DEF Next

LEMMA Invariance == Spec => []IInv
<1> QED BY InitHolds, NextKeeps, PTL DEF Spec

LEMMA InvariantImplies ==
  IInv => /\ TypeOK /\ OnlyCommittedTransactions /\ DuplicatesAreLoose
          /\ IncrementsAreLostToStaleCopies /\ CreatedRowIsReturned /\ OnlyAnOrLeavesTheDomain
BY DEF IInv, TableOK, Unique, Counted, Local, Returned, Kept, DuplicatesAreLoose,
       IncrementsAreLostToStaleCopies, CreatedRowIsReturned, OnlyAnOrLeavesTheDomain

\* The variables have their types, and a request's context carries a
\* transaction exactly while it is inside of WithTransaction.
THEOREM Typed == Spec => []TypeOK
<1> QED BY Invariance, InvariantImplies, PTL

\* Whatever transactions fail, panic, are cancelled or nested, what one of
\* them wrote is in the table only after its outermost callback has returned
\* nil and the commit has succeeded (transaction.go:37 to 74).
THEOREM CommitsAreAtomic == Spec => []OnlyCommittedTransactions
<1> QED BY Invariance, InvariantImplies, PTL

\* In transactions and in the scope of the domain, the query before the INSERT
\* is enough for unique_per_domain (repository.go:179, 225).
THEOREM UniquePerDomain == Spec => []DuplicatesAreLoose
<1> QED BY Invariance, InvariantImplies, PTL

\* No AtomicUpdate is lost but to an Update of an outdated copy
\* (repository.go:55, 278).
THEOREM IncrementsCount == Spec => []IncrementsAreLostToStaleCopies
<1> QED BY Invariance, InvariantImplies, PTL

\* In a transaction and in the scope of its domain, Create answers with its row
\* (repository.go:234).
THEOREM CreateAnswers == Spec => []CreatedRowIsReturned
<1> QED BY Invariance, InvariantImplies, PTL

\* A query whose conditions have no OR stays in the domain, for any number of
\* conditions (query.go:140, 147).
THEOREM QueriesStayInTheDomain == Spec => []OnlyAnOrLeavesTheDomain
<1> QED BY Invariance, InvariantImplies, PTL
=============================================================================
