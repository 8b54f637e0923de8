----------------------- MODULE TenantDatabasesProofs -----------------------
(***************************************************************************)
(* A tenant's handler runs on the tenant's own migrated database, and      *)
(* connections are lost and migrations refused only where a creation is at *)
(* the same database, for any tenants, requests, creations and migrations. *)
(***************************************************************************)
EXTENDS TenantDatabases, TLAPS

Locked == {"recheck", "find", "open", "migrate"}
ToTenant == {"get", "lock", "dispatch"} \cup Locked

\* A process that has left for a tenant's database has a tenant's host.
Hosted == \A p \in Processes : at[p] \in ToTenant \/ p \in Creations => host[p] \in Hosts

\* A connection that is kept is one of the tenant's, to a migrated database.
Kept == \A t \in Tenants : tenantDBs[t] # None => Of(tenantDBs[t]) = t /\ version[t] = Latest

\* Whoever migrates has opened its own connection, and the version it has read
\* is never ahead of the database.
Opened == \A p \in Processes : at[p] = "migrate" => db[p] = p /\ seen[p] <= version[Of(p)]

\* The connection is the one the handler will run on.
Handed == \A r \in Requests : at[r] = "dispatch" =>
            db[r] \in Processes /\ Of(db[r]) = Of(r) /\ version[Of(r)] = Latest

\* Nothing is kept for the tenant whose connection is made under the lock:
\* the map has been looked at again, and CreateTenant waits for the lock.
Alone == \A r \in Requests : at[r] \in {"find", "open", "migrate"} => tenantDBs[Of(r)] = None

Creating(p) == \E c \in Creations : Of(c) = Of(p) /\ db[c] = c

\* Only a creation applies a migration that a request is about to apply.
Behind == \A r \in Requests : at[r] = "migrate" /\ version[Of(r)] > seen[r] => Creating(r)

Properties == ServedFromOwnDatabase /\ LostConnectionsAreExplained /\ ClashOnlyWithCreation

IInv == TypeOK /\ Hosted /\ Kept /\ Opened /\ Handed /\ Alone /\ Behind /\ Properties

\* What the lemmas take from the assumptions on the constants.
LEMMA Constants ==
    /\ Latest \in Nat /\ MaxFaults \in Nat
    /\ Requests \cap Creations = {} /\ Requests \subseteq Processes /\ Creations \subseteq Processes
    /\ None \notin Processes /\ Central \notin Processes /\ None # Central /\ None \notin Rows
    /\ Base \notin Hosts /\ \A h \in Hosts : h.tenant \in Tenants
BY CommandsAssumption, BoundsAssumption, CallsAssumption, NamesAssumption DEF Processes, Hosts

-----------------------------------------------------------------------------

LEMMA InitHolds == Init => IInv
<1> SUFFICES ASSUME Init PROVE IInv
  OBVIOUS
<1>1. host \in [Processes -> Hosts \cup {Base}] /\ \A c \in Creations : host[c] \in Hosts
  BY CallsAssumption, Constants DEF Init
<1>2. TypeOK
  BY <1>1, Constants DEF Init, TypeOK, Places, Processes
<1>3. Hosted /\ Kept /\ Opened /\ Handed /\ Alone /\ Behind
  BY <1>1, Constants DEF Init, Hosted, Kept, Opened, Handed, Alone, Behind, ToTenant, Locked
<1>4. Properties
  BY Constants DEF Init, Properties, ServedFromOwnDatabase, LostConnectionsAreExplained, ClashOnlyWithCreation
<1> QED BY <1>2, <1>3, <1>4 DEF IInv

\* A step of one process that touches neither a database nor the map: it
\* suffices to look at where the process is after it and with what.
LEMMA StepOfAProcess ==
    ASSUME IInv, NEW p \in Processes, NEW place \in Places, NEW d \in Processes \cup {Central, None},
           NEW s \in 0..Latest,
           at' = [at EXCEPT ![p] = place], db' = [db EXCEPT ![p] = d], seen' = [seen EXCEPT ![p] = s],
           lock' = IF p \in Requests /\ place \in Locked THEN p ELSE IF lock = p THEN None ELSE lock,
           p \in Requests /\ place \in Locked => lock \in {None, p},
           tenant' \in [Tenants -> Rows \cup {None}], faults' \in 0..MaxFaults,
           UNCHANGED <<version, tenantDBs, host>>,
           place \in ToTenant => host[p] \in Hosts,
           place = "migrate" => d = p /\ s = version[Of(p)],
           p \in Creations => d \in {p, db[p]},
           p \in Requests =>
             /\ place = "dispatch" => d \in Processes /\ Of(d) = Of(p) /\ version[Of(p)] = Latest
             /\ place \in {"find", "open", "migrate"} => tenantDBs[Of(p)] = None
             /\ place = "serve" => IF d = Central THEN host[p] # Base => host[p].custom
                                   ELSE Of(d) = Of(p) /\ version[Of(p)] = Latest
             /\ d = p /\ place # "migrate" /\ tenantDBs[Of(p)] # p =>
                  place \in {"clash", "error"} \/ tenantDBs[Of(p)] \in Creations
             /\ place = "clash" => Creating(p)
    PROVE  IInv'
<1>0. TypeOK /\ Hosted /\ Kept /\ Opened /\ Handed /\ Alone /\ Behind /\ Properties
  BY DEF IInv
<1>1. at'[p] = place /\ db'[p] = d /\ seen'[p] = s
  BY <1>0 DEF TypeOK
<1>2. \A q \in Processes : q # p => at'[q] = at[q] /\ db'[q] = db[q] /\ seen'[q] = seen[q]
  BY <1>0 DEF TypeOK
<1>3. \A q : Of(q)' = Of(q)
  BY DEF Of
<1>4. \A q \in Processes : Creating(q) => Creating(q)'
  <2>1. \A c \in Creations : db[c] = c => db'[c] = c
    BY <1>1, <1>2, Constants
  <2> QED BY <1>3, <2>1 DEF Creating
<1>5. TypeOK'
  <2>1. lock' \in Requests \cup {None}
    BY <1>0 DEF TypeOK
  <2>2. \A r \in Requests : lock' = r <=> at'[r] \in Locked
    BY <1>0, <1>1, <1>2, Constants DEF TypeOK, Locked
  <2>3. at' \in [Processes -> Places] /\ db' \in [Processes -> Processes \cup {Central, None}]
        /\ seen' \in [Processes -> 0..Latest]
    BY <1>0 DEF TypeOK
  <2> QED BY <1>0, <2>1, <2>2, <2>3 DEF TypeOK, Locked
<1>6. Hosted'
  BY <1>0, <1>1, <1>2 DEF Hosted
<1>7. Kept'
  BY <1>0, <1>3 DEF Kept
<1>8. Opened'
  <2>1. place = "migrate" => d = p /\ s <= version[Of(p)]
    <3>1. place = "migrate" => s = version[Of(p)]
      OBVIOUS
    <3> QED BY <3>1, Constants
  <2> QED BY <1>0, <1>1, <1>2, <1>3, <2>1 DEF Opened
<1>9. Handed' /\ Alone'
  BY <1>0, <1>1, <1>2, <1>3, Constants DEF Handed, Alone
<1>10. Behind'
  <2>1. ASSUME NEW r \in Requests, at'[r] = "migrate", version'[Of(r)'] > seen'[r] PROVE Creating(r)'
    <3>1. CASE r = p
      <4>1. s = version[Of(p)] /\ s \in Nat
        BY <1>1, <2>1, <3>1
      <4> QED BY <1>1, <1>3, <2>1, <3>1, <4>1
    <3>2. CASE r # p
      BY <1>0, <1>2, <1>3, <1>4, <2>1, <3>2, Constants DEF Behind
    <3> QED BY <3>1, <3>2
  <2> QED BY <2>1 DEF Behind
<1>11. ServedFromOwnDatabase' /\ LostConnectionsAreExplained'
  BY <1>0, <1>1, <1>2, <1>3, Constants DEF Properties, ServedFromOwnDatabase, LostConnectionsAreExplained
<1>12. ClashOnlyWithCreation'
  <2>1. \A r \in Requests : at'[r] = "clash" => Creating(r)'
    BY <1>0, <1>1, <1>2, <1>4, Constants DEF Properties, ClashOnlyWithCreation, Creating
  <2> QED BY <2>1 DEF ClashOnlyWithCreation, Creating
<1> QED BY <1>5, <1>6, <1>7, <1>8, <1>9, <1>10, <1>11, <1>12 DEF IInv, Properties

\* A step in which the process gets no connection and reads no version.
LEMMA StepWithoutOpening ==
    ASSUME IInv, NEW p \in Processes, NEW place \in Places, place \notin {"dispatch", "migrate"},
           at' = [at EXCEPT ![p] = place], UNCHANGED <<db, seen, version, tenantDBs, host>>,
           lock' = IF p \in Requests /\ place \in Locked THEN p ELSE IF lock = p THEN None ELSE lock,
           p \in Requests /\ place \in Locked => lock \in {None, p},
           tenant' \in [Tenants -> Rows \cup {None}], faults' \in 0..MaxFaults,
           place \in ToTenant => host[p] \in Hosts,
           p \in Requests =>
             /\ place \in {"find", "open"} => tenantDBs[Of(p)] = None
             /\ place = "serve" => db[p] \in Processes /\ Of(db[p]) = Of(p) /\ version[Of(p)] = Latest
             /\ at[p] = "migrate" => place \in {"clash", "error"}
             /\ at[p] \notin {"clash", "error"}
             /\ place = "clash" => Creating(p)
    PROVE  IInv'
<1>1. TypeOK /\ LostConnectionsAreExplained
  BY DEF IInv, Properties
<1> DEFINE d == db[p]
           s == seen[p]
<1>2. d \in Processes \cup {Central, None} /\ s \in 0..Latest
  BY <1>1 DEF TypeOK
<1>3. db' = [db EXCEPT ![p] = d] /\ seen' = [seen EXCEPT ![p] = s]
  BY <1>1 DEF TypeOK
<1>4. p \in Requests /\ d = p /\ tenantDBs[Of(p)] # p =>
        place \in {"clash", "error"} \/ tenantDBs[Of(p)] \in Creations
  BY <1>1 DEF LostConnectionsAreExplained
<1>5. d = db[p]
  OBVIOUS
<1> HIDE DEF d, s
<1>6. place = "serve" /\ p \in Requests => d \in Processes /\ Of(d) = Of(p) /\ version[Of(p)] = Latest
  BY <1>5
<1> QED BY <1>2, <1>3, <1>4, <1>5, <1>6, StepOfAProcess, Constants

LEMMA SplitHolds == ASSUME IInv, NEW r \in Requests, Split(r) PROVE IInv'
<1>0. TypeOK /\ Hosted /\ Kept /\ Opened /\ Handed /\ Alone /\ Behind /\ Properties
  BY DEF IInv
<1>1. r \in Processes /\ db[r] \in Processes \cup {Central, None} /\ seen[r] \in 0..Latest
  BY <1>0, Constants DEF TypeOK
<1>2. db = [db EXCEPT ![r] = db[r]] /\ seen = [seen EXCEPT ![r] = seen[r]]
  BY <1>0 DEF TypeOK
<1>3. faults' \in 0..MaxFaults
  BY <1>0, Constants DEF Split, Fault, TypeOK
<1>4. lock # r /\ lock' = lock
  BY <1>0 DEF Split, TypeOK
<1>5. CASE NoTenant(r)
  <2>1. CASE host[r] # Base /\ ~host[r].custom
    <3>1. at' = [at EXCEPT ![r] = "notfound"] /\ db' = db
      BY <1>5, <2>1 DEF NoTenant, Goes
    <3>2. "notfound" \in Places /\ "notfound" \notin ToTenant
      BY DEF Places, ToTenant, Locked
    <3> QED BY <1>0, <1>1, <1>3, <1>4, <3>1, <3>2, StepWithoutOpening DEF Split, TypeOK, Locked
  <2>2. CASE ~(host[r] # Base /\ ~host[r].custom)
    <3>1. at' = [at EXCEPT ![r] = "serve"] /\ db' = [db EXCEPT ![r] = Central]
      BY <1>5, <2>2 DEF NoTenant, Goes
    <3>2. "serve" \in Places /\ "serve" \notin ToTenant /\ "serve" \notin Locked
      BY DEF Places, ToTenant, Locked
    <3> QED BY <1>0, <1>1, <1>2, <1>3, <1>4, <2>2, <3>1, <3>2, StepOfAProcess, Constants DEF Split, TypeOK
  <2> QED BY <2>1, <2>2
<1>6. CASE Found(r) /\ db' = db /\ \E place \in {"get", "pending"} : Goes(r, place)
  <2>1. PICK place \in {"get", "pending"} : at' = [at EXCEPT ![r] = place]
    BY <1>6 DEF Goes
  <2>2. place \in Places /\ place \notin Locked
    BY DEF Places, Locked
  <2>3. host[r] \in Hosts
    BY <1>0, <1>1, <1>6 DEF Found, TypeOK
  <2> QED BY <1>0, <1>1, <1>3, <1>4, <1>6, <2>1, <2>2, <2>3, StepWithoutOpening DEF Split, TypeOK
<1> QED BY <1>5, <1>6 DEF Split

LEMMA GetHolds == ASSUME IInv, NEW r \in Requests, Get(r) PROVE IInv'
<1>0. TypeOK /\ Hosted /\ Kept /\ Opened /\ Handed /\ Alone /\ Behind /\ Properties
  BY DEF IInv
<1>1. r \in Processes /\ db[r] \in Processes \cup {Central, None} /\ seen[r] \in 0..Latest
  BY <1>0, Constants DEF TypeOK
<1>2. db = [db EXCEPT ![r] = db[r]] /\ seen = [seen EXCEPT ![r] = seen[r]]
  BY <1>0 DEF TypeOK
<1>3. host[r] \in Hosts /\ Of(r) \in Tenants
  BY <1>0, <1>1, Constants DEF Get, Hosted, ToTenant, Of
<1>4. lock = None /\ tenantDBs[Of(r)] \in Processes \cup {None}
  BY <1>0, <1>3 DEF Get, TypeOK
<1>5. PICK place \in {"dispatch", "lock"} :
        /\ at' = [at EXCEPT ![r] = place]
        /\ place = "dispatch" <=> tenantDBs[Of(r)] # None
  BY DEF Get, Goes
<1>6. place \in Places /\ place \notin Locked
  BY DEF Places, Locked
<1>7. place = "dispatch" => tenantDBs[Of(r)] \in Processes /\ Of(tenantDBs[Of(r)]) = Of(r) /\ version[Of(r)] = Latest
  BY <1>0, <1>3, <1>4, <1>5 DEF Kept
<1>8. tenant' \in [Tenants -> Rows \cup {None}] /\ faults' \in 0..MaxFaults /\ lock # r /\ lock' = lock
  BY <1>0, <1>4, Constants DEF Get, TypeOK
<1>9. /\ db' = [db EXCEPT ![r] = tenantDBs[Of(r)]] /\ seen' = [seen EXCEPT ![r] = seen[r]]
      /\ UNCHANGED <<version, tenantDBs, host>>
  BY <1>2 DEF Get
<1>10. r \notin Creations
  BY Constants
<1>11. place \in ToTenant => host[r] \in Hosts
  BY <1>3
<1>12. tenantDBs[Of(r)] = r => place = "dispatch"
  BY <1>1, <1>5, Constants
<1> QED BY <1>1, <1>4, <1>5, <1>6, <1>7, <1>8, <1>9, <1>10, <1>11, <1>12, StepOfAProcess

LEMMA LockHolds == ASSUME IInv, NEW r \in Requests, Lock(r) PROVE IInv'
<1>0. TypeOK /\ Hosted /\ Kept /\ Opened /\ Handed /\ Alone /\ Behind /\ Properties
  BY DEF IInv
<1>1. r \in Processes /\ db[r] \in Processes \cup {Central, None} /\ seen[r] \in 0..Latest
  BY <1>0, Constants DEF TypeOK
<1>3. host[r] \in Hosts
  BY <1>0, <1>1 DEF Lock, Hosted, ToTenant
<1>4. at' = [at EXCEPT ![r] = "recheck"] /\ lock = None /\ lock' = r
  BY DEF Lock, Goes
<1>5. "recheck" \in Places /\ "recheck" \in Locked
  BY DEF Places, Locked
<1> QED BY <1>0, <1>1, <1>3, <1>4, <1>5, StepWithoutOpening DEF Lock, TypeOK

LEMMA RecheckHolds == ASSUME IInv, NEW r \in Requests, Recheck(r) PROVE IInv'
<1>0. TypeOK /\ Hosted /\ Kept /\ Opened /\ Handed /\ Alone /\ Behind /\ Properties
  BY DEF IInv
<1>1. r \in Processes /\ db[r] \in Processes \cup {Central, None} /\ seen[r] \in 0..Latest
  BY <1>0, Constants DEF TypeOK
<1>2. db = [db EXCEPT ![r] = db[r]] /\ seen = [seen EXCEPT ![r] = seen[r]]
  BY <1>0 DEF TypeOK
<1>3. host[r] \in Hosts /\ Of(r) \in Tenants
  BY <1>0, <1>1, Constants DEF Recheck, Hosted, ToTenant, Locked, Of
<1>4. lock = r /\ tenantDBs[Of(r)] \in Processes \cup {None}
  BY <1>0, <1>3 DEF Recheck, TypeOK
<1>5. "find" \in Places /\ "find" \in Locked /\ "dispatch" \in Places /\ "dispatch" \notin Locked
  BY DEF Places, Locked
<1>6. CASE tenantDBs[Of(r)] # None
  <2>1. at' = [at EXCEPT ![r] = "dispatch"] /\ lock' = None /\ db' = [db EXCEPT ![r] = tenantDBs[Of(r)]]
    BY <1>4, <1>6 DEF Recheck, Leaves, Goes, Unlock
  <2>2. tenantDBs[Of(r)] \in Processes /\ Of(tenantDBs[Of(r)]) = Of(r) /\ version[Of(r)] = Latest
    BY <1>0, <1>3, <1>4, <1>6 DEF Kept
  <2> QED BY <1>0, <1>1, <1>2, <1>3, <1>4, <1>5, <2>1, <2>2, StepOfAProcess, Constants DEF Recheck, TypeOK
<1>7. CASE tenantDBs[Of(r)] = None
  <2>1. at' = [at EXCEPT ![r] = "find"] /\ lock' = lock /\ db' = db
    BY <1>7 DEF Recheck, Goes
  <2> QED BY <1>0, <1>1, <1>3, <1>4, <1>5, <1>7, <2>1, StepWithoutOpening DEF Recheck, TypeOK
<1> QED BY <1>6, <1>7

LEMMA FindTenantHolds == ASSUME IInv, NEW r \in Requests, FindTenant(r) PROVE IInv'
<1>0. TypeOK /\ Hosted /\ Kept /\ Opened /\ Handed /\ Alone /\ Behind /\ Properties
  BY DEF IInv
<1>1. r \in Processes /\ db[r] \in Processes \cup {Central, None} /\ seen[r] \in 0..Latest
  BY <1>0, Constants DEF TypeOK
<1>3. host[r] \in Hosts /\ lock = r /\ tenantDBs[Of(r)] = None
  BY <1>0, <1>1 DEF FindTenant, Hosted, Alone, ToTenant, Locked, TypeOK
<1>4. faults' \in 0..MaxFaults
  BY <1>0, Constants DEF FindTenant, Fault, TypeOK
<1>5. PICK place \in {"open", "panic", "error"} :
        at' = [at EXCEPT ![r] = place] /\ lock' = IF place = "open" THEN r ELSE None
  BY <1>3 DEF FindTenant, Leaves, Goes, Unlock
<1>6. place \in Places /\ (place \in Locked <=> place = "open") /\ place # "migrate"
  BY DEF Places, Locked
<1> QED BY <1>0, <1>1, <1>3, <1>4, <1>5, <1>6, StepWithoutOpening DEF FindTenant, TypeOK

LEMMA OpenHolds == ASSUME IInv, NEW p \in Processes, Open(p) PROVE IInv'
<1>0. TypeOK /\ Hosted /\ Kept /\ Opened /\ Handed /\ Alone /\ Behind /\ Properties
  BY DEF IInv
<1>1. p \in Processes /\ db[p] \in Processes \cup {Central, None} /\ seen[p] \in 0..Latest
  BY <1>0, Constants DEF TypeOK
<1>3. host[p] \in Hosts /\ Of(p) \in Tenants /\ version[Of(p)] \in 0..Latest
  BY <1>0, Constants DEF Open, Hosted, ToTenant, Locked, Of, TypeOK
<1>4. faults' \in 0..MaxFaults
  BY <1>0, Constants DEF Open, Fault, TypeOK
<1>5. p \in Requests => lock = p /\ tenantDBs[Of(p)] = None
  BY <1>0 DEF Open, TypeOK, Alone
<1>6. p \notin Requests => lock # p
  BY <1>0, Constants DEF TypeOK
<1>7. "migrate" \in Places /\ "migrate" \in Locked /\ "error" \in Places /\ "error" \notin ToTenant /\ "error" \notin Locked
  BY DEF Places, ToTenant, Locked
<1>8. CASE at' = [at EXCEPT ![p] = "migrate"] /\ db' = [db EXCEPT ![p] = p]
           /\ seen' = [seen EXCEPT ![p] = version[Of(p)]] /\ lock' = lock
  BY <1>0, <1>1, <1>3, <1>4, <1>5, <1>6, <1>7, <1>8, StepOfAProcess, Constants DEF Open, TypeOK
<1>9. CASE at' = [at EXCEPT ![p] = "error"] /\ Unlock(p) /\ UNCHANGED <<db, seen>>
  <2>1. lock' = IF lock = p THEN None ELSE lock
    BY <1>9 DEF Unlock
  <2> QED BY <1>0, <1>1, <1>4, <1>7, <1>9, <2>1, StepWithoutOpening DEF Open, TypeOK
<1> QED BY <1>8, <1>9 DEF Open, Goes, Leaves

LEMMA ApplyFailsHolds == ASSUME IInv, NEW p \in Processes, ApplyFails(p) PROVE IInv'
<1>0. TypeOK /\ Hosted /\ Kept /\ Opened /\ Handed /\ Alone /\ Behind /\ Properties
  BY DEF IInv
<1>3. faults' \in 0..MaxFaults
  BY <1>0, Constants DEF ApplyFails, Clashes, Fault, TypeOK
<1>4. PICK place \in {"clash", "error"} :
        at' = [at EXCEPT ![p] = place] /\ Unlock(p) /\ (place = "clash" => Clashes(p))
  BY DEF ApplyFails, Leaves, Goes
<1>5. place \in Places /\ place \notin ToTenant /\ place \notin Locked /\ place # "migrate"
  BY DEF Places, ToTenant, Locked
<1>6. p \in Requests /\ place = "clash" => Creating(p)
  BY <1>0, <1>4 DEF Behind, Clashes, ApplyFails
<1>7. lock' = IF lock = p THEN None ELSE lock
  BY <1>4 DEF Unlock
<1> QED BY <1>0, <1>3, <1>4, <1>5, <1>6, <1>7, StepWithoutOpening DEF ApplyFails, TypeOK, ToTenant

LEMMA DispatchHolds == ASSUME IInv, NEW r \in Requests, Dispatch(r) PROVE IInv'
<1>0. TypeOK /\ Hosted /\ Kept /\ Opened /\ Handed /\ Alone /\ Behind /\ Properties
  BY DEF IInv
<1>1. r \in Processes /\ db[r] \in Processes \cup {Central, None} /\ seen[r] \in 0..Latest
  BY <1>0, Constants DEF TypeOK
<1>2. db = [db EXCEPT ![r] = db[r]] /\ seen = [seen EXCEPT ![r] = seen[r]]
  BY <1>0 DEF TypeOK
<1>3. at' = [at EXCEPT ![r] = "serve"] /\ db' = db /\ lock' = lock
  BY <1>2 DEF Dispatch, Goes, Inherited
<1>4. "serve" \in Places /\ "serve" \notin ToTenant /\ "serve" \notin Locked
  BY DEF Places, ToTenant, Locked
<1>5. lock # r
  BY <1>0 DEF Dispatch, TypeOK
<1>6. db[r] \in Processes /\ Of(db[r]) = Of(r) /\ version[Of(r)] = Latest
  BY <1>0 DEF Dispatch, Handed
<1> QED BY <1>0, <1>1, <1>3, <1>4, <1>5, <1>6, StepWithoutOpening DEF Dispatch, TypeOK

LEMMA AnswerHolds == ASSUME IInv, NEW r \in Requests, Answer(r) PROVE IInv'
<1>0. TypeOK /\ Hosted /\ Kept /\ Opened /\ Handed /\ Alone /\ Behind /\ Properties
  BY DEF IInv
<1>1. r \in Processes /\ db[r] \in Processes \cup {Central, None} /\ seen[r] \in 0..Latest
  BY <1>0, Constants DEF TypeOK
<1>3. at' = [at EXCEPT ![r] = "answered"]
  BY DEF Answer, Goes
<1>4. "answered" \in Places /\ "answered" \notin ToTenant /\ "answered" \notin Locked
  BY DEF Places, ToTenant, Locked
<1>5. lock # r
  BY <1>0 DEF Answer, TypeOK
<1> QED BY <1>0, <1>1, <1>3, <1>4, <1>5, StepWithoutOpening DEF Answer, TypeOK

LEMMA InsertHolds == ASSUME IInv, NEW c \in Creations, Insert(c) PROVE IInv'
<1>0. TypeOK /\ Hosted /\ Kept /\ Opened /\ Handed /\ Alone /\ Behind /\ Properties
  BY DEF IInv
<1>1. c \in Processes /\ db[c] \in Processes \cup {Central, None} /\ seen[c] \in 0..Latest
  BY <1>0, Constants DEF TypeOK
<1>3. PICK place \in {"open", "error"} : at' = [at EXCEPT ![c] = place]
  BY DEF Insert, Goes
<1>4. place \in Places /\ place # "migrate"
  BY DEF Places
<1>5. host[c] \in Hosts /\ lock # c /\ c \notin Requests
  BY <1>0, <1>1, Constants DEF Hosted, TypeOK
<1>6. tenant' \in [Tenants -> Rows \cup {None}]
  <2>1. \A active \in BOOLEAN : [active |-> active, custom |-> FALSE] \in Rows
    BY DEF Rows
  <2>2. CASE tenant[Of(c)] = None
    <3>1. PICK row \in Rows : tenant' = [tenant EXCEPT ![Of(c)] = row]
      BY <2>1, <2>2 DEF Insert
    <3> QED BY <1>0, <3>1 DEF TypeOK
  <2>3. CASE tenant[Of(c)] # None
    BY <1>0, <2>3 DEF Insert, TypeOK
  <2> QED BY <2>2, <2>3
<1> QED BY <1>0, <1>1, <1>3, <1>4, <1>5, <1>6, StepWithoutOpening DEF Insert, TypeOK

LEMMA KilledHolds == ASSUME IInv, NEW c \in Creations, Killed(c) PROVE IInv'
<1>0. TypeOK /\ Hosted /\ Kept /\ Opened /\ Handed /\ Alone /\ Behind /\ Properties
  BY DEF IInv
<1>1. c \in Processes /\ db[c] \in Processes \cup {Central, None} /\ seen[c] \in 0..Latest
  BY <1>0, Constants DEF TypeOK
<1>3. at' = [at EXCEPT ![c] = "killed"] /\ faults' \in 0..MaxFaults
  BY <1>0, Constants DEF Killed, Goes, Fault, TypeOK
<1>4. "killed" \in Places /\ "killed" \notin ToTenant
  BY DEF Places, ToTenant, Locked
<1>5. lock # c /\ c \notin Requests
  BY <1>0, Constants DEF TypeOK
<1> QED BY <1>0, <1>1, <1>3, <1>4, <1>5, StepWithoutOpening DEF Killed, TypeOK

-----------------------------------------------------------------------------
(* The steps that change a database or the map, and those of the rows.     *)

LEMMA ApplyHolds == ASSUME IInv, NEW p \in Processes, Apply(p) PROVE IInv'
<1> DEFINE t == Of(p)
<1>0. TypeOK /\ Hosted /\ Kept /\ Opened /\ Handed /\ Alone /\ Behind /\ Properties
  BY DEF IInv
<1>1. /\ at[p] = "migrate" /\ seen[p] < Latest /\ version[t] = seen[p]
      /\ version' = [version EXCEPT ![t] = @ + 1] /\ seen' = [seen EXCEPT ![p] = @ + 1]
      /\ UNCHANGED <<tenant, tenantDBs, lock, at, host, db, faults>>
  BY DEF Apply
<1>2. t \in Tenants /\ host[p] \in Hosts
  BY <1>0, <1>1, Constants DEF Hosted, ToTenant, Locked, Of
<1>3. \A q : Of(q)' = Of(q)
  BY <1>1 DEF Of
<1>4. version'[t] = version[t] + 1 /\ \A u \in Tenants : u # t => version'[u] = version[u]
  BY <1>0, <1>1, <1>2 DEF TypeOK
<1>5. seen'[p] = seen[p] + 1 /\ \A q \in Processes : q # p => seen'[q] = seen[q]
  BY <1>0, <1>1 DEF TypeOK
<1>6. version[t] \in 0..Latest /\ version[t] # Latest /\ seen[p] \in 0..Latest
  BY <1>0, <1>1, <1>2, Constants DEF TypeOK
<1> HIDE DEF t
<1>7. TypeOK'
  <2>1. version' \in [Tenants -> 0..Latest] /\ seen' \in [Processes -> 0..Latest]
    BY <1>0, <1>1, <1>4, <1>5, <1>6, Constants DEF TypeOK
  <2> QED BY <1>0, <1>1, <2>1 DEF TypeOK
<1>8. Hosted' /\ Alone'
  BY <1>0, <1>1, <1>3 DEF Hosted, Alone
<1>9. tenantDBs[t] = None
  BY <1>0, <1>2, <1>6 DEF Kept
<1>10. Kept'
  BY <1>0, <1>1, <1>3, <1>4, <1>9 DEF Kept
<1>11. \A q \in Processes : at[q] \in ToTenant => Of(q) \in Tenants /\ version[Of(q)] \in 0..Latest
  BY <1>0, Constants DEF Hosted, Of, TypeOK
<1>12. Opened'
  <2>1. ASSUME NEW q \in Processes, at[q] = "migrate" PROVE db'[q] = q /\ seen'[q] <= version'[Of(q)]
    <3>1. db[q] = q /\ seen[q] <= version[Of(q)] /\ seen[q] \in 0..Latest
      BY <1>0, <2>1 DEF Opened, TypeOK
    <3>2. Of(q) \in Tenants /\ version[Of(q)] \in 0..Latest
      BY <1>11, <2>1 DEF ToTenant, Locked
    <3>3. CASE q = p
      BY <1>1, <1>4, <1>5, <1>6, <3>1, <3>3 DEF t
    <3>4. CASE q # p
      <4>1. seen'[q] = seen[q] /\ (version'[Of(q)] = version[Of(q)] \/ version'[Of(q)] = version[Of(q)] + 1)
        BY <1>4, <1>5, <3>2, <3>4
      <4> QED BY <1>1, <3>1, <3>2, <4>1
    <3> QED BY <3>3, <3>4
  <2> QED BY <1>1, <1>3, <2>1 DEF Opened
<1>13. Handed'
  <2>1. \A r \in Requests : at[r] = "dispatch" => Of(r) # t
    BY <1>0, <1>6 DEF Handed
  <2>2. \A r \in Requests : at[r] = "dispatch" => Of(r) \in Tenants
    BY <1>11, Constants DEF ToTenant
  <2> QED BY <1>0, <1>1, <1>3, <1>4, <2>1, <2>2 DEF Handed
<1>14. Behind'
  <2>1. ASSUME NEW r \in Requests, at[r] = "migrate", version'[Of(r)] > seen'[r] PROVE Creating(r)
    <3>1. r \in Processes /\ Of(r) \in Tenants /\ version[Of(r)] \in 0..Latest /\ seen[r] \in 0..Latest
      BY <1>0, <1>11, <2>1, Constants DEF ToTenant, Locked, TypeOK
    <3>2. CASE r = p
      BY <1>1, <1>4, <1>5, <1>6, <2>1, <3>2 DEF t
    <3>3. CASE r # p /\ p \in Requests
      BY <1>0, <1>1, <2>1, <3>3 DEF TypeOK
    <3>4. CASE r # p /\ p \in Creations
      <4>1. seen'[r] = seen[r] /\ db[p] = p
        BY <1>0, <1>1, <1>5, <3>1, <3>4 DEF Opened
      <4>2. CASE Of(r) = t
        BY <3>4, <4>1, <4>2 DEF Creating, t
      <4>3. CASE Of(r) # t
        BY <1>0, <1>4, <2>1, <3>1, <4>1, <4>3 DEF Behind
      <4> QED BY <4>2, <4>3
    <3> QED BY <3>2, <3>3, <3>4 DEF Processes
  <2>2. \A r \in Requests : Creating(r)' <=> Creating(r)
    BY <1>1, <1>3 DEF Creating
  <2> QED BY <1>1, <1>3, <2>1, <2>2 DEF Behind
<1>15. ServedFromOwnDatabase'
  <2>1. ASSUME NEW r \in Requests, at[r] = "serve", db[r] # Central
        PROVE  Of(db[r]) = Of(r) /\ version'[Of(r)] = Latest
    <3>1. Of(db[r]) = Of(r) /\ version[Of(r)] = Latest
      BY <1>0, <2>1 DEF Properties, ServedFromOwnDatabase
    <3>2. Of(r) # t
      BY <1>6, <3>1
    <3> QED BY <1>1, <3>1, <3>2, <1>0 DEF t, TypeOK
  <2> QED BY <1>0, <1>1, <1>3, <2>1 DEF Properties, ServedFromOwnDatabase
<1>16. LostConnectionsAreExplained' /\ ClashOnlyWithCreation'
  BY <1>0, <1>1, <1>3 DEF Properties, LostConnectionsAreExplained, ClashOnlyWithCreation
<1> QED BY <1>7, <1>8, <1>10, <1>12, <1>13, <1>14, <1>15, <1>16 DEF IInv, Properties

\* Whoever applies what another has applied catches up with the database.
LEMMA ReapplyHolds == ASSUME IInv, NEW p \in Processes, Reapply(p) PROVE IInv'
<1>0. TypeOK /\ Hosted /\ Kept /\ Opened /\ Handed /\ Alone /\ Behind /\ Properties
  BY DEF IInv
<1>1. /\ at[p] = "migrate" /\ seen[p] < Latest /\ version[Of(p)] > seen[p]
      /\ seen' = [seen EXCEPT ![p] = @ + 1]
      /\ UNCHANGED <<tenant, version, tenantDBs, lock, at, host, db, faults>>
  BY DEF Reapply
<1>2. Of(p) \in Tenants
  BY <1>0, <1>1, Constants DEF Hosted, ToTenant, Locked, Of
<1>3. \A q : Of(q)' = Of(q)
  BY <1>1 DEF Of
<1>4. version[Of(p)] \in 0..Latest /\ seen[p] \in 0..Latest /\ Latest \in Nat
  BY <1>0, <1>2, Constants DEF TypeOK
<1>5. seen'[p] = seen[p] + 1 /\ \A q \in Processes : q # p => seen'[q] = seen[q]
  BY <1>0, <1>1 DEF TypeOK
<1>6. seen' \in [Processes -> 0..Latest] /\ seen'[p] <= version[Of(p)] /\ seen[p] <= seen'[p]
  BY <1>0, <1>1, <1>4, <1>5 DEF TypeOK
<1>7. TypeOK'
  BY <1>0, <1>1, <1>6 DEF TypeOK
<1>8. Hosted' /\ Alone' /\ Kept' /\ Handed'
  BY <1>0, <1>1, <1>3 DEF Hosted, Alone, Kept, Handed
<1>9. Opened'
  <2>1. \A q \in Processes : at[q] = "migrate" => db[q] = q /\ seen'[q] <= version[Of(q)]
    BY <1>0, <1>5, <1>6 DEF Opened
  <2> QED BY <1>1, <1>3, <2>1 DEF Opened
<1>10. Behind'
  <2>1. ASSUME NEW r \in Requests, at[r] = "migrate", version[Of(r)] > seen'[r] PROVE Creating(r)
    <3>1. r \in Processes
      BY Constants
    <3>2. CASE r = p
      BY <1>0, <1>1, <2>1, <3>2 DEF Behind
    <3>3. CASE r # p
      BY <1>0, <1>5, <2>1, <3>1, <3>3 DEF Behind
    <3> QED BY <3>2, <3>3
  <2>2. \A r \in Requests : Creating(r)' <=> Creating(r)
    BY <1>1, <1>3 DEF Creating
  <2> QED BY <1>1, <1>3, <2>1, <2>2 DEF Behind
<1>11. Properties'
  BY <1>0, <1>1, <1>3 DEF Properties, ServedFromOwnDatabase, LostConnectionsAreExplained, ClashOnlyWithCreation
<1> QED BY <1>7, <1>8, <1>9, <1>10, <1>11 DEF IInv

\* The map gets the connection of a process that has migrated.
LEMMA KeepingHolds ==
    ASSUME IInv, NEW p \in Processes, at[p] = "migrate", seen[p] = Latest,
           tenantDBs' = [tenantDBs EXCEPT ![Of(p)] = p], UNCHANGED <<version, host, tenant, seen, db, faults>>
    PROVE  /\ tenantDBs' \in [Tenants -> Processes \cup {None}]
           /\ Kept' /\ version[Of(p)] = Latest /\ Of(p) \in Tenants /\ db[p] = p
           /\ \A t \in Tenants : tenantDBs'[t] = IF t = Of(p) THEN p ELSE tenantDBs[t]
<1>0. TypeOK /\ Hosted /\ Kept /\ Opened
  BY DEF IInv
<1>1. Of(p) \in Tenants
  BY <1>0, Constants DEF Hosted, ToTenant, Locked, Of
<1>2. version[Of(p)] = Latest /\ db[p] = p
  <2>1. version[Of(p)] \in 0..Latest /\ Latest <= version[Of(p)]
    BY <1>0, <1>1 DEF TypeOK, Opened
  <2>2. db[p] = p
    BY <1>0 DEF Opened
  <2> QED BY <2>1, <2>2, Constants
<1>3. \A t \in Tenants : tenantDBs'[t] = IF t = Of(p) THEN p ELSE tenantDBs[t]
  BY <1>0, <1>1 DEF TypeOK
<1>4. tenantDBs' \in [Tenants -> Processes \cup {None}]
  BY <1>0 DEF TypeOK
<1>5. \A q : Of(q)' = Of(q)
  BY DEF Of
<1>6. Kept'
  BY <1>0, <1>2, <1>3, <1>5 DEF Kept
<1> QED BY <1>1, <1>2, <1>3, <1>4, <1>6

LEMMA KeepHolds == ASSUME IInv, NEW r \in Requests, Keep(r) PROVE IInv'
<1>0. TypeOK /\ Hosted /\ Kept /\ Opened /\ Handed /\ Alone /\ Behind /\ Properties
  BY DEF IInv
<1>1. r \in Processes /\ at[r] = "migrate" /\ seen[r] = Latest /\ db[r] = r
  BY <1>0, Constants DEF Keep, Opened
<1>2. /\ tenantDBs' = [tenantDBs EXCEPT ![Of(r)] = r] /\ at' = [at EXCEPT ![r] = "dispatch"]
      /\ lock' = IF lock = r THEN None ELSE lock
      /\ UNCHANGED <<tenant, version, host, seen, db, faults>>
  BY <1>1 DEF Keep, Leaves, Goes, Unlock
<1>3. /\ tenantDBs' \in [Tenants -> Processes \cup {None}]
      /\ Kept' /\ version[Of(r)] = Latest /\ Of(r) \in Tenants
      /\ \A t \in Tenants : tenantDBs'[t] = IF t = Of(r) THEN r ELSE tenantDBs[t]
  BY <1>1, <1>2, KeepingHolds
<1>4. lock = r /\ lock' = None /\ tenantDBs[Of(r)] = None
  BY <1>0, <1>1, <1>2 DEF TypeOK, Alone
<1>5. \A q : Of(q)' = Of(q)
  BY <1>2 DEF Of
<1>6. at'[r] = "dispatch" /\ \A q \in Processes : q # r => at'[q] = at[q]
  BY <1>0, <1>1, <1>2 DEF TypeOK
<1>7. TypeOK'
  <2>1. \A q \in Requests : lock' = q <=> at'[q] \in {"recheck", "find", "open", "migrate"}
    BY <1>0, <1>4, <1>6, Constants DEF TypeOK
  <2>2. at' \in [Processes -> Places]
    BY <1>0, <1>2 DEF TypeOK, Places
  <2> QED BY <1>0, <1>2, <1>3, <1>4, <2>1, <2>2 DEF TypeOK
<1>8. Hosted' /\ Opened' /\ Handed'
  BY <1>0, <1>1, <1>2, <1>3, <1>5, <1>6, Constants DEF Hosted, Opened, Handed, ToTenant, Locked
<1>9. Alone' /\ Behind'
  <2>1. \A q \in Requests : at'[q] \notin {"find", "open", "migrate"}
    BY <1>7, <1>4, Constants DEF TypeOK
  <2> QED BY <2>1 DEF Alone, Behind
<1>10. ServedFromOwnDatabase' /\ ClashOnlyWithCreation'
  BY <1>0, <1>2, <1>5, <1>6, Constants DEF Properties, ServedFromOwnDatabase, ClashOnlyWithCreation
<1>11. LostConnectionsAreExplained'
  <2>1. ASSUME NEW q \in Requests, db[q] = q, at'[q] # "migrate", tenantDBs'[Of(q)] # q
        PROVE  at'[q] \in {"clash", "error"} \/ tenantDBs'[Of(q)] \in Creations
    <3>1. q # r
      BY <1>2, <1>3, <2>1
    <3>2. at'[q] = at[q]
      BY <1>6, <3>1, Constants
    <3>3. CASE Of(q) = Of(r)
      BY <1>0, <1>4, <2>1, <3>2, <3>3, Constants DEF Properties, LostConnectionsAreExplained
    <3>4. CASE Of(q) # Of(r)
      <4>1. tenantDBs'[Of(q)] = tenantDBs[Of(q)]
        BY <1>0, <1>2, <3>4 DEF TypeOK
      <4> QED BY <1>0, <2>1, <3>2, <4>1 DEF Properties, LostConnectionsAreExplained
    <3> QED BY <3>3, <3>4
  <2> QED BY <1>2, <1>5, <2>1 DEF LostConnectionsAreExplained
<1> QED BY <1>3, <1>7, <1>8, <1>9, <1>10, <1>11 DEF IInv, Properties

LEMMA PutHolds == ASSUME IInv, NEW c \in Creations, Put(c) PROVE IInv'
<1>0. TypeOK /\ Hosted /\ Kept /\ Opened /\ Handed /\ Alone /\ Behind /\ Properties
  BY DEF IInv
<1>1. c \in Processes /\ c \notin Requests /\ at[c] = "migrate" /\ seen[c] = Latest /\ db[c] = c /\ lock = None
  BY <1>0, Constants DEF Put, Opened
<1>2. /\ at' = [at EXCEPT ![c] = "answered"]
      /\ UNCHANGED <<tenant, version, lock, host, seen, db, faults>>
  BY DEF Put, Goes
<1>3. \/ tenantDBs' = tenantDBs
      \/ tenantDBs' = [tenantDBs EXCEPT ![Of(c)] = c]
  BY <1>1 DEF Put
<1>4. \A q : Of(q)' = Of(q)
  BY <1>2 DEF Of
<1>5. at'[c] = "answered" /\ \A q \in Processes : q # c => at'[q] = at[q]
  BY <1>0, <1>1, <1>2 DEF TypeOK
<1>6. tenantDBs' \in [Tenants -> Processes \cup {None}] /\ Kept'
  <2>1. CASE tenantDBs' = tenantDBs
    BY <1>0, <1>2, <1>4, <2>1 DEF TypeOK, Kept
  <2>2. CASE tenantDBs' = [tenantDBs EXCEPT ![Of(c)] = c]
    BY <1>1, <1>2, <2>2, KeepingHolds
  <2> QED BY <1>3, <2>1, <2>2
<1>7. \A q \in Requests : at'[q] = at[q]
  BY <1>1, <1>5, Constants
<1>8. TypeOK'
  <2>1. at' \in [Processes -> Places]
    BY <1>0, <1>2 DEF TypeOK, Places
  <2> QED BY <1>0, <1>2, <1>6, <1>7, <2>1 DEF TypeOK
<1>9. Hosted' /\ Opened' /\ Handed'
  BY <1>0, <1>1, <1>2, <1>4, <1>5, <1>7 DEF Hosted, Opened, Handed
<1>10. Alone' /\ Behind'
  <2>1. \A q \in Requests : at'[q] \notin {"find", "open", "migrate"}
    BY <1>0, <1>1, <1>7, Constants DEF TypeOK
  <2> QED BY <2>1 DEF Alone, Behind
<1>11. ServedFromOwnDatabase' /\ ClashOnlyWithCreation'
  BY <1>0, <1>2, <1>4, <1>7 DEF Properties, ServedFromOwnDatabase, ClashOnlyWithCreation
<1>12. LostConnectionsAreExplained'
  <2>1. ASSUME NEW q \in Requests, db[q] = q, at'[q] # "migrate", tenantDBs'[Of(q)] # q
        PROVE  at'[q] \in {"clash", "error"} \/ tenantDBs'[Of(q)] \in Creations
    <3>1. tenantDBs'[Of(q)] = tenantDBs[Of(q)] \/ tenantDBs'[Of(q)] = c
      <4>1. CASE tenantDBs' = tenantDBs
        BY <4>1
      <4>2. CASE tenantDBs' = [tenantDBs EXCEPT ![Of(c)] = c] /\ Of(q) = Of(c)
        <5>1. Of(c) \in Tenants /\ tenantDBs'[Of(c)] = c
          BY <1>1, <1>2, <4>2, KeepingHolds
        <5> QED BY <4>2, <5>1
      <4>3. CASE tenantDBs' = [tenantDBs EXCEPT ![Of(c)] = c] /\ Of(q) # Of(c)
        BY <1>0, <4>3 DEF TypeOK
      <4> QED BY <1>3, <4>1, <4>2, <4>3
    <3> QED BY <1>0, <1>7, <2>1, <3>1 DEF Properties, LostConnectionsAreExplained
  <2> QED BY <1>2, <1>4, <2>1 DEF LostConnectionsAreExplained
<1> QED BY <1>6, <1>8, <1>9, <1>10, <1>11, <1>12 DEF IInv, Properties

LEMMA RowsHold == ASSUME IInv, NEW t \in Tenants, Activate(t) \/ Remove(t) PROVE IInv'
<1>0. TypeOK /\ Hosted /\ Kept /\ Opened /\ Handed /\ Alone /\ Behind /\ Properties
  BY DEF IInv
<1>1. UNCHANGED <<version, tenantDBs, lock, at, host, seen, db>>
  BY DEF Activate, Remove
<1>2. faults' \in 0..MaxFaults
  BY <1>0, Constants DEF Activate, Remove, Fault, TypeOK
<1>3. tenant' \in [Tenants -> Rows \cup {None}]
  <2>1. [active |-> TRUE, custom |-> TRUE] \in Rows
    BY DEF Rows
  <2>2. PICK row \in Rows \cup {None} : tenant' = [tenant EXCEPT ![t] = row]
    BY <2>1 DEF Activate, Remove
  <2> QED BY <1>0, <2>2 DEF TypeOK
<1>4. TypeOK'
  BY <1>0, <1>1, <1>2, <1>3 DEF TypeOK
<1>5. \A q : Of(q)' = Of(q)
  BY <1>1 DEF Of
<1>6. Hosted' /\ Kept' /\ Opened' /\ Handed' /\ Alone'
  BY <1>0, <1>1, <1>5 DEF Hosted, Kept, Opened, Handed, Alone
<1>7. Behind' /\ Properties'
  BY <1>0, <1>1, <1>5 DEF Behind, Creating, Properties, ServedFromOwnDatabase, LostConnectionsAreExplained, ClashOnlyWithCreation
<1> QED BY <1>4, <1>6, <1>7 DEF IInv

LEMMA StepHolds == IInv /\ [Next]_vars => IInv'
<1> SUFFICES ASSUME IInv, [Next]_vars PROVE IInv'
  OBVIOUS
<1>1. ASSUME NEW r \in Requests, Request(r) PROVE IInv'
  <2>1. r \in Processes
    BY Constants
  <2> QED BY <1>1, <2>1, SplitHolds, GetHolds, LockHolds, RecheckHolds, FindTenantHolds, OpenHolds, ApplyHolds, ReapplyHolds,
             ApplyFailsHolds, KeepHolds, DispatchHolds, AnswerHolds DEF Request, Migration
<1>2. ASSUME NEW c \in Creations, Creation(c) PROVE IInv'
  <2>1. c \in Processes
    BY Constants
  <2> QED BY <1>2, <2>1, InsertHolds, OpenHolds, ApplyHolds, ReapplyHolds, ApplyFailsHolds, PutHolds, KilledHolds DEF Creation, Migration
<1>3. ASSUME UNCHANGED vars PROVE IInv'
  <2>1. UNCHANGED <<tenant, version, tenantDBs, lock, at, host, seen, db, faults>>
    BY <1>3 DEF vars
  <2>2. (TypeOK /\ Hosted /\ Kept /\ Opened)'
    BY <2>1 DEF IInv, TypeOK, Hosted, Kept, Opened, Of
  <2>3. (Handed /\ Alone /\ Behind)'
    BY <2>1 DEF IInv, Handed, Alone, Behind, Creating, Of
  <2>4. Properties'
    BY <2>1 DEF IInv, Properties, ServedFromOwnDatabase, LostConnectionsAreExplained, ClashOnlyWithCreation, Of
  <2> QED BY <2>2, <2>3, <2>4 DEF IInv
<1> QED BY <1>1, <1>2, <1>3, RowsHold DEF Next

\* A request or a creation that is on its way has the tenant, the lock and the
\* database its next step needs (db.go:98-176).
THEOREM TypesStay == Spec => []TypeOK
<1>1. IInv => TypeOK
  BY DEF IInv
<1> QED BY <1>1, InitHolds, StepHolds, PTL DEF Spec

\* A tenant's handler runs on the tenant's own database, migrated, and the
\* application's on the central one (module.go:146, router.go:230), whatever
\* the other requests and creations do meanwhile.
THEOREM TenantsDoNotShareDatabases == Spec => []ServedFromOwnDatabase
<1>1. IInv => ServedFromOwnDatabase
  BY DEF IInv, Properties
<1> QED BY <1>1, InitHolds, StepHolds, PTL DEF Spec

\* A connection of a request is lost only where a migration has failed or
\* CreateTenant has replaced it (db.go:129, 173).
THEOREM NoOtherConnectionIsLost == Spec => []LostConnectionsAreExplained
<1>1. IInv => LostConnectionsAreExplained
  BY DEF IInv, Properties
<1> QED BY <1>1, InitHolds, StepHolds, PTL DEF Spec

\* The lock keeps requests from each other's migrations: one that fails
\* because it is there already has met a creation (db.go:129, 166).
THEOREM RequestsDoNotClash == Spec => []ClashOnlyWithCreation
<1>1. IInv => ClashOnlyWithCreation
  BY DEF IInv, Properties
<1> QED BY <1>1, InitHolds, StepHolds, PTL DEF Spec
=============================================================================
