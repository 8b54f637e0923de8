-------------------------- MODULE DBSessionsProofs --------------------------
(***************************************************************************)
(* Proofs about DBSessions, for any sets of requests, ids, users and       *)
(* messages and with any database errors.                                  *)
(***************************************************************************)
EXTENDS DBSessions, TLAPS

\* A request that has a session has one under an id that was generated; so
\* have all rows, and all rows that were deleted.  That is why a fresh id
\* never names a session somebody has logged out of.
IdsIssued ==
    /\ \A r \in Requests : Open(r) => sess[r].id \in issued
    /\ DOMAIN table \subseteq issued
    /\ revoked \subseteq issued

Safe == TypeOK /\ IdsIssued /\ RevokedStaysDead

\* An empty table, no request: the invariant holds at the start.
LEMMA InitSafe == Init => Safe
<1> SUFFICES ASSUME Init PROVE Safe
  OBVIOUS
<1>1. DOMAIN table = {}
  BY DEF Init
<1>2. EmptySession(None) \in Session
  BY DEF EmptySession, Session
<1>3. TypeOK
  <2>1. issued \subseteq Ids /\ revoked \subseteq Ids /\ loggedIn \subseteq Ids /\ stale \subseteq Requests /\ resetters \subseteq Requests
    BY DEF Init
  <2>2. sess \in [Requests -> Session]
    BY <1>2 DEF Init
  <2>3. faults \in 0..MaxFaults
    BY ConstantsAssumption DEF Init
  <2>4. pc \in [Requests -> Stages]
    BY DEF Init, Stages
  <2>5. jar \in Ids \cup {None} /\ cookie \in [Requests -> Ids \cup {None}] /\ header \in [Requests -> Ids \cup {None}] /\ saved \in [Requests -> BOOLEAN]
    BY DEF Init
  <2> QED
    BY <1>1, <2>1, <2>2, <2>3, <2>4, <2>5 DEF TypeOK
<1>4. \A r \in Requests : ~Open(r)
  BY DEF Init, Open
<1>5. IdsIssued /\ RevokedStaysDead
  BY <1>1, <1>4 DEF Init, IdsIssued, RevokedStaysDead
<1> QED
  BY <1>3, <1>5 DEF Safe

\* What the three statements do to a well-typed table.
LEMMA RowOps ==
    ASSUME TypeOK, NEW id \in Ids, NEW row \in Row
    PROVE  /\ DOMAIN InsertRow(table, id, row) = DOMAIN table \cup {id}
           /\ \A i \in DOMAIN InsertRow(table, id, row) :
                 InsertRow(table, id, row)[i] \in Row
           /\ DOMAIN UpdateRow(table, id, row) = DOMAIN table
           /\ \A i \in DOMAIN UpdateRow(table, id, row) :
                 UpdateRow(table, id, row)[i] \in Row
BY DEF InsertRow, UpdateRow, TypeOK

\* The conversions between rows and sessionData are well typed.
LEMMA SessionOps ==
    /\ \A id \in Ids \cup {None} : EmptySession(id) \in Session
    /\ EmptyRow \in Row
    /\ \A s \in Session : AsRow(s) \in Row
    /\ \A s \in Session, ok \in BOOLEAN :
          AfterSave(s, ok) \in Session /\ AfterSave(s, ok).id = s.id
BY DEF EmptySession, EmptyRow, AsRow, AfterSave, Session, Row

\* The count of errors stays within its bound, and is 0 only after statements
\* that reported success.
LEMMA Counting ==
    ASSUME TypeOK, NEW o \in Outcomes
    PROVE  /\ Counted(o) \in 0..MaxFaults
           /\ Counted(o) = 0 => faults = 0 /\ o.ok /\ o.applied
<1>1. faults \in 0..MaxFaults /\ MaxFaults \in Nat
  BY ConstantsAssumption DEF TypeOK
<1>2. (o.ok => o.applied) /\ (faults < MaxFaults \/ o.ok)
  BY DEF Outcomes
<1> QED
  BY <1>1, <1>2 DEF Counted

\* Authenticate changes the user of one copy, under an id that was issued.
LEMMA Authenticated ==
    ASSUME TypeOK, NEW r \in Requests, NEW u \in Users, Authenticate(r, u)
    PROVE  /\ sess' \in [Requests -> Session]
           /\ sess'[r].id = sess[r].id /\ sess'[r].user = u
           /\ sess'[r].old = sess[r].old
           /\ \A q \in Requests \ {r} : sess'[q] = sess[q]
           /\ \A q \in Requests : Open(q)' = Open(q)
           /\ table' = table /\ saved' = saved /\ stale' = stale
           /\ header' = header /\ pc' = pc /\ revoked' = revoked
           /\ issued' = issued /\ faults' = faults /\ jar' = jar
           /\ cookie' = cookie
           /\ loggedIn' = loggedIn \cup {sess[r].id}
BY DEF Authenticate, TypeOK, Session, Open

\* Every step keeps the invariant.
LEMMA NextSafe == Safe /\ [Next]_vars => Safe'
<1> SUFFICES ASSUME Safe, [Next]_vars PROVE Safe'
  OBVIOUS
<1> USE DEF Safe
<1>1. ASSUME NEW r \in Requests, Arrive(r) PROVE Safe'
  BY <1>1 DEF Arrive, TypeOK, IdsIssued, RevokedStaysDead, Open, Stages, history
<1>2. ASSUME NEW r \in Requests, LoadFound(r) PROVE Safe'
  <2>1. Loaded(cookie[r]) \in Session /\ Loaded(cookie[r]).id = cookie[r]
    BY <1>2 DEF LoadFound, Loaded, Session, TypeOK, Row
  <2> HIDE DEF Loaded
  <2>2. TypeOK'
    BY <1>2, <2>1 DEF LoadFound, Serve, TypeOK, Stages, Session
  <2>3. (IdsIssued /\ RevokedStaysDead)'
    BY <1>2, <2>1 DEF LoadFound, Serve, TypeOK, IdsIssued, RevokedStaysDead, Open
  <2> QED BY <2>2, <2>3
<1>3. ASSUME NEW r \in Requests, LoadMissing(r) PROVE Safe'
  <2>1. faults' \in 0..MaxFaults
    BY <1>3, ConstantsAssumption DEF LoadMissing, TypeOK
  <2>2. pc' \in [Requests -> Stages]
    BY <1>3 DEF LoadMissing, TypeOK, Stages
  <2> QED
    BY <1>3, <2>1, <2>2 DEF LoadMissing, TypeOK, IdsIssued, RevokedStaysDead, Open
<1>4. ASSUME NEW r \in Requests, CreateSession(r) PROVE Safe'
  <2>1. PICK id \in Ids \ issued, o \in Outcomes :
          /\ issued' = issued \cup {id}
          /\ table' = IF o.applied THEN InsertRow(table, id, EmptyRow) ELSE table
          /\ faults' = Counted(o)
          /\ Serve(r, EmptySession(id))
    BY <1>4 DEF CreateSession
  <2>2. /\ DOMAIN table' \subseteq DOMAIN table \cup {id}
        /\ \A i \in DOMAIN table' : table'[i] \in Row
    <3>1. CASE table' = InsertRow(table, id, EmptyRow)
      BY <3>1, RowOps, SessionOps
    <3>2. CASE table' = table
      BY <3>2 DEF TypeOK
    <3> QED BY <2>1, <3>1, <3>2
  <2>3. EmptySession(id) \in Session /\ EmptySession(id).id = id
    BY SessionOps DEF EmptySession
  <2>4. TypeOK'
    <3>1. sess' \in [Requests -> Session] /\ header' \in [Requests -> Ids \cup {None}]
      BY <2>1, <2>3 DEF Serve, TypeOK
    <3>2. faults' \in 0..MaxFaults
      BY <2>1, Counting
    <3> QED
      BY <1>4, <2>1, <2>2, <3>1, <3>2 DEF CreateSession, Serve, TypeOK, Stages
  <2>5. (IdsIssued /\ RevokedStaysDead)'
    BY <1>4, <2>1, <2>2, <2>3
       DEF CreateSession, Serve, TypeOK, IdsIssued, RevokedStaysDead, Open
  <2> QED BY <2>4, <2>5
<1>5. ASSUME NEW r \in Requests, NEW u \in Users, Login(r, u) \/ SetPasswordWithToken(r, u)
      PROVE  Safe'
  <2>1. Authenticate(r, u) /\ resetters' \subseteq Requests
    BY <1>5 DEF Login, SetPasswordWithToken, TypeOK
  <2>2. Open(r) /\ sess[r].id \in issued
    BY <2>1 DEF Authenticate, Open, IdsIssued
  <2>3. TypeOK'
    BY <2>1, <2>2, Authenticated DEF TypeOK
  <2>4. (IdsIssued /\ RevokedStaysDead)'
    BY <2>1, Authenticated DEF IdsIssued, RevokedStaysDead
  <2> QED BY <2>3, <2>4
<1>6. ASSUME NEW r \in Requests, NEW m \in Messages, Flash(r, m) PROVE Safe'
  <2>1. sess' = [sess EXCEPT ![r] = Flashed(sess[r], m)] /\ sess[r] \in Session
    BY <1>6 DEF Flash, TypeOK
  <2>2. Flashed(sess[r], m) \in Session /\ Flashed(sess[r], m).id = sess[r].id
    BY <2>1 DEF Flashed, Session
  <2> HIDE DEF Flashed
  <2>3. sess' \in [Requests -> Session]
    BY <2>1, <2>2 DEF TypeOK
  <2>4. TypeOK'
    BY <1>6, <2>3 DEF Flash, TypeOK, history
  <2>5. (IdsIssued /\ RevokedStaysDead)'
    BY <1>6, <2>1, <2>2 DEF Flash, TypeOK, IdsIssued, RevokedStaysDead, Open, history
  <2> QED BY <2>4, <2>5
<1>7. ASSUME NEW r \in Requests, InvalidateDelete(r) PROVE Safe'
  <2>1. PICK o \in Outcomes :
          /\ table' = IF o.applied THEN DeleteRow(table, sess[r].id) ELSE table
          /\ revoked' = IF o.applied THEN revoked \cup {sess[r].id} ELSE revoked
          /\ faults' = Counted(o)
    BY <1>7 DEF InvalidateDelete
  <2>2. sess[r].id \in issued /\ sess[r].id \in Ids
    BY <1>7 DEF InvalidateDelete, IdsIssued, Open, TypeOK
  <2>3. /\ DOMAIN table' = IF o.applied THEN DOMAIN table \ {sess[r].id} ELSE DOMAIN table
        /\ \A i \in DOMAIN table' : table'[i] \in Row
    BY <2>1, <2>2 DEF DeleteRow, TypeOK
  <2>4. faults' \in 0..MaxFaults
    BY <2>1, Counting
  <2>5. TypeOK'
    BY <1>7, <2>1, <2>2, <2>3, <2>4 DEF InvalidateDelete, TypeOK, Stages
  <2>6. (IdsIssued /\ RevokedStaysDead)'
    BY <1>7, <2>1, <2>2, <2>3
       DEF InvalidateDelete, TypeOK, IdsIssued, RevokedStaysDead, Open
  <2> QED BY <2>5, <2>6
<1>8. ASSUME NEW r \in Requests, InvalidateReissue(r) PROVE Safe'
  <2>1. PICK id \in Ids \ issued, o \in Outcomes :
          /\ issued' = issued \cup {id}
          /\ sess' = [sess EXCEPT ![r] = Reissued(sess[r], id)]
          /\ table' = IF o.applied THEN InsertRow(table, id, EmptyRow) ELSE table
          /\ faults' = Counted(o)
    BY <1>8 DEF InvalidateReissue
  <2>2. /\ DOMAIN table' \subseteq DOMAIN table \cup {id}
        /\ \A i \in DOMAIN table' : table'[i] \in Row
    <3>1. CASE table' = InsertRow(table, id, EmptyRow)
      BY <3>1, RowOps, SessionOps
    <3>2. CASE table' = table
      BY <3>2 DEF TypeOK
    <3> QED BY <2>1, <3>1, <3>2
  <2>3. Reissued(sess[r], id) \in Session /\ Reissued(sess[r], id).id = id
    BY SessionOps DEF EmptySession, Reissued
  <2>4. TypeOK'
    <3>1. sess' \in [Requests -> Session]
      BY <2>1, <2>3 DEF TypeOK
    <3>2. faults' \in 0..MaxFaults
      BY <2>1, Counting
    <3>3. /\ pc' \in [Requests -> Stages] /\ issued' \subseteq Ids
          /\ stale' \subseteq Requests /\ resetters' \subseteq Requests
      BY <1>8, <2>1 DEF InvalidateReissue, TypeOK, Stages
    <3> QED
      BY <1>8, <2>2, <3>1, <3>2, <3>3 DEF InvalidateReissue, TypeOK
  <2>5. (IdsIssued /\ RevokedStaysDead)'
    BY <1>8, <2>1, <2>2, <2>3
       DEF InvalidateReissue, TypeOK, IdsIssued, RevokedStaysDead, Open
  <2> QED BY <2>4, <2>5
<1>9. ASSUME NEW r \in Requests, NEW o \in Outcomes, Save(r, o), pc[r] = "serve"
      PROVE  /\ DOMAIN table' = DOMAIN table
             /\ \A i \in DOMAIN table' : table'[i] \in Row
             /\ header' \in [Requests -> Ids \cup {None}]
             /\ stale' \subseteq Requests /\ resetters' \subseteq Requests
             /\ faults' \in 0..MaxFaults
             /\ o.ok \in BOOLEAN
  <2>1. sess[r].id \in Ids /\ AsRow(sess[r]) \in Row
    BY <1>9, SessionOps DEF IdsIssued, Open, TypeOK
  <2>2. header' \in [Requests -> Ids \cup {None}]
    BY <1>9, <2>1 DEF Save, SavedCookie, TypeOK
  <2>3. /\ DOMAIN table' = DOMAIN table
        /\ \A i \in DOMAIN table' : table'[i] \in Row
    <3>1. CASE table' = UpdateRow(table, sess[r].id, AsRow(sess[r]))
      BY <2>1, <3>1, RowOps
    <3>2. CASE table' = table
      BY <3>2 DEF TypeOK
    <3> QED BY <1>9, <3>1, <3>2 DEF Save
  <2>4. stale' \subseteq Requests /\ resetters' \subseteq Requests
    BY <1>9 DEF Save, Sharing, TypeOK
  <2>5. faults' \in 0..MaxFaults /\ o.ok \in BOOLEAN
    BY <1>9, Counting DEF Save, Outcomes
  <2> QED
    BY <2>2, <2>3, <2>4, <2>5
<1>10. ASSUME NEW r \in Requests, Write(r) PROVE Safe'
  <2>1. PICK o \in Outcomes :
          Save(r, o) /\ sess' = [sess EXCEPT ![r] = AfterSave(@, o.ok)]
    BY <1>10 DEF Write
  <2>2. AfterSave(sess[r], o.ok) \in Session /\ AfterSave(sess[r], o.ok).id = sess[r].id
    BY SessionOps DEF TypeOK, Outcomes
  <2>3. sess' \in [Requests -> Session]
    BY <2>1, <2>2 DEF TypeOK
  <2>4. /\ DOMAIN table' = DOMAIN table
        /\ \A i \in DOMAIN table' : table'[i] \in Row
        /\ header' \in [Requests -> Ids \cup {None}]
        /\ stale' \subseteq Requests /\ resetters' \subseteq Requests
        /\ faults' \in 0..MaxFaults
    BY <1>9, <1>10, <2>1 DEF Write
  <2>5. TypeOK'
    BY <1>10, <2>1, <2>3, <2>4 DEF Write, Save, TypeOK
  <2>6. (IdsIssued /\ RevokedStaysDead)'
    BY <1>10, <2>1, <2>2, <2>4
       DEF Write, Save, TypeOK, IdsIssued, RevokedStaysDead, Open
  <2> QED BY <2>5, <2>6
<1>11. ASSUME NEW r \in Requests, FinishUnsaved(r) PROVE Safe'
  <2>1. PICK o \in Outcomes : Save(r, o)
    BY <1>11 DEF FinishUnsaved
  <2>2. pc' \in [Requests -> Stages] /\ sess' \in [Requests -> Session]
    BY <1>11, SessionOps DEF FinishUnsaved, TypeOK, Stages
  <2>3. /\ DOMAIN table' = DOMAIN table
        /\ \A i \in DOMAIN table' : table'[i] \in Row
        /\ header' \in [Requests -> Ids \cup {None}]
        /\ stale' \subseteq Requests /\ resetters' \subseteq Requests
        /\ faults' \in 0..MaxFaults
    BY <1>9, <1>11, <2>1 DEF FinishUnsaved
  <2>4. TypeOK'
    BY <1>11, <2>1, <2>2, <2>3 DEF FinishUnsaved, Save, TypeOK
  <2>5. (IdsIssued /\ RevokedStaysDead)'
    BY <1>11, <2>1, <2>3
       DEF FinishUnsaved, Save, TypeOK, IdsIssued, RevokedStaysDead, Open
  <2> QED BY <2>4, <2>5
<1>12. ASSUME NEW r \in Requests, FinishOrPanic(r) PROVE Safe'
  BY <1>12, SessionOps
     DEF FinishOrPanic, TypeOK, IdsIssued, RevokedStaysDead, Open, Stages, history
<1>13. ASSUME NEW S \in SUBSET Requests, Gone(S), jar' \in Ids \cup {None} PROVE Safe'
  BY <1>13, SessionOps DEF Gone, TypeOK, IdsIssued, RevokedStaysDead, Open, Stages
<1>14. ASSUME NEW r \in Requests, Deliver(r) \/ Lose(r) PROVE Safe'
  BY <1>13, <1>14 DEF Deliver, Lose, TypeOK
<1>15. CASE Restart
  BY <1>13, <1>15 DEF Restart, TypeOK
<1>16. CASE UNCHANGED vars
  BY <1>16 DEF vars, TypeOK, IdsIssued, RevokedStaysDead, Open
<1> QED
  BY <1>1, <1>2, <1>3, <1>4, <1>5, <1>6, <1>7, <1>8, <1>10, <1>11, <1>12, <1>14,
     <1>15, <1>16 DEF Next, Handler


\* src/session/db: every variable keeps its type, so that whatever Save writes
\* is something Load can read.
THEOREM TypeCorrect == Spec => []TypeOK
<1>1. Safe => TypeOK
  BY DEF Safe
<1> QED
  BY InitSafe, NextSafe, <1>1, PTL DEF Spec

\* src/session/db/store.go invalidate and update: a row that a logout deleted
\* never comes back, whoever had loaded it before.
THEOREM LogoutIsFinal == Spec => []RevokedStaysDead
<1>1. Safe => RevokedStaysDead
  BY DEF Safe
<1> QED
  BY InitSafe, NextSafe, <1>1, PTL DEF Spec

-----------------------------------------------------------------------------
(* Who is logged in.                                                       *)

\* The private copies obey the rule of the rows.
CopiesNeedLogin ==
    \A r \in Requests :
        Open(r) /\ sess[r].user # None => sess[r].id \in loggedIn

LoginInv == AuthenticationNeedsLogin /\ CopiesNeedLogin

\* Every step keeps both rules: a copy gets its user from a row or a login, a
\* row from a copy under the same id.
LEMMA NextLogin == Safe /\ LoginInv /\ [Next]_vars => LoginInv'
<1> SUFFICES ASSUME Safe, LoginInv, [Next]_vars PROVE LoginInv'
  OBVIOUS
<1> USE DEF LoginInv, AuthenticationNeedsLogin, CopiesNeedLogin
<1>0. TypeOK /\ IdsIssued
  BY DEF Safe
<1>1. ASSUME NEW r \in Requests, Arrive(r) PROVE LoginInv'
  BY <1>0, <1>1 DEF Arrive, TypeOK, Open, history
<1>2. ASSUME NEW r \in Requests, LoadFound(r) PROVE LoginInv'
  <2>1. Loaded(cookie[r]).user = table[cookie[r]].user /\ Loaded(cookie[r]).id = cookie[r]
    BY DEF Loaded
  <2> QED BY <1>0, <1>2, <2>1 DEF LoadFound, Serve, TypeOK, Open
<1>3. ASSUME NEW r \in Requests, LoadMissing(r) PROVE LoginInv'
  BY <1>0, <1>3 DEF LoadMissing, TypeOK, Open
<1>4. ASSUME NEW id \in Ids \ issued,
             table' = InsertRow(table, id, EmptyRow) \/ table' = table,
             loggedIn' = loggedIn
      PROVE  AuthenticationNeedsLogin'
  BY <1>4 DEF InsertRow, EmptyRow
<1>5. ASSUME NEW r \in Requests, CreateSession(r) PROVE LoginInv'
  <2>1. PICK id \in Ids \ issued :
          /\ table' = InsertRow(table, id, EmptyRow) \/ table' = table
          /\ Serve(r, EmptySession(id))
    BY <1>5 DEF CreateSession
  <2>2. AuthenticationNeedsLogin'
    BY <1>4, <1>5, <2>1 DEF CreateSession
  <2>3. CopiesNeedLogin'
    BY <1>0, <1>5, <2>1 DEF CreateSession, Serve, EmptySession, TypeOK, Open
  <2> QED BY <2>2, <2>3
<1>6. ASSUME NEW r \in Requests, NEW u \in Users, Login(r, u) \/ SetPasswordWithToken(r, u)
      PROVE  LoginInv'
  BY <1>0, <1>6, Authenticated DEF Login, SetPasswordWithToken
<1>7. ASSUME NEW r \in Requests, NEW m \in Messages, Flash(r, m) PROVE LoginInv'
  <2>1. sess' = [sess EXCEPT ![r] = Flashed(sess[r], m)] /\ sess[r] \in Session
    BY <1>0, <1>7 DEF Flash, TypeOK
  <2>2. Flashed(sess[r], m).user = sess[r].user /\ Flashed(sess[r], m).id = sess[r].id
    BY <2>1 DEF Flashed, Session
  <2> QED BY <1>0, <1>7, <2>1, <2>2 DEF Flash, TypeOK, Open, history
<1>8. ASSUME NEW r \in Requests, InvalidateDelete(r) PROVE LoginInv'
  <2>1. table' = DeleteRow(table, sess[r].id) \/ table' = table
    BY <1>8 DEF InvalidateDelete
  <2>2. AuthenticationNeedsLogin'
    BY <1>8, <2>1 DEF InvalidateDelete, DeleteRow
  <2>3. CopiesNeedLogin'
    BY <1>0, <1>8 DEF InvalidateDelete, TypeOK, Open
  <2> QED BY <2>2, <2>3
<1>9. ASSUME NEW r \in Requests, InvalidateReissue(r) PROVE LoginInv'
  <2>1. PICK id \in Ids \ issued :
          /\ table' = InsertRow(table, id, EmptyRow) \/ table' = table
          /\ sess' = [sess EXCEPT ![r] = Reissued(sess[r], id)]
    BY <1>9 DEF InvalidateReissue
  <2>2. AuthenticationNeedsLogin'
    BY <1>4, <1>9, <2>1 DEF InvalidateReissue
  <2>3. CopiesNeedLogin'
    BY <1>0, <1>9, <2>1 DEF InvalidateReissue, Reissued, EmptySession, TypeOK, Open
  <2> QED BY <2>2, <2>3
<1>10. ASSUME NEW r \in Requests, NEW o \in Outcomes, Save(r, o), pc[r] = "serve"
       PROVE  AuthenticationNeedsLogin'
  <2>1. table' = UpdateRow(table, sess[r].id, AsRow(sess[r])) \/ table' = table
    BY <1>10 DEF Save
  <2>2. loggedIn' = loggedIn
    BY <1>10 DEF Save
  <2> QED BY <1>10, <2>1, <2>2 DEF UpdateRow, AsRow, Open
<1>11. ASSUME NEW r \in Requests, Write(r) PROVE LoginInv'
  <2>1. PICK o \in Outcomes :
          Save(r, o) /\ sess' = [sess EXCEPT ![r] = AfterSave(@, o.ok)]
    BY <1>11 DEF Write
  <2>2. AuthenticationNeedsLogin'
    BY <1>10, <1>11, <2>1 DEF Write
  <2>3. AfterSave(sess[r], o.ok).id = sess[r].id /\ AfterSave(sess[r], o.ok).user = sess[r].user
    BY <1>0 DEF AfterSave, TypeOK, Session
  <2>4. CopiesNeedLogin'
    BY <1>0, <1>11, <2>1, <2>3 DEF Write, Save, TypeOK, Open
  <2> QED BY <2>2, <2>4
<1>12. ASSUME NEW r \in Requests, FinishUnsaved(r) PROVE LoginInv'
  <2>1. PICK o \in Outcomes : Save(r, o)
    BY <1>12 DEF FinishUnsaved
  <2>2. AuthenticationNeedsLogin'
    BY <1>10, <1>12, <2>1 DEF FinishUnsaved
  <2>3. CopiesNeedLogin'
    BY <1>0, <1>12, <2>1 DEF FinishUnsaved, Save, TypeOK, Open
  <2> QED BY <2>2, <2>3
<1>13. ASSUME NEW r \in Requests, FinishOrPanic(r) PROVE LoginInv'
  BY <1>0, <1>13 DEF FinishOrPanic, TypeOK, Open, history
<1>14. ASSUME NEW S \in SUBSET Requests, Gone(S) PROVE LoginInv'
  BY <1>0, <1>14 DEF Gone, TypeOK, Open
<1>15. ASSUME NEW r \in Requests, Deliver(r) \/ Lose(r) PROVE LoginInv'
  BY <1>14, <1>15 DEF Deliver, Lose
<1>16. CASE Restart
  BY <1>14, <1>16 DEF Restart
<1>17. CASE UNCHANGED vars
  BY <1>17 DEF vars, Open
<1> QED
  BY <1>1, <1>2, <1>3, <1>5, <1>6, <1>7, <1>8, <1>9, <1>11, <1>12, <1>13, <1>15,
     <1>16, <1>17 DEF Next, Handler

\* src/modules/authentication/sessions.go with src/session/db: a stored session
\* has a user only if a login was carried out under its id.
THEOREM LoginIsRequired == Spec => []AuthenticationNeedsLogin
<1>1. Init => LoginInv
  BY DEF Init, LoginInv, AuthenticationNeedsLogin, CopiesNeedLogin, Open
<1>2. LoginInv => AuthenticationNeedsLogin
  BY DEF LoginInv
<1> QED
  BY InitSafe, NextSafe, NextLogin, <1>1, <1>2, PTL DEF Spec

-----------------------------------------------------------------------------
(* How the table may change.                                               *)

\* The save of request r that reaches the row of its session.
SavesRow(r) ==
    /\ pc[r] = "serve"
    /\ Saves(r)
    /\ table' = UpdateRow(table, sess[r].id, AsRow(sess[r]))

\* A step inserts an empty row under a fresh id, deletes a row, saves one, or
\* leaves the table alone.
LEMMA TableSteps ==
    ASSUME Safe, [Next]_vars
    PROVE  \/ table' = table
           \/ \E id \in Ids \ issued : table' = InsertRow(table, id, EmptyRow)
           \/ \E id \in Ids : table' = DeleteRow(table, id)
           \/ \E r \in Requests : SavesRow(r)
<1> DEFINE Goal ==
       \/ table' = table
       \/ \E id \in Ids \ issued : table' = InsertRow(table, id, EmptyRow)
       \/ \E id \in Ids : table' = DeleteRow(table, id)
       \/ \E r \in Requests : SavesRow(r)
<1>0. TypeOK /\ IdsIssued
  BY DEF Safe
<1>1. ASSUME NEW r \in Requests, CreateSession(r) \/ InvalidateReissue(r) PROVE Goal
  BY <1>1 DEF CreateSession, InvalidateReissue
<1>2. ASSUME NEW r \in Requests, InvalidateDelete(r) PROVE Goal
  <2>1. sess[r].id \in Ids
    BY <1>0, <1>2 DEF InvalidateDelete, TypeOK, IdsIssued, Open
  <2>2. table' = DeleteRow(table, sess[r].id) \/ table' = table
    BY <1>2 DEF InvalidateDelete
  <2> QED BY <2>1, <2>2
<1>3. ASSUME NEW r \in Requests, Write(r) PROVE Goal
  <2>1. PICK o \in Outcomes : Save(r, o)
    BY <1>3 DEF Write
  <2>2. pc[r] = "serve" /\ Saves(r)
    BY <1>0, <1>3, <2>1 DEF Write, Save, Saves, TypeOK
  <2>3. table' = UpdateRow(table, sess[r].id, AsRow(sess[r])) \/ table' = table
    BY <2>1 DEF Save
  <2> QED BY <2>2, <2>3 DEF SavesRow
<1>4. ASSUME NEW r \in Requests, FinishUnsaved(r) PROVE Goal
  <2>1. PICK o \in Outcomes : Save(r, o)
    BY <1>4 DEF FinishUnsaved
  <2>2. pc[r] = "serve" /\ Saves(r)
    BY <1>0, <1>4, <2>1 DEF FinishUnsaved, Save, Saves, TypeOK
  <2>3. table' = UpdateRow(table, sess[r].id, AsRow(sess[r])) \/ table' = table
    BY <2>1 DEF Save
  <2> QED BY <2>2, <2>3 DEF SavesRow
<1>5. ASSUME NEW r \in Requests,
             \/ Arrive(r) \/ LoadFound(r) \/ LoadMissing(r)
             \/ \E u \in Users : Login(r, u) \/ SetPasswordWithToken(r, u)
             \/ \E m \in Messages : Flash(r, m)
             \/ FinishOrPanic(r) \/ Deliver(r) \/ Lose(r)
      PROVE  table' = table
  BY <1>5 DEF Arrive, LoadFound, LoadMissing, Login, SetPasswordWithToken,
              Authenticate, Flash, FinishOrPanic, Deliver, Lose, Gone
<1>6. Restart \/ UNCHANGED vars => table' = table
  BY DEF Restart, Gone, vars
<1> HIDE DEF Goal
<1>7. ASSUME table' = table PROVE Goal
  BY <1>7 DEF Goal
<1>8. Goal
  BY <1>1, <1>2, <1>3, <1>4, <1>5, <1>6, <1>7 DEF Next, Handler
<1> QED BY <1>8 DEF Goal

-----------------------------------------------------------------------------
(* Lost updates: whose copy of a row is current.                           *)

\* A request that has not saved yet and whose row nobody saved meanwhile holds
\* at least what the row holds, or the user whose password it has set.
CopyIsCurrent(r) ==
    Open(r) /\ ~saved[r] /\ r \notin stale /\ sess[r].id \in DOMAIN table
    => /\ \/ table[sess[r].id].user \in {None, sess[r].user}
          \/ r \in resetters /\ sess[r].user # None
       /\ table[sess[r].id].flash \subseteq sess[r].old

CopiesAreCurrent == \A r \in Requests : CopyIsCurrent(r)

\* A step that leaves the sessions alone and only inserts or deletes rows, or
\* frees requests, keeps every copy current.
LEMMA RowsKept ==
    ASSUME Safe, CopiesAreCurrent,
           NEW q \in Requests,
           Open(q)' => Open(q), sess'[q] = sess[q], ~saved'[q] => ~saved[q],
           q \notin stale' => q \notin stale, q \in resetters => q \in resetters',
           NEW id \in Ids,
           \/ table' = table
           \/ id \notin issued /\ table' = InsertRow(table, id, EmptyRow)
           \/ table' = DeleteRow(table, id)
    PROVE  CopyIsCurrent(q)'
<1>1. Open(q) => sess[q].id \in issued
  BY DEF Safe, IdsIssued
<1> QED
  BY <1>1 DEF CopiesAreCurrent, CopyIsCurrent, InsertRow, DeleteRow

\* Every step keeps the copies current, or records them as stale.
LEMMA NextCurrent == Safe /\ CopiesAreCurrent /\ [Next]_vars => CopiesAreCurrent'
<1> SUFFICES ASSUME Safe, CopiesAreCurrent, [Next]_vars, NEW q \in Requests
             PROVE  CopyIsCurrent(q)'
  BY DEF CopiesAreCurrent
<1>0. TypeOK /\ IdsIssued /\ CopyIsCurrent(q)
  BY DEF Safe, CopiesAreCurrent
<1>1. ASSUME NEW r \in Requests, Arrive(r) PROVE CopyIsCurrent(q)'
  BY <1>0, <1>1 DEF Arrive, TypeOK, CopyIsCurrent, Open, history
<1>2. ASSUME NEW r \in Requests, LoadFound(r) PROVE CopyIsCurrent(q)'
  <2>1. /\ Loaded(cookie[r]).user = table[cookie[r]].user
        /\ Loaded(cookie[r]).old = table[cookie[r]].flash
        /\ Loaded(cookie[r]).id = cookie[r]
    BY DEF Loaded
  <2> HIDE DEF Loaded
  <2>2. table' = table /\ sess' = [sess EXCEPT ![r] = Loaded(cookie[r])]
    BY <1>2 DEF LoadFound, Serve
  <2>3. CASE q = r
    BY <1>0, <2>1, <2>2, <2>3 DEF TypeOK, CopyIsCurrent
  <2>4. CASE q # r
    BY <1>0, <1>2, <2>2, <2>4 DEF LoadFound, Serve, TypeOK, CopyIsCurrent, Open
  <2> QED BY <2>3, <2>4
<1>3. ASSUME NEW r \in Requests, LoadMissing(r) PROVE CopyIsCurrent(q)'
  BY <1>0, <1>3 DEF LoadMissing, TypeOK, CopyIsCurrent, Open
<1>4. ASSUME NEW id \in Ids \ issued,
             table' = InsertRow(table, id, EmptyRow) \/ table' = table,
             sess'[q] = EmptySession(id)
      PROVE  CopyIsCurrent(q)'
  <2>1. id \notin DOMAIN table
    BY <1>0 DEF IdsIssued
  <2> QED
    BY <1>4, <2>1 DEF CopyIsCurrent, InsertRow, EmptyRow, EmptySession
<1>5. ASSUME NEW r \in Requests, CreateSession(r) PROVE CopyIsCurrent(q)'
  <2>1. PICK id \in Ids \ issued :
          /\ table' = InsertRow(table, id, EmptyRow) \/ table' = table
          /\ Serve(r, EmptySession(id))
    BY <1>5 DEF CreateSession
  <2>2. CASE q = r
    BY <1>0, <1>4, <2>1, <2>2 DEF Serve, TypeOK
  <2>3. CASE q # r
    <3>1. (Open(q)' => Open(q)) /\ sess'[q] = sess[q] /\ saved'[q] = saved[q]
          /\ (q \notin stale' => q \notin stale) /\ (q \in resetters => q \in resetters')
      BY <1>0, <2>1, <2>3 DEF Serve, TypeOK, Open
    <3> QED BY <2>1, <3>1, RowsKept
  <2> QED BY <2>2, <2>3
<1>6. ASSUME NEW r \in Requests, NEW u \in Users, Login(r, u) PROVE CopyIsCurrent(q)'
  <2>1. Authenticate(r, u) /\ sess[r].user = None /\ resetters' = resetters
    BY <1>6 DEF Login
  <2>2. CASE q = r
    BY <1>0, <2>1, <2>2, Authenticated DEF CopyIsCurrent
  <2>3. CASE q # r
    BY <1>0, <2>1, <2>3, Authenticated DEF CopyIsCurrent
  <2> QED BY <2>2, <2>3
<1>60. ASSUME NEW r \in Requests, NEW u \in Users, SetPasswordWithToken(r, u)
       PROVE  CopyIsCurrent(q)'
  <2>1. Authenticate(r, u) /\ resetters' = resetters \cup {r} /\ u # None
    BY <1>60, ConstantsAssumption DEF SetPasswordWithToken
  <2>2. CASE q = r
    BY <1>0, <2>1, <2>2, Authenticated DEF CopyIsCurrent
  <2>3. CASE q # r
    BY <1>0, <2>1, <2>3, Authenticated DEF CopyIsCurrent
  <2> QED BY <2>2, <2>3
<1>7. ASSUME NEW r \in Requests, NEW m \in Messages, Flash(r, m) PROVE CopyIsCurrent(q)'
  <2>1. sess' = [sess EXCEPT ![r] = Flashed(sess[r], m)] /\ sess[r] \in Session
    BY <1>0, <1>7 DEF Flash, TypeOK
  <2>2. /\ Flashed(sess[r], m).user = sess[r].user
        /\ Flashed(sess[r], m).id = sess[r].id
        /\ sess[r].old \subseteq Flashed(sess[r], m).old
    BY <2>1 DEF Flashed, Session
  <2> HIDE DEF Flashed
  <2> QED
    BY <1>0, <1>7, <2>1, <2>2 DEF Flash, TypeOK, CopyIsCurrent, Open, history
<1>8. ASSUME NEW r \in Requests, InvalidateDelete(r) PROVE CopyIsCurrent(q)'
  <2>1. sess[r].id \in Ids
    BY <1>0, <1>8 DEF InvalidateDelete, TypeOK, IdsIssued, Open
  <2>2. table' = DeleteRow(table, sess[r].id) \/ table' = table
    BY <1>8 DEF InvalidateDelete
  <2>3. (Open(q)' => Open(q)) /\ sess'[q] = sess[q] /\ saved'[q] = saved[q]
        /\ (q \notin stale' => q \notin stale) /\ (q \in resetters => q \in resetters')
    BY <1>0, <1>8 DEF InvalidateDelete, TypeOK, Open
  <2> QED BY <2>1, <2>2, <2>3, RowsKept
<1>9. ASSUME NEW r \in Requests, InvalidateReissue(r) PROVE CopyIsCurrent(q)'
  <2>1. PICK id \in Ids \ issued :
          /\ table' = InsertRow(table, id, EmptyRow) \/ table' = table
          /\ sess' = [sess EXCEPT ![r] = Reissued(sess[r], id)]
    BY <1>9 DEF InvalidateReissue
  <2>2. CASE q = r
    BY <1>0, <1>4, <2>1, <2>2 DEF Reissued, TypeOK
  <2>3. CASE q # r
    <3>1. (Open(q)' => Open(q)) /\ sess'[q] = sess[q] /\ saved'[q] = saved[q]
          /\ (q \notin stale' => q \notin stale) /\ (q \in resetters => q \in resetters')
      BY <1>0, <1>9, <2>1, <2>3 DEF InvalidateReissue, TypeOK, Open
    <3> QED BY <2>1, <3>1, RowsKept
  <2> QED BY <2>2, <2>3
<1>10. ASSUME NEW r \in Requests, NEW o \in Outcomes, Save(r, o), pc[r] = "serve",
              q # r, Open(q)' => Open(q), sess'[q] = sess[q], saved'[q] = saved[q]
       PROVE  CopyIsCurrent(q)'
  <2>1. CASE ~o.applied
    BY <1>0, <1>10, <2>1 DEF Save, CopyIsCurrent
  <2>2. CASE o.applied
    <3>1. table' = UpdateRow(table, sess[r].id, AsRow(sess[r]))
      BY <1>10, <2>2 DEF Save
    <3>2. /\ q \notin stale' => q \notin stale /\ (Open(q) /\ ~saved[q] => sess[q].id # sess[r].id)
          /\ q \in resetters => q \in resetters'
      BY <1>10, <2>2 DEF Save, Sharing
    <3> QED
      BY <1>0, <1>10, <3>1, <3>2 DEF CopyIsCurrent, UpdateRow
  <2> QED BY <2>1, <2>2
<1>11. ASSUME NEW r \in Requests, Write(r) PROVE CopyIsCurrent(q)'
  <2>1. PICK o \in Outcomes :
          Save(r, o) /\ sess' = [sess EXCEPT ![r] = AfterSave(@, o.ok)]
    BY <1>11 DEF Write
  <2>2. CASE q = r
    BY <1>0, <1>11, <2>2 DEF Write, TypeOK, CopyIsCurrent
  <2>3. CASE q # r
    <3>1. (Open(q)' => Open(q)) /\ sess'[q] = sess[q] /\ saved'[q] = saved[q]
      BY <1>0, <1>11, <2>1, <2>3 DEF Write, TypeOK, Open
    <3> QED BY <1>10, <1>11, <2>1, <2>3, <3>1 DEF Write
  <2> QED BY <2>2, <2>3
<1>12. ASSUME NEW r \in Requests, FinishUnsaved(r) PROVE CopyIsCurrent(q)'
  <2>1. PICK o \in Outcomes : Save(r, o)
    BY <1>12 DEF FinishUnsaved
  <2>2. CASE q = r
    BY <1>0, <1>12, <2>2 DEF FinishUnsaved, TypeOK, CopyIsCurrent, Open
  <2>3. CASE q # r
    <3>1. (Open(q)' => Open(q)) /\ sess'[q] = sess[q] /\ saved'[q] = saved[q]
      BY <1>0, <1>12, <2>1, <2>3 DEF FinishUnsaved, TypeOK, Open
    <3> QED BY <1>10, <1>12, <2>1, <2>3, <3>1 DEF FinishUnsaved
  <2> QED BY <2>2, <2>3
<1>13. ASSUME NEW r \in Requests, FinishOrPanic(r) PROVE CopyIsCurrent(q)'
  BY <1>0, <1>13 DEF FinishOrPanic, TypeOK, CopyIsCurrent, Open, history
<1>14. ASSUME NEW S \in SUBSET Requests, Gone(S) PROVE CopyIsCurrent(q)'
  BY <1>0, <1>14 DEF Gone, TypeOK, CopyIsCurrent, Open
<1>15. ASSUME NEW r \in Requests, Deliver(r) \/ Lose(r) PROVE CopyIsCurrent(q)'
  BY <1>14, <1>15 DEF Deliver, Lose
<1>16. CASE Restart
  BY <1>14, <1>16 DEF Restart
<1>17. CASE UNCHANGED vars
  BY <1>0, <1>17 DEF vars, CopyIsCurrent, Open
<1> QED
  BY <1>1, <1>2, <1>3, <1>5, <1>6, <1>60, <1>7, <1>8, <1>9, <1>11, <1>12, <1>13,
     <1>15, <1>16, <1>17 DEF Next, Handler

\* No request has a session at the start.
LEMMA InitCurrent == Init => CopiesAreCurrent
BY DEF Init, CopiesAreCurrent, CopyIsCurrent, Open

\* src/session/sessions.go save and src/session/db/store.go update: of the
\* writers of a row only one that loaded it before the user was saved can lose
\* the user, and only one that set a password can knowingly replace it.
THEOREM UsersLeaveKnowingly == Spec => StoredUserIsKept
<1> DEFINE Taken(i, r) ==
       /\ Saves(r) /\ sess[r].id = i
       /\ r \in stale \/ (r \in resetters /\ table'[i].user # None)
<1> DEFINE A == \A i \in DOMAIN table \cap DOMAIN table' :
                   (table[i].user # None /\ table'[i].user # table[i].user)
                   => \E r \in Requests : Taken(i, r)
<1>1. Safe /\ CopiesAreCurrent /\ [Next]_vars => A
  <2> SUFFICES ASSUME Safe, CopiesAreCurrent, [Next]_vars,
                      NEW i \in DOMAIN table \cap DOMAIN table',
                      table[i].user # None, table'[i].user # table[i].user
               PROVE  \E r \in Requests : Taken(i, r)
    OBVIOUS
  <2>1. i \in issued
    BY DEF Safe, IdsIssued
  <2>2. table' # table /\ \A id \in Ids : table' # DeleteRow(table, id)
    BY DEF DeleteRow
  <2>3. \A id \in Ids \ issued : table' # InsertRow(table, id, EmptyRow)
    BY <2>1 DEF InsertRow
  <2>4. PICK r \in Requests : SavesRow(r)
    BY <2>2, <2>3, TableSteps
  <2>5. sess[r].id = i /\ table'[i].user = sess[r].user
    BY <2>4 DEF SavesRow, UpdateRow, AsRow
  <2>6. r \in stale \/ (r \in resetters /\ sess[r].user # None)
    BY <2>4, <2>5 DEF SavesRow, Saves, CopiesAreCurrent, CopyIsCurrent, Open
  <2> QED BY <2>4, <2>5, <2>6 DEF SavesRow
<1>2. Safe /\ CopiesAreCurrent /\ [Next]_vars => [A]_vars
  BY <1>1
<1>3. [][A]_vars => StoredUserIsKept
  BY PTL DEF StoredUserIsKept
<1> HIDE DEF A
<1> QED
  BY InitSafe, NextSafe, InitCurrent, NextCurrent, <1>2, <1>3, PTL DEF Spec

\* src/session/sessions.go save: a flash message is dropped by the save of a
\* request that loaded it, or of one whose row was saved since.
THEOREM FlashLostOnlyAfterLoad == Spec => FlashDroppedOnlyAfterLoaded
<1> DEFINE A == \A i \in DOMAIN table \cap DOMAIN table' :
                   \A m \in table[i].flash \ table'[i].flash :
                      \E r \in Requests :
                         /\ Saves(r) /\ sess[r].id = i
                         /\ r \in stale \/ m \in sess[r].old
<1>1. Safe /\ CopiesAreCurrent /\ [Next]_vars => A
  <2> SUFFICES ASSUME Safe, CopiesAreCurrent, [Next]_vars,
                      NEW i \in DOMAIN table \cap DOMAIN table',
                      NEW m \in table[i].flash \ table'[i].flash
               PROVE  \E r \in Requests :
                         /\ Saves(r) /\ sess[r].id = i
                         /\ r \in stale \/ m \in sess[r].old
    OBVIOUS
  <2>1. i \in issued
    BY DEF Safe, IdsIssued
  <2>2. table' # table /\ \A id \in Ids : table' # DeleteRow(table, id)
    BY DEF DeleteRow
  <2>3. \A id \in Ids \ issued : table' # InsertRow(table, id, EmptyRow)
    BY <2>1 DEF InsertRow
  <2>4. PICK r \in Requests : SavesRow(r)
    BY <2>2, <2>3, TableSteps
  <2>5. sess[r].id = i
    BY <2>4 DEF SavesRow, UpdateRow
  <2>6. r \in stale \/ m \in sess[r].old
    BY <2>4, <2>5 DEF SavesRow, Saves, CopiesAreCurrent, CopyIsCurrent, Open
  <2> QED BY <2>4, <2>5, <2>6 DEF SavesRow
<1>2. Safe /\ CopiesAreCurrent /\ [Next]_vars => [A]_vars
  BY <1>1
<1>3. [][A]_vars => FlashDroppedOnlyAfterLoaded
  BY PTL DEF FlashDroppedOnlyAfterLoaded
<1> HIDE DEF A
<1> QED
  BY InitSafe, NextSafe, InitCurrent, NextCurrent, <1>2, <1>3, PTL DEF Spec

-----------------------------------------------------------------------------
(* Announced ids.                                                          *)

\* An id a request works under, or has announced, has a row or has been
\* revoked, as long as no statement has failed.
Known(i) == i \in DOMAIN table \cup revoked
IdsResolve ==
    faults = 0 => \A r \in Requests :
        /\ Open(r) => Known(sess[r].id)
        /\ pc[r] \in {"serve", "reissue", "done"} => Known(header[r])

\* Every step keeps that: rows only leave the table for the revoked ids.
LEMMA NextResolve == Safe /\ IdsResolve /\ [Next]_vars => IdsResolve'
<1> SUFFICES ASSUME Safe, IdsResolve, [Next]_vars PROVE IdsResolve'
  OBVIOUS
<1> USE DEF IdsResolve, Known
<1>0. TypeOK /\ IdsIssued
  BY DEF Safe
<1>1. ASSUME NEW r \in Requests, Arrive(r) PROVE IdsResolve'
  BY <1>0, <1>1 DEF Arrive, TypeOK, Open, history
<1>2. ASSUME NEW r \in Requests, LoadFound(r) PROVE IdsResolve'
  <2>1. Loaded(cookie[r]).id = cookie[r]
    BY DEF Loaded
  <2> QED BY <1>0, <1>2, <2>1 DEF LoadFound, Serve, TypeOK, Open
<1>3. ASSUME NEW r \in Requests, LoadMissing(r) PROVE IdsResolve'
  BY <1>0, <1>3 DEF LoadMissing, TypeOK, Open
<1>4. ASSUME NEW r \in Requests, CreateSession(r) PROVE IdsResolve'
  <2>1. PICK id \in Ids \ issued, o \in Outcomes :
          /\ table' = IF o.applied THEN InsertRow(table, id, EmptyRow) ELSE table
          /\ faults' = Counted(o)
          /\ Serve(r, EmptySession(id))
    BY <1>4 DEF CreateSession
  <2>2. (faults' = 0 => faults = 0 /\ o.applied) /\ EmptySession(id).id = id
    BY <1>0, <2>1, Counting DEF EmptySession
  <2>3. faults' = 0 => faults = 0 /\ DOMAIN table' = DOMAIN table \cup {id}
    BY <2>1, <2>2 DEF InsertRow
  <2> QED
    BY <1>0, <1>4, <2>1, <2>2, <2>3 DEF CreateSession, Serve, TypeOK, Open
<1>5. ASSUME NEW r \in Requests, NEW u \in Users, Login(r, u) \/ SetPasswordWithToken(r, u)
      PROVE  IdsResolve'
  BY <1>0, <1>5, Authenticated DEF Login, SetPasswordWithToken
<1>6. ASSUME NEW r \in Requests, NEW m \in Messages, Flash(r, m) PROVE IdsResolve'
  <2>1. sess' = [sess EXCEPT ![r] = Flashed(sess[r], m)] /\ sess[r] \in Session
    BY <1>0, <1>6 DEF Flash, TypeOK
  <2>2. Flashed(sess[r], m).id = sess[r].id
    BY <2>1 DEF Flashed, Session
  <2> QED BY <1>0, <1>6, <2>1, <2>2 DEF Flash, TypeOK, Open, history
<1>7. ASSUME NEW r \in Requests, InvalidateDelete(r) PROVE IdsResolve'
  <2>1. PICK o \in Outcomes :
          /\ table' = IF o.applied THEN DeleteRow(table, sess[r].id) ELSE table
          /\ revoked' = IF o.applied THEN revoked \cup {sess[r].id} ELSE revoked
          /\ faults' = Counted(o)
    BY <1>7 DEF InvalidateDelete
  <2>2. DOMAIN table' \cup revoked' = DOMAIN table \cup revoked \cup
                                      (IF o.applied THEN {sess[r].id} ELSE {})
    BY <2>1 DEF DeleteRow
  <2>3. faults' = 0 => faults = 0
    BY <1>0, <2>1, Counting
  <2> QED BY <1>0, <1>7, <2>2, <2>3 DEF InvalidateDelete, TypeOK, Open
<1>8. ASSUME NEW r \in Requests, InvalidateReissue(r) PROVE IdsResolve'
  <2>1. PICK id \in Ids \ issued, o \in Outcomes :
          /\ sess' = [sess EXCEPT ![r] = Reissued(sess[r], id)]
          /\ table' = IF o.applied THEN InsertRow(table, id, EmptyRow) ELSE table
          /\ faults' = Counted(o)
    BY <1>8 DEF InvalidateReissue
  <2>2. (faults' = 0 => faults = 0 /\ o.applied) /\ Reissued(sess[r], id).id = id
    BY <1>0, <2>1, Counting DEF Reissued, EmptySession
  <2>3. faults' = 0 => faults = 0 /\ DOMAIN table' = DOMAIN table \cup {id}
    BY <2>1, <2>2 DEF InsertRow
  <2> QED
    BY <1>0, <1>8, <2>1, <2>2, <2>3 DEF InvalidateReissue, TypeOK, Open
<1>9. ASSUME NEW r \in Requests, NEW o \in Outcomes, Save(r, o), pc[r] = "serve"
      PROVE  /\ DOMAIN table' = DOMAIN table
             /\ revoked' = revoked
             /\ faults' = 0 => faults = 0
             /\ header' = [header EXCEPT ![r] = sess[r].id]
  <2>1. DOMAIN table' = DOMAIN table
    BY <1>9 DEF Save, UpdateRow
  <2>2. header' = [header EXCEPT ![r] = sess[r].id]
    BY <1>0, <1>9 DEF Save, SavedCookie, TypeOK
  <2>3. faults' = 0 => faults = 0
    BY <1>0, <1>9, Counting DEF Save
  <2> QED BY <1>9, <2>1, <2>2, <2>3 DEF Save
<1>10. ASSUME NEW r \in Requests, Write(r) PROVE IdsResolve'
  <2>1. PICK o \in Outcomes :
          Save(r, o) /\ sess' = [sess EXCEPT ![r] = AfterSave(@, o.ok)]
    BY <1>10 DEF Write
  <2>2. AfterSave(sess[r], o.ok).id = sess[r].id
    BY <1>0 DEF AfterSave, TypeOK, Session
  <2>3. /\ DOMAIN table' = DOMAIN table
        /\ revoked' = revoked
        /\ faults' = 0 => faults = 0
        /\ header' = [header EXCEPT ![r] = sess[r].id]
    BY <1>9, <1>10, <2>1 DEF Write
  <2> QED BY <1>0, <1>10, <2>1, <2>2, <2>3 DEF Write, TypeOK, Open
<1>11. ASSUME NEW r \in Requests, FinishUnsaved(r) PROVE IdsResolve'
  <2>1. /\ DOMAIN table' = DOMAIN table
        /\ revoked' = revoked
        /\ faults' = 0 => faults = 0
        /\ header' = [header EXCEPT ![r] = sess[r].id]
    BY <1>9, <1>11 DEF FinishUnsaved
  <2> QED BY <1>0, <1>11, <2>1 DEF FinishUnsaved, TypeOK, Open
<1>12. ASSUME NEW r \in Requests, FinishOrPanic(r) PROVE IdsResolve'
  BY <1>0, <1>12 DEF FinishOrPanic, TypeOK, Open, history
<1>13. ASSUME NEW S \in SUBSET Requests, Gone(S) PROVE IdsResolve'
  BY <1>0, <1>13 DEF Gone, TypeOK, Open
<1>14. ASSUME NEW r \in Requests, Deliver(r) \/ Lose(r) PROVE IdsResolve'
  BY <1>13, <1>14 DEF Deliver, Lose
<1>15. CASE Restart
  BY <1>13, <1>15 DEF Restart
<1>16. CASE UNCHANGED vars
  BY <1>16 DEF vars, Open
<1> QED
  BY <1>1, <1>2, <1>3, <1>4, <1>5, <1>6, <1>7, <1>8, <1>10, <1>11, <1>12, <1>14,
     <1>15, <1>16 DEF Next, Handler

\* src/session/sessions.go load and save: the id a response announces is one
\* the next request can load, or one that was logged out of.
THEOREM AnnouncedIdsResolve == Spec => []CookieResolves
<1>1. Init => IdsResolve
  BY DEF Init, IdsResolve, Open
<1>2. IdsResolve => CookieResolves
  BY DEF IdsResolve, CookieResolves, Known
<1> QED
  BY InitSafe, NextSafe, NextResolve, <1>1, <1>2, PTL DEF Spec

=============================================================================
