------------------------- MODULE ApplicationProofs -------------------------
(***************************************************************************)
(* The parts of the application, for any values of the constants: one      *)
(* account for an email and one password for a token, what is stale in the *)
(* cache, whom a Broadcast reaches, rows and their files, how many pass in *)
(* a window, which middlewares a route runs, which forms are refused.      *)
(*                                                                         *)
(* Each part has an inductive invariant of its own over its own variables; *)
(* the last section puts them together, a step of the application being a  *)
(* step of the part it is about.                                           *)
(***************************************************************************)
EXTENDS Application, RoutingProofs, SequenceTheorems, WellFoundedInduction, TLAPS

-----------------------------------------------------------------------------
(* Accounts.                                                               *)

\* What of the types the properties rest on.
AccountsShapes ==
    /\ users \in [Accounts!Ids -> Accounts!RowType \cup {None}]
    /\ DOMAIN at = Requests
    /\ copy \in [Requests -> Accounts!RowType \cup {None}]
    /\ edit = None \/ edit \in [loaded : Accounts!RowType, row : Accounts!RowType]
    /\ issued \subseteq Tokens
    /\ spent \in [Accounts!Posted -> SUBSET Requests]
    /\ raced \subseteq Requests

CallsOK ==
    \A r \in Requests :
        call[r].email \in Emails /\ (call[r].do = "set password" => call[r].token \in Accounts!Posted)

SignsUp(r) == call[r].do = "sign up"
HasRow(r) == at[r] \in {"inserted", "unread", "created"}

\* Where a request is fits what it has asked for; it has a copy when it has
\* loaded one, of the token that it has.
PlacesFit ==
    \A r \in Requests :
        /\ at[r] \in {"free", "inserted", "unread", "created"} => SignsUp(r)
        /\ SignsUp(r) => at[r] \notin {"loaded", "shown", "found", "set", "failed"}
        /\ at[r] = "loaded" => copy[r] # None
        /\ at[r] = "found" =>
             copy[r] # None /\ call[r].do = "set password" /\ copy[r].token = call[r].token

\* A row is stored under its email, and one that was copied is still there.
AccountsKeyed ==
    /\ \A i \in Accounts!Ids : users[i] # None => users[i].email = i
    /\ \A r \in Requests : copy[r] # None => users[copy[r].email] # None
    /\ edit # None => users[edit.row.email] # None /\ edit.loaded.email = edit.row.email

\* A request that has inserted its row is the only one, and nobody has a row
\* or a copy with the password of one that has not.
Inserters ==
    /\ \A r \in Requests : HasRow(r) =>
         /\ users[call[r].email] # None
         /\ \A q \in Requests \ {r} : HasRow(q) => call[q].email # call[r].email
    /\ \A r \in Requests : SignsUp(r) /\ ~HasRow(r) =>
         /\ \A i \in Accounts!Ids : users[i] # None => users[i].password # r
         /\ edit # None => edit.row.password # r

\* p is r, or has set the password of the account that r has made.
Owns(r, p) == p = r \/ (p \in Requests /\ Accounts!HasSet(p, call[r].email))
OwnsNext(r, p) ==
    \/ p = r
    \/ p \in Requests /\ at'[p] = "set" /\ copy'[p].email = call'[r].email /\ copy'[p].token = call'[p].token

\* An account has the password of its inserter, or of somebody who has set it,
\* in the table and in the copy an edit will store.
Untouched ==
    \A r \in Requests : HasRow(r) =>
        /\ Owns(r, users[call[r].email].password)
        /\ edit # None /\ edit.row.email = call[r].email => Owns(r, edit.row.password)

SignUpInv == AccountsShapes /\ CallsOK /\ PlacesFit /\ AccountsKeyed /\ Inserters /\ Untouched

-----------------------------------------------------------------------------
(* Signing up.                                                             *)

LEMMA SignUpInit == ASSUME Accounts!Init PROVE SignUpInv
<1> USE AccountsAssumption DEF Accounts!Init, Accounts!Ids
<1>1. AccountsShapes
  BY DEF AccountsShapes, Accounts!Posted
<1>2. CallsOK
  BY DEF CallsOK, Accounts!Posted
<1>3. PlacesFit /\ AccountsKeyed /\ Inserters /\ Untouched
  BY DEF PlacesFit, AccountsKeyed, Inserters, Untouched, HasRow, SignsUp
<1> QED BY <1>1, <1>2, <1>3 DEF SignUpInv

\* A row that is stored or copied has a row's type.
LEMMA ShapesHold == ASSUME SignUpInv, [Accounts!Next]_(Accounts!vars) PROVE AccountsShapes'
<1> USE DEF Accounts!Goes, Accounts!Starts, Accounts!Ids
<1>0. AccountsShapes /\ CallsOK /\ PlacesFit
  BY DEF SignUpInv
<1>1. ASSUME NEW r \in Requests, Accounts!SignUp(r) \/ Accounts!Welcome(r) \/ Accounts!Activate(r) \/ Accounts!Password(r) PROVE AccountsShapes'
  BY <1>0, <1>1 DEF AccountsShapes, Accounts!SignUp, Accounts!Welcome, Accounts!Activate, Accounts!Password
<1>2. ASSUME NEW r \in Requests, Accounts!Insert(r) PROVE AccountsShapes'
  <2>1. Accounts!Id(r) \in Accounts!Ids /\ Accounts!NewRow(call[r].email, r, NoToken) \in Accounts!RowType
    BY <1>0 DEF CallsOK, Accounts!Id, Accounts!NewRow, Accounts!RowType
  <2>2. users' \in [Accounts!Ids -> Accounts!RowType \cup {None}]
    BY <1>0, <1>2, <2>1 DEF AccountsShapes, Accounts!Insert, Accounts!Inserted
  <2> QED BY <1>0, <1>2, <2>2 DEF AccountsShapes, Accounts!Insert
<1>3. ASSUME NEW r \in Requests, Accounts!LogIn(r) \/ Accounts!FindToken(r) PROVE AccountsShapes'
  <2>1. copy' \in [Requests -> Accounts!RowType \cup {None}]
    BY <1>0, <1>3 DEF AccountsShapes, Accounts!LogIn, Accounts!FindToken, Accounts!Loads,
       Accounts!WithEmail, Accounts!WithToken, Accounts!Rows
  <2> QED BY <1>0, <1>3, <2>1 DEF AccountsShapes, Accounts!LogIn, Accounts!FindToken
<1>4. ASSUME NEW r \in Requests, Accounts!SetPassword(r) PROVE AccountsShapes'
  <2>1. copy[r] \in Accounts!RowType /\ call[r].token \in Accounts!Posted
    BY <1>0, <1>4 DEF AccountsShapes, Accounts!SetPassword, PlacesFit, CallsOK
  <2>2. Accounts!ClearActivationToken([copy[r] EXCEPT !.password = r]) \in Accounts!RowType
    BY <2>1 DEF Accounts!ClearActivationToken, Accounts!RowType
  <2>3. users' \in [Accounts!Ids -> Accounts!RowType \cup {None}]
    BY <1>0, <1>4, <2>1, <2>2 DEF AccountsShapes, Accounts!SetPassword
  <2>4. spent' \in [Accounts!Posted -> SUBSET Requests] /\ raced' \subseteq Requests
    BY <1>0, <1>4, <2>1 DEF AccountsShapes, Accounts!SetPassword
  <2> QED BY <1>0, <1>4, <2>3, <2>4 DEF AccountsShapes, Accounts!SetPassword
<1>5. ASSUME NEW e \in Emails, NEW t \in Tokens, Accounts!Invite(e, t) PROVE AccountsShapes'
  <2>1. Accounts!NewRow(e, None, t) \in Accounts!RowType
    BY DEF Accounts!NewRow, Accounts!RowType
  <2> QED BY <1>0, <1>5, <2>1 DEF AccountsShapes, Accounts!Invite
<1>6. ASSUME NEW i \in Accounts!Rows, Accounts!EditLoad(i) PROVE AccountsShapes'
  <2>1. users[i] \in Accounts!RowType
    BY <1>0 DEF AccountsShapes, Accounts!Rows
  <2>2. \A t \in Tokens : [users[i] EXCEPT !.token = t] \in Accounts!RowType
    BY <2>1 DEF Accounts!RowType
  <2>3. edit' \in [loaded : Accounts!RowType, row : Accounts!RowType] /\ issued' \subseteq Tokens
    BY <1>0, <1>6, <2>1, <2>2 DEF AccountsShapes, Accounts!EditLoad
  <2> QED BY <1>0, <1>6, <2>3 DEF AccountsShapes, Accounts!EditLoad
<1>7. ASSUME Accounts!EditStore PROVE AccountsShapes'
  <2>1. edit.row \in Accounts!RowType /\ edit.row.email \in Accounts!Ids
    BY <1>0, <1>7 DEF AccountsShapes, Accounts!EditStore, Accounts!RowType
  <2> QED BY <1>0, <1>7, <2>1 DEF AccountsShapes, Accounts!EditStore
<1>8. ASSUME UNCHANGED Accounts!vars PROVE AccountsShapes'
  BY <1>0, <1>8 DEF AccountsShapes, Accounts!vars
<1> QED BY <1>1, <1>2, <1>3, <1>4, <1>5, <1>6, <1>7, <1>8 DEF Accounts!Next

\* A request that goes to a place of its kind of call, with the copy that it has.
LEMMA PlaceFits ==
    ASSUME AccountsShapes, PlacesFit, NEW r \in Requests, NEW place,
           at' = [at EXCEPT ![r] = place], UNCHANGED <<call, copy>>,
           place \in {"free", "inserted", "unread", "created"} => SignsUp(r),
           SignsUp(r) => place \notin {"shown", "set", "failed"},
           place \notin {"loaded", "found"}
    PROVE  PlacesFit'
<1>1. \A q \in Requests : at'[q] = IF q = r THEN place ELSE at[q]
  BY DEF AccountsShapes
<1> QED BY <1>1 DEF PlacesFit, SignsUp

\* Each action is of one kind of call.
LEMMA PlacesFitHold == ASSUME SignUpInv, [Accounts!Next]_(Accounts!vars) PROVE PlacesFit'
<1> USE DEF Accounts!Goes, Accounts!Starts, PlacesFit, SignsUp
<1>0. AccountsShapes /\ PlacesFit
  BY DEF SignUpInv
<1>1. ASSUME NEW r \in Requests, Accounts!SignUp(r) \/ Accounts!Welcome(r) PROVE PlacesFit'
  <2>1. PICK place \in {"redirected", "refused", "free", "created"} :
          at' = [at EXCEPT ![r] = place] /\ UNCHANGED <<call, copy>>
    BY <1>1 DEF Accounts!SignUp, Accounts!Welcome
  <2>2. SignsUp(r)
    BY <1>0, <1>1 DEF Accounts!SignUp, Accounts!Welcome
  <2> QED BY <1>0, <2>1, <2>2, PlaceFits
<1>2. ASSUME NEW r \in Requests, Accounts!Activate(r) PROVE PlacesFit'
  BY <1>0, <1>2 DEF AccountsShapes, Accounts!Activate
<1>3. ASSUME NEW r \in Requests, Accounts!Password(r) PROVE PlacesFit'
  <2>1. PICK place \in {"signed in", "refused"} : at' = [at EXCEPT ![r] = place] /\ UNCHANGED <<call, copy>>
    BY <1>3 DEF Accounts!Password
  <2> QED BY <1>0, <2>1, PlaceFits
<1>4. ASSUME NEW r \in Requests, Accounts!Insert(r) PROVE PlacesFit'
  BY <1>0, <1>4 DEF AccountsShapes, Accounts!Insert
<1>5. ASSUME NEW r \in Requests, Accounts!LogIn(r) PROVE PlacesFit'
  <2>1. CASE copy' = copy /\ \/ Accounts!Goes(r, "redirected") \/ Accounts!Goes(r, "refused") \/ Accounts!Goes(r, "failed")
    <3>1. PICK place \in {"redirected", "refused", "failed"} : at' = [at EXCEPT ![r] = place] /\ UNCHANGED <<call, copy>>
      BY <1>5, <2>1 DEF Accounts!LogIn
    <3>2. ~ SignsUp(r)
      BY <1>5 DEF Accounts!LogIn
    <3> QED BY <1>0, <3>1, <3>2, PlaceFits
  <2>2. CASE \E i \in Accounts!WithEmail(call[r].email) : Accounts!Loads(r, i) /\ Accounts!Goes(r, "loaded")
    <3>1. copy' = [copy EXCEPT ![r] = copy'[r]] /\ copy'[r] # None
      BY <1>0, <2>2 DEF AccountsShapes, Accounts!Loads, Accounts!WithEmail, Accounts!Rows
    <3>2. call' = call /\ call[r].do = "log in"
      BY <1>5 DEF Accounts!LogIn
    <3>3. at' = [at EXCEPT ![r] = "loaded"]
      BY <2>2
    <3>4. \A q \in Requests \ {r} : at'[q] = at[q] /\ copy'[q] = copy[q]
      BY <1>0, <3>1, <3>3 DEF AccountsShapes
    <3>5. at'[r] = "loaded"
      BY <1>0, <3>3 DEF AccountsShapes
    <3> QED BY <1>0, <3>1, <3>2, <3>4, <3>5
  <2> QED BY <1>5, <2>1, <2>2 DEF Accounts!LogIn
<1>6. ASSUME NEW r \in Requests, Accounts!FindToken(r) PROVE PlacesFit'
  <2>1. CASE copy' = copy /\ (Accounts!Goes(r, "refused") \/ Accounts!Goes(r, "failed"))
    BY <1>0, <1>6, <2>1 DEF AccountsShapes, Accounts!FindToken
  <2>2. CASE \E i \in Accounts!WithToken(call[r].token) : Accounts!Loads(r, i) /\ Accounts!Goes(r, "found")
    <3>1. copy' = [copy EXCEPT ![r] = copy'[r]] /\ copy'[r] # None /\ copy'[r].token = call[r].token
      BY <1>0, <2>2 DEF AccountsShapes, Accounts!Loads, Accounts!WithToken, Accounts!Rows
    <3>2. call' = call /\ call[r].do = "set password"
      BY <1>6 DEF Accounts!FindToken
    <3>3. at' = [at EXCEPT ![r] = "found"]
      BY <2>2
    <3>4. \A q \in Requests \ {r} : at'[q] = at[q] /\ copy'[q] = copy[q]
      BY <1>0, <3>1, <3>3 DEF AccountsShapes
    <3>5. at'[r] = "found"
      BY <1>0, <3>3 DEF AccountsShapes
    <3> QED BY <1>0, <3>1, <3>2, <3>4, <3>5
  <2> QED BY <1>6, <2>1, <2>2 DEF Accounts!FindToken
<1>7. ASSUME NEW r \in Requests, Accounts!SetPassword(r) PROVE PlacesFit'
  BY <1>0, <1>7 DEF AccountsShapes, Accounts!SetPassword
<1>8. ASSUME NEW e \in Emails, NEW t \in Tokens, Accounts!Invite(e, t) PROVE PlacesFit'
  BY <1>0, <1>8 DEF Accounts!Invite
<1>9. ASSUME NEW i \in Accounts!Rows, Accounts!EditLoad(i) PROVE PlacesFit'
  BY <1>0, <1>9 DEF Accounts!EditLoad
<1>10. ASSUME Accounts!EditStore PROVE PlacesFit'
  BY <1>0, <1>10 DEF Accounts!EditStore
<1>11. ASSUME UNCHANGED Accounts!vars PROVE PlacesFit'
  BY <1>0, <1>11 DEF Accounts!vars
<1> QED BY <1>1, <1>2, <1>3, <1>4, <1>5, <1>6, <1>7, <1>8, <1>9, <1>10, <1>11 DEF Accounts!Next

\* A row that is written under its own email leaves every row where it is.
LEMMA WriteKeeps ==
    ASSUME AccountsShapes, AccountsKeyed, NEW e \in Accounts!Ids, NEW row, row # None, row.email = e,
           users' = [users EXCEPT ![e] = row], copy' = copy, edit' = edit \/ edit' = None
    PROVE  AccountsKeyed'
<1>1. \A i \in Accounts!Ids : users'[i] # None => users'[i].email = i
  BY DEF AccountsShapes, AccountsKeyed
<1>2. \A i \in Accounts!Ids : users[i] # None => users'[i] # None
  BY DEF AccountsShapes
<1>3. /\ \A q \in Requests : copy[q] # None => copy[q].email \in Accounts!Ids
      /\ edit # None => edit.row.email \in Accounts!Ids
  BY DEF AccountsShapes, Accounts!RowType, Accounts!Ids
<1> QED BY <1>1, <1>2, <1>3 DEF AccountsKeyed

\* The rows that are written (users.go, schema.go:42-57).
LEMMA NewRowTyped ==
    ASSUME NEW e \in Emails, NEW p \in Requests \cup {None}, NEW t \in Tokens \cup {NoToken}
    PROVE  /\ Accounts!NewRow(e, p, t) \in Accounts!RowType /\ Accounts!NewRow(e, p, t) # None
           /\ Accounts!NewRow(e, p, t).email = e /\ Accounts!NewRow(e, p, t).password = p /\ Accounts!NewRow(e, p, t).token = t
<1>1. Accounts!NewRow(e, p, t) \in Accounts!RowType
  BY DEF Accounts!NewRow, Accounts!RowType
<1> QED BY AccountsAssumption, <1>1 DEF Accounts!NewRow
LEMMA Cleared ==
    ASSUME NEW row \in Accounts!RowType, NEW r \in Requests
    PROVE  LET new == Accounts!ClearActivationToken([row EXCEPT !.password = r])
           IN  /\ new \in Accounts!RowType /\ new # None
               /\ new.email = row.email /\ new.password = r /\ new.token = NoToken
<1> DEFINE new == Accounts!ClearActivationToken([row EXCEPT !.password = r])
<1>1. new \in Accounts!RowType /\ new.email = row.email /\ new.password = r /\ new.token = NoToken
  BY DEF Accounts!ClearActivationToken, Accounts!RowType
<1> QED BY AccountsAssumption, <1>1
\* Rows stay, and what is written is under its own email.
LEMMA KeyedHolds == ASSUME SignUpInv, [Accounts!Next]_(Accounts!vars) PROVE AccountsKeyed'
<1>0. AccountsShapes /\ CallsOK /\ PlacesFit /\ AccountsKeyed
  BY DEF SignUpInv
<1>1. ASSUME NEW r \in Requests, Accounts!SignUp(r) \/ Accounts!Welcome(r) \/ Accounts!Activate(r) \/ Accounts!Password(r) PROVE AccountsKeyed'
  <2>1. UNCHANGED <<users, copy, edit>>
    BY <1>1 DEF Accounts!SignUp, Accounts!Welcome, Accounts!Activate, Accounts!Password
  <2> QED BY <1>0, <2>1 DEF AccountsKeyed
<1>2. ASSUME NEW r \in Requests, Accounts!Insert(r) PROVE AccountsKeyed'
  <2>1. UNCHANGED <<copy, edit>>
    BY <1>2 DEF Accounts!Insert
  <2>2. CASE users' = users
    BY <1>0, <2>1, <2>2 DEF AccountsKeyed
  <2>3. CASE Accounts!Inserted(r)
    <3>1. call[r].email \in Accounts!Ids
      BY <1>0 DEF CallsOK, Accounts!Ids
    <3>2. users' = [users EXCEPT ![call[r].email] = Accounts!NewRow(call[r].email, r, NoToken)]
      BY <2>3 DEF Accounts!Inserted, Accounts!Id
    <3>3. /\ Accounts!NewRow(call[r].email, r, NoToken) # None
          /\ Accounts!NewRow(call[r].email, r, NoToken).email = call[r].email
      BY <3>1, NewRowTyped DEF Accounts!Ids
    <3> QED BY <1>0, <2>1, <3>1, <3>2, <3>3, WriteKeeps
  <2> QED BY <1>2, <2>2, <2>3 DEF Accounts!Insert
<1>3. ASSUME NEW r \in Requests, Accounts!LogIn(r) \/ Accounts!FindToken(r) PROVE AccountsKeyed'
  <2>1. UNCHANGED <<users, edit>>
    BY <1>3 DEF Accounts!LogIn, Accounts!FindToken
  <2>2. CASE copy' = copy
    BY <1>0, <2>1, <2>2 DEF AccountsKeyed
  <2>3. CASE \E i \in Accounts!Rows : Accounts!Loads(r, i)
    <3>1. PICK i \in Accounts!Ids : users[i] # None /\ copy' = [copy EXCEPT ![r] = users[i]]
      BY <2>3 DEF Accounts!Rows, Accounts!Loads
    <3>2. \A q \in Requests : copy'[q] # None => users[copy'[q].email] # None
      BY <1>0, <3>1 DEF AccountsShapes, AccountsKeyed
    <3> QED BY <1>0, <2>1, <3>2 DEF AccountsKeyed
  <2> QED BY <1>3, <2>2, <2>3 DEF Accounts!LogIn, Accounts!FindToken, Accounts!WithEmail, Accounts!WithToken
<1>4. ASSUME NEW r \in Requests, Accounts!SetPassword(r) PROVE AccountsKeyed'
  <2>1. UNCHANGED <<copy, edit>>
    BY <1>4 DEF Accounts!SetPassword
  <2>2. CASE users' = users
    BY <1>0, <2>1, <2>2 DEF AccountsKeyed
  <2>3. CASE users' = [users EXCEPT ![copy[r].email] = Accounts!ClearActivationToken([copy[r] EXCEPT !.password = r])]
    <3>1. copy[r] \in Accounts!RowType /\ copy[r].email \in Accounts!Ids
      BY <1>0, <1>4 DEF Accounts!SetPassword, AccountsShapes, PlacesFit, Accounts!RowType, Accounts!Ids
    <3> QED BY <1>0, <2>1, <2>3, <3>1, WriteKeeps, Cleared
  <2> QED BY <1>4, <2>2, <2>3 DEF Accounts!SetPassword
<1>5. ASSUME NEW e \in Emails, NEW t \in Tokens, Accounts!Invite(e, t) PROVE AccountsKeyed'
  <2>1. users' = [users EXCEPT ![e] = Accounts!NewRow(e, None, t)] /\ UNCHANGED <<copy, edit>>
    BY <1>5 DEF Accounts!Invite
  <2>2. Accounts!NewRow(e, None, t) # None /\ Accounts!NewRow(e, None, t).email = e
    BY NewRowTyped
  <2>3. e \in Accounts!Ids
    BY DEF Accounts!Ids
  <2> QED BY <1>0, <2>1, <2>2, <2>3, WriteKeeps
<1>6. ASSUME NEW i \in Accounts!Rows, Accounts!EditLoad(i) PROVE AccountsKeyed'
  <2>1. users[i] \in Accounts!RowType /\ users[i] # None /\ i \in Accounts!Ids /\ users[i].email = i
    BY <1>0 DEF AccountsShapes, Accounts!Rows, AccountsKeyed
  <2>2. \A t \in Tokens : [users[i] EXCEPT !.token = t].email = i
    BY <2>1 DEF Accounts!RowType
  <2>3. PICK row : edit' = [loaded |-> users[i], row |-> row] /\ row.email = i
    BY <1>6, <2>1, <2>2 DEF Accounts!EditLoad
  <2>4. edit'.loaded = users[i] /\ edit'.row.email = i /\ UNCHANGED <<users, copy>>
    BY <1>6, <2>3 DEF Accounts!EditLoad
  <2> QED BY <1>0, <2>1, <2>4 DEF AccountsKeyed
<1>7. ASSUME Accounts!EditStore PROVE AccountsKeyed'
  <2>1. edit.row # None /\ edit.row.email \in Accounts!Ids
    BY AccountsAssumption, <1>0, <1>7 DEF AccountsShapes, Accounts!EditStore, Accounts!RowType, Accounts!Ids
  <2> QED BY <1>0, <1>7, <2>1, WriteKeeps DEF Accounts!EditStore
<1>8. ASSUME UNCHANGED Accounts!vars PROVE AccountsKeyed'
  BY <1>0, <1>8 DEF Accounts!vars, AccountsKeyed
<1> QED BY <1>1, <1>2, <1>3, <1>4, <1>5, <1>6, <1>7, <1>8 DEF Accounts!Next

\* The calls do not change.
LEMMA CallsHold == ASSUME SignUpInv, [Accounts!Next]_(Accounts!vars) PROVE CallsOK' /\ call' = call
<1>1. call' = call
  BY DEF Accounts!Next, Accounts!vars, Accounts!SignUp, Accounts!Insert, Accounts!Welcome, Accounts!LogIn,
     Accounts!Password, Accounts!Activate, Accounts!FindToken, Accounts!SetPassword, Accounts!Invite,
         Accounts!EditLoad, Accounts!EditStore
<1> QED BY <1>1 DEF SignUpInv, CallsOK

\* A password that has been set was set whatever happens next.
LEMMA OwnsStays ==
    ASSUME SignUpInv, [Accounts!Next]_(Accounts!vars), NEW r \in Requests, NEW p, Owns(r, p)
    PROVE  OwnsNext(r, p)
<1>0. AccountsShapes /\ call' = call
  BY CallsHold DEF SignUpInv
<1>1. ASSUME NEW q \in Requests, at[q] = "set" PROVE at'[q] = "set" /\ copy'[q] = copy[q]
  <2>1. ASSUME NEW m \in Requests,
               Accounts!SignUp(m) \/ Accounts!Insert(m) \/ Accounts!Welcome(m) \/ Accounts!LogIn(m) \/ Accounts!Password(m)
        PROVE  at'[q] = "set" /\ copy'[q] = copy[q]
    BY <1>0, <1>1, <2>1 DEF AccountsShapes, Accounts!Goes, Accounts!Starts, Accounts!Loads, Accounts!SignUp,
       Accounts!Insert, Accounts!Welcome, Accounts!LogIn, Accounts!Password
  <2>2. ASSUME NEW m \in Requests, Accounts!Activate(m) \/ Accounts!FindToken(m) \/ Accounts!SetPassword(m)
        PROVE  at'[q] = "set" /\ copy'[q] = copy[q]
    BY <1>0, <1>1, <2>2 DEF AccountsShapes, Accounts!Goes, Accounts!Starts, Accounts!Loads, Accounts!Activate,
       Accounts!FindToken, Accounts!SetPassword
  <2>3. ASSUME \/ \E e \in Emails, t \in Tokens : Accounts!Invite(e, t)
               \/ \E i \in Accounts!Rows : Accounts!EditLoad(i)
               \/ Accounts!EditStore
               \/ UNCHANGED Accounts!vars
        PROVE  UNCHANGED <<at, copy>>
    BY <2>3 DEF Accounts!Invite, Accounts!EditLoad, Accounts!EditStore, Accounts!vars
  <2> QED BY <1>1, <2>1, <2>2, <2>3 DEF Accounts!Next
<1> QED BY <1>0, <1>1 DEF Owns, OwnsNext, Accounts!HasSet

\* Who has inserted a row stays the same in every step but Insert.
LEMMA QuietKeeps ==
    ASSUME SignUpInv, [Accounts!Next]_(Accounts!vars), UNCHANGED <<users, edit, call>>,
           \A q \in Requests : HasRow(q)' <=> HasRow(q)
    PROVE  Inserters' /\ Untouched'
<1>0. Inserters /\ Untouched
  BY DEF SignUpInv
<1>1. \A q \in Requests : SignsUp(q)' <=> SignsUp(q)
  BY DEF SignsUp
<1>2. Inserters'
  BY <1>0, <1>1 DEF Inserters
<1>4. ASSUME NEW q \in Requests, NEW p, Owns(q, p) PROVE OwnsNext(q, p)
  BY <1>4, OwnsStays
<1>3. Untouched'
  BY <1>0, <1>4 DEF Untouched, Owns, OwnsNext, Accounts!HasSet
<1> QED BY <1>2, <1>3

\* An insert finds no row (the primary key), hence no other inserter of the
\* email and no edit of it.
LEMMA InsertSigns ==
    ASSUME SignUpInv, NEW r \in Requests, Accounts!Insert(r), users' # users,
           [Accounts!Next]_(Accounts!vars)
    PROVE  Inserters' /\ Untouched'
<1> DEFINE e == call[r].email
           row == Accounts!NewRow(e, r, NoToken)
<1>0. AccountsShapes /\ CallsOK /\ PlacesFit /\ AccountsKeyed /\ Inserters /\ Untouched
  BY DEF SignUpInv
<1>1. e \in Accounts!Ids /\ users[e] = None /\ users' = [users EXCEPT ![e] = row]
  BY <1>0 DEF Accounts!Insert, Accounts!Inserted, Accounts!Id, Accounts!Rows, CallsOK, Accounts!Ids
<1>2. row # None /\ row.password = r
  <2>1. e \in Emails
    BY <1>0 DEF CallsOK
  <2> HIDE DEF e
  <2> QED BY <2>1, NewRowTyped
<1>3. UNCHANGED <<call, edit>>
  BY DEF Accounts!Insert
<1>4. HasRow(r)' /\ SignsUp(r) /\ \A q \in Requests \ {r} : HasRow(q)' <=> HasRow(q)
  BY <1>0 DEF Accounts!Insert, Accounts!Goes, AccountsShapes, HasRow, PlacesFit
<1> HIDE DEF e, row
<1>5. users'[e] = row /\ \A i \in Accounts!Ids \ {e} : users'[i] = users[i]
  BY <1>0, <1>1 DEF AccountsShapes
<1>6. \A q \in Requests \ {r} : HasRow(q) => call[q].email # e /\ call[q].email \in Accounts!Ids
  BY <1>0, <1>1 DEF Inserters, CallsOK, Accounts!Ids
<1>7. edit # None => edit.row.email # e
  BY <1>0, <1>1 DEF AccountsKeyed
<1>8. \A q \in Requests : SignsUp(q)' <=> SignsUp(q)
  BY <1>3 DEF SignsUp
<1>9. call[r].email = e
  BY DEF e
<1>10. Inserters'
  <2>1. \A q \in Requests : HasRow(q)' =>
          /\ users'[call[q].email] # None
          /\ \A p \in Requests \ {q} : HasRow(p)' => call[p].email # call[q].email
    BY <1>0, <1>2, <1>4, <1>5, <1>6, <1>9 DEF Inserters
  <2>2. \A q \in Requests : SignsUp(q) /\ ~HasRow(q)' => \A i \in Accounts!Ids : users'[i] # None => users'[i].password # q
    BY <1>0, <1>2, <1>4, <1>5 DEF Inserters
  <2>3. \A q \in Requests : SignsUp(q) /\ ~HasRow(q)' /\ edit # None => edit.row.password # q
    BY <1>0, <1>4 DEF Inserters
  <2> QED BY <1>3, <1>8, <2>1, <2>2, <2>3 DEF Inserters
<1>11. Untouched'
  <2>1. ASSUME NEW q \in Requests, HasRow(q)'
        PROVE  /\ OwnsNext(q, users'[call[q].email].password)
               /\ edit # None /\ edit.row.email = call[q].email => OwnsNext(q, edit.row.password)
    <3>1. CASE q = r
      <4>1. users'[call[q].email].password = q
        BY <1>2, <1>5, <1>9, <3>1
      <4> QED BY <1>7, <1>9, <3>1, <4>1 DEF OwnsNext
    <3>2. CASE q # r
      <4>1. /\ Owns(q, users[call[q].email].password)
            /\ edit # None /\ edit.row.email = call[q].email => Owns(q, edit.row.password)
        BY <1>0, <1>4, <2>1, <3>2 DEF Untouched
      <4>2. users'[call[q].email] = users[call[q].email]
        BY <1>4, <1>5, <1>6, <2>1, <3>2
      <4> QED BY <1>3, <4>1, <4>2, OwnsStays
    <3> QED BY <3>1, <3>2
  <2> QED BY <1>3, <2>1 DEF Untouched, Owns, OwnsNext, Accounts!HasSet
<1> QED BY <1>10, <1>11

\* A row that is written over a row, or that nobody has inserted.
LEMMA WriteSigns ==
    ASSUME AccountsShapes, CallsOK, Inserters, NEW e \in Accounts!Ids, NEW row, row # None, users' = [users EXCEPT ![e] = row],
           UNCHANGED call, edit' = edit \/ edit' = None,
           \A q \in Requests : HasRow(q)' <=> HasRow(q),
           \A q \in Requests : SignsUp(q) /\ ~HasRow(q) => row.password # q
    PROVE  Inserters'
<1>1. \A q \in Requests : SignsUp(q)' <=> SignsUp(q)
  BY DEF SignsUp
<1>2. users'[e] = row /\ \A i \in Accounts!Ids \ {e} : users'[i] = users[i]
  BY DEF AccountsShapes
<1>3. \A q \in Requests : call[q].email \in Accounts!Ids
  BY DEF CallsOK, Accounts!Ids
<1>4. \A q \in Requests : HasRow(q) => users'[call[q].email] # None
  BY <1>2, <1>3 DEF Inserters
<1>5. \A q \in Requests : SignsUp(q) /\ ~HasRow(q) => \A i \in Accounts!Ids : users'[i] # None => users'[i].password # q
  BY <1>2 DEF Inserters
<1> QED BY <1>1, <1>4, <1>5 DEF Inserters

\* In every step: the email of an inserter is its own, and its password too
\* until another has been set.
LEMMA InsertersHold == ASSUME SignUpInv, [Accounts!Next]_(Accounts!vars) PROVE Inserters' /\ Untouched'
<1>0. AccountsShapes /\ CallsOK /\ PlacesFit /\ AccountsKeyed /\ Inserters /\ Untouched
  BY DEF SignUpInv
<1>00. ASSUME NEW q \in Requests, NEW p, Owns(q, p) PROVE OwnsNext(q, p)
  BY <1>00, OwnsStays
<1>1. ASSUME NEW r \in Requests,
             Accounts!SignUp(r) \/ Accounts!Welcome(r) \/ Accounts!Activate(r) \/ Accounts!Password(r) \/ Accounts!LogIn(r) \/ Accounts!FindToken(r)
      PROVE  Inserters' /\ Untouched'
  <2>1. UNCHANGED <<users, edit, call>>
    BY <1>1 DEF Accounts!SignUp, Accounts!Welcome, Accounts!Activate, Accounts!Password, Accounts!LogIn,
       Accounts!FindToken
  <2>2. CASE Accounts!SignUp(r) \/ Accounts!Welcome(r) \/ Accounts!Activate(r)
    BY <1>0, <2>1, <2>2, QuietKeeps
       DEF Accounts!SignUp, Accounts!Welcome, Accounts!Activate, Accounts!Starts, Accounts!Goes,
       AccountsShapes, HasRow
  <2>3. CASE Accounts!Password(r) \/ Accounts!LogIn(r) \/ Accounts!FindToken(r)
    BY <1>0, <2>1, <2>3, QuietKeeps
       DEF Accounts!Password, Accounts!LogIn, Accounts!FindToken, Accounts!Starts, Accounts!Goes,
       AccountsShapes, HasRow
  <2> QED BY <1>1, <2>2, <2>3
<1>2. ASSUME NEW r \in Requests, Accounts!Insert(r) PROVE Inserters' /\ Untouched'
  <2>1. CASE users' # users
    BY <1>2, <2>1, InsertSigns
  <2>2. CASE users' = users
    <3>1. ~Accounts!Inserted(r) \/ ~(Accounts!Id(r) \notin Accounts!Rows)
      <4> DEFINE e == call[r].email
      <4>0. e \in Accounts!Ids /\ e \in Emails
        BY <1>0 DEF CallsOK, Accounts!Ids
      <4> HIDE DEF e
      <4>1. Accounts!NewRow(e, r, NoToken) # None
        BY <4>0, NewRowTyped
      <4> USE DEF e
      <4> QED BY <1>0, <2>2, <4>0, <4>1 DEF Accounts!Inserted, Accounts!Id, Accounts!Rows, AccountsShapes
    <3>2. Accounts!Goes(r, "refused") /\ at[r] = "free" /\ UNCHANGED <<edit, call>>
      BY <1>2, <3>1 DEF Accounts!Insert
    <3> QED BY <1>0, <2>2, <3>2, QuietKeeps DEF Accounts!Goes, AccountsShapes, HasRow
  <2> QED BY <2>1, <2>2
<1>3. ASSUME NEW r \in Requests, Accounts!SetPassword(r) PROVE Inserters' /\ Untouched'
  <2>1. UNCHANGED <<edit, call>> /\ \A q \in Requests : HasRow(q)' <=> HasRow(q)
    BY <1>0, <1>3 DEF Accounts!SetPassword, Accounts!Goes, AccountsShapes, HasRow
  <2>2. CASE UNCHANGED users
    BY <1>0, <2>1, <2>2, QuietKeeps
  <2>3. CASE /\ users' = [users EXCEPT ![copy[r].email] = Accounts!ClearActivationToken([copy[r] EXCEPT !.password = r])]
             /\ Accounts!Goes(r, "set")
    <3>1. /\ copy[r] \in Accounts!RowType /\ copy[r].email \in Accounts!Ids /\ ~SignsUp(r)
          /\ copy[r].token = call[r].token /\ copy' = copy
      BY <1>0, <1>3 DEF Accounts!SetPassword, AccountsShapes, PlacesFit, Accounts!RowType, Accounts!Ids, SignsUp
    <3>2. /\ Accounts!ClearActivationToken([copy[r] EXCEPT !.password = r]) # None
          /\ Accounts!ClearActivationToken([copy[r] EXCEPT !.password = r]).password = r
      BY <3>1, Cleared
    <3>3. Inserters'
      <4> DEFINE row == Accounts!ClearActivationToken([copy[r] EXCEPT !.password = r])
      <4>1. row # None /\ \A q \in Requests : SignsUp(q) /\ ~HasRow(q) => row.password # q
        BY <3>1, <3>2
      <4>2. users' = [users EXCEPT ![copy[r].email] = row]
        BY <2>3
      <4> HIDE DEF row
      <4> QED BY <1>0, <2>1, <3>1, <4>1, <4>2, WriteSigns
    <3>4. Accounts!HasSet(r, copy[r].email)'
      BY <1>0, <2>1, <2>3, <3>1 DEF AccountsShapes, Accounts!Goes, Accounts!HasSet
    <3>5. \A q \in Requests : call[q].email \in Accounts!Ids
      BY <1>0 DEF CallsOK, Accounts!Ids
    <3>6. ASSUME NEW q \in Requests, HasRow(q)
          PROVE  OwnsNext(q, users'[call[q].email].password)
      <4>1. CASE call[q].email = copy[r].email
        <5>1. users'[call[q].email].password = r
          BY <1>0, <2>3, <3>1, <3>2, <4>1 DEF AccountsShapes
        <5>2. OwnsNext(q, r)
          BY <2>1, <3>1, <3>4, <4>1 DEF OwnsNext, Accounts!HasSet
        <5> QED BY <5>1, <5>2
      <4>2. CASE call[q].email # copy[r].email
        <5>1. users'[call[q].email] = users[call[q].email]
          BY <1>0, <2>3, <3>5, <4>2 DEF AccountsShapes
        <5>2. Owns(q, users[call[q].email].password)
          BY <1>0, <3>6 DEF Untouched
        <5> QED BY <1>00, <5>1, <5>2
      <4> QED BY <4>1, <4>2
    <3>7. Untouched'
      BY <1>0, <1>00, <2>1, <3>6 DEF Untouched, Owns, OwnsNext, Accounts!HasSet
    <3> QED BY <3>3, <3>7
  <2> QED BY <1>3, <2>2, <2>3 DEF Accounts!SetPassword
<1>4. ASSUME NEW e \in Emails, NEW t \in Tokens, Accounts!Invite(e, t) PROVE Inserters' /\ Untouched'
  <2>1. UNCHANGED <<call, edit>> /\ \A q \in Requests : HasRow(q)' <=> HasRow(q)
    BY <1>4 DEF Accounts!Invite, HasRow
  <2>2. e \in Accounts!Ids /\ users[e] = None /\ users' = [users EXCEPT ![e] = Accounts!NewRow(e, None, t)]
    BY <1>4 DEF Accounts!Invite, Accounts!Ids, Accounts!Rows
  <2>3. Accounts!NewRow(e, None, t) # None /\ Accounts!NewRow(e, None, t).password = None
    BY NewRowTyped
  <2>4. Inserters'
    BY AccountsAssumption, <1>0, <2>1, <2>2, <2>3, WriteSigns
  <2>5. \A q \in Requests : HasRow(q) => users'[call[q].email] = users[call[q].email]
    BY <1>0, <2>2 DEF AccountsShapes, Inserters, CallsOK, Accounts!Ids
  <2>6. Untouched'
    BY <1>0, <1>00, <2>1, <2>5 DEF Untouched, Owns, OwnsNext, Accounts!HasSet
  <2> QED BY <2>4, <2>6
<1>5. ASSUME NEW i \in Accounts!Rows, Accounts!EditLoad(i) PROVE Inserters' /\ Untouched'
  <2>1. users[i] \in Accounts!RowType /\ users[i] # None /\ i \in Accounts!Ids /\ users[i].email = i
    BY <1>0 DEF AccountsShapes, Accounts!Rows, AccountsKeyed
  <2>2. \A t \in Tokens : /\ [users[i] EXCEPT !.token = t].email = i
                          /\ [users[i] EXCEPT !.token = t].password = users[i].password
    BY <2>1 DEF Accounts!RowType
  <2>3. PICK row : edit' = [loaded |-> users[i], row |-> row] /\ row.email = i /\ row.password = users[i].password
    BY <1>5, <2>1, <2>2 DEF Accounts!EditLoad
  <2>4. edit'.row.email = i /\ edit'.row.password = users[i].password
    BY <2>3
  <2>5. UNCHANGED <<users, call>> /\ \A q \in Requests : HasRow(q)' <=> HasRow(q)
    BY <1>5 DEF Accounts!EditLoad, HasRow
  <2>6. \A q \in Requests : SignsUp(q)' <=> SignsUp(q)
    BY <2>5 DEF SignsUp
  <2>7. Inserters'
    BY <1>0, <2>1, <2>4, <2>5, <2>6 DEF Inserters
  <2>8. Untouched'
    BY <1>0, <1>00, <2>4, <2>5 DEF Untouched, Owns, OwnsNext, Accounts!HasSet
  <2> QED BY <2>7, <2>8
<1>6. ASSUME Accounts!EditStore PROVE Inserters' /\ Untouched'
  <2>1. edit.row # None /\ edit.row.email \in Accounts!Ids
    BY AccountsAssumption, <1>0, <1>6 DEF AccountsShapes, Accounts!EditStore, Accounts!RowType, Accounts!Ids
  <2>2. /\ edit # None /\ edit' = None /\ users' = [users EXCEPT ![edit.row.email] = edit.row]
        /\ UNCHANGED call /\ \A q \in Requests : HasRow(q)' <=> HasRow(q)
    BY <1>6 DEF Accounts!EditStore, HasRow
  <2>3. Inserters'
    BY <1>0, <2>1, <2>2, WriteSigns DEF Inserters
  <2>4. \A q \in Requests : HasRow(q) =>
          users'[call[q].email] = IF call[q].email = edit.row.email THEN edit.row ELSE users[call[q].email]
    BY <1>0, <2>1, <2>2 DEF AccountsShapes, CallsOK, Accounts!Ids
  <2>5. Untouched'
    BY <1>0, <1>00, <2>2, <2>4 DEF Untouched, Owns, OwnsNext, Accounts!HasSet
  <2> QED BY <2>3, <2>5
<1>7. ASSUME UNCHANGED Accounts!vars PROVE Inserters' /\ Untouched'
  BY <1>0, <1>7, QuietKeeps DEF Accounts!vars, HasRow
<1> QED BY <1>1, <1>2, <1>3, <1>4, <1>5, <1>6, <1>7 DEF Accounts!Next

LEMMA SignUpStep == SignUpInv /\ [Accounts!Next]_(Accounts!vars) => SignUpInv'
BY ShapesHold, CallsHold, PlacesFitHold, KeyedHolds, InsertersHold DEF SignUpInv

\* The types of what the properties do not rest on.
AccountsPlaces ==
    {"start", "free", "inserted", "unread", "created", "loaded", "signed in", "shown",
     "found", "set", "redirected", "refused", "failed"}

AccountsRest ==
    /\ at \in [Requests -> AccountsPlaces]
    /\ user \in [Requests -> Accounts!Ids \cup {None}]
    /\ restored \subseteq Tokens \cup {NoToken}
    /\ faults \in 0..MaxFaults

LEMMA AccountsRestInit == ASSUME Accounts!Init PROVE AccountsRest
<1>1. at \in [Requests -> AccountsPlaces]
  BY DEF Accounts!Init, AccountsPlaces
<1>2. user \in [Requests -> Accounts!Ids \cup {None}] /\ restored = {}
  BY DEF Accounts!Init
<1>3. faults \in 0..MaxFaults
  <2>1. MaxFaults \in Nat
    BY AccountsAssumption
  <2>2. faults = 0
    BY DEF Accounts!Init
  <2> QED BY <2>1, <2>2
<1> QED BY <1>1, <1>2, <1>3 DEF AccountsRest

LEMMA AccountsAreTyped == SignUpInv /\ AccountsRest => Accounts!TypeOK
BY DEF SignUpInv, AccountsShapes, AccountsRest, AccountsPlaces, Accounts!TypeOK

LEMMA AccountsRestHolds == SignUpInv /\ AccountsRest /\ [Accounts!Next]_(Accounts!vars) => AccountsRest'
<1> SUFFICES ASSUME SignUpInv, AccountsRest, [Accounts!Next]_(Accounts!vars) PROVE AccountsRest'
  OBVIOUS
<1>0. AccountsShapes /\ CallsOK /\ PlacesFit /\ AccountsRest /\ MaxFaults \in Nat
  BY AccountsAssumption DEF SignUpInv
<1>1. ASSUME NEW r \in Requests, NEW p \in AccountsPlaces, Accounts!Goes(r, p) PROVE at' \in [Requests -> AccountsPlaces]
  BY <1>0, <1>1 DEF Accounts!Goes, AccountsRest
<1>2. Accounts!Fault \/ faults' = faults => faults' \in 0..MaxFaults
  BY <1>0 DEF Accounts!Fault, AccountsRest
<1>3. ASSUME NEW r \in Requests, NEW i \in Accounts!Ids, Accounts!Authenticate(r, i) PROVE user' \in [Requests -> Accounts!Ids \cup {None}]
  BY <1>0, <1>3 DEF Accounts!Authenticate, AccountsRest
<1>4. ASSUME NEW r \in Requests, copy[r] # None PROVE copy[r].email \in Accounts!Ids
  BY <1>0, <1>4 DEF AccountsShapes, Accounts!RowType, Accounts!Ids
<1>5. /\ \A r \in Requests : Accounts!Id(r) \in Accounts!Ids
      /\ \A p \in {"free", "inserted", "unread", "created", "loaded", "signed in", "shown", "found", "set",
                   "redirected", "refused", "failed"} : p \in AccountsPlaces
  BY <1>0 DEF CallsOK, Accounts!Id, Accounts!Ids, AccountsPlaces
<1>6. ASSUME NEW r \in Requests, Accounts!SignUp(r) \/ Accounts!Activate(r) \/ Accounts!Insert(r) \/ Accounts!LogIn(r) \/ Accounts!FindToken(r)
      PROVE  AccountsRest'
  <2>1. UNCHANGED <<user, restored>> /\ (Accounts!Fault \/ faults' = faults) /\ \E p \in AccountsPlaces : Accounts!Goes(r, p)
    <3>1. CASE Accounts!SignUp(r)
      BY Zenon, <1>5, <3>1 DEF Accounts!SignUp
    <3>2. CASE Accounts!Activate(r)
      BY Zenon, <1>5, <3>2 DEF Accounts!Activate
    <3>3. CASE Accounts!Insert(r)
      BY Zenon, <1>5, <3>3 DEF Accounts!Insert
    <3>4. CASE Accounts!LogIn(r)
      BY Zenon, <1>5, <3>4 DEF Accounts!LogIn
    <3>5. CASE Accounts!FindToken(r)
      BY Zenon, <1>5, <3>5 DEF Accounts!FindToken
    <3> QED BY <1>6, <3>1, <3>2, <3>3, <3>4, <3>5
  <2> QED BY <1>0, <1>1, <1>2, <2>1 DEF AccountsRest
<1>7. ASSUME NEW r \in Requests, Accounts!Welcome(r) PROVE AccountsRest'
  <2>1. UNCHANGED <<restored, faults>> /\ Accounts!Goes(r, "created") /\ Accounts!Authenticate(r, Accounts!Id(r))
    BY <1>7 DEF Accounts!Welcome
  <2> QED BY <1>0, <1>1, <1>3, <1>5, <2>1 DEF AccountsRest
<1>8. ASSUME NEW r \in Requests, Accounts!Password(r) PROVE AccountsRest'
  <2>1. UNCHANGED <<restored, faults>> /\ copy[r] # None
    BY <1>0, <1>8 DEF Accounts!Password, PlacesFit
  <2>2. \/ Accounts!Authenticate(r, copy[r].email) /\ Accounts!Goes(r, "signed in")
        \/ user' = user /\ Accounts!Goes(r, "refused")
    BY <1>8 DEF Accounts!Password
  <2> QED BY <1>0, <1>1, <1>3, <1>4, <1>5, <2>1, <2>2 DEF AccountsRest
<1>9. ASSUME NEW r \in Requests, Accounts!SetPassword(r) PROVE AccountsRest'
  <2>1. restored' = restored /\ copy[r] # None
    BY <1>0, <1>9 DEF Accounts!SetPassword, PlacesFit
  <2>2. \/ user' = user /\ Accounts!Goes(r, "failed") /\ Accounts!Fault
        \/ Accounts!Authenticate(r, copy[r].email) /\ Accounts!Goes(r, "set") /\ faults' = faults
    BY <1>9 DEF Accounts!SetPassword
  <2> QED BY <1>0, <1>1, <1>2, <1>3, <1>4, <1>5, <2>1, <2>2 DEF AccountsRest
<1>10. ASSUME UNCHANGED <<at, user, faults>>, restored' \subseteq Tokens \cup {NoToken} PROVE AccountsRest'
  BY <1>0, <1>10 DEF AccountsRest
<1>11. ASSUME NEW e \in Emails, NEW t \in Tokens, Accounts!Invite(e, t) PROVE AccountsRest'
  BY <1>0, <1>10, <1>11 DEF Accounts!Invite, AccountsRest
<1>12. ASSUME NEW i \in Accounts!Rows, Accounts!EditLoad(i) PROVE AccountsRest'
  BY <1>0, <1>10, <1>12 DEF Accounts!EditLoad, AccountsRest
<1>13. ASSUME Accounts!EditStore PROVE AccountsRest'
  <2>1. edit.row.token \in Tokens \cup {NoToken}
    BY <1>0, <1>13 DEF Accounts!EditStore, AccountsShapes, Accounts!RowType
  <2>2. restored' = restored \cup (IF users[edit.row.email] = edit.loaded THEN {} ELSE {edit.row.token})
    BY <1>13 DEF Accounts!EditStore
  <2> QED BY <1>0, <1>10, <1>13, <2>1, <2>2 DEF Accounts!EditStore, AccountsRest
<1>14. ASSUME UNCHANGED Accounts!vars PROVE AccountsRest'
  BY <1>0, <1>10, <1>14 DEF Accounts!vars, AccountsRest
<1> QED BY <1>6, <1>7, <1>8, <1>9, <1>11, <1>12, <1>13, <1>14 DEF Accounts!Next

LEMMA SignUpsDoNotCollide == SignUpInv => Accounts!OneAccountPerEmail
BY DEF SignUpInv, Accounts!OneAccountPerEmail, Inserters, Untouched, Owns, HasRow, SignsUp, Accounts!Id, Accounts!Rows,
   CallsOK, Accounts!Ids

-----------------------------------------------------------------------------
(* Tokens.                                                                 *)

\* A row that is in the table or in somebody's hands.
Held(x) ==
    \/ \E i \in Accounts!Ids : users[i] # None /\ x = users[i]
    \/ \E r \in Requests : copy[r] # None /\ x = copy[r]
    \/ edit # None /\ (x = edit.loaded \/ x = edit.row)

\* A token has been issued, and is about one user wherever it is.
Homes ==
    /\ \A x \in Accounts!RowType : Held(x) /\ x.token \in Tokens => x.token \in issued
    /\ \A x, y \in Accounts!RowType : Held(x) /\ Held(y) /\ x.token = y.token /\ x.token \in Tokens => x.email = y.email
    /\ \A t \in Tokens : spent[t] # {} => t \in issued

\* A token that an edit has made is nowhere else.
NewToken ==
    edit # None /\ edit.row.token # edit.loaded.token =>
        /\ edit.row.token \in Tokens
        /\ spent[edit.row.token] = {}
        /\ \A i \in Accounts!Ids : users[i] # None => users[i].token # edit.row.token
        /\ \A r \in Requests : copy[r] # None => copy[r].token # edit.row.token

\* A spent token is gone, and one request at most has found it there when it
\* spent it.
Gone ==
    \A t \in Tokens \ restored : spent[t] # {} =>
        /\ \A i \in Accounts!Ids : users[i] # None => users[i].token # t
        /\ \A p, q \in spent[t] \ raced : p = q

TokenInv == Homes /\ NewToken /\ Gone

LEMMA TokenInit == ASSUME Accounts!Init PROVE TokenInv
BY DEF Accounts!Init, Accounts!Posted, TokenInv, Homes, NewToken, Gone, Held, Accounts!Ids

\* Where no row and no token is new.
LEMMA HomesStay ==
    ASSUME Homes, issued \subseteq issued', \A x \in Accounts!RowType : Held(x)' => Held(x) \/ x.token \notin Tokens,
           \A t \in Tokens : spent'[t] # {} => spent[t] # {} \/ t \in issued
    PROVE  Homes'
BY DEF Homes

\* Steps that only load a row.
LEMMA LoadKeeps ==
    ASSUME SignUpInv, TokenInv, NEW r \in Requests, UNCHANGED <<users, edit, issued, spent, raced, restored>>,
           \/ copy' = copy
           \/ \E i \in Accounts!Ids : users[i] # None /\ copy' = [copy EXCEPT ![r] = users[i]]
    PROVE  TokenInv'
<1>0. AccountsShapes /\ Homes /\ NewToken /\ Gone
  BY DEF SignUpInv, TokenInv
<1>1. \A q \in Requests : copy'[q] # None =>
          \/ copy[q] # None /\ copy'[q] = copy[q]
          \/ \E i \in Accounts!Ids : users[i] # None /\ copy'[q] = users[i]
  BY <1>0 DEF AccountsShapes
<1>2. Homes'
  <2>1. \A x \in Accounts!RowType : Held(x)' => Held(x)
    BY <1>1 DEF Held
  <2> QED BY <1>0, <2>1, HomesStay
<1>3. NewToken'
  BY <1>0, <1>1 DEF NewToken
<1>4. Gone'
  BY <1>0 DEF Gone
<1> QED BY <1>2, <1>3, <1>4 DEF TokenInv

\* Steps that write a row without a token, or with one no other row has.
LEMMA WriteHomes ==
    ASSUME SignUpInv, TokenInv, NEW e \in Accounts!Ids, NEW row \in Accounts!RowType, users' = [users EXCEPT ![e] = row],
           row.token \notin Tokens, copy' = copy, edit' = edit, issued' = issued,
           \A t \in Tokens : spent'[t] # {} => spent[t] # {} \/ t \in issued
    PROVE  Homes'
<1>1. AccountsShapes /\ Homes
  BY DEF SignUpInv, TokenInv
<1>2. \A i \in Accounts!Ids : users'[i] = IF i = e THEN row ELSE users[i]
  BY <1>1 DEF AccountsShapes
<1>3. \A x \in Accounts!RowType : Held(x)' => Held(x) \/ x.token \notin Tokens
  BY <1>2 DEF Held
<1> QED BY <1>1, <1>3, HomesStay

LEMMA InsertTokens ==
    ASSUME SignUpInv, TokenInv, NEW r \in Requests, Accounts!Insert(r) PROVE TokenInv'
<1>0. AccountsShapes /\ CallsOK /\ NewToken /\ Gone
  BY DEF SignUpInv, TokenInv
<1>1. UNCHANGED <<copy, edit, issued, spent, raced, restored>>
  BY DEF Accounts!Insert
<1>2. CASE users' = users
  BY <1>1, <1>2, LoadKeeps
<1>3. CASE Accounts!Inserted(r)
  <2> DEFINE e == call[r].email
             row == Accounts!NewRow(e, r, NoToken)
  <2>1. e \in Accounts!Ids /\ e \in Emails
    BY <1>0 DEF CallsOK, Accounts!Ids
  <2>2. users' = [users EXCEPT ![e] = row]
    BY <1>3 DEF Accounts!Inserted, Accounts!Id
  <2> HIDE DEF e
  <2>3. row \in Accounts!RowType /\ row.token = NoToken
    BY <2>1, NewRowTyped
  <2> HIDE DEF row
  <2>4. row.token \notin Tokens
    BY AccountsAssumption, <2>3
  <2>5. \A i \in Accounts!Ids : users'[i] = IF i = e THEN row ELSE users[i]
    BY <1>0, <2>1, <2>2 DEF AccountsShapes
  <2>6. Homes'
    BY <1>1, <2>1, <2>2, <2>3, <2>4, WriteHomes
  <2>7. NewToken'
    BY <1>0, <1>1, <2>4, <2>5 DEF NewToken
  <2>8. Gone'
    BY <1>0, <1>1, <2>4, <2>5 DEF Gone
  <2> QED BY <2>6, <2>7, <2>8 DEF TokenInv
<1> QED BY <1>2, <1>3 DEF Accounts!Insert

\* A request whose copy is current has found the token in the table, so that
\* it has not been spent (users.go:230, 240).
LEMMA SetPasswordTokens ==
    ASSUME SignUpInv, TokenInv, NEW r \in Requests, Accounts!SetPassword(r) PROVE TokenInv'
<1> DEFINE e == copy[r].email
           t == call[r].token
           row == Accounts!ClearActivationToken([copy[r] EXCEPT !.password = r])
<1>0. AccountsShapes /\ CallsOK /\ PlacesFit /\ AccountsKeyed /\ Homes /\ NewToken /\ Gone
  BY DEF SignUpInv, TokenInv
<1>1. UNCHANGED <<copy, edit, issued, restored>>
  BY DEF Accounts!SetPassword
<1>2. CASE UNCHANGED <<users, spent, raced>>
  BY <1>1, <1>2, LoadKeeps
<1>3. CASE /\ users' = [users EXCEPT ![e] = row]
           /\ spent' = [spent EXCEPT ![t] = @ \cup {r}]
           /\ raced' = raced \cup (IF users[e] = copy[r] THEN {} ELSE {r})
  <2>1. copy[r] # None /\ copy[r] \in Accounts!RowType /\ e \in Accounts!Ids /\ t \in Accounts!Posted /\ copy[r].token = t
    BY <1>0 DEF Accounts!SetPassword, AccountsShapes, PlacesFit, CallsOK, Accounts!RowType, Accounts!Ids
  <2>2. row \in Accounts!RowType /\ row.token = NoToken
    BY <2>1, Cleared
  <2>3. Held(copy[r]) /\ (t \in Tokens => t \in issued)
    BY <1>0, <2>1 DEF Homes, Held
  <2> HIDE DEF e, t, row
  <2>4. row.token \notin Tokens
    BY AccountsAssumption, <2>2
  <2>5. \A i \in Accounts!Ids : users'[i] = IF i = e THEN row ELSE users[i]
    BY <1>0, <1>3, <2>1 DEF AccountsShapes
  <2>6. \A u \in Tokens : spent'[u] = IF u = t THEN spent[u] \cup {r} ELSE spent[u]
    BY <1>0, <1>3, <2>1 DEF AccountsShapes, Accounts!Posted
  <2>7. Homes'
    BY <1>1, <1>3, <2>1, <2>2, <2>3, <2>4, <2>6, WriteHomes
  <2>8. NewToken'
    BY <1>0, <1>1, <2>1, <2>4, <2>5, <2>6 DEF NewToken
  <2>9. Gone'
    <3> SUFFICES ASSUME NEW u \in Tokens \ restored, spent'[u] # {}
                 PROVE  /\ \A i \in Accounts!Ids : users'[i] # None => users'[i].token # u
                        /\ \A p, q \in spent'[u] \ raced' : p = q
      BY <1>1 DEF Gone
    <3>1. CASE u # t
      BY <1>0, <1>3, <2>4, <2>5, <2>6, <3>1 DEF Gone
    <3>2. CASE u = t
      <4>1. ASSUME NEW i \in Accounts!Ids, users'[i] # None, users'[i].token = u PROVE FALSE
        <5>1. i # e /\ users[i] # None /\ users[i].token = t
          BY <2>4, <2>5, <3>2, <4>1
        <5>2. users[i] \in Accounts!RowType /\ Held(users[i]) /\ users[i].email = i
          BY <1>0, <5>1 DEF AccountsShapes, Held, AccountsKeyed
        <5>3. users[i].email = copy[r].email
          BY <1>0, <2>1, <2>3, <3>2, <5>1, <5>2 DEF Homes
        <5> QED BY <5>1, <5>2, <5>3 DEF e
      <4>2. CASE users[e] = copy[r]
        <5>1. spent[u] = {}
          BY <1>0, <2>1, <3>2, <4>2 DEF Gone
        <5> QED BY <2>6, <3>2, <4>1, <5>1
      <4>3. CASE users[e] # copy[r]
        <5>1. spent'[u] \ raced' \subseteq spent[u] \ raced
          BY <1>3, <2>6, <3>2, <4>3
        <5>2. spent[u] = {} \/ \A p, q \in spent[u] \ raced : p = q
          BY <1>0 DEF Gone
        <5> QED BY <4>1, <5>1, <5>2
      <4> QED BY <4>2, <4>3
    <3> QED BY <3>1, <3>2
  <2> QED BY <2>7, <2>8, <2>9 DEF TokenInv
<1> QED BY <1>2, <1>3 DEF Accounts!SetPassword

LEMMA InviteTokens ==
    ASSUME SignUpInv, TokenInv, NEW e \in Emails, NEW t \in Tokens, Accounts!Invite(e, t) PROVE TokenInv'
<1> DEFINE row == Accounts!NewRow(e, None, t)
<1>0. AccountsShapes /\ Homes /\ NewToken /\ Gone
  BY DEF SignUpInv, TokenInv
<1>1. /\ t \notin issued /\ issued' = issued \cup {t}
      /\ users' = [users EXCEPT ![e] = row]
      /\ UNCHANGED <<copy, edit, spent, raced, restored>>
  BY DEF Accounts!Invite
<1>2. row \in Accounts!RowType /\ row.token = t /\ row.email = e
  BY NewRowTyped
<1> HIDE DEF row
<1>3. \A i \in Accounts!Ids : users'[i] = IF i = e THEN row ELSE users[i]
  BY <1>0, <1>1 DEF AccountsShapes, Accounts!Ids
<1>4. \A x \in Accounts!RowType : Held(x)' => Held(x) \/ x = row
  BY <1>1, <1>3 DEF Held
<1>5. \A x \in Accounts!RowType : Held(x) => x.token # t
  BY <1>0, <1>1 DEF Homes
<1>6. Homes'
  BY <1>0, <1>1, <1>2, <1>4, <1>5 DEF Homes
<1>7. NewToken'
  <2>1. edit # None => edit.row.token # t
    BY <1>0, <1>5 DEF AccountsShapes, Held
  <2> QED BY <1>0, <1>1, <1>2, <1>3, <2>1 DEF NewToken
<1>8. Gone'
  <2>1. spent[t] = {}
    BY <1>0, <1>1 DEF Homes
  <2> QED BY <1>0, <1>1, <1>2, <1>3, <2>1 DEF Gone
<1> QED BY <1>6, <1>7, <1>8 DEF TokenInv

LEMMA EditLoadTokens ==
    ASSUME SignUpInv, TokenInv, NEW i \in Accounts!Rows, Accounts!EditLoad(i) PROVE TokenInv'
<1>0. AccountsShapes /\ AccountsKeyed /\ Homes /\ NewToken /\ Gone
  BY DEF SignUpInv, TokenInv
<1>1. UNCHANGED <<users, copy, spent, raced, restored>>
  BY DEF Accounts!EditLoad
<1>2. i \in Accounts!Ids /\ users[i] # None /\ users[i] \in Accounts!RowType /\ Held(users[i])
  BY <1>0 DEF Accounts!Rows, AccountsShapes, Held
<1>3. Gone'
  BY <1>0, <1>1 DEF Gone
<1>4. CASE edit' = [loaded |-> users[i], row |-> users[i]] /\ issued' = issued
  <2>1. edit'.loaded = users[i] /\ edit'.row = users[i]
    BY <1>4
  <2>2. \A x \in Accounts!RowType : Held(x)' => Held(x)
    BY <1>1, <1>2, <2>1 DEF Held
  <2>3. Homes'
    BY <1>0, <1>1, <1>4, <2>2, HomesStay
  <2>4. NewToken'
    BY <2>1 DEF NewToken
  <2> QED BY <1>3, <2>3, <2>4 DEF TokenInv
<1>5. ASSUME NEW t \in Tokens \ issued, issued' = issued \cup {t},
             edit' = [loaded |-> users[i], row |-> [users[i] EXCEPT !.token = t]]
      PROVE  TokenInv'
  <2> DEFINE row == [users[i] EXCEPT !.token = t]
  <2>1. row \in Accounts!RowType /\ row.token = t /\ row.email = users[i].email
    BY <1>2 DEF Accounts!RowType
  <2>2. edit'.loaded = users[i] /\ edit'.row = row
    BY <1>5
  <2> HIDE DEF row
  <2>3. \A x \in Accounts!RowType : Held(x)' => Held(x) \/ x = row
    BY <1>1, <1>2, <2>2 DEF Held
  <2>4. \A x \in Accounts!RowType : Held(x) => x.token # t
    BY <1>0, <1>5 DEF Homes
  <2>5. Homes'
    BY <1>0, <1>1, <1>5, <2>1, <2>3, <2>4 DEF Homes
  <2>6. /\ \A j \in Accounts!Ids : users[j] # None => users[j].token # t
        /\ \A q \in Requests : copy[q] # None => copy[q].token # t
    BY <1>0, <2>4 DEF Held, AccountsShapes
  <2>7. spent[t] = {}
    BY <1>0, <1>5 DEF Homes
  <2>8. NewToken'
    BY <1>1, <2>1, <2>2, <2>6, <2>7 DEF NewToken
  <2> QED BY <1>3, <2>5, <2>8 DEF TokenInv
<1> QED BY <1>4, <1>5 DEF Accounts!EditLoad

\* A copy that is current has a token of the table or a new one; another one
\* is in restored.
LEMMA EditStoreTokens ==
    ASSUME SignUpInv, TokenInv, Accounts!EditStore PROVE TokenInv'
<1> DEFINE e == edit.row.email
<1>0. AccountsShapes /\ AccountsKeyed /\ Homes /\ NewToken /\ Gone
  BY DEF SignUpInv, TokenInv
<1>1. /\ edit # None /\ edit' = None
      /\ users' = [users EXCEPT ![e] = edit.row]
      /\ restored' = restored \cup (IF users[e] = edit.loaded THEN {} ELSE {edit.row.token})
      /\ UNCHANGED <<copy, issued, spent, raced>>
  BY DEF Accounts!EditStore
<1>2. e \in Accounts!Ids /\ edit.loaded \in Accounts!RowType /\ edit.loaded # None
  BY AccountsAssumption, <1>0, <1>1 DEF AccountsShapes, Accounts!RowType, Accounts!Ids
<1> HIDE DEF e
<1>3. \A i \in Accounts!Ids : users'[i] = IF i = e THEN edit.row ELSE users[i]
  BY <1>0, <1>1, <1>2 DEF AccountsShapes
<1>4. Homes'
  <2>1. \A x \in Accounts!RowType : Held(x)' => Held(x)
    BY <1>1, <1>3 DEF Held
  <2> QED BY <1>0, <1>1, <2>1, HomesStay
<1>5. NewToken'
  BY <1>1 DEF NewToken
<1>6. Gone'
  <2> SUFFICES ASSUME NEW t \in Tokens \ restored', spent[t] # {}
               PROVE  /\ \A i \in Accounts!Ids : users'[i] # None => users'[i].token # t
                      /\ \A p, q \in spent[t] \ raced : p = q
    BY <1>1 DEF Gone
  <2>1. t \notin restored
    BY <1>1
  <2>2. edit.row.token # t
    <3>1. CASE users[e] = edit.loaded
      BY <1>0, <1>1, <1>2, <2>1, <3>1 DEF NewToken, Gone
    <3>2. CASE users[e] # edit.loaded
      BY <1>1, <3>2
    <3> QED BY <3>1, <3>2
  <2> QED BY <1>0, <1>3, <2>1, <2>2 DEF Gone
<1> QED BY <1>4, <1>5, <1>6 DEF TokenInv

LEMMA TokensHold == ASSUME SignUpInv, TokenInv, [Accounts!Next]_(Accounts!vars) PROVE TokenInv'
<1>1. ASSUME NEW r \in Requests, Accounts!SignUp(r) \/ Accounts!Welcome(r) \/ Accounts!Activate(r) \/ Accounts!Password(r) PROVE TokenInv'
  <2>1. UNCHANGED <<users, copy, edit, issued, spent, raced, restored>>
    BY <1>1 DEF Accounts!SignUp, Accounts!Welcome, Accounts!Activate, Accounts!Password
  <2> QED BY <2>1, LoadKeeps
<1>2. ASSUME NEW r \in Requests, Accounts!LogIn(r) \/ Accounts!FindToken(r) PROVE TokenInv'
  <2>1. UNCHANGED <<users, edit, issued, spent, raced, restored>>
    BY <1>2 DEF Accounts!LogIn, Accounts!FindToken
  <2>2. copy' = copy \/ \E i \in Accounts!Ids : users[i] # None /\ copy' = [copy EXCEPT ![r] = users[i]]
    BY <1>2 DEF Accounts!LogIn, Accounts!FindToken, Accounts!Loads, Accounts!WithEmail, Accounts!WithToken,
       Accounts!Rows
  <2> QED BY <2>1, <2>2, LoadKeeps
<1>3. ASSUME NEW r \in Requests, Accounts!Insert(r) \/ Accounts!SetPassword(r) PROVE TokenInv'
  BY <1>3, InsertTokens, SetPasswordTokens
<1>4. ASSUME NEW e \in Emails, NEW t \in Tokens, Accounts!Invite(e, t) PROVE TokenInv'
  BY <1>4, InviteTokens
<1>5. ASSUME NEW i \in Accounts!Rows, Accounts!EditLoad(i) PROVE TokenInv'
  BY <1>5, EditLoadTokens
<1>6. ASSUME Accounts!EditStore PROVE TokenInv'
  BY <1>6, EditStoreTokens
<1>7. ASSUME UNCHANGED Accounts!vars PROVE TokenInv'
  BY <1>7 DEF Accounts!vars, TokenInv, Homes, NewToken, Gone, Held
<1> QED BY <1>1, <1>2, <1>3, <1>4, <1>5, <1>6, <1>7 DEF Accounts!Next

LEMMA TokensAreSpentOnce == TokenInv => Accounts!SpentTokenStaysSpent
BY DEF TokenInv, Gone, Accounts!SpentTokenStaysSpent, Accounts!WithToken, Accounts!Rows

-----------------------------------------------------------------------------
(* The cache.                                                              *)

\* An entry is on the list of each of its tags, whatever else is on it
\* (cache.go:73).
Listed ==
    \A k \in Keys : items[k] # None =>
        \A t \in items[k].tags : \E i \in 1..Len(tags[t]) : tags[t][i] = k

\* A reader that stores something has a key and a value of it.
Reads ==
    \A r \in Readers :
        /\ reading[r].at \in {"missed", "read"} => reading[r].key \in Keys
        /\ reading[r].at = "read" => reading[r].value \in Nat

CacheIInv == TagCache!TypeOK /\ Listed /\ Reads /\ TagCache!StaleOnlyByRace

-----------------------------------------------------------------------------

\* A list that has a key appended has that key and those it had.
LEMMA IndexedLists ==
    ASSUME NEW list \in Seq(Keys), NEW k \in Keys
    PROVE  /\ TagCache!Indexed(list, k) \in Seq(Keys)
           /\ \E i \in 1..Len(TagCache!Indexed(list, k)) : TagCache!Indexed(list, k)[i] = k
           /\ \A i \in 1..Len(list) : i \in 1..Len(TagCache!Indexed(list, k)) /\ TagCache!Indexed(list, k)[i] = list[i]
BY DEF TagCache!Indexed

LEMMA OnList ==
    ASSUME NEW list \in Seq(Keys), NEW k \in Keys
    PROVE  k \in TagCache!ToSet(list) <=> \E i \in 1..Len(list) : list[i] = k
<1>1. DOMAIN list = 1..Len(list)
  OBVIOUS
<1> QED BY <1>1 DEF TagCache!ToSet

LEMMA CacheInitHolds == TagCache!Init => CacheIInv
BY DEF TagCache!Init, CacheIInv, TagCache!TypeOK, Listed, Reads, TagCache!StaleOnlyByRace

LEMMA CacheGetHolds == ASSUME CacheIInv, NEW r \in Readers, NEW k \in Keys, TagCache!Get(r, k) PROVE CacheIInv'
<1> USE DEF TagCache!Get, CacheIInv
<1>1. TagCache!TypeOK'
  <2>1. items[k] # None => items[k].value \in Nat
    BY DEF TagCache!TypeOK
  <2> QED BY <2>1 DEF TagCache!TypeOK
<1>2. Listed' /\ TagCache!StaleOnlyByRace'
  BY DEF Listed, TagCache!StaleOnlyByRace
<1>3. Reads'
  BY DEF TagCache!TypeOK, Reads
<1> QED BY <1>1, <1>2, <1>3

LEMMA ReadHolds == ASSUME CacheIInv, NEW r \in Readers, TagCache!Read(r) PROVE CacheIInv'
<1> USE DEF TagCache!Read, CacheIInv
<1>1. TagCache!TypeOK'
  <2>1. /\ TagCache!TypeOK
        /\ reading' = [reading EXCEPT ![r].at = "read", ![r].value = source[reading[r].key]]
        /\ UNCHANGED <<items, tags, source, writing>>
    OBVIOUS
  <2>4. reading[r].key \in Keys
    BY DEF Reads
  <2> HIDE DEF TagCache!Read, CacheIInv
  <2>2. source[reading[r].key] \in Nat
    BY <2>1, <2>4 DEF TagCache!TypeOK
  <2>3. reading' \in [Readers -> [at : {"start", "hit", "missed", "read", "stored"},
                                key : Keys \cup {None}, value : Nat \cup {None}]]
    <3> DEFINE Reader == [at : {"start", "hit", "missed", "read", "stored"},
                          key : Keys \cup {None}, value : Nat \cup {None}]
               v == source[reading[r].key]
    <3>1. reading \in [Readers -> Reader] /\ v \in Nat
      BY <2>1, <2>2 DEF TagCache!TypeOK
    <3>2. reading' = [reading EXCEPT ![r].at = "read", ![r].value = v]
      BY <2>1
    <3> HIDE DEF v
    <3>3. reading'[r] = [reading[r] EXCEPT !.at = "read", !.value = v]
      BY <3>1, <3>2
    <3>4. reading'[r] \in Reader
      <4>1. ASSUME NEW x \in Reader PROVE [x EXCEPT !.at = "read", !.value = v] \in Reader
        BY <3>1
      <4> HIDE DEF Reader
      <4> QED BY <3>1, <3>3, <4>1
    <3> HIDE DEF Reader
    <3>5. reading' \in [Readers -> Reader]
      BY <3>1, <3>2, <3>4
    <3> QED BY <3>5 DEF Reader
  <2> QED BY <2>1, <2>3 DEF TagCache!TypeOK
<1>2. Listed' /\ TagCache!StaleOnlyByRace'
  BY DEF Listed, TagCache!StaleOnlyByRace
<1>3. Reads'
  BY DEF TagCache!TypeOK, Reads
<1> QED BY <1>1, <1>2, <1>3

LEMMA StoreHolds == ASSUME CacheIInv, NEW r \in Readers, TagCache!Store(r) PROVE CacheIInv'
<1> DEFINE k == reading[r].key
           value == reading[r].value
<1>0. PICK ts \in SUBSET Tags : TagCache!SetWithTags(k, value, ts)
  BY DEF TagCache!Store
<1>1. k \in Keys /\ value \in Nat
  BY DEF TagCache!Store, CacheIInv, Reads
<1>2. items' = [items EXCEPT ![k] = [value |-> value, alive |-> TRUE, tags |-> ts, late |-> value # source[k]]]
  BY <1>0 DEF TagCache!SetWithTags
<1>3. tags' = [t \in Tags |-> IF t \in ts THEN TagCache!Indexed(tags[t], k) ELSE tags[t]]
  BY <1>0 DEF TagCache!SetWithTags
<1>4. /\ reading' = [reading EXCEPT ![r].at = "stored"]
      /\ UNCHANGED <<source, writing>>
  BY DEF TagCache!Store
<1>5. \A t \in Tags : tags[t] \in Seq(Keys)
  BY DEF CacheIInv, TagCache!TypeOK
<1> HIDE DEF k, value
<1>6. TagCache!TypeOK'
  <2>1. tags' \in [Tags -> Seq(Keys)]
    BY <1>1, <1>3, <1>5, IndexedLists
  <2>2. items' \in [Keys -> [value : Nat, alive : BOOLEAN, tags : SUBSET Tags, late : BOOLEAN] \cup {None}]
    BY <1>1, <1>2 DEF CacheIInv, TagCache!TypeOK
  <2> QED BY <1>4, <2>1, <2>2 DEF CacheIInv, TagCache!TypeOK
<1>7. Listed'
  <2> SUFFICES ASSUME NEW q \in Keys, items'[q] # None, NEW t \in items'[q].tags
               PROVE  \E i \in 1..Len(tags'[t]) : tags'[t][i] = q
    BY DEF Listed
  <2>1. t \in Tags
    BY <1>6 DEF TagCache!TypeOK
  <2>2. CASE q = k
    <3>1. t \in ts /\ tags'[t] = TagCache!Indexed(tags[t], k)
      BY <1>1, <1>2, <1>3, <2>1, <2>2 DEF CacheIInv, TagCache!TypeOK
    <3>2. \E i \in 1..Len(TagCache!Indexed(tags[t], k)) : TagCache!Indexed(tags[t], k)[i] = k
      BY <1>1, <1>5, <2>1, IndexedLists
    <3> QED BY <2>2, <3>1, <3>2
  <2>3. CASE q # k
    <3>1. PICK i \in 1..Len(tags[t]) : tags[t][i] = q
      BY <1>1, <1>2, <2>3 DEF CacheIInv, TagCache!TypeOK, Listed
    <3>2. tags'[t] = IF t \in ts THEN TagCache!Indexed(tags[t], k) ELSE tags[t]
      BY <1>3, <2>1
    <3>3. i \in 1..Len(TagCache!Indexed(tags[t], k)) /\ TagCache!Indexed(tags[t], k)[i] = q
      BY <1>1, <1>5, <2>1, <3>1, IndexedLists
    <3> QED BY <3>1, <3>2, <3>3
  <2> QED BY <2>2, <2>3
<1>8. Reads'
  BY <1>4 DEF CacheIInv, TagCache!TypeOK, Reads
<1>9. TagCache!StaleOnlyByRace'
  BY <1>1, <1>2, <1>4 DEF CacheIInv, TagCache!TypeOK, TagCache!StaleOnlyByRace
<1> QED BY <1>6, <1>7, <1>8, <1>9 DEF CacheIInv

LEMMA ChangeHolds == ASSUME CacheIInv, NEW w \in Writers, NEW k \in Keys, TagCache!Change(w, k) PROVE CacheIInv'
<1> USE DEF TagCache!Change, CacheIInv
<1>1. TagCache!TypeOK'
  <2>1. source[k] + 1 \in Nat
    BY DEF TagCache!TypeOK
  <2>2. source' \in [Keys -> Nat]
    BY <2>1 DEF TagCache!TypeOK
  <2>3. writing' \in [Writers -> Keys \cup {"start", "done"}]
    BY DEF TagCache!TypeOK
  <2> QED BY <2>2, <2>3 DEF TagCache!TypeOK
<1>2. Listed' /\ Reads'
  BY DEF Listed, Reads
<1>3. TagCache!StaleOnlyByRace'
  BY TagCacheAssumption DEF TagCache!TypeOK, TagCache!StaleOnlyByRace
<1> QED BY <1>1, <1>2, <1>3

\* An entry that an invalidation by its subject does not reach does not have
\* that tag; one of another key does not depend on this writer.
LEMMA InvalidateHolds == ASSUME CacheIInv, NEW w \in Writers, TagCache!Invalidate(w) PROVE CacheIInv'
<1> DEFINE k == writing[w]
<1>1. /\ k \in Keys
      /\ writing' = [writing EXCEPT ![w] = "done"]
      /\ UNCHANGED <<source, reading>>
  BY DEF TagCache!Invalidate
<1>2. Reads'
  BY <1>1 DEF CacheIInv, Reads
<1>3. CASE TagCache!InvalidateTag(Subject[k])
  <2> DEFINE s == Subject[k]
  <2>1. s \in Tags
    BY TagCacheAssumption, <1>1
  <2>2. /\ items' = [q \in Keys |-> IF q \in TagCache!ToSet(tags[s]) THEN None ELSE items[q]]
        /\ tags' = [tags EXCEPT ![s] = <<>>]
    BY <1>3 DEF TagCache!InvalidateTag
  <2>3. tags[s] \in Seq(Keys)
    BY <2>1 DEF CacheIInv, TagCache!TypeOK
  <2>4. \A q \in Keys : items'[q] # None => items'[q] = items[q] /\ s \notin items[q].tags
    BY <2>2, <2>3, OnList DEF CacheIInv, Listed
  <2> HIDE DEF k, s
  <2>5. TagCache!TypeOK'
    BY <1>1, <2>1, <2>2 DEF CacheIInv, TagCache!TypeOK, k
  <2>6. Listed'
    <3> SUFFICES ASSUME NEW q \in Keys, items'[q] # None, NEW t \in items'[q].tags
                 PROVE  \E i \in 1..Len(tags'[t]) : tags'[t][i] = q
      BY DEF Listed
    <3>1. t # s /\ t \in Tags /\ tags'[t] = tags[t]
      BY <2>2, <2>4, <2>5 DEF CacheIInv, TagCache!TypeOK
    <3> QED BY <2>4, <3>1 DEF CacheIInv, Listed
  <2>7. TagCache!StaleOnlyByRace'
    BY <1>1, <2>4 DEF CacheIInv, TagCache!TypeOK, TagCache!StaleOnlyByRace, k, s
  <2> QED BY <1>2, <2>5, <2>6, <2>7 DEF CacheIInv
<1>4. CASE TagCache!Delete(k)
  <2>1. items' = [items EXCEPT ![k] = None] /\ tags' = tags
    BY <1>4 DEF TagCache!Delete
  <2>2. \A q \in Keys : items'[q] # None => items'[q] = items[q] /\ q # k
    BY <1>1, <2>1 DEF CacheIInv, TagCache!TypeOK
  <2> HIDE DEF k
  <2>3. TagCache!TypeOK'
    BY <1>1, <2>1 DEF CacheIInv, TagCache!TypeOK, k
  <2>4. Listed'
    BY <2>1, <2>2 DEF CacheIInv, Listed
  <2>5. TagCache!StaleOnlyByRace'
    BY <1>1, <2>2 DEF CacheIInv, TagCache!TypeOK, TagCache!StaleOnlyByRace, k
  <2> QED BY <1>2, <2>3, <2>4, <2>5 DEF CacheIInv
<1>5. CASE TagCache!InvalidateAll
  <2>1. \A q \in Keys : items'[q] = None
    BY <1>5 DEF TagCache!InvalidateAll
  <2>2. TagCache!TypeOK'
    BY <1>1, <1>5 DEF CacheIInv, TagCache!TypeOK, TagCache!InvalidateAll
  <2> QED BY <1>2, <2>1, <2>2 DEF CacheIInv, Listed, TagCache!StaleOnlyByRace
<1> QED BY <1>3, <1>4, <1>5 DEF TagCache!Invalidate

LEMMA ExpireHolds == ASSUME CacheIInv, NEW k \in Keys, TagCache!Expire(k) PROVE CacheIInv'
<1> USE DEF TagCache!Expire, CacheIInv
<1>1. TagCache!TypeOK'
  <2>1. TagCache!TypeOK /\ items[k] # None /\ items' = [items EXCEPT ![k].alive = FALSE]
        /\ UNCHANGED <<tags, source, reading, writing>>
    OBVIOUS
  <2> HIDE DEF TagCache!Expire, CacheIInv
  <2>2. items' \in [Keys -> [value : Nat, alive : BOOLEAN, tags : SUBSET Tags, late : BOOLEAN] \cup {None}]
    BY <2>1 DEF TagCache!TypeOK
  <2> QED BY <2>1, <2>2 DEF TagCache!TypeOK
<1>2. \A q \in Keys : items'[q] # None =>
          /\ items[q] # None /\ items'[q].value = items[q].value
          /\ items'[q].tags = items[q].tags /\ items'[q].late = items[q].late
  BY DEF TagCache!TypeOK
<1>3. Listed'
  BY <1>2 DEF Listed
<1>4. Reads'
  BY DEF Reads
<1>5. TagCache!StaleOnlyByRace'
  BY <1>2 DEF TagCache!StaleOnlyByRace
<1> QED BY <1>1, <1>3, <1>4, <1>5

LEMMA CacheStepHolds == ASSUME CacheIInv, [TagCache!Next]_(TagCache!vars) PROVE CacheIInv'
<1>1. CASE \E r \in Readers : TagCache!Read(r) \/ TagCache!Store(r) \/ \E k \in Keys : TagCache!Get(r, k)
  BY <1>1, ReadHolds, StoreHolds, CacheGetHolds
<1>2. CASE \E w \in Writers : TagCache!Invalidate(w) \/ \E k \in Keys : TagCache!Change(w, k)
  BY <1>2, InvalidateHolds, ChangeHolds
<1>3. CASE \E k \in Keys : TagCache!Expire(k)
  BY <1>3, ExpireHolds
<1>4. CASE UNCHANGED TagCache!vars
  BY <1>4 DEF TagCache!vars, CacheIInv, TagCache!TypeOK, Listed, Reads, TagCache!StaleOnlyByRace
<1> QED BY <1>1, <1>2, <1>3, <1>4 DEF TagCache!Next

-----------------------------------------------------------------------------
(* The hub.                                                                *)

Cast == [at : {"start", "taken", "ranging", "writing", "done", "error", "crashed"},
         room : Rooms \cup {None}, conns : 1..MaxMoves \cup {None},
         due : SUBSET Conns, conn : Conns \cup {None}, done : SUBSET Conns, reached : SUBSET Conns]

HubShapes ==
    /\ connections \in [Rooms -> 1..MaxMoves \cup {None}]
    /\ maps \in [1..MaxMoves -> SUBSET Conns]
    /\ moves \in 0..MaxMoves
    /\ casts \in [Broadcasts -> Cast]
    /\ joined \in [Rooms -> SUBSET Conns]
    /\ stayed \in [Broadcasts -> SUBSET Conns]
    /\ came \in [Broadcasts -> SUBSET Conns]

Taken(b) == casts[b].at \in {"taken", "ranging", "writing"}

\* A map is the room's that has made it, and nobody's before that: what is in
\* the room is in its map (websocket.go:41-59).
OwnMaps ==
    /\ \A m \in Rooms : connections[m] # None => connections[m] <= moves
    /\ \A m, n \in Rooms : connections[m] # None /\ connections[m] = connections[n] => m = n
    /\ \A m \in Rooms : joined[m] = IF connections[m] = None THEN {} ELSE maps[connections[m]]
    /\ \A k \in 1..MaxMoves : k > moves => maps[k] = {}

\* A Broadcast has a map that is, or was, its room's.
OwnCasts ==
    \A b \in Broadcasts : Taken(b) =>
        /\ casts[b].room \in Rooms
        /\ casts[b].conns # None =>
             /\ casts[b].conns <= moves
             /\ \A m \in Rooms : connections[m] = casts[b].conns => m = casts[b].room

\* Who has stayed is in its map and, once it ranges, due or reached; whoever is
\* in the map has come.
Reaches ==
    \A b \in Broadcasts :
        /\ Taken(b) => stayed[b] \subseteq Hub!Entries(b) /\ Hub!Entries(b) \subseteq came[b]
        /\ casts[b].at \in {"ranging", "writing"} => stayed[b] \subseteq casts[b].due \cup casts[b].reached
        /\ casts[b].at = "writing" => casts[b].conn \in came[b]
        /\ casts[b].at = "start" => casts[b].reached = {}

HubIInv == HubShapes /\ OwnMaps /\ OwnCasts /\ Reaches /\ Hub!BroadcastReachesTheRoom

-----------------------------------------------------------------------------

LEMMA HubIsTyped == HubIInv => Hub!TypeOK
BY DEF HubIInv, HubShapes, Cast, Hub!TypeOK

LEMMA HubInitHolds == ASSUME Hub!Init PROVE HubIInv
<1>1. HubShapes
  <2>1. Hub!NoCast \in Cast
    BY DEF Hub!NoCast, Cast
  <2> QED BY HubAssumption, <2>1 DEF Hub!Init, HubShapes
<1>2. OwnMaps
  BY DEF Hub!Init, OwnMaps
<1>3. OwnCasts /\ Reaches /\ Hub!BroadcastReachesTheRoom
  BY DEF Hub!Init, Hub!NoCast, OwnCasts, Reaches, Hub!BroadcastReachesTheRoom, Taken
<1> QED BY <1>1, <1>2, <1>3 DEF HubIInv

LEMMA JoinHolds == ASSUME HubIInv, NEW room \in Rooms, NEW c \in Conns, Hub!Join(room, c) PROVE HubIInv'
<1> DEFINE n == IF connections[room] = None THEN moves' ELSE connections[room]
<1>0. HubShapes /\ OwnMaps /\ OwnCasts /\ Reaches /\ Hub!BroadcastReachesTheRoom
  BY DEF HubIInv
<1>1. /\ moves' = moves + 1 /\ moves' \in 1..MaxMoves
      /\ connections' = [connections EXCEPT ![room] = n]
      /\ maps' = [maps EXCEPT ![n] = @ \cup {c}]
      /\ joined' = [joined EXCEPT ![room] = @ \cup {c}]
      /\ came' = [b \in Broadcasts |-> IF Hub!Sends(b, room) THEN came[b] \cup {c} ELSE came[b]]
      /\ UNCHANGED <<casts, stayed>>
  BY HubAssumption, <1>0 DEF Hub!Join, Hub!Moves, HubShapes
<1>2. n \in 1..MaxMoves /\ n <= moves'
  BY HubAssumption, <1>0, <1>1 DEF HubShapes, OwnMaps
<1>3. n # None
  BY HubAssumption, <1>2
<1>4. connections[room] = None => n = moves + 1
  BY <1>1
<1>5. connections[room] # None => n = connections[room]
  OBVIOUS
<1> HIDE DEF n
<1>6. \A m \in Rooms : connections'[m] = IF m = room THEN n ELSE connections[m]
  BY <1>0, <1>1 DEF HubShapes
<1>7. \A k \in 1..MaxMoves : maps'[k] = IF k = n THEN maps[k] \cup {c} ELSE maps[k]
  BY <1>0, <1>1, <1>2 DEF HubShapes
<1>8. HubShapes'
  <2>1. connections' \in [Rooms -> 1..MaxMoves \cup {None}] /\ maps' \in [1..MaxMoves -> SUBSET Conns]
    BY <1>0, <1>1, <1>2 DEF HubShapes
  <2>2. joined' \in [Rooms -> SUBSET Conns] /\ came' \in [Broadcasts -> SUBSET Conns]
    BY <1>0, <1>1 DEF HubShapes
  <2>3. moves' \in 0..MaxMoves
    BY <1>0, <1>1 DEF HubShapes
  <2> QED BY <1>0, <1>1, <2>1, <2>2, <2>3 DEF HubShapes
<1>9. OwnMaps'
  <2>1. \A m \in Rooms : connections'[m] # None => connections'[m] <= moves'
    BY <1>0, <1>1, <1>2, <1>6 DEF HubShapes, OwnMaps
  <2>2. \A m \in Rooms \ {room} : connections[m] # n \/ connections[m] = None
    BY <1>0, <1>1, <1>4, <1>5 DEF HubShapes, OwnMaps
  <2>3. \A m, k \in Rooms : connections'[m] # None /\ connections'[m] = connections'[k] => m = k
    BY <1>0, <1>3, <1>6, <2>2 DEF OwnMaps
  <2>4. \A m \in Rooms : joined'[m] = IF connections'[m] = None THEN {} ELSE maps'[connections'[m]]
    <3>1. joined'[room] = maps'[n]
      <4>1. CASE connections[room] = None
        <5>1. joined[room] = {}
          BY <1>0, <4>1 DEF OwnMaps
        <5>2. n > moves
          BY <1>0, <1>4, <4>1 DEF HubShapes
        <5>3. maps[n] = {}
          BY <1>0, <1>2, <5>2 DEF OwnMaps
        <5> QED BY <1>0, <1>1, <1>2, <1>7, <5>1, <5>3 DEF HubShapes
      <4>2. CASE connections[room] # None
        <5>1. joined[room] = maps[n]
          BY <1>0, <1>5, <4>2 DEF OwnMaps
        <5> QED BY <1>0, <1>1, <1>2, <1>7, <5>1 DEF HubShapes
      <4> QED BY <4>1, <4>2
    <3>2. \A m \in Rooms \ {room} : joined'[m] = joined[m]
      BY <1>0, <1>1 DEF HubShapes
    <3>3. \A m \in Rooms \ {room} : connections[m] # None => maps'[connections[m]] = maps[connections[m]]
      BY <1>0, <1>7, <2>2 DEF HubShapes
    <3> QED BY <1>0, <1>3, <1>6, <3>1, <3>2, <3>3 DEF OwnMaps
  <2>5. \A k \in 1..MaxMoves : k > moves' => maps'[k] = {}
    BY <1>0, <1>1, <1>2, <1>7 DEF HubShapes, OwnMaps
  <2> QED BY <2>1, <2>3, <2>4, <2>5 DEF OwnMaps
<1>10. \A b \in Broadcasts : Taken(b) /\ casts[b].conns = n => casts[b].room = room
  BY <1>0, <1>1, <1>3, <1>4, <1>5 DEF OwnCasts, HubShapes, Cast
<1>11. OwnCasts'
  <2>1. \A b \in Broadcasts : casts[b].conns # None /\ Taken(b) => casts[b].conns <= moves'
    BY <1>0, <1>1 DEF OwnCasts, HubShapes, Cast
  <2>2. ASSUME NEW b \in Broadcasts, Taken(b), casts[b].conns # None, NEW m \in Rooms,
               connections'[m] = casts[b].conns
        PROVE  m = casts[b].room
    <3>1. CASE m = room
      BY <1>6, <1>10, <2>2, <3>1
    <3>2. CASE m # room
      BY <1>0, <1>6, <2>2, <3>2 DEF OwnCasts
    <3> QED BY <3>1, <3>2
  <2> QED BY <1>0, <1>1, <2>1, <2>2 DEF OwnCasts, Taken
<1>12. \A b \in Broadcasts :
         /\ casts[b].conns = n => Hub!Entries(b)' = Hub!Entries(b) \cup {c}
         /\ casts[b].conns # n => Hub!Entries(b)' = Hub!Entries(b)
  <2>1. \A b \in Broadcasts : casts[b].conns # None => casts[b].conns \in 1..MaxMoves
    BY <1>0 DEF HubShapes, Cast
  <2>2. casts' = casts
    BY <1>1
  <2>3. ASSUME NEW b \in Broadcasts, casts[b].conns = n PROVE Hub!Entries(b)' = Hub!Entries(b) \cup {c}
    BY <1>2, <1>3, <1>7, <2>2, <2>3 DEF Hub!Entries
  <2>4. ASSUME NEW b \in Broadcasts, casts[b].conns # n PROVE Hub!Entries(b)' = Hub!Entries(b)
    <3>1. CASE casts[b].conns = None
      BY <2>2, <3>1 DEF Hub!Entries
    <3>2. CASE casts[b].conns # None
      <4>1. maps'[casts[b].conns] = maps[casts[b].conns]
        BY <1>7, <2>1, <2>4, <3>2
      <4> QED BY <2>2, <4>1 DEF Hub!Entries
    <3> QED BY <3>1, <3>2
  <2> QED BY <2>3, <2>4
<1>13. \A b \in Broadcasts : came[b] \subseteq came'[b] /\ (Taken(b) /\ casts[b].room = room => c \in came'[b])
  BY <1>0, <1>1 DEF HubShapes, Hub!Sends, Taken
<1>14. Reaches'
  BY <1>0, <1>1, <1>10, <1>12, <1>13 DEF Reaches, Taken
<1>15. Hub!BroadcastReachesTheRoom'
  BY <1>0, <1>1, <1>13 DEF Hub!BroadcastReachesTheRoom
<1> QED BY <1>8, <1>9, <1>11, <1>14, <1>15 DEF HubIInv

LEMMA LeaveHolds == ASSUME HubIInv, NEW room \in Rooms, NEW c \in Conns, Hub!Leave(room, c) PROVE HubIInv'
<1> DEFINE n == connections[room]
<1>0. HubShapes /\ OwnMaps /\ OwnCasts /\ Reaches /\ Hub!BroadcastReachesTheRoom
  BY DEF HubIInv
<1>1. /\ moves' = moves + 1 /\ moves' \in 1..MaxMoves
      /\ joined' = [joined EXCEPT ![room] = @ \ {c}]
      /\ stayed' = [b \in Broadcasts |-> IF Hub!Sends(b, room) THEN stayed[b] \ {c} ELSE stayed[b]]
      /\ came' = came
  <2>1. moves \in Nat /\ MaxMoves \in Nat
    BY HubAssumption, <1>0 DEF HubShapes
  <2>2. moves < MaxMoves /\ moves' = moves + 1
    BY DEF Hub!Leave, Hub!Moves
  <2>3. moves' \in 1..MaxMoves
    BY <2>1, <2>2
  <2>4. /\ joined' = [joined EXCEPT ![room] = @ \ {c}] /\ came' = came
        /\ stayed' = [b \in Broadcasts |-> IF Hub!Sends(b, room) THEN stayed[b] \ {c} ELSE stayed[b]]
    BY Zenon DEF Hub!Leave
  <2> QED BY <2>2, <2>3, <2>4
<1>2. stayed' \in [Broadcasts -> SUBSET Conns] /\ joined' \in [Rooms -> SUBSET Conns] /\ moves' \in 0..MaxMoves
  BY <1>0, <1>1 DEF HubShapes
<1>3. \A b \in Broadcasts :
         /\ stayed'[b] \subseteq stayed[b]
         /\ Taken(b) /\ casts[b].room = room => stayed'[b] = stayed[b] \ {c}
  BY <1>0, <1>1 DEF HubShapes, Hub!Sends, Taken
<1>4. CASE n = None
  <2>1. UNCHANGED <<connections, maps, casts>>
    BY <1>4 DEF Hub!Leave
  <2>2. joined' = joined
    <3>1. joined[room] = {}
      BY <1>0, <1>4 DEF OwnMaps
    <3> QED BY <1>0, <1>1, <3>1 DEF HubShapes
  <2>3. HubShapes'
    BY <1>0, <1>1, <1>2, <2>1 DEF HubShapes
  <2>4. OwnMaps'
    <3>1. \A m \in Rooms : connections[m] # None => connections[m] <= moves'
      BY HubAssumption, <1>0, <1>1 DEF OwnMaps, HubShapes
    <3>2. \A k \in 1..MaxMoves : k > moves' => maps[k] = {}
      BY HubAssumption, <1>0, <1>1 DEF OwnMaps, HubShapes
    <3> QED BY <1>0, <2>1, <2>2, <3>1, <3>2 DEF OwnMaps
  <2>5. OwnCasts'
    BY <1>0, <1>1, <2>1 DEF OwnCasts, HubShapes, Cast, Taken
  <2>6. Reaches' /\ Hub!BroadcastReachesTheRoom'
    BY <1>0, <1>1, <1>3, <2>1 DEF Reaches, Hub!BroadcastReachesTheRoom, Taken, Hub!Entries
  <2> QED BY <2>3, <2>4, <2>5, <2>6 DEF HubIInv
<1>5. CASE n # None
  <2>1. /\ maps' = [maps EXCEPT ![n] = @ \ {c}]
        /\ connections' = [connections EXCEPT ![room] = IF Hub!Empties(room, c) THEN None ELSE @]
        /\ casts' = [b \in Broadcasts |-> IF casts[b].conns # n THEN casts[b]
                                          ELSE [casts[b] EXCEPT !.due = @ \ {c}, !.done = @ \ {c}]]
    BY <1>5 DEF Hub!Leave
  <2>2. n \in 1..MaxMoves /\ n <= moves /\ joined[room] = maps[n]
    BY <1>0, <1>5 DEF HubShapes, OwnMaps
  <2>3. \A m \in Rooms : connections'[m] = IF m = room /\ maps[n] \subseteq {c} THEN None ELSE connections[m]
    BY <1>0, <2>1 DEF HubShapes, Hub!Empties
  <2>4. \A k \in 1..MaxMoves : maps'[k] = IF k = n THEN maps[k] \ {c} ELSE maps[k]
    BY <1>0, <2>1, <2>2 DEF HubShapes
  <2>5. \A b \in Broadcasts :
          /\ casts'[b] \in Cast
          /\ casts'[b].at = casts[b].at /\ casts'[b].room = casts[b].room /\ casts'[b].conns = casts[b].conns
          /\ casts'[b].conn = casts[b].conn /\ casts'[b].reached = casts[b].reached
          /\ casts'[b].due = IF casts[b].conns = n THEN casts[b].due \ {c} ELSE casts[b].due
    <3> TAKE b \in Broadcasts
    <3>1. casts[b] \in Cast
      BY <1>0 DEF HubShapes
    <3>2. CASE casts[b].conns # n
      BY <2>1, <3>1, <3>2
    <3>3. CASE casts[b].conns = n
      <4>1. casts'[b] = [casts[b] EXCEPT !.due = @ \ {c}, !.done = @ \ {c}]
        BY <2>1, <3>3
      <4>2. casts'[b] \in Cast
        BY <3>1, <4>1 DEF Cast
      <4>3. /\ casts'[b].at = casts[b].at /\ casts'[b].room = casts[b].room /\ casts'[b].conns = casts[b].conns
            /\ casts'[b].conn = casts[b].conn /\ casts'[b].reached = casts[b].reached
            /\ casts'[b].due = casts[b].due \ {c}
        BY <3>1, <4>1 DEF Cast
      <4> QED BY <3>3, <4>2, <4>3
    <3> QED BY <3>2, <3>3
  <2>6. \A m \in Rooms \ {room} : connections[m] # n
    BY <1>0, <1>5 DEF OwnMaps
  <2>7. HubShapes'
    <3>1. connections' \in [Rooms -> 1..MaxMoves \cup {None}] /\ maps' \in [1..MaxMoves -> SUBSET Conns]
      BY <1>0, <2>1, <2>2 DEF HubShapes
    <3>2. casts' \in [Broadcasts -> Cast]
      BY <2>1, <2>5
    <3> QED BY <1>0, <1>1, <1>2, <3>1, <3>2 DEF HubShapes
  <2> HIDE DEF n
  <2>8. OwnMaps'
    <3>1. \A m \in Rooms : connections'[m] # None => connections'[m] = connections[m]
      BY <2>3
    <3>2. \A m \in Rooms : connections'[m] # None => connections'[m] <= moves'
      BY <1>0, <1>1, <3>1 DEF HubShapes, OwnMaps
    <3>3. \A m, k \in Rooms : connections'[m] # None /\ connections'[m] = connections'[k] => m = k
      BY <1>0, <3>1 DEF OwnMaps
    <3>4. joined'[room] = maps[n] \ {c} /\ maps'[n] = maps[n] \ {c}
      BY <1>0, <1>1, <2>2, <2>4 DEF HubShapes
    <3>5. \A m \in Rooms \ {room} : joined'[m] = joined[m] /\ connections'[m] = connections[m]
      BY <1>0, <1>1, <2>3 DEF HubShapes
    <3>6. \A m \in Rooms \ {room} : connections[m] # None => maps'[connections[m]] = maps[connections[m]]
      BY <1>0, <2>4, <2>6 DEF HubShapes
    <3>7. joined'[room] = IF connections'[room] = None THEN {} ELSE maps'[connections'[room]]
      <4>1. connections[room] = n /\ n # None
        BY <1>5 DEF n
      <4>2. CASE maps[n] \subseteq {c}
        BY <2>3, <3>4, <4>2
      <4>3. CASE ~(maps[n] \subseteq {c})
        BY <2>3, <3>4, <4>1, <4>3
      <4> QED BY <4>2, <4>3
    <3>8. \A m \in Rooms \ {room} : joined'[m] = IF connections'[m] = None THEN {} ELSE maps'[connections'[m]]
      BY <1>0, <3>5, <3>6 DEF OwnMaps
    <3>9. \A k \in 1..MaxMoves : k > moves' => maps'[k] = {}
      <4>1. \A k \in 1..MaxMoves : k > moves' => maps[k] = {}
        BY HubAssumption, <1>0, <1>1 DEF HubShapes, OwnMaps
      <4> QED BY <2>4, <4>1
    <3> QED BY <3>2, <3>3, <3>7, <3>8, <3>9 DEF OwnMaps
  <2>9. OwnCasts'
    <3>1. \A b \in Broadcasts : casts[b].conns # None /\ Taken(b) => casts[b].conns <= moves'
      BY <1>0, <1>1 DEF OwnCasts, HubShapes, Cast
    <3>2. ASSUME NEW b \in Broadcasts, Taken(b), casts[b].conns # None, NEW m \in Rooms,
                 connections'[m] = casts[b].conns
          PROVE  m = casts[b].room
      <4>1. connections[m] = casts[b].conns
        BY <2>3, <3>2
      <4> QED BY <1>0, <3>2, <4>1 DEF OwnCasts
    <3>3. \A b \in Broadcasts : Taken(b)' => Taken(b)
      BY <2>5 DEF Taken
    <3>4. \A b \in Broadcasts : Taken(b) => casts[b].room \in Rooms
      BY <1>0 DEF OwnCasts
    <3>5. ASSUME NEW b \in Broadcasts, Taken(b)'
          PROVE  /\ casts'[b].room \in Rooms
                 /\ casts'[b].conns # None =>
                      /\ casts'[b].conns <= moves'
                      /\ \A m \in Rooms : connections'[m] = casts'[b].conns => m = casts'[b].room
      <4>1. Taken(b) /\ casts'[b].room = casts[b].room /\ casts'[b].conns = casts[b].conns
        BY <2>5, <3>3, <3>5
      <4> HIDE DEF n
      <4> QED BY <3>1, <3>2, <3>4, <4>1
    <3> QED BY <3>5 DEF OwnCasts
  <2>10. \A b \in Broadcasts :
           /\ casts[b].conns = n => Hub!Entries(b)' = Hub!Entries(b) \ {c}
           /\ casts[b].conns # n => Hub!Entries(b)' = Hub!Entries(b)
    <3>1. \A b \in Broadcasts : casts[b].conns # None => casts[b].conns \in 1..MaxMoves
      BY <1>0 DEF HubShapes, Cast
    <3>2. n # None
      BY <1>5 DEF n
    <3> QED BY <2>2, <2>4, <2>5, <3>1, <3>2 DEF Hub!Entries
  <2>11. \A b \in Broadcasts : Taken(b) /\ casts[b].conns = n => casts[b].room = room
    BY <1>0, <1>5 DEF OwnCasts, n
  <2>12. Reaches'
    <3>1. ASSUME NEW b \in Broadcasts, Taken(b)
          PROVE  stayed'[b] \subseteq Hub!Entries(b)' /\ Hub!Entries(b)' \subseteq came'[b]
      BY <1>0, <1>1, <1>3, <2>10, <2>11, <3>1 DEF Reaches
    <3>2. ASSUME NEW b \in Broadcasts, casts[b].at \in {"ranging", "writing"}
          PROVE  stayed'[b] \subseteq casts'[b].due \cup casts'[b].reached
      <4>1. Taken(b) /\ stayed[b] \subseteq casts[b].due \cup casts[b].reached
        BY <1>0, <3>2 DEF Reaches, Taken
      <4> QED BY <1>3, <2>5, <2>11, <4>1
    <3>3. \A b \in Broadcasts : casts[b].at = "writing" => casts[b].conn \in came'[b]
      BY <1>0, <1>1 DEF Reaches
    <3>4. \A b \in Broadcasts : casts[b].at = "start" => casts[b].reached = {}
      BY <1>0 DEF Reaches
    <3> HIDE DEF n
    <3>5. \A b \in Broadcasts : Taken(b)' => Taken(b)
      BY <2>5 DEF Taken
    <3>6. \A b \in Broadcasts : Taken(b)' => stayed'[b] \subseteq Hub!Entries(b)' /\ Hub!Entries(b)' \subseteq came'[b]
      BY <3>1, <3>5
    <3>7. \A b \in Broadcasts : casts'[b].at \in {"ranging", "writing"}
                               => stayed'[b] \subseteq casts'[b].due \cup casts'[b].reached
      BY <2>5, <3>2
    <3>8. \A b \in Broadcasts :
            /\ casts'[b].at = "writing" => casts'[b].conn \in came'[b]
            /\ casts'[b].at = "start" => casts'[b].reached = {}
      BY <2>5, <3>3, <3>4
    <3> QED BY <3>6, <3>7, <3>8 DEF Reaches
  <2>13. Hub!BroadcastReachesTheRoom'
    BY <1>0, <1>1, <1>3, <2>5 DEF Hub!BroadcastReachesTheRoom
  <2> QED BY <2>7, <2>8, <2>9, <2>12, <2>13 DEF HubIInv
<1> QED BY <1>4, <1>5

\* A step of a Broadcast that changes no more than where it is.
LEMMA StepOfACast ==
    ASSUME HubIInv, NEW b \in Broadcasts, NEW cast \in Cast, Taken(b),
           casts' = [casts EXCEPT ![b] = cast],
           cast.room = casts[b].room, cast.conns = casts[b].conns, cast.at # "start",
           cast.at \in {"ranging", "writing"} => stayed[b] \subseteq cast.due \cup cast.reached,
           cast.at = "writing" => cast.conn \in came[b],
           cast.at = "done" => stayed[b] \subseteq cast.reached,
           cast.reached \subseteq came[b],
           moves' \in 0..MaxMoves, moves' >= moves,
           UNCHANGED <<connections, maps, joined, stayed, came>>
    PROVE  HubIInv'
<1>0. HubShapes /\ OwnMaps /\ OwnCasts /\ Reaches /\ Hub!BroadcastReachesTheRoom
  BY DEF HubIInv
<1>1. casts'[b] = cast /\ \A d \in Broadcasts : d # b => casts'[d] = casts[d]
  BY <1>0 DEF HubShapes
<1>2. HubShapes'
  BY <1>0 DEF HubShapes
<1>3. OwnMaps'
  BY <1>0 DEF OwnMaps, HubShapes
<1>4. \A d \in Broadcasts : casts[d].conns = None \/ casts[d].conns \in 1..MaxMoves
  BY <1>0 DEF HubShapes, Cast
<1>5. OwnCasts'
  <2>1. \A d \in Broadcasts : casts'[d].room = casts[d].room /\ casts'[d].conns = casts[d].conns
    BY <1>1
  <2>2. \A d \in Broadcasts : Taken(d)' => Taken(d)
    BY <1>1 DEF Taken
  <2>3. \A d \in Broadcasts : Taken(d) /\ casts[d].conns # None => casts[d].conns <= moves'
    BY <1>0, <1>4 DEF OwnCasts, HubShapes
  <2> QED BY <1>0, <2>1, <2>2, <2>3 DEF OwnCasts
<1>6. \A d \in Broadcasts : Hub!Entries(d)' = Hub!Entries(d)
  BY <1>1 DEF Hub!Entries
<1>7. Reaches'
  <2>1. ASSUME NEW d \in Broadcasts, Taken(d)'
        PROVE  stayed'[d] \subseteq Hub!Entries(d)' /\ Hub!Entries(d)' \subseteq came'[d]
    <3>1. Taken(d)
      BY <1>1, <2>1 DEF Taken
    <3> QED BY <1>0, <1>6, <3>1 DEF Reaches
  <2> QED BY <1>0, <1>1, <2>1 DEF Reaches
<1>8. Hub!BroadcastReachesTheRoom'
  BY <1>0, <1>1 DEF Hub!BroadcastReachesTheRoom
<1> QED BY <1>2, <1>3, <1>5, <1>7, <1>8 DEF HubIInv

LEMMA BroadcastHolds == ASSUME HubIInv, NEW b \in Broadcasts, NEW room \in Rooms, Hub!Broadcast(b, room) PROVE HubIInv'
<1>0. HubShapes /\ OwnMaps /\ OwnCasts /\ Reaches /\ Hub!BroadcastReachesTheRoom
  BY DEF HubIInv
<1>1. /\ casts[b].at = "start"
      /\ casts' = [casts EXCEPT ![b].at = "taken", ![b].room = room, ![b].conns = connections[room]]
      /\ stayed' = [stayed EXCEPT ![b] = joined[room]] /\ came' = [came EXCEPT ![b] = joined[room]]
      /\ UNCHANGED <<connections, maps, moves, joined>>
  BY DEF Hub!Broadcast
<1>2. /\ casts'[b].at = "taken" /\ casts'[b].room = room /\ casts'[b].conns = connections[room]
      /\ casts'[b].reached = {} /\ casts'[b] \in Cast
  <2>1. casts[b] \in Cast /\ casts[b].reached = {} /\ connections[room] \in 1..MaxMoves \cup {None}
    BY <1>0, <1>1 DEF HubShapes, Reaches
  <2>2. casts'[b] = [casts[b] EXCEPT !.at = "taken", !.room = room, !.conns = connections[room]]
    BY <1>0, <1>1 DEF HubShapes
  <2> QED BY <2>1, <2>2 DEF Cast
<1>3. \A d \in Broadcasts \ {b} : casts'[d] = casts[d] /\ stayed'[d] = stayed[d] /\ came'[d] = came[d]
  BY <1>0, <1>1 DEF HubShapes
<1>4. stayed'[b] = joined[room] /\ came'[b] = joined[room]
  BY <1>0, <1>1 DEF HubShapes
<1>5. HubShapes'
  <2>1. casts' \in [Broadcasts -> Cast]
    BY <1>0, <1>1, <1>2, <1>3 DEF HubShapes
  <2>2. stayed' \in [Broadcasts -> SUBSET Conns] /\ came' \in [Broadcasts -> SUBSET Conns]
    BY <1>0, <1>1 DEF HubShapes
  <2> QED BY <1>0, <1>1, <2>1, <2>2 DEF HubShapes
<1>6. OwnMaps'
  BY <1>0, <1>1 DEF OwnMaps, HubShapes
<1>7. OwnCasts'
  <2>1. casts'[b].conns # None => casts'[b].conns <= moves /\ \A m \in Rooms : connections[m] = casts'[b].conns => m = room
    BY <1>0, <1>2 DEF OwnMaps
  <2>2. \A d \in Broadcasts \ {b} : Taken(d)' => Taken(d)
    BY <1>3 DEF Taken
  <2>3. ASSUME NEW d \in Broadcasts, Taken(d)'
        PROVE  /\ casts'[d].room \in Rooms
               /\ casts'[d].conns # None =>
                    /\ casts'[d].conns <= moves'
                    /\ \A m \in Rooms : connections'[m] = casts'[d].conns => m = casts'[d].room
    <3>1. CASE d = b
      BY <1>1, <1>2, <2>1, <3>1
    <3>2. CASE d # b
      <4>1. Taken(d) /\ casts'[d] = casts[d]
        BY <1>3, <2>2, <2>3, <3>2
      <4>2. connections' = connections /\ moves' = moves
        BY <1>1
      <4> QED BY <1>0, <4>1, <4>2 DEF OwnCasts
    <3> QED BY <3>1, <3>2
  <2> QED BY <2>3 DEF OwnCasts
<1>8. Hub!Entries(b)' = joined[room] /\ \A d \in Broadcasts \ {b} : Hub!Entries(d)' = Hub!Entries(d)
  <2>1. maps' = maps
    BY <1>1
  <2>2. joined[room] = IF connections[room] = None THEN {} ELSE maps[connections[room]]
    BY <1>0 DEF OwnMaps
  <2> QED BY <1>2, <1>3, <2>1, <2>2 DEF Hub!Entries
<1>9. Reaches'
  BY <1>0, <1>2, <1>3, <1>4, <1>8 DEF Reaches, Taken
<1>10. Hub!BroadcastReachesTheRoom'
  BY <1>0, <1>2, <1>3 DEF Hub!BroadcastReachesTheRoom
<1> QED BY <1>5, <1>6, <1>7, <1>9, <1>10 DEF HubIInv

LEMMA MarshalHolds == ASSUME HubIInv, NEW b \in Broadcasts, Hub!Marshal(b) PROVE HubIInv'
<1>0. HubShapes /\ Reaches /\ Hub!BroadcastReachesTheRoom
  BY DEF HubIInv
<1>1. Taken(b) /\ casts[b] \in Cast /\ stayed[b] \subseteq Hub!Entries(b) /\ casts[b].reached \subseteq came[b]
  BY <1>0 DEF Hub!Marshal, Taken, HubShapes, Reaches, Hub!BroadcastReachesTheRoom
<1>2. Hub!Entries(b) \subseteq Conns
  BY <1>0, <1>1 DEF Hub!Entries, HubShapes, Cast
<1>3. moves' \in 0..MaxMoves /\ moves' >= moves
  BY HubAssumption, <1>0 DEF Hub!Marshal, HubShapes
<1>4. CASE casts' = [casts EXCEPT ![b].at = "error"]
  <2> DEFINE cast == [casts[b] EXCEPT !.at = "error"]
  <2>1. cast \in Cast /\ cast.at = "error" /\ cast.room = casts[b].room /\ cast.conns = casts[b].conns
        /\ cast.reached = casts[b].reached
    BY <1>1 DEF Cast
  <2>2. casts' = [casts EXCEPT ![b] = cast]
    BY <1>4
  <2> HIDE DEF cast
  <2> QED BY <1>1, <1>3, <2>1, <2>2, StepOfACast DEF Hub!Marshal
<1>5. CASE casts' = [casts EXCEPT ![b].at = "ranging", ![b].due = Hub!Entries(b)]
  <2> DEFINE cast == [casts[b] EXCEPT !.at = "ranging", !.due = Hub!Entries(b)]
  <2>1. cast \in Cast /\ cast.at = "ranging" /\ cast.room = casts[b].room /\ cast.conns = casts[b].conns
        /\ cast.reached = casts[b].reached /\ cast.due = Hub!Entries(b)
    BY <1>1, <1>2 DEF Cast
  <2>2. casts' = [casts EXCEPT ![b] = cast]
    BY <1>0, <1>5 DEF HubShapes
  <2> HIDE DEF cast
  <2> QED BY <1>1, <1>3, <2>1, <2>2, StepOfACast DEF Hub!Marshal
<1> QED BY <1>4, <1>5 DEF Hub!Marshal

LEMMA RangeHolds == ASSUME HubIInv, NEW b \in Broadcasts, Hub!Range(b) PROVE HubIInv'
<1>0. HubShapes /\ Reaches /\ Hub!BroadcastReachesTheRoom
  BY DEF HubIInv
<1>1. /\ Taken(b) /\ casts[b] \in Cast /\ Hub!Entries(b) \subseteq came[b] /\ casts[b].reached \subseteq came[b]
      /\ stayed[b] \subseteq casts[b].due \cup casts[b].reached
  BY <1>0 DEF Hub!Range, Taken, HubShapes, Reaches, Hub!BroadcastReachesTheRoom
<1>2. moves' \in 0..MaxMoves /\ moves' >= moves
  BY HubAssumption, <1>0 DEF Hub!Range, HubShapes
<1>3. PICK c \in Hub!Entries(b) \ casts[b].done : casts' = [casts EXCEPT ![b].at = "writing", ![b].conn = c]
  BY DEF Hub!Range
<1>4. c \in Conns
  BY <1>0, <1>1 DEF Hub!Entries, HubShapes, Cast
<1> DEFINE cast == [casts[b] EXCEPT !.at = "writing", !.conn = c]
<1>5. cast \in Cast /\ cast.at = "writing" /\ cast.room = casts[b].room /\ cast.conns = casts[b].conns
      /\ cast.reached = casts[b].reached /\ cast.due = casts[b].due /\ cast.conn = c
  BY <1>1, <1>4 DEF Cast
<1>6. casts' = [casts EXCEPT ![b] = cast]
  BY <1>0, <1>3 DEF HubShapes
<1> HIDE DEF cast
<1> QED BY <1>1, <1>2, <1>5, <1>6, StepOfACast DEF Hub!Range

LEMMA WriteHolds == ASSUME HubIInv, NEW b \in Broadcasts, Hub!Write(b) PROVE HubIInv'
<1>0. HubShapes /\ Reaches /\ Hub!BroadcastReachesTheRoom
  BY DEF HubIInv
<1>1. /\ Taken(b) /\ casts[b] \in Cast /\ casts[b].conn \in came[b] /\ casts[b].reached \subseteq came[b]
      /\ stayed[b] \subseteq casts[b].due \cup casts[b].reached /\ came[b] \subseteq Conns
  BY <1>0 DEF Hub!Write, Taken, HubShapes, Reaches, Hub!BroadcastReachesTheRoom
<1>2. moves' \in 0..MaxMoves /\ moves' >= moves
  BY HubAssumption, <1>0 DEF Hub!Write, HubShapes
<1> DEFINE cast == [casts[b] EXCEPT !.at = "ranging", !.conn = None, !.due = @ \ {casts[b].conn},
                                    !.done = @ \cup {casts[b].conn}, !.reached = @ \cup {casts[b].conn}]
<1>3. cast \in Cast /\ cast.at = "ranging" /\ cast.room = casts[b].room /\ cast.conns = casts[b].conns
      /\ cast.reached = casts[b].reached \cup {casts[b].conn} /\ cast.due = casts[b].due \ {casts[b].conn}
  BY <1>1 DEF Cast
<1>4. casts' = [casts EXCEPT ![b] = cast]
  BY <1>0 DEF HubShapes, Hub!Write
<1> HIDE DEF cast
<1> QED BY <1>1, <1>2, <1>3, <1>4, StepOfACast DEF Hub!Write

LEMMA DoneHolds == ASSUME HubIInv, NEW b \in Broadcasts, Hub!Done(b) PROVE HubIInv'
<1>0. HubShapes /\ Reaches /\ Hub!BroadcastReachesTheRoom
  BY DEF HubIInv
<1>1. /\ Taken(b) /\ casts[b] \in Cast /\ stayed[b] \subseteq casts[b].reached
      /\ casts[b].reached \subseteq came[b]
  BY <1>0 DEF Hub!Done, Taken, HubShapes, Reaches, Hub!BroadcastReachesTheRoom
<1>2. moves' \in 0..MaxMoves /\ moves' >= moves
  BY HubAssumption, <1>0 DEF Hub!Done, HubShapes
<1> DEFINE cast == [casts[b] EXCEPT !.at = "done"]
<1>3. cast \in Cast /\ cast.at = "done" /\ cast.room = casts[b].room /\ cast.conns = casts[b].conns
      /\ cast.reached = casts[b].reached
  BY <1>1 DEF Cast
<1>4. casts' = [casts EXCEPT ![b] = cast]
  BY DEF Hub!Done
<1> HIDE DEF cast
<1> QED BY <1>1, <1>2, <1>3, <1>4, StepOfACast DEF Hub!Done

LEMMA CollideHolds == ASSUME HubIInv, NEW b \in Broadcasts, NEW room \in Rooms, Hub!Collide(b, room) PROVE HubIInv'
<1>0. HubShapes /\ Reaches /\ Hub!BroadcastReachesTheRoom
  BY DEF HubIInv
<1>1. Taken(b) /\ casts[b] \in Cast /\ casts[b].reached \subseteq came[b]
  BY <1>0 DEF Hub!Collide, Taken, HubShapes, Hub!BroadcastReachesTheRoom
<1>2. moves' \in 0..MaxMoves /\ moves' >= moves
  BY HubAssumption, <1>0 DEF Hub!Collide, Hub!Moves, HubShapes
<1> DEFINE cast == [casts[b] EXCEPT !.at = "crashed"]
<1>3. cast \in Cast /\ cast.at = "crashed" /\ cast.room = casts[b].room /\ cast.conns = casts[b].conns
      /\ cast.reached = casts[b].reached
  BY <1>1 DEF Cast
<1>4. casts' = [casts EXCEPT ![b] = cast]
  BY DEF Hub!Collide
<1> HIDE DEF cast
<1> QED BY <1>1, <1>2, <1>3, <1>4, StepOfACast DEF Hub!Collide

LEMMA HubStepHolds == ASSUME HubIInv, [Hub!Next]_(Hub!vars) PROVE HubIInv'
<1>1. CASE UNCHANGED Hub!vars
  BY <1>1 DEF Hub!vars, HubIInv, HubShapes, OwnMaps, OwnCasts, Reaches, Hub!BroadcastReachesTheRoom, Taken,
     Hub!Entries
<1>2. CASE Hub!Next
  BY <1>2, JoinHolds, LeaveHolds, BroadcastHolds, MarshalHolds, RangeHolds, WriteHolds, DoneHolds,
     CollideHolds DEF Hub!Next
<1> QED BY <1>1, <1>2

-----------------------------------------------------------------------------
(* Attachments.                                                            *)

\* What a request on its way has done so far: no row before Insert, no file
\* before Create, a whole file only after Copy.  A row whose request was not
\* told so is among the unread ones.
Progress ==
    \A r \in Requests :
        /\ at[r] \in {"start", "writing", "put", "served"} => r \notin blobs
        /\ at[r] \in {"start", "served"} => Attachments!FileOf(r) \notin DOMAIN files
        /\ at[r] = "put" => Attachments!FileOf(r) \in DOMAIN files /\ files[Attachments!FileOf(r)] = "whole"
        /\ at[r] = "cleaning" /\ r \in unread =>
             Attachments!FileOf(r) \in DOMAIN files /\ files[Attachments!FileOf(r)] = "whole"
        /\ r \in blobs \ unread => at[r] = "attached"

FilesIInv == Attachments!TypeOK /\ Progress /\ Attachments!RowsAndFilesAgree

-----------------------------------------------------------------------------

\* The uuid is part of the path: two requests never write one file
\* (service.go:64-77).
LEMMA FilesDiffer == \A r, q \in Requests : Attachments!FileOf(r) = Attachments!FileOf(q) <=> r = q
BY DEF Attachments!FileOf, Attachments!getStorageKey

LEMMA FilesInitHolds == Attachments!Init => FilesIInv
BY DEF Attachments!Init, FilesIInv, Attachments!TypeOK, Progress, Attachments!RowsAndFilesAgree, Attachments!Undone

LEMMA CreateHolds == ASSUME FilesIInv, NEW r \in Requests, Attachments!Create(r) PROVE FilesIInv'
<1> USE DEF Attachments!Create, Attachments!Goes, Attachments!Holds, FilesIInv
<1>1. Attachments!TypeOK'
  BY DEF Attachments!TypeOK
<1>2. Progress'
  BY FilesDiffer DEF Attachments!TypeOK, Progress, Attachments!FileOf
<1>3. Attachments!RowsAndFilesAgree'
  BY FilesDiffer DEF Attachments!TypeOK, Progress, Attachments!RowsAndFilesAgree, Attachments!Undone
<1> QED BY <1>1, <1>2, <1>3

LEMMA CopyHolds == ASSUME FilesIInv, NEW r \in Requests, Attachments!Copy(r) PROVE FilesIInv'
<1> USE DEF Attachments!Copy, Attachments!Goes, Attachments!Holds, FilesIInv
<1>1. Attachments!TypeOK'
  BY DEF Attachments!TypeOK
<1>2. Progress'
  BY FilesDiffer DEF Attachments!TypeOK, Progress
<1>3. Attachments!RowsAndFilesAgree'
  BY FilesDiffer DEF Attachments!TypeOK, Progress, Attachments!RowsAndFilesAgree, Attachments!Undone
<1> QED BY <1>1, <1>2, <1>3

LEMMA InsertHolds == ASSUME FilesIInv, NEW r \in Requests, Attachments!Insert(r) PROVE FilesIInv'
<1> USE DEF Attachments!Insert, Attachments!Fails, Attachments!Goes, FilesIInv
<1>1. Attachments!TypeOK'
  BY DEF Attachments!TypeOK
<1>2. Progress'
  BY FilesDiffer DEF Attachments!TypeOK, Progress
<1>3. Attachments!RowsAndFilesAgree'
  BY FilesDiffer DEF Attachments!TypeOK, Progress, Attachments!RowsAndFilesAgree, Attachments!Undone
<1> QED BY <1>1, <1>2, <1>3

LEMMA CleanHolds == ASSUME FilesIInv, NEW r \in Requests, Attachments!Clean(r) PROVE FilesIInv'
<1> USE DEF Attachments!Clean, Attachments!Goes, FilesIInv
<1>1. Attachments!TypeOK'
  BY DEF Attachments!TypeOK
<1>2. Progress'
  BY FilesDiffer DEF Attachments!TypeOK, Progress
<1>3. Attachments!RowsAndFilesAgree'
  BY FilesDiffer DEF Attachments!TypeOK, Progress, Attachments!RowsAndFilesAgree, Attachments!Undone
<1> QED BY <1>1, <1>2, <1>3

LEMMA KillHolds == ASSUME FilesIInv, Attachments!Kill PROVE FilesIInv'
<1> USE DEF Attachments!Kill, FilesIInv
<1>1. Attachments!TypeOK'
  BY DEF Attachments!TypeOK
<1>2. Progress'
  BY DEF Attachments!TypeOK, Progress
<1>3. Attachments!RowsAndFilesAgree'
  BY DEF Attachments!TypeOK, Progress, Attachments!RowsAndFilesAgree, Attachments!Undone
<1> QED BY <1>1, <1>2, <1>3

\* Requests have the same prefix exactly if they come the same way.
LEMMA SamePrefix == \A r, q \in Requests : Attachments!Together(r, q) <=> Attachments!Subdomain(r) = Attachments!Subdomain(q)
BY DEF Attachments!Together, Attachments!BySubdomain, Attachments!Subdomain

\* A path is that of a file exactly for requests with its prefix.
LEMMA FilesGetHolds == ASSUME FilesIInv, NEW r \in Requests, NEW uuid \in Requests, Attachments!Get(r, uuid) PROVE FilesIInv'
<1> USE DEF Attachments!Get, Attachments!Goes, FilesIInv
<1>1. Attachments!TypeOK'
  BY DEF Attachments!TypeOK
<1>2. Progress'
  BY DEF Attachments!TypeOK, Progress
<1>3. /\ Attachments!getStorageKey(r, uuid) \in DOMAIN files => Attachments!Together(r, uuid)
      /\ Attachments!getStorageKey(r, uuid) \notin DOMAIN files => ~Attachments!Together(r, uuid) \/ Attachments!Undone(uuid)
  <2>1. CASE Attachments!Subdomain(r) = Attachments!Subdomain(uuid)
    <3>1. Attachments!getStorageKey(r, uuid) = Attachments!FileOf(uuid)
      BY <2>1 DEF Attachments!FileOf, Attachments!getStorageKey
    <3> QED BY <2>1, <3>1, SamePrefix DEF Attachments!RowsAndFilesAgree
  <2>2. CASE Attachments!Subdomain(r) # Attachments!Subdomain(uuid)
    <3>1. Attachments!getStorageKey(r, uuid) \notin DOMAIN files
      BY <2>2 DEF Attachments!TypeOK, Attachments!FileOf, Attachments!getStorageKey
    <3> QED BY <2>2, <3>1, SamePrefix
  <2> QED BY <2>1, <2>2
<1>4. /\ UNCHANGED <<files, blobs, unread>>
      /\ at[r] = "start" /\ at' = [at EXCEPT ![r] = "served"] /\ DOMAIN at = Requests
      /\ got' = [got EXCEPT ![r] = [blob |-> uuid, found |-> Attachments!getStorageKey(r, uuid) \in DOMAIN files]]
  BY DEF Attachments!TypeOK
<1>5. \A q \in Requests : Attachments!Undone(q)' <=> Attachments!Undone(q)
  BY <1>4 DEF Attachments!Undone
<1>6. \A q \in Requests :
        /\ q \in blobs => Attachments!Undone(q) \/ (Attachments!FileOf(q) \in DOMAIN files /\ files[Attachments!FileOf(q)] = "whole")
        /\ q \notin blobs /\ Attachments!FileOf(q) \in DOMAIN files /\ files[Attachments!FileOf(q)] = "whole" =>
             at'[q] \in {"put", "cleaning", "killed", "left"}
  BY <1>4 DEF Attachments!RowsAndFilesAgree
<1>7. \A q \in Requests : got'[q] # None =>
        /\ got'[q].found => Attachments!Together(q, got'[q].blob)
        /\ ~got'[q].found => ~Attachments!Together(q, got'[q].blob) \/ Attachments!Undone(got'[q].blob)
  <2>1. \A q \in Requests : got'[q] = IF q = r THEN [blob |-> uuid, found |-> Attachments!getStorageKey(r, uuid) \in DOMAIN files] ELSE got[q]
    BY <1>4 DEF Attachments!TypeOK
  <2>2. /\ got'[r].blob = uuid
        /\ got'[r].found = (Attachments!getStorageKey(r, uuid) \in DOMAIN files)
    <3>1. got'[r] = [blob |-> uuid, found |-> Attachments!getStorageKey(r, uuid) \in DOMAIN files]
      BY <2>1
    <3> QED BY ONLY <3>1
  <2>3. /\ got'[r].found => Attachments!Together(r, uuid)
        /\ ~got'[r].found => ~Attachments!Together(r, uuid) \/ Attachments!Undone(uuid)
    BY Zenon, <1>3, <2>2
  <2>4. \A q \in Requests \ {r} : got'[q] = got[q]
    BY <2>1
  <2> QED BY Zenon, <2>2, <2>3, <2>4 DEF Attachments!RowsAndFilesAgree
<1>8. \A q \in Requests : got'[q] # None => got'[q].blob \in Requests
  BY <1>1, <1>4 DEF Attachments!TypeOK
<1>9. Attachments!RowsAndFilesAgree'
  BY <1>4, <1>5, <1>6, <1>7, <1>8 DEF Attachments!RowsAndFilesAgree, Attachments!Together, Attachments!BySubdomain,
     Attachments!FileOf, Attachments!getStorageKey, Attachments!Subdomain
<1> QED BY <1>1, <1>2, <1>9

LEMMA FilesStepHolds == FilesIInv /\ [Attachments!Next]_(Attachments!vars) => FilesIInv'
<1> SUFFICES ASSUME FilesIInv, [Attachments!Next]_(Attachments!vars) PROVE FilesIInv'
  OBVIOUS
<1>1. CASE \E r \in Requests : Attachments!Create(r) \/ Attachments!Copy(r) \/ Attachments!Insert(r) \/ Attachments!Clean(r)
  BY <1>1, CreateHolds, CopyHolds, InsertHolds, CleanHolds
<1>2. CASE \E r, uuid \in Requests : Attachments!Get(r, uuid)
  BY <1>2, FilesGetHolds
<1>3. CASE Attachments!Kill
  BY <1>3, KillHolds
<1>4. CASE UNCHANGED Attachments!vars
  BY <1>4 DEF Attachments!vars, FilesIInv, Attachments!TypeOK, Progress, Attachments!RowsAndFilesAgree,
     Attachments!Undone, Attachments!Together, Attachments!BySubdomain, Attachments!Subdomain,
     Attachments!FileOf, Attachments!getStorageKey
<1> QED BY <1>1, <1>2, <1>3, <1>4 DEF Attachments!Next

-----------------------------------------------------------------------------
(* The rate limiter.                                                       *)

\* A list has the last times at which its key has passed, and the others are
\* out of the window that ends now.
KeepsTheLast(k) ==
    \E m \in 0..Len(passed[k]) :
        /\ Len(data[k]) = Len(passed[k]) - m
        /\ \A i \in 1..Len(data[k]) : data[k][i] = passed[k][m + i]
        /\ \A i \in 1..m : passed[k][i] + Window <= now

InOrder(k) == \A i, j \in 1..Len(passed[k]) : i <= j => passed[k][i] <= passed[k][j]

Spaced(k) == \A i \in 1..Len(passed[k]) : i + limit \in 1..Len(passed[k]) => passed[k][i] + Window <= passed[k][i + limit]

\* What a refusal has said of the requests that had passed by then.
Told(f) ==
    \E n \in 1..Len(passed[f.key]) :
        /\ limit \in 1..n /\ passed[f.key][n] <= f.at /\ f.at < f.until
        /\ f.until = passed[f.key][n + 1 - limit] + Window

RateInv ==
    /\ RateLimit!TypeOK
    /\ \A k \in Clients : KeepsTheLast(k) /\ InOrder(k) /\ Spaced(k) /\ (data[k] = <<>> \/ Len(data[k]) <= limit)
    /\ \A f \in refused : Told(f)
    /\ panicked # {} => limit <= 0

\* A set of numbers has a least one.
LEMMA LeastNumber == ASSUME NEW T \in SUBSET Nat, T # {} PROVE \E x \in T : \A y \in T : x <= y
<1> DEFINE R == OpToRel(<, Nat)
<1>1. IsWellFoundedOn(R, Nat)
  BY NatLessThanWellFounded
<1>2. \A p, q \in Nat : p < q => <<p, q>> \in R
  BY DEF OpToRel
<1> HIDE DEF R
<1>3. PICK x \in T : \A y \in T : ~ (<<y, x>> \in R)
  BY <1>1, WFMin
<1>4. \A y \in T : ~ (y < x)
  BY <1>2, <1>3
<1> QED BY <1>4

LEMMA RateInitHolds == RateLimit!Init => RateInv
<1> SUFFICES ASSUME RateLimit!Init PROVE RateInv
  OBVIOUS
<1>0. /\ limit \in Limits /\ now = 0 /\ refused = {} /\ panicked = {}
      /\ data = [k \in Clients |-> <<>>] /\ passed = [k \in Clients |-> <<>>]
  BY DEF RateLimit!Init
<1>1. RateLimit!TypeOK
  BY <1>0, RateLimitAssumption DEF RateLimit!TypeOK
<1>2. ASSUME NEW k \in Clients PROVE KeepsTheLast(k) /\ InOrder(k) /\ Spaced(k)
  <2>1. Len(data[k]) = 0 /\ Len(passed[k]) = 0
    BY <1>0
  <2>2. KeepsTheLast(k)
    <3>1. 0 \in 0..Len(passed[k]) /\ Len(data[k]) = Len(passed[k]) - 0
      BY <2>1
    <3>2. \A i \in 1..0 : passed[k][i] + Window <= now
      OBVIOUS
    <3>3. \A i \in 1..Len(data[k]) : data[k][i] = passed[k][0 + i]
      BY <2>1
    <3> QED BY <3>1, <3>2, <3>3 DEF KeepsTheLast
  <2>3. InOrder(k) /\ Spaced(k)
    BY <2>1 DEF InOrder, Spaced
  <2> QED BY <2>2, <2>3
<1> QED BY <1>0, <1>1, <1>2 DEF RateInv

\* The times are in order: those that have left the window are the first.
LEMMA DroppedAreFirst ==
    ASSUME RateInv, NEW k \in Clients
    PROVE  /\ RateLimit!Dropped(k) \in 0..Len(data[k])
           /\ \A i \in 1..Len(data[k]) : i <= RateLimit!Dropped(k) <=> data[k][i] + Window <= now
<1> DEFINE T == {n \in 0..Len(data[k]) : \A i \in 1..Len(data[k]) : n < i => now < data[k][i] + Window}
<1>1. data[k] \in Seq(0..now) /\ now \in Nat /\ Window \in Nat
  BY RateLimitAssumption DEF RateInv, RateLimit!TypeOK
<1>2. Len(data[k]) \in Nat /\ \A i \in 1..Len(data[k]) : data[k][i] \in Nat
  BY <1>1
<1>3. \A i, j \in 1..Len(data[k]) : i <= j => data[k][i] <= data[k][j]
  <2>1. PICK m \in 0..Len(passed[k]) :
          /\ Len(data[k]) = Len(passed[k]) - m
          /\ \A i \in 1..Len(data[k]) : data[k][i] = passed[k][m + i]
    BY DEF RateInv, KeepsTheLast
  <2>2. Len(passed[k]) \in Nat
    BY DEF RateInv, RateLimit!TypeOK
  <2> QED BY <1>2, <2>1, <2>2 DEF RateInv, InOrder
<1>4. Len(data[k]) \in T
  BY <1>2
<1>5. PICK n \in T : \A y \in T : n <= y
  <2>1. T \in SUBSET Nat /\ T # {}
    BY <1>2, <1>4
  <2> QED BY <2>1, LeastNumber
<1>6. \A i \in 1..Len(data[k]) : i <= n <=> data[k][i] + Window <= now
  <2> SUFFICES ASSUME NEW i \in 1..Len(data[k]), i <= n, now < data[k][i] + Window PROVE FALSE
    BY <1>1, <1>2
  <2>1. i \in Nat \ {0} /\ n \in Nat /\ i - 1 \in 0..Len(data[k])
    BY <1>2
  <2>2. ASSUME NEW j \in 1..Len(data[k]), i - 1 < j PROVE now < data[k][j] + Window
    <3>1. data[k][i] <= data[k][j] /\ data[k][i] \in Nat /\ data[k][j] \in Nat
      BY <1>2, <1>3, <2>1, <2>2
    <3>2. ASSUME NEW a \in Nat, NEW b \in Nat, NEW c \in Nat, NEW d \in Nat, d < a + c, a <= b PROVE d < b + c
      BY <3>2
    <3>3. now \in Nat /\ Window \in Nat /\ now < data[k][i] + Window
      BY <1>1
    <3> QED BY <3>1, <3>2, <3>3
  <2>3. n <= i - 1
    BY <1>5, <2>1, <2>2
  <2> QED BY <2>1, <2>3
<1>7. \E d \in 0..Len(data[k]) : \A i \in 1..Len(data[k]) : i <= d <=> data[k][i] + Window <= now
  BY <1>6
<1> QED BY <1>7 DEF RateLimit!Dropped

\* What is kept of a list are the last requests that have passed, those of
\* the window that ends now.
LEMMA RecentAreInTheWindow ==
    ASSUME RateInv, NEW k \in Clients
    PROVE  /\ RateLimit!Recent(k) \in Seq(0..now)
           /\ Len(RateLimit!Recent(k)) <= Len(data[k])
           /\ \E m \in 0..Len(passed[k]) :
                /\ Len(RateLimit!Recent(k)) = Len(passed[k]) - m
                /\ \A i \in 1..Len(RateLimit!Recent(k)) : RateLimit!Recent(k)[i] = passed[k][m + i]
                /\ \A i \in 1..m : passed[k][i] + Window <= now
                /\ \A i \in (m + 1)..Len(passed[k]) : now < passed[k][i] + Window
<1> DEFINE n == RateLimit!Dropped(k)
           l == data[k]
           p == passed[k]
<1>1. l \in Seq(0..now) /\ passed[k] \in Seq(0..now) /\ now \in Nat /\ Window \in Nat
  BY RateLimitAssumption DEF RateInv, RateLimit!TypeOK
<1>2. /\ Len(l) \in Nat /\ \A i \in 1..Len(l) : l[i] \in 0..now
      /\ Len(passed[k]) \in Nat /\ \A i \in 1..Len(passed[k]) : passed[k][i] \in 0..now
  BY <1>1
<1>3. n \in 0..Len(l) /\ \A i \in 1..Len(l) : i <= n <=> l[i] + Window <= now
  BY DroppedAreFirst
<1> HIDE DEF n
<1>4. RateLimit!Recent(k) = SubSeq(l, n + 1, Len(l))
  BY DEF RateLimit!Recent, n
<1>5. /\ RateLimit!Recent(k) \in Seq(0..now)
      /\ Len(RateLimit!Recent(k)) = Len(l) - n
      /\ \A i \in 1..(Len(l) - n) : RateLimit!Recent(k)[i] = l[n + i]
  BY <1>1, <1>2, <1>3, <1>4
<1>6. PICK m \in 0..Len(p) :
        /\ Len(l) = Len(p) - m
        /\ \A i \in 1..Len(l) : l[i] = p[m + i]
        /\ \A i \in 1..m : p[i] + Window <= now
  BY DEF RateInv, KeepsTheLast
<1> HIDE DEF l, p
<1>6a. Len(l) \in Nat /\ Len(p) \in Nat /\ m \in Nat /\ n \in Nat /\ n <= Len(l) /\ m <= Len(p)
  BY <1>2, <1>3, <1>6
<1>7. m + n \in 0..Len(p) /\ Len(l) - n = Len(p) - (m + n)
  BY <1>2, <1>3, <1>6
<1>8. \A i \in 1..(Len(l) - n) : RateLimit!Recent(k)[i] = p[(m + n) + i]
  <2> SUFFICES ASSUME NEW i \in 1..(Len(l) - n) PROVE RateLimit!Recent(k)[i] = p[(m + n) + i]
    OBVIOUS
  <2>1. n + i \in 1..Len(l) /\ m + (n + i) = (m + n) + i
    BY <1>6a
  <2> QED BY <1>5, <1>6, <2>1
<1>9. ASSUME NEW i \in (m + 1)..Len(p)
      PROVE  i - m \in 1..Len(l) /\ p[i] = l[i - m]
  <2>1. i - m \in 1..Len(l) /\ m + (i - m) = i
    BY <1>6a, <1>6
  <2> QED BY <1>6, <2>1
<1>10. \A i \in 1..(m + n) : p[i] + Window <= now
  <2> SUFFICES ASSUME NEW i \in 1..(m + n) PROVE p[i] + Window <= now
    OBVIOUS
  <2>1. CASE i <= m
    BY <1>6, <2>1
  <2>2. CASE i > m
    <3>1. i \in (m + 1)..Len(p) /\ i - m <= n
      BY <1>6a, <1>7, <2>2
    <3> QED BY <1>3, <1>9, <3>1
  <2> QED BY <2>1, <2>2
<1>11. \A i \in (m + n + 1)..Len(p) : now < p[i] + Window
  <2> SUFFICES ASSUME NEW i \in (m + n + 1)..Len(p) PROVE now < p[i] + Window
    OBVIOUS
  <2>1. i \in (m + 1)..Len(p) /\ ~(i - m <= n)
    BY <1>6a
  <2>2. l[i - m] \in 0..now /\ p[i] = l[i - m] /\ ~(l[i - m] + Window <= now)
    BY <1>2, <1>3, <1>9, <2>1
  <2> QED BY <1>1, <2>2
<1>12. Len(RateLimit!Recent(k)) <= Len(l) /\ Len(RateLimit!Recent(k)) = Len(p) - (m + n)
  BY <1>6a, <1>5, <1>7
<1> QED BY <1>5, <1>7, <1>8, <1>10, <1>11, <1>12 DEF l, p
\* What refusals have said stays true while requests pass.
LEMMA ToldStays ==
    ASSUME RateInv, NEW f \in refused, limit' = limit, passed' \in [Clients -> Seq(Nat)],
           \A k \in Clients : \A i \in 1..Len(passed[k]) : i \in 1..Len(passed'[k]) /\ passed'[k][i] = passed[k][i]
    PROVE  Told(f)'
<1>1. f.key \in Clients /\ limit \in Int
  BY RateLimitAssumption DEF RateInv, RateLimit!TypeOK
<1>2. PICK n \in 1..Len(passed[f.key]) :
        /\ limit \in 1..n /\ passed[f.key][n] <= f.at /\ f.at < f.until
        /\ f.until = passed[f.key][n + 1 - limit] + Window
  BY DEF RateInv, Told
<1>3. Len(passed[f.key]) \in Nat
  BY <1>1 DEF RateInv, RateLimit!TypeOK
<1>4. n + 1 - limit \in 1..Len(passed[f.key])
  BY <1>1, <1>2, <1>3
<1>5. /\ n \in 1..Len(passed'[f.key]) /\ passed'[f.key][n] = passed[f.key][n]
      /\ passed'[f.key][n + 1 - limit] = passed[f.key][n + 1 - limit]
  BY <1>1, <1>2, <1>4
<1> QED BY <1>2, <1>5 DEF Told

\* The lists of the other keys stay, and with them what holds of them.
LEMMA OthersStay ==
    ASSUME RateInv, NEW k \in Clients, UNCHANGED <<limit, now>>,
           data'[k] = data[k], passed'[k] = passed[k]
    PROVE  KeepsTheLast(k)' /\ InOrder(k)' /\ Spaced(k)' /\ (data'[k] = <<>> \/ Len(data'[k]) <= limit')
BY DEF RateInv, KeepsTheLast, InOrder, Spaced

LEMMA PassHolds == ASSUME RateInv, NEW k \in Clients, RateLimit!Pass(k) PROVE RateInv'
<1> DEFINE p == passed[k]
           rc == RateLimit!Recent(k)
           L == Len(passed[k])
<1>1. /\ Len(rc) < limit
      /\ data' = [data EXCEPT ![k] = Append(rc, now)]
      /\ passed' = [passed EXCEPT ![k] = Append(p, now)]
      /\ UNCHANGED <<limit, now, refused, panicked>>
  BY DEF RateLimit!Pass
<1>2. /\ limit \in Limits /\ limit \in Int /\ now \in 0..MaxTime /\ now \in Nat /\ Window \in Nat
      /\ data \in [Clients -> Seq(0..now)] /\ passed \in [Clients -> Seq(0..now)]
  BY RateLimitAssumption DEF RateInv, RateLimit!TypeOK
<1>3. PICK m \in 0..L :
        /\ Len(rc) = L - m
        /\ \A i \in 1..Len(rc) : rc[i] = p[m + i]
        /\ \A i \in 1..m : p[i] + Window <= now
        /\ \A i \in (m + 1)..L : now < p[i] + Window
  BY RecentAreInTheWindow
<1>4. rc \in Seq(0..now)
  BY RecentAreInTheWindow
<1> HIDE DEF rc
<1>5. data'[k] = Append(rc, now) /\ passed'[k] = Append(p, now)
  BY <1>1, <1>2
<1>6. \A q \in Clients \ {k} : data'[q] = data[q] /\ passed'[q] = passed[q]
  BY <1>1, <1>2
<1>7. data' \in [Clients -> Seq(0..now)] /\ passed' \in [Clients -> Seq(0..now)]
  BY <1>1, <1>2, <1>4
<1>8. RateLimit!TypeOK'
  BY <1>1, <1>2, <1>7 DEF RateInv, RateLimit!TypeOK
<1>9. /\ L \in Nat /\ p \in Seq(0..now) /\ \A i \in 1..L : p[i] \in 0..now
      /\ Len(passed'[k]) = L + 1 /\ \A i \in 1..L : passed'[k][i] = p[i]
      /\ passed'[k][L + 1] = now
  <2>1. p \in Seq(0..now) /\ now \in 0..now
    BY <1>2
  <2>2. L \in Nat /\ \A i \in 1..L : p[i] \in 0..now
    BY ONLY <2>1
  <2>3. /\ Len(Append(p, now)) = L + 1 /\ \A i \in 1..L : Append(p, now)[i] = p[i]
        /\ Append(p, now)[L + 1] = now
    BY ONLY <2>1
  <2> QED BY <1>5, <2>1, <2>2, <2>3
<1>10. /\ Len(rc) \in Nat /\ Len(data'[k]) = Len(rc) + 1
       /\ \A i \in 1..Len(rc) : data'[k][i] = rc[i]
       /\ data'[k][Len(rc) + 1] = now
  BY <1>4, <1>5
<1> HIDE DEF p, L
<1>11. InOrder(k)'
  <2>1. \A i, j \in 1..L : i <= j => p[i] <= p[j]
    BY DEF RateInv, InOrder, L, p
  <2> SUFFICES ASSUME NEW i \in 1..(L + 1), NEW j \in 1..(L + 1), i <= j PROVE passed'[k][i] <= passed'[k][j]
    BY <1>9 DEF InOrder
  <2>2. CASE j \in 1..L
    <3>1. i \in 1..L
      BY <1>9, <2>2
    <3> QED BY <1>9, <2>1, <2>2, <3>1
  <2>3. CASE j = L + 1
    <3>1. i = L + 1 \/ i \in 1..L
      BY <1>9
    <3>2. passed'[k][i] \in 0..now
      <4>1. CASE i = L + 1
        BY <1>2, <1>9, <4>1
      <4>2. CASE i \in 1..L
        BY <1>9, <4>2
      <4> QED BY <3>1, <4>1, <4>2
    <3> QED BY <1>2, <1>9, <2>3, <3>2
  <2> QED BY <1>9, <2>2, <2>3
<1>12. Spaced(k)'
  <2>1. \A i \in 1..L : i + limit \in 1..L => p[i] + Window <= p[i + limit]
    BY DEF RateInv, Spaced, L, p
  <2> SUFFICES ASSUME NEW i \in 1..(L + 1), i + limit \in 1..(L + 1) PROVE passed'[k][i] + Window <= passed'[k][i + limit]
    BY <1>1, <1>9 DEF Spaced
  <2>2. limit > 0 /\ i \in 1..L
    BY <1>1, <1>2, <1>9, <1>10
  <2>3. CASE i + limit \in 1..L
    BY <1>9, <2>1, <2>2, <2>3
  <2>4. CASE i + limit = L + 1
    <3>1. i \in 1..m
      BY <1>1, <1>2, <1>3, <1>9, <2>2, <2>4
    <3> QED BY <1>3, <1>9, <2>2, <2>4, <3>1
  <2> QED BY <1>2, <1>9, <2>2, <2>3, <2>4
<1>13. KeepsTheLast(k)'
  <2>1. m \in 0..Len(passed'[k]) /\ Len(data'[k]) = Len(passed'[k]) - m
    BY <1>3, <1>9, <1>10
  <2>2. \A i \in 1..Len(data'[k]) : data'[k][i] = passed'[k][m + i]
    <3> SUFFICES ASSUME NEW i \in 1..(Len(rc) + 1) PROVE data'[k][i] = passed'[k][m + i]
      BY <1>10
    <3>1. CASE i = Len(rc) + 1
      BY <1>3, <1>9, <1>10, <3>1
    <3>2. CASE i \in 1..Len(rc)
      <4>1. m + i \in 1..L
        BY <1>3, <1>9, <1>10, <3>2
      <4> QED BY <1>3, <1>9, <1>10, <3>2, <4>1
    <3> QED BY <1>10, <3>1, <3>2
  <2>3. \A i \in 1..m : passed'[k][i] + Window <= now'
    BY <1>1, <1>3, <1>9
  <2> QED BY <2>1, <2>2, <2>3 DEF KeepsTheLast
<1>14. Len(data'[k]) <= limit'
  BY <1>1, <1>2, <1>10
<1>15. \A q \in Clients : KeepsTheLast(q)' /\ InOrder(q)' /\ Spaced(q)' /\ (data'[q] = <<>> \/ Len(data'[q]) <= limit')
  BY <1>1, <1>6, <1>11, <1>12, <1>13, <1>14, OthersStay
<1>16. \A f \in refused : Told(f)'
  <2>1. \A q \in Clients : \A i \in 1..Len(passed[q]) : i \in 1..Len(passed'[q]) /\ passed'[q][i] = passed[q][i]
    <3> SUFFICES ASSUME NEW q \in Clients, NEW i \in 1..Len(passed[q])
                 PROVE  i \in 1..Len(passed'[q]) /\ passed'[q][i] = passed[q][i]
      OBVIOUS
    <3>1. CASE q = k
      BY <1>9, <3>1 DEF L, p
    <3>2. CASE q # k
      BY <1>6, <3>2
    <3> QED BY <3>1, <3>2
  <2>2. passed' \in [Clients -> Seq(Nat)]
    BY <1>2, <1>7
  <2> QED BY <1>1, <2>1, <2>2, ToldStays
<1>17. refused' = refused /\ (panicked' # {} => limit' <= 0)
  BY <1>1 DEF RateInv
<1> QED BY <1>8, <1>15, <1>16, <1>17 DEF RateInv

\* A key that is refused has the limit in the window that ends now.
LEMMA RefusesHolds ==
    ASSUME RateInv, NEW k \in Clients, RateLimit!Refuse(k) \/ RateLimit!Panic(k) PROVE RateInv'
<1> DEFINE p == passed[k]
           rc == RateLimit!Recent(k)
           L == Len(passed[k])
           f == [key |-> k, at |-> now, until |-> rc[1] + Window]
<1>1. /\ Len(rc) >= limit /\ UNCHANGED <<limit, now, passed>>
      /\ data' = [data EXCEPT ![k] = rc]
      /\ \/ rc # <<>> /\ refused' = refused \cup {f} /\ panicked' = panicked
         \/ rc = <<>> /\ panicked' = panicked \cup {k} /\ refused' = refused
  BY DEF RateLimit!Refuse, RateLimit!Panic
<1>2. /\ limit \in Limits /\ limit \in Int /\ now \in 0..MaxTime /\ now \in Nat /\ Window \in Nat
      /\ data \in [Clients -> Seq(0..now)] /\ passed \in [Clients -> Seq(0..now)]
  BY RateLimitAssumption DEF RateInv, RateLimit!TypeOK
<1>3. PICK m \in 0..L :
        /\ Len(rc) = L - m
        /\ \A i \in 1..Len(rc) : rc[i] = p[m + i]
        /\ \A i \in 1..m : p[i] + Window <= now
        /\ \A i \in (m + 1)..L : now < p[i] + Window
  BY RecentAreInTheWindow
<1>4. rc \in Seq(0..now) /\ Len(rc) <= Len(data[k])
  BY RecentAreInTheWindow
<1> HIDE DEF rc
<1>5. data'[k] = rc /\ \A q \in Clients \ {k} : data'[q] = data[q]
  BY <1>1, <1>2
<1>6. L \in Nat /\ Len(rc) \in Nat /\ \A i \in 1..L : p[i] \in 0..now
  BY <1>2, <1>4
<1> HIDE DEF L, p
<1>8. KeepsTheLast(k)'
  BY <1>1, <1>3, <1>5 DEF KeepsTheLast, p, L
<1>9. InOrder(k)' /\ Spaced(k)'
  BY <1>1 DEF RateInv, InOrder, Spaced
<1>10. rc = <<>> \/ Len(rc) <= limit
  <2>1. data[k] = <<>> => rc = <<>>
    BY <1>4, <1>6
  <2>2. Len(data[k]) \in Nat
    BY <1>2
  <2> QED BY <1>2, <1>4, <1>6, <2>1, <2>2 DEF RateInv
<1>11. \A q \in Clients : KeepsTheLast(q)' /\ InOrder(q)' /\ Spaced(q)' /\ (data'[q] = <<>> \/ Len(data'[q]) <= limit')
  <2>1. ASSUME NEW q \in Clients \ {k}
        PROVE  KeepsTheLast(q)' /\ InOrder(q)' /\ Spaced(q)' /\ (data'[q] = <<>> \/ Len(data'[q]) <= limit')
    BY <1>1, <1>5, OthersStay
  <2> QED BY <1>1, <1>5, <1>8, <1>9, <1>10, <2>1
<1>12. \A g \in refused : Told(g)'
  BY <1>1 DEF RateInv, Told
<1>13. ASSUME NEW g, g = f, rc # <<>> PROVE Told(g)' /\ g.until \in Nat
  <2>1. Len(rc) = limit /\ limit > 0
    BY <1>1, <1>2, <1>4, <1>6, <1>10, <1>13
  <2>2. L \in 1..L /\ limit \in 1..L /\ L + 1 - limit = m + 1 /\ m + 1 \in 1..L
    BY <1>2, <1>3, <1>6, <2>1
  <2>3. rc[1] = p[m + 1] /\ p[L] <= now /\ now < p[m + 1] + Window
    BY <1>2, <1>3, <1>6, <2>1, <2>2
  <2>4. g.key = k /\ g.at = now /\ g.until = p[L + 1 - limit] + Window
    BY <1>13, <2>2, <2>3
  <2>5. /\ L \in 1..Len(passed[g.key])
        /\ limit \in 1..L /\ passed[g.key][L] <= g.at /\ g.at < g.until
        /\ g.until = passed[g.key][L + 1 - limit] + Window
    BY <2>2, <2>3, <2>4 DEF L, p
  <2>6. Told(g)
    BY <2>5 DEF Told
  <2>7. g.until \in Nat
    BY <1>2, <1>6, <2>2, <2>4
  <2> QED BY <1>1, <2>6, <2>7 DEF Told
<1>14. \A g \in refused' : Told(g)'
  BY <1>1, <1>12, <1>13
<1>7. RateLimit!TypeOK'
  <2>1. data' \in [Clients -> Seq(0..now)]
    BY <1>1, <1>2, <1>4
  <2>2. f.key = k /\ f.at = now /\ (rc # <<>> => f.until \in Nat)
    BY <1>13
  <2> HIDE DEF f
  <2>3. \A g \in refused' : g.key \in Clients /\ g.at \in 0..now /\ g.until \in Nat
    BY <1>1, <1>2, <2>2 DEF RateInv, RateLimit!TypeOK
  <2> QED BY <1>1, <1>2, <2>1, <2>3 DEF RateInv, RateLimit!TypeOK
<1>15. panicked' # {} => limit' <= 0
  BY <1>1, <1>2, <1>4, <1>6 DEF RateInv
<1> QED BY <1>7, <1>11, <1>14, <1>15 DEF RateInv

LEMMA TickHolds == ASSUME RateInv, RateLimit!Tick PROVE RateInv'
<1>1. now < MaxTime /\ now' = now + 1 /\ UNCHANGED <<limit, data, passed, refused, panicked>>
  BY DEF RateLimit!Tick
<1>2. /\ now \in Nat /\ MaxTime \in Nat /\ now' \in 0..MaxTime /\ Window \in Nat
      /\ data \in [Clients -> Seq(0..now)] /\ passed \in [Clients -> Seq(0..now)]
  BY <1>1, RateLimitAssumption DEF RateInv, RateLimit!TypeOK
<1>3. RateLimit!TypeOK'
  <2>1. 0..now \subseteq 0..now'
    BY <1>1, <1>2
  <2>2. Seq(0..now) \subseteq Seq(0..now')
    <3> SUFFICES ASSUME NEW s \in Seq(0..now) PROVE s \in Seq(0..now')
      OBVIOUS
    <3> QED BY <2>1, SeqMonotonic
  <2>3. data' \in [Clients -> Seq(0..now')] /\ passed' \in [Clients -> Seq(0..now')]
    BY <1>1, <1>2, <2>2
  <2>4. \A f \in refused : f.key \in Clients /\ f.at \in 0..now' /\ f.until \in Nat
    BY <2>1 DEF RateInv, RateLimit!TypeOK
  <2> QED BY <1>1, <1>2, <2>3, <2>4 DEF RateInv, RateLimit!TypeOK
<1>4. ASSUME NEW k \in Clients PROVE KeepsTheLast(k)'
  <2>1. PICK m \in 0..Len(passed[k]) :
          /\ Len(data[k]) = Len(passed[k]) - m
          /\ \A i \in 1..Len(data[k]) : data[k][i] = passed[k][m + i]
          /\ \A i \in 1..m : passed[k][i] + Window <= now
    BY DEF RateInv, KeepsTheLast
  <2>2. ASSUME NEW i \in 1..m PROVE passed[k][i] + Window <= now'
    <3>1. passed[k] \in Seq(0..now) /\ i \in 1..Len(passed[k])
      BY <1>2, <2>1
    <3>2. passed[k][i] \in Nat
      BY <1>2, <3>1
    <3>3. passed[k][i] + Window <= now
      BY <2>1
    <3> QED BY <1>1, <1>2, <3>2, <3>3
  <2> QED BY <1>1, <2>1, <2>2 DEF KeepsTheLast
<1>5. \A k \in Clients : InOrder(k)' /\ Spaced(k)' /\ (data'[k] = <<>> \/ Len(data'[k]) <= limit')
  BY <1>1 DEF RateInv, InOrder, Spaced
<1>6. (\A f \in refused' : Told(f)') /\ (panicked' # {} => limit' <= 0)
  BY <1>1 DEF RateInv, Told
<1> QED BY <1>3, <1>4, <1>5, <1>6 DEF RateInv

LEMMA RateStepHolds == ASSUME RateInv, [RateLimit!Next]_(RateLimit!vars) PROVE RateInv'
<1>1. CASE UNCHANGED RateLimit!vars
  BY <1>1 DEF RateLimit!vars, RateInv, RateLimit!TypeOK, KeepsTheLast, InOrder, Spaced, Told
<1> QED BY <1>1, TickHolds, PassHolds, RefusesHolds DEF RateLimit!Next

LEMMA WindowsAreBounded == RateInv => RateLimit!RateBound
<1> SUFFICES ASSUME RateInv PROVE RateLimit!RateBound
  OBVIOUS
<1>1. /\ limit \in Int /\ passed \in [Clients -> Seq(0..now)]
      /\ \A f \in refused : f.key \in Clients
  BY RateLimitAssumption DEF RateInv, RateLimit!TypeOK
<1>2. \A k \in Clients : DOMAIN passed[k] = 1..Len(passed[k]) /\ Len(passed[k]) \in Nat
  BY <1>1
<1>3. \A k \in Clients : \A i, j \in DOMAIN passed[k] : j = i + limit => passed[k][i] + Window <= passed[k][j]
  BY <1>1, <1>2 DEF RateInv, Spaced
<1>4. ASSUME NEW f \in refused
      PROVE  \E n \in DOMAIN passed[f.key] :
               /\ limit \in 1..n /\ passed[f.key][n] <= f.at /\ f.at < f.until
               /\ f.until = passed[f.key][n + 1 - limit] + Window
               /\ n + 1 \in DOMAIN passed[f.key] => f.until <= passed[f.key][n + 1]
  <2>1. PICK n \in 1..Len(passed[f.key]) :
          /\ limit \in 1..n /\ passed[f.key][n] <= f.at /\ f.at < f.until
          /\ f.until = passed[f.key][n + 1 - limit] + Window
    BY DEF RateInv, Told
  <2>2. ASSUME n + 1 \in DOMAIN passed[f.key] PROVE f.until <= passed[f.key][n + 1]
    <3>1. n + 1 - limit \in DOMAIN passed[f.key] /\ n + 1 = (n + 1 - limit) + limit
      BY <1>1, <1>2, <2>1, <2>2
    <3> QED BY <1>1, <1>3, <2>1, <2>2, <3>1
  <2> QED BY <1>1, <1>2, <2>1, <2>2
<1> QED BY <1>3, <1>4 DEF RateInv, RateLimit!RateBound

-----------------------------------------------------------------------------
(* Pages.                                                                  *)

\* A request's token is its own or that of its cookie, and a form has none
\* before it is written.
Begins ==
    /\ view \in [Requests -> Views \cup {None}]
    /\ \A r \in Requests :
         /\ at[r] = "start" => token[r] = None
         /\ at[r] \in {"install", "text", "form"} => view[r] \in Views
         /\ at[r] = "error" => view[r] \in Views /\ meant[r] # "200"

\* Requests that are in flight have met.
InFlightMet == \A r, q \in Pages!InFlight : r # q => {r, q} \in met

\* A page that has its functions calls its own, or those that were lent.
FunctionsAreOwn ==
    \A r \in Requests : at[r] \in {"text", "form"} => Pages!Functions(r) = r \/ Pages!Overlapped(r)

\* A page has no form before it is written.
FormsWait == \A r \in Requests : at[r] \in {"start", "action", "install", "text", "form"} => form[r] = None

\* What the request's own csrf_field writes.
OwnField(r) == IF token[r] = None THEN NoToken ELSE token[r]

\* A form has the token of its request.
FormsAreOwn ==
    \A r \in Requests : meant[r] = "200" => form[r] \in {None, OwnField(r)} \/ Pages!Overlapped(r)

\* A browser gets a cookie with the first answer to one of the requests that
\* created a token, and these have all begun before that.
Arrived(r) == at[r] \in {"open", "accepted", "refused"}

CookiesAreCreated ==
    /\ \A b \in Pages!Browsers : cookie[b] # None =>
         /\ cookie[b] \in Requests /\ token[cookie[b]] = cookie[b]
         /\ Browser[cookie[b]] = b /\ Arrived(cookie[b])
    /\ \A r \in Requests : token[r] # None =>
         /\ Arrived(r) => cookie[Browser[r]] # None
         /\ token[token[r]] = token[r] /\ Browser[token[r]] = Browser[r]
         /\ token[r] # r => cookie[Browser[r]] # None

CreatorsMet ==
    \A p, q \in Requests :
        p # q /\ Browser[p] = Browser[q] /\ token[p] = p /\ token[q] = q => {p, q} \in met

\* What a form may be refused for, and what it is accepted with.
Excused(r) == field # "csrf_token" \/ token[r] = None \/ Pages!Overlapped(r) \/ Pages!TokensCollided(r)
Entitled(r) == field = "csrf_token" /\ (token[r] # None \/ Pages!Overlapped(r))

Judged ==
    \A r \in Requests : meant[r] = "200" =>
        /\ at[r] = "refused" => Excused(r)
        /\ at[r] = "accepted" => Entitled(r)

PagesInv ==
    /\ Pages!TypeOK /\ Begins /\ InFlightMet /\ FunctionsAreOwn /\ FormsWait /\ FormsAreOwn
    /\ CookiesAreCreated /\ CreatorsMet /\ Judged

LEMMA NoneIsNoRequest == None \notin Requests
BY AccountsAssumption

LEMMA PagesInitHolds == Pages!Init => PagesInv
<1> SUFFICES ASSUME Pages!Init PROVE PagesInv
  OBVIOUS
<1> USE NoneIsNoRequest DEF Pages!Init
<1>1. Pages!TypeOK
  BY DEF Pages!TypeOK, Pages!Places
<1>2. Begins /\ InFlightMet /\ FunctionsAreOwn /\ FormsWait /\ FormsAreOwn
  BY DEF Begins, InFlightMet, FunctionsAreOwn, FormsWait, FormsAreOwn, Pages!InFlight
<1>3. CookiesAreCreated /\ CreatorsMet /\ Judged
  BY DEF CookiesAreCreated, CreatorsMet, Judged, Arrived
<1> QED BY <1>1, <1>2, <1>3 DEF PagesInv

\* What has been lent stays lent, and a request that has begun keeps what its
\* form is accepted or refused for.
JudgementsStay ==
    \A q \in Requests :
        /\ Pages!Overlapped(q) => Pages!Overlapped(q)'
        /\ at[q] # "start" => (Excused(q) => Excused(q)') /\ (Entitled(q) => Entitled(q)')

LEMMA ExcusesStay ==
    ASSUME PagesInv, field' = field, view' = view, met \subseteq met',
           \A q \in Requests : at[q] # "start" => token'[q] = token[q]
    PROVE  JudgementsStay
<1> SUFFICES ASSUME NEW r \in Requests
             PROVE  /\ Pages!Overlapped(r) => Pages!Overlapped(r)'
                    /\ at[r] # "start" => (Excused(r) => Excused(r)') /\ (Entitled(r) => Entitled(r)')
  BY DEF JudgementsStay
<1>1. Pages!Overlapped(r) => Pages!Overlapped(r)'
  BY DEF Pages!Overlapped
<1>2. \A q \in Requests : token[q] = q => token'[q] = q
  BY NoneIsNoRequest DEF PagesInv, Begins
<1>3. Pages!TokensCollided(r) => Pages!TokensCollided(r)'
  BY <1>2 DEF Pages!TokensCollided
<1>4. at[r] # "start" => token'[r] = token[r]
  OBVIOUS
<1> QED BY <1>1, <1>3, <1>4 DEF Excused, Entitled

OneMovesTo(r, place) ==
    /\ at' \in [Requests -> Pages!Places] /\ at'[r] = place
    /\ \A q \in Requests \ {r} : at'[q] = at[q]
    /\ JudgementsStay
    /\ InFlightMet' /\ CookiesAreCreated' /\ CreatorsMet'
    /\ cookie' \in [Pages!Browsers -> Requests \cup {None}] /\ token' \in [Requests -> Requests \cup {None}]

\* A request that is on its way takes a step that nobody else sees.
LEMMA OneMoves ==
    ASSUME PagesInv, NEW r \in Requests, NEW place \in Pages!Places, at' = [at EXCEPT ![r] = place],
           at[r] # "start", place # "start", at[r] \in {"open", "accepted", "refused"} <=> place \in {"open", "accepted", "refused"},
           UNCHANGED <<field, view, cookie, token, met>>
    PROVE  OneMovesTo(r, place)
<1>1. at \in [Requests -> Pages!Places]
  BY DEF PagesInv, Pages!TypeOK
<1>2. at' \in [Requests -> Pages!Places] /\ at'[r] = place /\ \A q \in Requests \ {r} : at'[q] = at[q]
  BY <1>1
<1>3. JudgementsStay
  BY ExcusesStay
<1>4. InFlightMet'
  BY <1>2 DEF PagesInv, InFlightMet, Pages!InFlight
<1>5. \A q \in Requests : (Arrived(q)' <=> Arrived(q)) /\ (at'[q] = "start" <=> at[q] = "start")
  BY <1>2 DEF Arrived
<1>6. CookiesAreCreated'
  <2>1. \A b \in Pages!Browsers : cookie[b] # None =>
         /\ cookie[b] \in Requests /\ token[cookie[b]] = cookie[b]
         /\ Browser[cookie[b]] = b /\ Arrived(cookie[b])'
    BY <1>5 DEF PagesInv, CookiesAreCreated
  <2>2. \A q \in Requests : token[q] # None =>
         /\ Arrived(q)' => cookie[Browser[q]] # None
         /\ token[token[q]] = token[q] /\ Browser[token[q]] = Browser[q]
         /\ token[q] # q => cookie[Browser[q]] # None
    BY <1>5 DEF PagesInv, CookiesAreCreated
  <2> QED BY <2>1, <2>2 DEF CookiesAreCreated, Pages!Browsers
<1>7. CreatorsMet'
  BY DEF PagesInv, CreatorsMet
<1> QED BY <1>2, <1>3, <1>4, <1>6, <1>7 DEF OneMovesTo, PagesInv, Pages!TypeOK, Pages!Browsers

LEMMA ActHolds == ASSUME PagesInv, NEW r \in Requests, Pages!Act(r) PROVE PagesInv'
<1>1. PICK code \in {"200", "404"}, place \in {"answered", "install", "error"} :
        /\ meant' = [meant EXCEPT ![r] = code] /\ at' = [at EXCEPT ![r] = place]
        /\ place # "answered" => view[r] # None
        /\ place = "error" => code = "404"
  BY DEF Pages!Act, Pages!Goes
<1>2. at[r] = "action" /\ UNCHANGED <<field, view, cookie, token, own, fns, shown, form, met>>
  BY DEF Pages!Act
<1>3. PagesInv'
  <2>1. OneMovesTo(r, place)
    BY <1>1, <1>2, OneMoves DEF OneMovesTo, Pages!Places
  <2>2. Pages!TypeOK'
    BY <1>1, <1>2, <2>1 DEF PagesInv, OneMovesTo, Pages!TypeOK
  <2>3. \A q \in Requests \ {r} : meant'[q] = meant[q]
    BY <1>1 DEF PagesInv, Pages!TypeOK
  <2>4. meant'[r] = code
    BY <1>1 DEF PagesInv, Pages!TypeOK
  <2>5. Begins'
    BY <1>1, <1>2, <2>1, <2>3, <2>4 DEF PagesInv, OneMovesTo, Begins
  <2>6. FunctionsAreOwn'
    BY <1>1, <1>2, <2>1 DEF PagesInv, OneMovesTo, JudgementsStay, FunctionsAreOwn, Pages!Functions
  <2>7. form[r] = None
    BY <1>2 DEF PagesInv, FormsWait
  <2>8. FormsAreOwn' /\ Judged'
    BY <1>1, <1>2, <2>1, <2>3, <2>7 DEF PagesInv, OneMovesTo, JudgementsStay, FormsAreOwn, OwnField, Judged
  <2>9. FormsWait'
    BY <1>1, <1>2, <2>1 DEF PagesInv, OneMovesTo, FormsWait
  <2> QED BY <2>1, <2>2, <2>5, <2>6, <2>8, <2>9 DEF PagesInv, OneMovesTo
<1> QED BY <1>3

LEMMA InstallHolds == ASSUME PagesInv, NEW r \in Requests, Pages!Install(r) PROVE PagesInv'
<1>1. /\ at[r] = "install" /\ at' = [at EXCEPT ![r] = "text"]
      /\ \/ own' = own \cup {r} /\ fns' = fns
         \/ fns' = [fns EXCEPT ![view[r]] = r] /\ own' = own
      /\ UNCHANGED <<field, view, cookie, token, shown, form, meant, met>>
  BY DEF Pages!Install, Pages!Goes
<1>2. OneMovesTo(r, "text")
  BY <1>1, OneMoves DEF OneMovesTo, Pages!Places
<1>3. view[r] \in Views /\ Begins'
  BY <1>1, <1>2 DEF PagesInv, Begins, OneMovesTo
<1>4. Pages!TypeOK'
  BY <1>1, <1>2, <1>3 DEF PagesInv, OneMovesTo, Pages!TypeOK
<1>5. FunctionsAreOwn'
  <2> SUFFICES ASSUME NEW q \in Requests, at'[q] \in {"text", "form"}
               PROVE  Pages!Functions(q)' = q \/ Pages!Overlapped(q)'
    BY DEF FunctionsAreOwn
  <2>1. CASE q = r
    BY <1>1, <1>3, <2>1 DEF PagesInv, Pages!TypeOK, Pages!Functions
  <2>2. CASE q # r
    <3>1. at[q] = at'[q] /\ (Pages!Overlapped(q) => Pages!Overlapped(q)')
      BY <1>2, <2>2 DEF OneMovesTo, JudgementsStay
    <3>2. view[q] = view[r] => Pages!Overlapped(q)
      <4>1. {q, r} \in met
        BY <1>1, <2>2, <3>1 DEF PagesInv, InFlightMet, Pages!InFlight
      <4> QED BY <2>2, <4>1 DEF Pages!Overlapped
    <3>3. view[q] # view[r] => Pages!Functions(q)' = Pages!Functions(q)
      <4>1. view[q] \in Views
        BY <3>1 DEF PagesInv, Begins
      <4> QED BY <1>1, <1>3, <2>2, <4>1 DEF Pages!Functions, PagesInv, Pages!TypeOK
    <3> QED BY <3>1, <3>2, <3>3 DEF PagesInv, FunctionsAreOwn
  <2> QED BY <2>1, <2>2
<1>6. FormsWait' /\ FormsAreOwn' /\ Judged'
  BY <1>1, <1>2 DEF PagesInv, OneMovesTo, JudgementsStay, FormsWait, FormsAreOwn, OwnField, Judged
<1> QED BY <1>2, <1>3, <1>4, <1>5, <1>6 DEF PagesInv, OneMovesTo

\* A page calls a function of a request that has installed its own.
LEMMA FunctionsTyped ==
    ASSUME PagesInv, NEW r \in Requests, view[r] \in Views
    PROVE  Pages!Functions(r) \in Requests \cup {None} /\ Pages!Field(r) \in Requests \cup {NoToken}
<1>1. Pages!Functions(r) \in Requests \cup {None}
  BY DEF Pages!Functions, PagesInv, Pages!TypeOK
<1> QED BY <1>1 DEF Pages!Field, PagesInv, Pages!TypeOK

\* The page is written from the functions it has, and ends.
LEMMA WritesHolds ==
    ASSUME PagesInv, NEW r \in Requests, at[r] \in {"text", "form", "error"},
           NEW place \in {"form", "answered"}, at' = [at EXCEPT ![r] = place], place = "form" => at[r] = "text",
           NEW seen \in SUBSET (Requests \cup {None}), shown' = [shown EXCEPT ![r] = seen],
           NEW sent \in {form[r], Pages!Field(r)}, form' = [form EXCEPT ![r] = sent], place = "form" => sent = form[r],
           UNCHANGED <<field, view, cookie, token, own, fns, meant, met>>
    PROVE  PagesInv'
<1>1. OneMovesTo(r, place)
  BY OneMoves DEF Pages!Places
<1>2. Begins'
  BY <1>1 DEF PagesInv, OneMovesTo, Begins
<1>3. sent \in Requests \cup {NoToken, None} /\ (at[r] # "error" => sent \in {None, OwnField(r)} \/ Pages!Overlapped(r))
  <2>1. view[r] \in Views
    BY DEF PagesInv, Begins
  <2>2. at[r] # "error" => form[r] = None /\ (Pages!Functions(r) = r \/ Pages!Overlapped(r))
    BY DEF PagesInv, FormsWait, FunctionsAreOwn
  <2> QED BY <2>1, <2>2, FunctionsTyped, NoneIsNoRequest DEF PagesInv, Pages!TypeOK, Pages!Field, OwnField
<1>4. Pages!TypeOK'
  BY <1>1, <1>3 DEF PagesInv, OneMovesTo, Pages!TypeOK
<1>5. FunctionsAreOwn'
  BY <1>1 DEF PagesInv, OneMovesTo, JudgementsStay, FunctionsAreOwn, Pages!Functions
<1>6. form'[r] = sent /\ \A q \in Requests \ {r} : form'[q] = form[q]
  BY DEF PagesInv, Pages!TypeOK
<1>7. FormsWait'
  BY <1>1, <1>6 DEF PagesInv, OneMovesTo, FormsWait
<1>8. FormsAreOwn'
  BY <1>1, <1>3, <1>6 DEF PagesInv, OneMovesTo, JudgementsStay, FormsAreOwn, OwnField, Begins
<1>9. Judged'
  BY <1>1 DEF PagesInv, OneMovesTo, JudgementsStay, Judged
<1> QED BY <1>1, <1>2, <1>4, <1>5, <1>7, <1>8, <1>9 DEF PagesInv, OneMovesTo

LEMMA PageHolds == ASSUME PagesInv, NEW r \in Requests, Pages!Text(r) \/ Pages!Form(r) \/ Pages!Error(r) PROVE PagesInv'
<1>0. /\ form \in [Requests -> Requests \cup {NoToken, None}]
      /\ shown \in [Requests -> SUBSET (Requests \cup {None})]
  BY DEF PagesInv, Pages!TypeOK
<1>1. at[r] \in {"text", "form", "error"} => Pages!Functions(r) \in Requests \cup {None}
  BY FunctionsTyped DEF PagesInv, Begins
<1>2. CASE Pages!Text(r)
  <2>1. PICK place \in {"form", "answered"} : at' = [at EXCEPT ![r] = place]
    BY <1>2 DEF Pages!Text, Pages!Goes
  <2>2. form' = [form EXCEPT ![r] = form[r]]
    BY <1>0, <1>2 DEF Pages!Text
  <2>3. /\ at[r] = "text" /\ shown' = [shown EXCEPT ![r] = shown[r] \cup {Pages!Functions(r)}]
        /\ UNCHANGED <<field, view, cookie, token, own, fns, meant, met>>
    BY <1>2 DEF Pages!Text
  <2> QED BY <1>0, <1>1, <2>1, <2>2, <2>3, WritesHolds
<1>3. CASE Pages!Form(r)
  <2>1. /\ at[r] = "form" /\ at' = [at EXCEPT ![r] = "answered"]
        /\ shown' = [shown EXCEPT ![r] = shown[r] \cup {Pages!Functions(r)}]
        /\ form' = [form EXCEPT ![r] = Pages!Field(r)]
        /\ UNCHANGED <<field, view, cookie, token, own, fns, meant, met>>
    BY <1>3 DEF Pages!Form, Pages!Goes
  <2> QED BY <1>0, <1>1, <2>1, WritesHolds
<1>4. CASE Pages!Error(r)
  <2>1. /\ at[r] = "error" /\ at' = [at EXCEPT ![r] = "answered"]
        /\ UNCHANGED <<field, view, cookie, token, own, fns, meant, met>>
    BY <1>4 DEF Pages!Error, Pages!Goes
  <2>2. CASE shown' = [shown EXCEPT ![r] = {Pages!Functions(r)}] /\ form' = [form EXCEPT ![r] = Pages!Field(r)]
    BY <1>1, <2>1, <2>2, WritesHolds
  <2>3. CASE UNCHANGED <<shown, form>>
    <3>1. form' = [form EXCEPT ![r] = form[r]]
      BY <1>0, <2>3
    <3>2. shown' = [shown EXCEPT ![r] = shown[r]]
      BY <1>0, <2>3
    <3> QED BY <1>0, <2>1, <3>1, <3>2, WritesHolds
  <2> QED BY <1>4, <2>2, <2>3 DEF Pages!Error
<1> QED BY <1>2, <1>3, <1>4

\* A form that does not have the token of the cookie has that of another
\* request of the browser, none, or another's that was lent to it.
LEMMA SubmitHolds == ASSUME PagesInv, NEW r \in Requests, Pages!Submit(r) PROVE PagesInv'
<1> DEFINE passes == field = "csrf_token" /\ form[r] # NoToken /\ form[r] = cookie[Browser[r]]
           place == IF passes THEN "accepted" ELSE "refused"
<1>1. /\ at[r] = "open" /\ form[r] # None /\ at' = [at EXCEPT ![r] = place]
      /\ UNCHANGED <<field, view, cookie, token, own, fns, shown, form, meant, met>>
  BY DEF Pages!Submit, Pages!Goes
<1>2. OneMovesTo(r, place)
  BY <1>1, OneMoves DEF OneMovesTo, Pages!Places
<1>3. Pages!TypeOK' /\ Begins'
  BY <1>1, <1>2 DEF PagesInv, OneMovesTo, Pages!TypeOK, Begins
<1>4. FunctionsAreOwn' /\ FormsWait' /\ FormsAreOwn'
  BY <1>1, <1>2 DEF PagesInv, OneMovesTo, JudgementsStay, FunctionsAreOwn, FormsWait, FormsAreOwn, OwnField, Pages!Functions
<1>5. ~passes /\ meant[r] = "200" => Excused(r)
  <2> SUFFICES ASSUME ~passes, meant[r] = "200", field = "csrf_token", token[r] # None, ~Pages!Overlapped(r) PROVE Excused(r)
    BY DEF Excused
  <2>1. form[r] = token[r] /\ token[r] \in Requests /\ form[r] # NoToken
    BY <1>1, PagesAssumption DEF PagesInv, FormsAreOwn, OwnField, Pages!TypeOK
  <2>2. token[token[r]] = token[r] /\ Browser[token[r]] = Browser[r]
    BY <1>1 DEF PagesInv, CookiesAreCreated
  <2>3. cookie[Browser[r]] # None /\ Browser[r] \in Pages!Browsers
    BY <1>1 DEF PagesInv, CookiesAreCreated, Arrived, Pages!Browsers
  <2>4. /\ cookie[Browser[r]] \in Requests
        /\ token[cookie[Browser[r]]] = cookie[Browser[r]]
        /\ Browser[cookie[Browser[r]]] = Browser[r]
    BY <2>3 DEF PagesInv, CookiesAreCreated
  <2>5. token[r] # cookie[Browser[r]] /\ {token[r], cookie[Browser[r]]} \in met
    BY <2>1, <2>2, <2>4 DEF PagesInv, CreatorsMet
  <2> QED BY <2>1, <2>2, <2>4, <2>5 DEF Excused, Pages!TokensCollided
<1>6. passes /\ meant[r] = "200" => Entitled(r)
  BY <1>1 DEF PagesInv, FormsAreOwn, OwnField, Entitled
<1>7. place = "refused" => ~passes
  OBVIOUS
<1>8. place = "accepted" => passes
  OBVIOUS
<1> HIDE DEF place, passes
<1>9. Judged'
  BY <1>1, <1>2, <1>5, <1>6, <1>7, <1>8 DEF PagesInv, OneMovesTo, JudgementsStay, Judged
<1> QED BY <1>2, <1>3, <1>4, <1>9 DEF PagesInv, OneMovesTo

\* The answer arrives, and with it the token its request has created.
LEMMA ArriveHolds == ASSUME PagesInv, NEW r \in Requests, Pages!Arrive(r) PROVE PagesInv'
<1>1. /\ at[r] = "answered" /\ at' = [at EXCEPT ![r] = "open"]
      /\ cookie' = [cookie EXCEPT ![Browser[r]] = IF token[r] = r THEN r ELSE cookie[Browser[r]]]
      /\ UNCHANGED <<field, view, token, own, fns, shown, form, meant, met>>
  BY DEF Pages!Arrive, Pages!Goes
<1>2. /\ at \in [Requests -> Pages!Places] /\ cookie \in [Pages!Browsers -> Requests \cup {None}]
      /\ Browser[r] \in Pages!Browsers
  BY DEF PagesInv, Pages!TypeOK, Pages!Browsers
<1>3. /\ at' \in [Requests -> Pages!Places] /\ at'[r] = "open" /\ \A q \in Requests \ {r} : at'[q] = at[q]
      /\ cookie' \in [Pages!Browsers -> Requests \cup {None}]
      /\ \A b \in Pages!Browsers \ {Browser[r]} : cookie'[b] = cookie[b]
      /\ cookie'[Browser[r]] = IF token[r] = r THEN r ELSE cookie[Browser[r]]
  BY <1>1, <1>2 DEF Pages!Places
<1>4. JudgementsStay
  BY <1>1, ExcusesStay
<1>5. Pages!TypeOK'
  BY <1>1, <1>3 DEF PagesInv, Pages!TypeOK, Pages!Browsers
<1>6. Begins' /\ FunctionsAreOwn' /\ FormsWait'
  BY <1>1, <1>3, <1>4 DEF PagesInv, JudgementsStay, Begins, FunctionsAreOwn, FormsWait, Pages!Functions
<1>7. FormsAreOwn' /\ Judged'
  BY <1>1, <1>3, <1>4 DEF PagesInv, JudgementsStay, FormsAreOwn, OwnField, Judged
<1>8. InFlightMet'
  BY <1>1, <1>3 DEF PagesInv, InFlightMet, Pages!InFlight
<1>9. CookiesAreCreated'
  <2>1. \A q \in Requests : Arrived(q) => Arrived(q)'
    BY <1>3 DEF Arrived
  <2>2. token[r] # None => cookie'[Browser[r]] # None
    BY <1>1, <1>3, NoneIsNoRequest DEF PagesInv, CookiesAreCreated
  <2>3. \A b \in Pages!Browsers : cookie[b] # None => cookie'[b] # None
    BY <1>3, NoneIsNoRequest
  <2>4. ASSUME NEW b \in Pages!Browsers, NEW c, c = cookie'[b], c # None
        PROVE  /\ c \in Requests /\ token[c] = c
               /\ Browser[c] = b /\ Arrived(c)'
    <3>1. CASE b = Browser[r] /\ token[r] = r
      BY <1>3, <2>4, <3>1 DEF Arrived
    <3>2. CASE ~(b = Browser[r] /\ token[r] = r)
      <4>1. c = cookie[b]
        BY <1>3, <2>4, <3>2
      <4>2. /\ cookie[b] \in Requests /\ token[cookie[b]] = cookie[b]
            /\ Browser[cookie[b]] = b /\ Arrived(cookie[b])
        BY <2>4, <4>1 DEF PagesInv, CookiesAreCreated
      <4> QED BY <2>1, <4>1, <4>2
    <3> QED BY <3>1, <3>2
  <2>5. ASSUME NEW q \in Requests, token[q] # None
        PROVE  /\ Arrived(q)' => cookie'[Browser[q]] # None
               /\ token[token[q]] = token[q] /\ Browser[token[q]] = Browser[q]
               /\ token[q] # q => cookie'[Browser[q]] # None
    <3>1. Browser[q] \in Pages!Browsers
      BY DEF Pages!Browsers
    <3>2. /\ token[token[q]] = token[q] /\ Browser[token[q]] = Browser[q]
          /\ token[q] # q => cookie[Browser[q]] # None
      BY <2>5 DEF PagesInv, CookiesAreCreated
    <3>3. q # r /\ Arrived(q)' => cookie[Browser[q]] # None
      BY <1>3, <2>5 DEF PagesInv, CookiesAreCreated, Arrived
    <3> QED BY <2>2, <2>3, <2>5, <3>1, <3>2, <3>3
  <2>6. token' = token
    BY <1>1
  <2>7. \A b \in Pages!Browsers : cookie'[b] # None =>
          /\ cookie'[b] \in Requests /\ token'[cookie'[b]] = cookie'[b]
          /\ Browser[cookie'[b]] = b /\ at'[cookie'[b]] \in {"open", "accepted", "refused"}
    BY <2>4, <2>6 DEF Arrived
  <2> QED BY <2>5, <2>6, <2>7 DEF CookiesAreCreated, Pages!Browsers, Arrived
<1>10. CreatorsMet'
  BY <1>1 DEF PagesInv, CreatorsMet
<1> QED BY <1>5, <1>6, <1>7, <1>8, <1>9, <1>10 DEF PagesInv

\* A request that begins meets all that are in flight.
LEMMA BeginnerMeets ==
    ASSUME InFlightMet, NEW r \in Requests, met' = met \cup {{r, q} : q \in Pages!InFlight},
           \A q \in Requests \ {r} : at'[q] = at[q]
    PROVE  InFlightMet'
<1> SUFFICES ASSUME NEW p \in Pages!InFlight', NEW q \in Pages!InFlight', p # q PROVE {p, q} \in met'
  BY DEF InFlightMet
<1>1. CASE p # r /\ q # r
  BY <1>1 DEF InFlightMet, Pages!InFlight
<1>2. CASE p = r
  <2>1. q \in Pages!InFlight
    BY <1>2 DEF Pages!InFlight
  <2> QED BY <1>2, <2>1
<1>3. CASE q = r
  <2>1. p \in Pages!InFlight
    BY <1>3 DEF Pages!InFlight
  <2>2. {p, q} = {r, p}
    BY <1>3
  <2> QED BY <2>1, <2>2
<1> QED BY <1>1, <1>2, <1>3

\* A request that creates a token does so while all that have created one for
\* its browser are in flight.
LEMMA ProtectHolds == ASSUME PagesInv, NEW r \in Requests, Pages!Protect(r) PROVE PagesInv'
<1>1. /\ at[r] = "start" /\ at' = [at EXCEPT ![r] = "action"]
      /\ token' = [token EXCEPT ![r] = Pages!Token(r)]
      /\ met' = met \cup {{r, q} : q \in Pages!InFlight}
      /\ UNCHANGED <<field, view, cookie, own, fns, shown, form, meant>>
  BY DEF Pages!Protect, Pages!Goes
<1>2. /\ at \in [Requests -> Pages!Places] /\ cookie \in [Pages!Browsers -> Requests \cup {None}]
      /\ Browser[r] \in Pages!Browsers /\ token \in [Requests -> Requests \cup {None}]
  BY DEF PagesInv, Pages!TypeOK, Pages!Browsers
<1>3. Pages!Token(r) \in Requests
  BY <1>2 DEF Pages!Token
<1>4. /\ at' \in [Requests -> Pages!Places] /\ at'[r] = "action" /\ \A q \in Requests \ {r} : at'[q] = at[q]
      /\ token' \in [Requests -> Requests \cup {None}]
      /\ \A q \in Requests \ {r} : token'[q] = token[q]
      /\ token'[r] = Pages!Token(r)
  BY <1>1, <1>2, <1>3 DEF Pages!Places
<1>5. \A q \in Requests : at[q] # "start" => token'[q] = token[q]
  BY <1>1, <1>4
<1>6. JudgementsStay
  BY <1>1, <1>5, ExcusesStay
<1>7. Pages!TypeOK'
  BY <1>1, <1>4 DEF PagesInv, Pages!TypeOK, Pages!Browsers
<1>8. Begins' /\ FunctionsAreOwn' /\ FormsWait'
  BY <1>1, <1>3, <1>4, <1>6 DEF PagesInv, JudgementsStay, Begins, FunctionsAreOwn, FormsWait, Pages!Functions
<1>9. FormsAreOwn' /\ Judged'
  BY <1>1, <1>4, <1>6 DEF PagesInv, JudgementsStay, FormsWait, FormsAreOwn, OwnField, Judged
<1>10. InFlightMet'
  BY <1>1, <1>4, BeginnerMeets DEF PagesInv
<1>11. Pages!Token(r) # r => cookie[Browser[r]] # None /\ Pages!Token(r) = cookie[Browser[r]]
  BY DEF Pages!Token
<1>12. cookie[Browser[r]] # None =>
         /\ cookie[Browser[r]] \in Requests \ {r} /\ token[cookie[Browser[r]]] = cookie[Browser[r]]
         /\ Browser[cookie[Browser[r]]] = Browser[r]
  BY <1>1, <1>2 DEF PagesInv, CookiesAreCreated, Arrived
<1>13. CookiesAreCreated'
  <2>1. ASSUME NEW b \in Pages!Browsers, cookie[b] # None
        PROVE  /\ cookie[b] \in Requests /\ token'[cookie[b]] = cookie[b]
               /\ Browser[cookie[b]] = b /\ Arrived(cookie[b])'
    <3>1. /\ cookie[b] \in Requests /\ token[cookie[b]] = cookie[b]
          /\ Browser[cookie[b]] = b /\ Arrived(cookie[b])
      BY <2>1 DEF PagesInv, CookiesAreCreated
    <3>2. cookie[b] # r
      BY <1>1, <3>1 DEF Arrived
    <3> QED BY <1>1, <1>4, <3>1, <3>2 DEF Arrived
  <2>2. ASSUME NEW q \in Requests, token'[q] # None
        PROVE  /\ Arrived(q)' => cookie[Browser[q]] # None
               /\ token'[token'[q]] = token'[q] /\ Browser[token'[q]] = Browser[q]
               /\ token'[q] # q => cookie[Browser[q]] # None
    <3>1. CASE q # r
      <4>1. token[q] \in Requests /\ token[q] # None /\ token[r] = None
        BY <1>1, <1>2, <1>4, <2>2, <3>1 DEF PagesInv, Begins
      <4>2. /\ token[token[q]] = token[q] /\ Browser[token[q]] = Browser[q]
            /\ token[q] # q => cookie[Browser[q]] # None
            /\ Arrived(q) => cookie[Browser[q]] # None
        BY <4>1 DEF PagesInv, CookiesAreCreated
      <4>3. token[q] # r
        BY <4>1, <4>2
      <4>4. Arrived(q)' <=> Arrived(q)
        BY <1>4, <3>1 DEF Arrived
      <4> QED BY <1>4, <3>1, <4>1, <4>2, <4>3, <4>4
    <3>2. CASE q = r
      <4>1. ~Arrived(q)'
        BY <1>4, <3>2 DEF Arrived
      <4> QED BY <1>3, <1>4, <1>11, <1>12, <3>2, <4>1
    <3> QED BY <3>1, <3>2
  <2>3. cookie' = cookie
    BY <1>1
  <2> QED BY <2>1, <2>2, <2>3 DEF CookiesAreCreated, Pages!Browsers
<1>14. ASSUME NEW q \in Requests \ {r}, Browser[q] = Browser[r], token[q] = q, Pages!Token(r) = r
       PROVE  {r, q} \in met'
  <2>1. cookie[Browser[r]] = None
    BY <1>12, <1>14 DEF Pages!Token
  <2>2. at[q] # "start" /\ ~Arrived(q)
    BY <1>14, <2>1, NoneIsNoRequest DEF PagesInv, Begins, CookiesAreCreated
  <2>3. q \in Pages!InFlight
    BY <2>2 DEF Pages!InFlight, Arrived
  <2> QED BY <1>1, <2>3
<1>15. CreatorsMet'
  <2> SUFFICES ASSUME NEW p \in Requests, NEW q \in Requests, p # q, Browser[p] = Browser[q], token'[p] = p, token'[q] = q
               PROVE  {p, q} \in met'
    BY DEF CreatorsMet
  <2>1. CASE p # r /\ q # r
    BY <1>1, <1>4, <2>1 DEF PagesInv, CreatorsMet
  <2>2. CASE p = r
    BY <1>4, <1>14, <2>2
  <2>3. CASE q = r
    <3>1. {p, q} = {r, p}
      BY <2>3
    <3> QED BY <1>4, <1>14, <2>3, <3>1
  <2> QED BY <2>1, <2>2, <2>3
<1> QED BY <1>7, <1>8, <1>9, <1>10, <1>13, <1>15 DEF PagesInv

\* An unsafe request gets no token, and looks like one that has not begun.
LEMMA UnsafeHolds == ASSUME PagesInv, NEW r \in Requests, Pages!Unsafe(r) PROVE PagesInv'
<1>1. /\ at[r] = "start" /\ at' = [at EXCEPT ![r] = "action"]
      /\ met' = met \cup {{r, q} : q \in Pages!InFlight}
      /\ UNCHANGED <<field, view, cookie, token, own, fns, shown, form, meant>>
  BY DEF Pages!Unsafe, Pages!Goes
<1>2. at \in [Requests -> Pages!Places] /\ token[r] = None
  BY <1>1 DEF PagesInv, Pages!TypeOK, Begins
<1>3. at' \in [Requests -> Pages!Places] /\ at'[r] = "action" /\ \A q \in Requests \ {r} : at'[q] = at[q]
  BY <1>1, <1>2 DEF Pages!Places
<1>4. JudgementsStay
  BY <1>1, ExcusesStay
<1>5. Pages!TypeOK'
  BY <1>1, <1>3 DEF PagesInv, Pages!TypeOK, Pages!Browsers
<1>6. Begins' /\ FunctionsAreOwn' /\ FormsWait'
  BY <1>1, <1>3, <1>4 DEF PagesInv, JudgementsStay, Begins, FunctionsAreOwn, FormsWait, Pages!Functions
<1>7. FormsAreOwn' /\ Judged'
  BY <1>1, <1>3, <1>4 DEF PagesInv, JudgementsStay, FormsWait, FormsAreOwn, OwnField, Judged
<1>8. InFlightMet'
  BY <1>1, <1>3, BeginnerMeets DEF PagesInv
<1>9. CookiesAreCreated'
  <2>1. \A q \in Requests : Arrived(q)' <=> Arrived(q)
    BY <1>1, <1>3 DEF Arrived
  <2>2. \A b \in Pages!Browsers : cookie[b] # None =>
          /\ cookie[b] \in Requests /\ token[cookie[b]] = cookie[b]
          /\ Browser[cookie[b]] = b /\ Arrived(cookie[b])'
    BY <1>1, <2>1 DEF PagesInv, CookiesAreCreated
  <2>3. \A q \in Requests : token[q] # None =>
          /\ Arrived(q)' => cookie[Browser[q]] # None
          /\ token[token[q]] = token[q] /\ Browser[token[q]] = Browser[q]
          /\ token[q] # q => cookie[Browser[q]] # None
    BY <2>1 DEF PagesInv, CookiesAreCreated
  <2>4. token' = token /\ cookie' = cookie
    BY <1>1
  <2> QED BY <2>2, <2>3, <2>4 DEF CookiesAreCreated, Pages!Browsers
<1>10. CreatorsMet'
  BY <1>1 DEF PagesInv, CreatorsMet
<1> QED BY <1>5, <1>6, <1>7, <1>8, <1>9, <1>10 DEF PagesInv

LEMMA PagesStepHolds == ASSUME PagesInv, [Pages!Next]_(Pages!vars) PROVE PagesInv'
<1>1. CASE UNCHANGED Pages!vars
  <2>1. UNCHANGED <<at, field, view, cookie, token, own, fns, shown, form, meant, met>>
    BY <1>1 DEF Pages!vars
  <2>2. (Pages!TypeOK /\ Begins /\ InFlightMet /\ FunctionsAreOwn)'
    BY <2>1 DEF PagesInv, Pages!TypeOK, Begins, InFlightMet, FunctionsAreOwn, Pages!Overlapped, Pages!Functions, Pages!InFlight, Pages!Browsers
  <2>3. (FormsWait /\ FormsAreOwn)'
    BY <2>1 DEF PagesInv, FormsWait, FormsAreOwn, OwnField, Pages!Overlapped
  <2>4. (CookiesAreCreated /\ CreatorsMet)'
    BY <2>1 DEF PagesInv, CookiesAreCreated, CreatorsMet, Arrived, Pages!Browsers
  <2>5. Judged'
    BY <2>1, ExcusesStay DEF PagesInv, JudgementsStay, Judged
  <2> QED BY <2>2, <2>3, <2>4, <2>5 DEF PagesInv
<1> QED BY <1>1, ProtectHolds, UnsafeHolds, ActHolds, InstallHolds, PageHolds, ArriveHolds, SubmitHolds DEF Pages!Next

LEMMA FormsAreRefusedForAReason == PagesInv => Pages!RefusedForAReason
BY DEF PagesInv, Judged, Excused, Entitled, Pages!RefusedForAReason

-----------------------------------------------------------------------------
(* The application.                                                        *)

\* A behaviour is one of a part: the part's invariant holds in it.
IInv ==
    /\ part = "accounts" => SignUpInv /\ AccountsRest /\ TokenInv
    /\ part = "tag cache" => CacheIInv
    /\ part = "hub" => HubIInv
    /\ part = "attachments" => FilesIInv
    /\ part = "rate limit" => RateInv
    /\ part = "routing" => RoutingInv /\ MountsKept /\ Served
    /\ part = "pages" => PagesInv

LEMMA InitHolds == Init => IInv
BY SignUpInit, AccountsRestInit, TokenInit, CacheInitHolds, HubInitHolds, FilesInitHolds, RateInitHolds, RoutingInitHolds, MountsInitHolds,
   PagesInitHolds DEF Init, IInv

\* A step is one of the part, or leaves the part's variables alone.
LEMMA StepsAreOfTheParts ==
    ASSUME [Next]_vars
    PROVE  /\ part' = part
           /\ part = "accounts" => [Accounts!Next]_(Accounts!vars)
           /\ part = "tag cache" => [TagCache!Next]_(TagCache!vars)
           /\ part = "hub" => [Hub!Next]_(Hub!vars)
           /\ part = "attachments" => [Attachments!Next]_(Attachments!vars)
           /\ part = "rate limit" => [RateLimit!Next]_(RateLimit!vars)
           /\ part = "routing" => [Routing!Next]_(Routing!vars)
           /\ part = "pages" => [Pages!Next]_(Pages!vars)
<1>1. CASE Next
  BY <1>1 DEF Next
<1>2. CASE UNCHANGED vars
  BY <1>2 DEF vars, accounts, rateLimit, tagCache, hub, attachments, routing, pages, Accounts!vars, RateLimit!vars,
     TagCache!vars, Hub!vars, Attachments!vars, Routing!vars, Pages!vars
<1> QED BY <1>1, <1>2

LEMMA StepHolds == IInv /\ [Next]_vars => IInv'
<1> SUFFICES ASSUME IInv, [Next]_vars PROVE IInv'
  OBVIOUS
<1>1. part = "accounts" => SignUpInv' /\ AccountsRest' /\ TokenInv'
  BY StepsAreOfTheParts, SignUpStep, AccountsRestHolds, TokensHold DEF IInv
<1>2. part = "tag cache" => CacheIInv'
  BY StepsAreOfTheParts, CacheStepHolds DEF IInv
<1>3. part = "hub" => HubIInv'
  BY StepsAreOfTheParts, HubStepHolds DEF IInv
<1>4. part = "attachments" => FilesIInv'
  BY StepsAreOfTheParts, FilesStepHolds DEF IInv
<1>5. part = "rate limit" => RateInv'
  BY StepsAreOfTheParts, RateStepHolds DEF IInv
<1>6. part = "routing" => (RoutingInv /\ MountsKept /\ Served)'
  BY StepsAreOfTheParts, RoutingStepHolds, MountsHold, ServedHolds DEF IInv
<1>7. part = "pages" => PagesInv'
  BY StepsAreOfTheParts, PagesStepHolds DEF IInv
<1> QED BY <1>1, <1>2, <1>3, <1>4, <1>5, <1>6, <1>7, StepsAreOfTheParts DEF IInv

\* In every part the variables have their types: a row its columns, a list of
\* times its order, a slice its array.
THEOREM TypesStay == Spec => []TypeOK
<1>1. IInv => TypeOK
  BY AccountsAreTyped, HubIsTyped DEF IInv, CacheIInv, FilesIInv, RateInv, RoutingInv, PagesInv, TypeOK
<1> QED BY <1>1, InitHolds, StepHolds, PTL DEF Spec

\* However sign-ups, activations and edits interleave, one sign-up at most
\* succeeds for an email, its password is its maker's until a request sets
\* one by the token the account has, an empty one included, and a refused
\* sign-up has left nothing (users.go:134-251, schema.go:31-61).
THEOREM AccountsAreOne == Spec => []OneAccountPerEmail
<1>1. IInv => OneAccountPerEmail
  BY SignUpsDoNotCollide DEF IInv, OneAccountPerEmail
<1> QED BY <1>1, InitHolds, StepHolds, PTL DEF Spec

\* A token that has set a password is in the table again only by an edit of
\* an outdated copy, and sets a second one only by a request that had found
\* it before, whatever else is posted, an empty token included
\* (users.go:219-251).
THEOREM TokensStaySpent == Spec => []SpentTokenStaysSpent
<1>1. IInv => SpentTokenStaysSpent
  BY TokensAreSpentOnce DEF IInv, SpentTokenStaysSpent
<1> QED BY <1>1, InitHolds, StepHolds, PTL DEF Spec

\* However reads, changes, expirations and invalidations by tag or key
\* interleave, an old value is in the cache only before its writer has
\* invalidated it, or because its reader stored it too late or without the
\* tag (cache.go:54-104).
THEOREM StalenessIsExplained == Spec => []StaleOnlyByRace
<1>1. IInv => StaleOnlyByRace
  BY DEF IInv, CacheIInv, StaleOnlyByRace
<1> QED BY <1>1, InitHolds, StepHolds, PTL DEF Spec

\* A Broadcast that returns has written to everybody who was in the room
\* throughout and to nobody who was not there at any time during it
\* (websocket.go:71), for any rooms, connections, broadcasts and moves.
THEOREM BroadcastsReachTheRoom == Spec => []BroadcastReachesTheRoom
<1>1. IInv => BroadcastReachesTheRoom
  BY DEF IInv, HubIInv, BroadcastReachesTheRoom
<1> QED BY <1>1, InitHolds, StepHolds, PTL DEF Spec

\* Whatever fails and whenever the process is killed, a row has its whole file
\* unless its creator has deleted it after it could not read the row back; a
\* whole file without a row was on its way or could not be deleted; and Get
\* finds the file from where the prefix is the one it was stored with, which
\* on a custom domain is none (service.go:64-115, module.go:56-58).
THEOREM RowsHaveTheirFiles == Spec => []RowsAndFilesAgree
<1>1. IInv => RowsAndFilesAgree
  BY DEF IInv, FilesIInv, RowsAndFilesAgree
<1> QED BY <1>1, InitHolds, StepHolds, PTL DEF Spec

\* Of the requests of a key those that pass `limit` apart are a window apart,
\* whatever the limit is, and a refused one is told a time before which none
\* passes (ratelimit.go:36-78).
THEOREM WindowsStayBounded == Spec => []RateBound
<1>1. IInv => RateBound
  BY WindowsAreBounded DEF IInv, RateBound
<1> QED BY <1>1, InitHolds, StepHolds, PTL DEF Spec

\* However routers are cloned and given middlewares, a route has those of its
\* router, unless its router and another have parted in an array that they
\* share (router.go:242-252).
THEOREM RoutesHaveTheirMiddlewares == Spec => []RoutesRunTheirMiddlewares
<1>1. IInv => RoutesRunTheirMiddlewares
  BY RoutingIsSound DEF IInv, RoutesRunTheirMiddlewares
<1> QED BY <1>1, InitHolds, StepHolds, PTL DEF Spec

\* Run does not serve what a failed registration has returned, nor what has
\* been chained to that or mounted, unless all that have failed were health
\* checks and single routes of versions (router.go:74, health.go:65,
\* versioning.go:68).
THEOREM FailuresAreReported == Spec => []FailedRegistrationIsReported
<1>1. IInv => FailedRegistrationIsReported
  BY RoutingIsSound DEF IInv, FailedRegistrationIsReported
<1> QED BY <1>1, InitHolds, StepHolds, PTL DEF Spec

\* With the default name of the field, a form that the page of a safe request
\* has shown is refused only if the page was in flight with another of its
\* view, or requests of its browser that were in flight together have each
\* created a token; that of an unsafe request's page is accepted only in the
\* first case, and under another name of the field none is (csrf.go:47-130).
THEOREM RefusalsAreExplained == Spec => []RefusedForAReason
<1>1. IInv => RefusedForAReason
  BY FormsAreRefusedForAReason DEF IInv, RefusedForAReason
<1> QED BY <1>1, InitHolds, StepHolds, PTL DEF Spec
=============================================================================
