------------------------- MODULE MemSessionsProofs -------------------------
(***************************************************************************)
(* Sessions in memory, for any requests, ids, users and messages: a login  *)
(* is answered with a session that is logged in, and a request loses its   *)
(* own flash messages only to another that shares its session.             *)
(***************************************************************************)
EXTENDS MemSessions, TLAPS

StoreTyped ==
    /\ DOMAIN store \subseteq issued
    /\ \A k \in DOMAIN store : store[k] \in Data
    /\ issued \subseteq Ids
    /\ jar \in Ids \cup {None}

RequestsTyped ==
    /\ pc \in [Requests -> Stages]
    /\ cookie \in [Requests -> Ids \cup {None}]
    /\ key \in [Requests -> Ids \cup {None}]
    /\ initial \in [Requests -> Ids \cup {None}]
    /\ header \in [Requests -> Ids \cup {None}]
    /\ saved \in [Requests -> BOOLEAN]
    /\ flashed \in [Requests -> SUBSET Messages]
    /\ loggedIn \in [Requests -> Users \cup {None}]

\* An object that has been loaded or created stays in the store for as long
\* as the process lives: no request loses its object.
HasObject == \A r \in Requests : pc[r] \notin {"idle", "load"} => key[r] \in DOMAIN store

\* Only the handler logs in and flashes, and it saves once.
HandlersOnly ==
    \A r \in Requests :
        /\ pc[r] \in {"idle", "load", "announce", "begin"} => loggedIn[r] = None /\ flashed[r] = {}
        /\ pc[r] \in {"login", "rotate"} => ~saved[r]

\* An object that no request has invalidated still has the id it is stored
\* under, and that is the id its requests have read and announced.
KeepsItsId ==
    /\ \A k \in DOMAIN store : k \notin out => store[k].id = k
    /\ \A r \in Requests : key[r] \notin out =>
         /\ pc[r] \in {"begin", "serve", "login", "rotate", "done"} => header[r] = key[r]
         /\ pc[r] \in {"serve", "login", "rotate", "done"} => initial[r] = key[r]

\* Once somebody has logged in, the object has a user until it is invalidated,
\* and that user until another request logs in.
StaysLoggedIn ==
    \A r \in Requests : loggedIn[r] # None /\ key[r] \notin out =>
        /\ store[key[r]].user # None
        /\ r \notin replaced => store[key[r]].user = loggedIn[r]

\* While a request is between its check and its login, somebody else can only
\* have logged in under its eyes.
RacesShow ==
    \A r \in Requests : pc[r] = "login" /\ store[key[r]].user # None => r \in shared

\* Requests that use one object know of each other.
SharingShows ==
    \A r, q \in Requests : r # q /\ Using(r) /\ Using(q) /\ key[r] = key[q] => r \in shared

\* What a request that is alone has flashed is there for the next request
\* until it saves.
KeepsItsFlashes ==
    \A r \in Requests : Using(r) /\ ~saved[r] /\ r \notin shared /\ key[r] \notin out =>
        flashed[r] \subseteq store[key[r]].new

IInv ==
    /\ StoreTyped /\ RequestsTyped /\ HasObject /\ HandlersOnly
    /\ KeepsItsId /\ StaysLoggedIn /\ RacesShow /\ SharingShows /\ KeepsItsFlashes

-----------------------------------------------------------------------------

LEMMA InitHolds == Init => IInv
<1> SUFFICES ASSUME Init PROVE IInv
  OBVIOUS
<1> USE DEF Init
<1>1. StoreTyped /\ RequestsTyped
  BY DEF StoreTyped, RequestsTyped, Stages
<1>2. HasObject /\ HandlersOnly /\ KeepsItsId /\ StaysLoggedIn /\ RacesShow
  BY DEF HasObject, HandlersOnly, KeepsItsId, StaysLoggedIn, RacesShow
<1>3. SharingShows /\ KeepsItsFlashes
  BY DEF SharingShows, KeepsItsFlashes, Using
<1> QED BY <1>1, <1>2, <1>3 DEF IInv

\* A request that moves on with the object it has, which may change: what the
\* change may not do to it, nor the request to its own place.
LEMMA OneMoves ==
    ASSUME IInv, NEW r \in Requests, Using(r), NEW stage \in Stages \ {"idle", "load"}, Goto(r, stage),
           NEW id \in Ids \cup {None}, NEW first \in Ids \cup {None},
           header' = [header EXCEPT ![r] = id], initial' = [initial EXCEPT ![r] = first],
           UNCHANGED <<store, issued, jar, cookie, key, history>>,
           saved' = saved, stage \in {"login", "rotate"} => ~saved[r],
           stage = "login" => store[key[r]].user = None,
           stage \in {"announce", "begin"} => pc[r] \in {"announce", "begin"},
           key[r] \notin out =>
             /\ stage \in {"begin", "serve", "login", "rotate", "done"} => id = key[r]
             /\ stage \in {"serve", "login", "rotate", "done"} => first = key[r]
    PROVE  IInv'
<1>0. /\ StoreTyped /\ RequestsTyped /\ HasObject /\ HandlersOnly
      /\ KeepsItsId /\ StaysLoggedIn /\ RacesShow /\ SharingShows /\ KeepsItsFlashes
  BY DEF IInv
<1>1. /\ pc' = [pc EXCEPT ![r] = stage]
      /\ UNCHANGED <<store, issued, jar, cookie, key, out, loggedIn, replaced, flashed, shared>>
  BY DEF Goto, history
<1>2. StoreTyped' /\ RequestsTyped'
  BY <1>0, <1>1 DEF StoreTyped, RequestsTyped
<1>3. HasObject' /\ HandlersOnly'
  BY <1>0, <1>1 DEF RequestsTyped, HasObject, HandlersOnly, Using
<1>4. KeepsItsId'
  BY <1>0, <1>1 DEF RequestsTyped, KeepsItsId
<1>5. StaysLoggedIn' /\ RacesShow'
  BY <1>0, <1>1 DEF RequestsTyped, StaysLoggedIn, RacesShow
<1>6. SharingShows' /\ KeepsItsFlashes'
  BY <1>0, <1>1 DEF RequestsTyped, SharingShows, KeepsItsFlashes, Using
<1> QED BY <1>2, <1>3, <1>4, <1>5, <1>6 DEF IInv

LEMMA ArriveHolds == ASSUME IInv, NEW r \in Requests, Arrive(r) PROVE IInv'
<1>0. /\ StoreTyped /\ RequestsTyped /\ HasObject /\ HandlersOnly
      /\ KeepsItsId /\ StaysLoggedIn /\ RacesShow /\ SharingShows /\ KeepsItsFlashes
  BY DEF IInv
<1>1. /\ pc' = [pc EXCEPT ![r] = "load"] /\ cookie' = [cookie EXCEPT ![r] = jar] /\ pc[r] = "idle"
      /\ UNCHANGED <<store, issued, jar, key, initial, header, saved, out, loggedIn, replaced, flashed, shared>>
  BY DEF Arrive, Goto, history
<1>2. StoreTyped' /\ RequestsTyped'
  BY <1>0, <1>1 DEF StoreTyped, RequestsTyped, Stages
<1>3. HasObject' /\ HandlersOnly'
  BY <1>0, <1>1 DEF RequestsTyped, HasObject, HandlersOnly
<1>4. KeepsItsId' /\ StaysLoggedIn' /\ RacesShow'
  BY <1>0, <1>1 DEF RequestsTyped, KeepsItsId, StaysLoggedIn, RacesShow
<1>5. SharingShows' /\ KeepsItsFlashes'
  BY <1>0, <1>1 DEF RequestsTyped, SharingShows, KeepsItsFlashes, Using
<1> QED BY <1>2, <1>3, <1>4, <1>5 DEF IInv

\* A request takes an object: those that use it already know of it now.
LEMMA TakesHolds ==
    ASSUME IInv, NEW r \in Requests, pc[r] = "load", NEW k \in Ids, Takes(r, k), StoreTyped', k \in DOMAIN store',
           DOMAIN store \subseteq DOMAIN store', \A x \in DOMAIN store : store'[x] = store[x],
           \A x \in DOMAIN store' \ DOMAIN store : store'[x] = EmptyData(x)
    PROVE  IInv'
<1>0. /\ StoreTyped /\ RequestsTyped /\ HasObject /\ HandlersOnly
      /\ KeepsItsId /\ StaysLoggedIn /\ RacesShow /\ SharingShows /\ KeepsItsFlashes
  BY DEF IInv
<1>1. /\ pc' = [pc EXCEPT ![r] = "announce"] /\ key' = [key EXCEPT ![r] = k]
      /\ UNCHANGED <<jar, cookie, initial, header, saved, out, loggedIn, replaced, flashed>>
  BY DEF Takes, Goto
<1>2. /\ shared \subseteq shared'
      /\ \A q \in Requests \ {r} : Using(q) /\ key[q] = k => q \in shared' /\ r \in shared'
  BY DEF Takes
<1>3. RequestsTyped'
  BY <1>0, <1>1 DEF RequestsTyped, Stages
<1>4. HasObject'
  BY <1>0, <1>1 DEF RequestsTyped, HasObject
<1>5. HandlersOnly'
  BY <1>0, <1>1 DEF RequestsTyped, HandlersOnly
<1>6. KeepsItsId'
  <2>1. \A x \in DOMAIN store' : x \notin out => store'[x].id = x
    BY <1>0 DEF KeepsItsId, EmptyData
  <2> QED BY <1>0, <1>1, <2>1 DEF RequestsTyped, KeepsItsId
<1>70. ASSUME NEW q \in Requests, q # r, pc[q] \notin {"idle", "load"}
       PROVE  key'[q] = key[q] /\ store'[key[q]] = store[key[q]]
  BY <1>0, <1>1, <1>70 DEF RequestsTyped, HasObject
<1>7. StaysLoggedIn' /\ RacesShow'
  <2>1. ASSUME NEW q \in Requests, loggedIn[q] # None PROVE q # r /\ pc[q] \notin {"idle", "load"}
    BY <1>0, <2>1 DEF HandlersOnly
  <2>2. StaysLoggedIn'
    BY <1>0, <1>1, <1>70, <2>1 DEF StaysLoggedIn
  <2>3. \A q \in Requests : pc'[q] = "login" => q # r /\ pc[q] = "login"
    BY <1>0, <1>1 DEF RequestsTyped
  <2>4. RacesShow'
    BY <1>0, <1>1, <1>2, <1>70, <2>3 DEF RacesShow
  <2> QED BY <2>2, <2>4
<1>8. SharingShows'
  BY <1>0, <1>1, <1>2 DEF RequestsTyped, SharingShows, Using
<1>9. KeepsItsFlashes'
  <2> SUFFICES ASSUME NEW q \in Requests, Using(q)', ~saved[q], q \notin shared', key'[q] \notin out
               PROVE  flashed[q] \subseteq store'[key'[q]].new
    BY <1>1 DEF KeepsItsFlashes
  <2>1. CASE q = r
    BY <1>0, <2>1 DEF HandlersOnly
  <2>2. CASE q # r
    <3>1. Using(q) /\ key'[q] = key[q]
      BY <1>0, <1>1, <2>2 DEF RequestsTyped, Using
    <3>2. store'[key[q]] = store[key[q]]
      BY <1>0, <3>1 DEF HasObject, Using
    <3> QED BY <1>0, <1>2, <3>1, <3>2 DEF KeepsItsFlashes
  <2> QED BY <2>1, <2>2
<1> QED BY <1>3, <1>4, <1>5, <1>6, <1>7, <1>8, <1>9 DEF IInv

LEMMA LoadFoundHolds == ASSUME IInv, NEW r \in Requests, LoadFound(r) PROVE IInv'
<1>1. /\ pc[r] = "load" /\ cookie[r] \in DOMAIN store /\ Takes(r, cookie[r])
      /\ UNCHANGED <<store, issued, jar>>
  BY DEF LoadFound, Takes
<1>2. StoreTyped' /\ cookie[r] \in Ids
  BY <1>1 DEF IInv, StoreTyped
<1> DEFINE k == cookie[r]
<1> HIDE DEF k
<1>3. Takes(r, k) /\ k \in Ids /\ k \in DOMAIN store
  BY <1>1, <1>2 DEF k
<1> QED BY <1>1, <1>2, <1>3, TakesHolds

LEMMA EmptyTyped == \A id \in Ids : EmptyData(id) \in Data
BY DEF EmptyData, Data

LEMMA CreateSessionHolds == ASSUME IInv, NEW r \in Requests, CreateSession(r) PROVE IInv'
<1>1. PICK id \in Ids \ issued :
        issued' = issued \cup {id} /\ store' = Stored(store, id) /\ Takes(r, id)
  BY DEF CreateSession
<1>2. /\ DOMAIN store' = DOMAIN store \cup {id}
      /\ \A k \in DOMAIN store' : store'[k] = IF k = id THEN EmptyData(id) ELSE store[k]
  BY <1>1 DEF Stored
<1>3. StoreTyped /\ id \notin DOMAIN store
  BY DEF IInv, StoreTyped
<1>4. StoreTyped'
  <2>1. jar' = jar
    BY <1>1 DEF Takes
  <2> QED BY <1>1, <1>2, <1>3, <2>1, EmptyTyped DEF StoreTyped
<1>5. pc[r] = "load"
  BY DEF CreateSession
<1> QED BY <1>1, <1>2, <1>3, <1>4, <1>5, TakesHolds

LEMMA AnnounceHolds == ASSUME IInv, NEW r \in Requests, Announce(r) PROVE IInv'
<1>1. /\ pc[r] = "announce" /\ Using(r) /\ RequestsTyped
      /\ StoreTyped /\ HasObject /\ KeepsItsId
  BY DEF Announce, Using, IInv
<1>2. store[key[r]] \in Data /\ (key[r] \notin out => store[key[r]].id = key[r])
  BY <1>1 DEF HasObject, StoreTyped, KeepsItsId
<1> DEFINE id == store[key[r]].id
           first == initial[r]
<1>3. id \in Ids \cup {None} /\ first \in Ids \cup {None}
  BY <1>1, <1>2 DEF Data, RequestsTyped
<1>4. header' = [header EXCEPT ![r] = id] /\ initial' = [initial EXCEPT ![r] = first]
  BY <1>1 DEF Announce, RequestsTyped
<1> HIDE DEF id, first
<1>5. key[r] \notin out => id = key[r]
  BY <1>2 DEF id
<1>6. /\ Goto(r, "begin") /\ "begin" \in Stages \ {"idle", "load"} /\ saved' = saved
      /\ UNCHANGED <<store, issued, jar, cookie, key, history>>
  BY DEF Announce, Stages
<1> QED BY <1>1, <1>3, <1>4, <1>5, <1>6, OneMoves

LEMMA BeginHolds == ASSUME IInv, NEW r \in Requests, Begin(r) PROVE IInv'
<1>1. /\ pc[r] = "begin" /\ Using(r) /\ RequestsTyped
      /\ StoreTyped /\ HasObject /\ KeepsItsId
  BY DEF Begin, Using, IInv
<1>2. store[key[r]] \in Data /\ (key[r] \notin out => store[key[r]].id = key[r])
  BY <1>1 DEF HasObject, StoreTyped, KeepsItsId
<1> DEFINE id == header[r]
           first == store[key[r]].id
<1>3. id \in Ids \cup {None} /\ first \in Ids \cup {None}
  BY <1>1, <1>2 DEF Data, RequestsTyped
<1>4. header' = [header EXCEPT ![r] = id] /\ initial' = [initial EXCEPT ![r] = first]
  BY <1>1 DEF Begin, RequestsTyped
<1>5. key[r] \notin out => id = key[r] /\ first = key[r]
  BY <1>1, <1>2 DEF KeepsItsId
<1> HIDE DEF id, first
<1>6. /\ Goto(r, "serve") /\ "serve" \in Stages \ {"idle", "load"} /\ saved' = saved
      /\ UNCHANGED <<store, issued, jar, cookie, key, history>>
  BY DEF Begin, Stages
<1> QED BY <1>1, <1>3, <1>4, <1>5, <1>6, OneMoves

LEMMA SaveCookieHolds == ASSUME IInv, NEW r \in Requests, SaveCookie(r) PROVE IInv'
<1>1. /\ pc[r] = "serve" /\ Using(r) /\ RequestsTyped
      /\ StoreTyped /\ HasObject /\ KeepsItsId
  BY DEF SaveCookie, Using, IInv
<1>2. store[key[r]] \in Data /\ (key[r] \notin out => store[key[r]].id = key[r])
  BY <1>1 DEF HasObject, StoreTyped, KeepsItsId
<1> DEFINE id == IF store[key[r]].id # initial[r] THEN store[key[r]].id ELSE header[r]
           first == initial[r]
<1>3. id \in Ids \cup {None} /\ first \in Ids \cup {None}
  BY <1>1, <1>2 DEF Data, RequestsTyped
<1>4. header' = [header EXCEPT ![r] = id] /\ initial' = [initial EXCEPT ![r] = first]
  BY <1>1 DEF SaveCookie, RequestsTyped
<1>5. key[r] \notin out => id = key[r] /\ first = key[r]
  BY <1>1, <1>2 DEF KeepsItsId
<1> HIDE DEF id, first
<1>6. /\ Goto(r, "rotate") /\ "rotate" \in Stages \ {"idle", "load"} /\ saved' = saved /\ ~saved[r]
      /\ UNCHANGED <<store, issued, jar, cookie, key, history>>
  BY DEF SaveCookie, Stages
<1> QED BY <1>1, <1>3, <1>4, <1>5, <1>6, OneMoves

LEMMA DoneHolds == ASSUME IInv, NEW r \in Requests, Finish(r) \/ HandlerPanics(r) PROVE IInv'
<1>1. pc[r] = "serve" /\ Using(r) /\ RequestsTyped /\ KeepsItsId
  BY DEF Finish, HandlerPanics, Using, IInv
<1> DEFINE id == header[r]
           first == initial[r]
<1>2. id \in Ids \cup {None} /\ first \in Ids \cup {None}
  BY <1>1 DEF RequestsTyped
<1>3. header' = [header EXCEPT ![r] = id] /\ initial' = [initial EXCEPT ![r] = first]
  BY <1>1 DEF Finish, HandlerPanics, RequestsTyped
<1>4. key[r] \notin out => id = key[r] /\ first = key[r]
  BY <1>1 DEF KeepsItsId
<1> HIDE DEF id, first
<1>5. /\ Goto(r, "done") /\ "done" \in Stages \ {"idle", "load"} /\ saved' = saved
      /\ UNCHANGED <<store, issued, jar, cookie, key, history>>
  BY DEF Finish, HandlerPanics, Stages
<1> QED BY <1>1, <1>2, <1>3, <1>4, <1>5, OneMoves

\* What a request that changes the object it shares owes to the others: an id
\* that is its key, a user where somebody has logged in, and its own flashes.
Owed(r, data, b, ms, u) ==
    key[r] \notin out' =>
        /\ data.id = key[r]
        /\ u # None => data.user # None /\ (r \notin replaced' => data.user = u)
        /\ \A q \in Requests \ {r} : loggedIn[q] # None /\ key[q] = key[r] =>
              data.user # None /\ (data.user = store[key[r]].user \/ q \in replaced')
        /\ ~b /\ r \notin shared => ms \subseteq data.new

\* A handler changes the object it shares.
LEMMA ChangeHolds ==
    ASSUME IInv, NEW r \in Requests, pc[r] \in {"serve", "login", "rotate"}, Goto(r, "serve"),
           NEW data \in Data, Changes(r, data), UNCHANGED <<jar, cookie, key, initial, header, shared>>,
           NEW b \in BOOLEAN, saved' = [saved EXCEPT ![r] = b],
           NEW ms \in SUBSET Messages, flashed' = [flashed EXCEPT ![r] = ms],
           issued \subseteq issued', issued' \subseteq Ids, out \subseteq out',
           NEW u \in Users \cup {None}, loggedIn' = [loggedIn EXCEPT ![r] = u],
           replaced \ {r} \subseteq replaced',
           Owed(r, data, b, ms, u)
    PROVE  IInv'
<1>0. /\ StoreTyped /\ RequestsTyped /\ HasObject /\ HandlersOnly
      /\ KeepsItsId /\ StaysLoggedIn /\ RacesShow /\ SharingShows /\ KeepsItsFlashes
  BY DEF IInv
<1>1. pc' = [pc EXCEPT ![r] = "serve"] /\ store' = [store EXCEPT ![key[r]] = data]
  BY DEF Goto, Changes
<1>2. /\ key[r] \in DOMAIN store /\ DOMAIN store' = DOMAIN store
      /\ \A k \in DOMAIN store : store'[k] = IF k = key[r] THEN data ELSE store[k]
  BY <1>0, <1>1 DEF HasObject
<1>3. /\ \A q \in Requests \ {r} : /\ pc'[q] = pc[q] /\ saved'[q] = saved[q]
                                    /\ flashed'[q] = flashed[q] /\ loggedIn'[q] = loggedIn[q]
      /\ pc'[r] = "serve" /\ saved'[r] = b /\ flashed'[r] = ms /\ loggedIn'[r] = u
  BY <1>0, <1>1 DEF RequestsTyped
<1>4. StoreTyped'
  BY <1>0, <1>2 DEF StoreTyped
<1>5. RequestsTyped'
  BY <1>0, <1>1 DEF RequestsTyped, Stages
<1>6. HasObject'
  BY <1>0, <1>2, <1>3 DEF HasObject
<1>7. HandlersOnly'
  BY <1>0, <1>3 DEF HandlersOnly
<1>8. KeepsItsId'
  BY <1>0, <1>2, <1>3 DEF KeepsItsId, Owed
<1>9. StaysLoggedIn'
  <2> SUFFICES ASSUME NEW q \in Requests, loggedIn'[q] # None, key[q] \notin out'
               PROVE  /\ store'[key[q]].user # None
                      /\ q \notin replaced' => store'[key[q]].user = loggedIn'[q]
    BY DEF StaysLoggedIn
  <2>1. CASE q = r
    BY <1>2, <1>3, <2>1 DEF Owed
  <2>2. CASE q # r
    <3>1. loggedIn'[q] = loggedIn[q] /\ key[q] \in DOMAIN store
      BY <1>0, <1>3, <2>2 DEF HandlersOnly, HasObject
    <3>2. /\ store[key[q]].user # None
          /\ q \notin replaced' => store[key[q]].user = loggedIn[q]
      BY <1>0, <2>2, <3>1 DEF StaysLoggedIn
    <3> QED BY <1>2, <2>2, <3>1, <3>2 DEF Owed
  <2> QED BY <2>1, <2>2
<1>10. \A q \in Requests : Using(q)' <=> Using(q)
  BY <1>3 DEF Using
<1>11. SharingShows'
  BY <1>0, <1>10 DEF SharingShows
<1>13. RacesShow'
  <2> SUFFICES ASSUME NEW q \in Requests, pc'[q] = "login", store'[key[q]].user # None PROVE q \in shared
    BY DEF RacesShow
  <2>1. q # r /\ pc[q] = "login" /\ Using(q) /\ Using(r)
    BY <1>3 DEF Using
  <2>2. CASE key[q] = key[r]
    BY <1>0, <2>1, <2>2 DEF SharingShows
  <2>3. CASE key[q] # key[r]
    BY <1>0, <1>2, <2>1, <2>3 DEF RacesShow, HasObject, Using
  <2> QED BY <2>2, <2>3
<1>12. KeepsItsFlashes'
  <2> SUFFICES ASSUME NEW q \in Requests, Using(q), ~saved'[q], q \notin shared, key[q] \notin out'
               PROVE  flashed'[q] \subseteq store'[key[q]].new
    BY <1>10 DEF KeepsItsFlashes
  <2>1. CASE q = r
    BY <1>2, <1>3, <2>1 DEF Owed
  <2>2. CASE q # r
    <3>1. Using(r)
      BY DEF Using
    <3>2. key[q] # key[r]
      BY <1>0, <2>2, <3>1 DEF SharingShows
    <3>3. store'[key[q]] = store[key[q]]
      BY <1>0, <1>2, <3>2 DEF HasObject, Using
    <3> QED BY <1>0, <1>3, <2>2, <3>3 DEF KeepsItsFlashes
  <2> QED BY <2>1, <2>2
<1> QED BY <1>4, <1>5, <1>6, <1>7, <1>8, <1>9, <1>11, <1>12, <1>13 DEF IInv

\* What a handler finds in the object it has.
LEMMA Serving ==
    ASSUME IInv, NEW r \in Requests, pc[r] \in {"serve", "login", "rotate"}
    PROVE  /\ key[r] \in DOMAIN store /\ store[key[r]] \in Data /\ key[r] \in Ids
           /\ key[r] \notin out => store[key[r]].id = key[r]
           /\ key[r] \notin out => \A q \in Requests : loggedIn[q] # None /\ key[q] = key[r] =>
                /\ store[key[r]].user # None
                /\ q \notin replaced => store[key[r]].user = loggedIn[q]
           /\ key[r] \notin out /\ ~saved[r] /\ r \notin shared => flashed[r] \subseteq store[key[r]].new
           /\ pc' = pc /\ pc[r] = "serve" => Goto(r, "serve")
           /\ saved' = saved => saved' = [saved EXCEPT ![r] = saved[r]]
           /\ flashed' = flashed => flashed' = [flashed EXCEPT ![r] = flashed[r]]
           /\ loggedIn' = loggedIn => loggedIn' = [loggedIn EXCEPT ![r] = loggedIn[r]]
           /\ saved[r] \in BOOLEAN /\ flashed[r] \subseteq Messages /\ loggedIn[r] \in Users \cup {None}
           /\ pc[r] \in {"login", "rotate"} => ~saved[r]
<1>0. /\ StoreTyped /\ RequestsTyped /\ HasObject /\ HandlersOnly
      /\ KeepsItsId /\ StaysLoggedIn /\ KeepsItsFlashes
  BY DEF IInv
<1>1. key[r] \in DOMAIN store /\ store[key[r]] \in Data /\ key[r] \in Ids
  BY <1>0 DEF HasObject, StoreTyped
<1>2. /\ key[r] \notin out => store[key[r]].id = key[r]
      /\ key[r] \notin out => \A q \in Requests : loggedIn[q] # None /\ key[q] = key[r] =>
           /\ store[key[r]].user # None
           /\ q \notin replaced => store[key[r]].user = loggedIn[q]
      /\ key[r] \notin out /\ ~saved[r] /\ r \notin shared => flashed[r] \subseteq store[key[r]].new
  BY <1>0, <1>1 DEF KeepsItsId, StaysLoggedIn, KeepsItsFlashes, Using
<1>3. /\ pc' = pc /\ pc[r] = "serve" => Goto(r, "serve")
      /\ saved' = saved => saved' = [saved EXCEPT ![r] = saved[r]]
      /\ flashed' = flashed => flashed' = [flashed EXCEPT ![r] = flashed[r]]
      /\ loggedIn' = loggedIn => loggedIn' = [loggedIn EXCEPT ![r] = loggedIn[r]]
      /\ saved[r] \in BOOLEAN /\ flashed[r] \subseteq Messages /\ loggedIn[r] \in Users \cup {None}
  BY <1>0 DEF RequestsTyped, Goto
<1> QED BY <1>0, <1>1, <1>2, <1>3 DEF HandlersOnly

LEMMA LoginCheckHolds == ASSUME IInv, NEW r \in Requests, LoginCheck(r) \/ LoginRefused(r) PROVE IInv'
<1>1. pc[r] \in {"serve", "login"} /\ Using(r) /\ RequestsTyped /\ KeepsItsId
  BY DEF LoginCheck, LoginRefused, Using, IInv
<1> DEFINE id == header[r]
           first == initial[r]
<1>2. id \in Ids \cup {None} /\ first \in Ids \cup {None}
  BY <1>1 DEF RequestsTyped
<1>3. header' = [header EXCEPT ![r] = id] /\ initial' = [initial EXCEPT ![r] = first]
  BY <1>1 DEF LoginCheck, LoginRefused, RequestsTyped
<1>4. key[r] \notin out => id = key[r] /\ first = key[r]
  BY <1>1 DEF KeepsItsId
<1> HIDE DEF id, first
<1>5. /\ saved' = saved
      /\ UNCHANGED <<store, issued, jar, cookie, key, history>>
  BY DEF LoginCheck, LoginRefused
<1>6. CASE LoginCheck(r)
  <2>1. Goto(r, "login") /\ ~saved[r] /\ store[key[r]].user = None /\ "login" \in Stages \ {"idle", "load"}
    BY <1>6 DEF LoginCheck, Stages
  <2> QED BY <1>1, <1>2, <1>3, <1>4, <1>5, <2>1, OneMoves
<1>7. CASE LoginRefused(r)
  <2>1. Goto(r, "serve") /\ "serve" \in Stages \ {"idle", "load"}
    BY <1>7 DEF LoginRefused, Stages
  <2> QED BY <1>1, <1>2, <1>3, <1>4, <1>5, <2>1, OneMoves
<1> QED BY <1>6, <1>7

LEMMA AuthenticateHolds ==
    ASSUME IInv, NEW r \in Requests, pc[r] \in {"serve", "login"}, NEW u \in Users, Authenticate(r, u)
    PROVE  IInv'
<1> DEFINE data == [store[key[r]] EXCEPT !.user = u]
<1>1. /\ Changes(r, data) /\ issued' = issued /\ Goto(r, "serve")
      /\ loggedIn' = [loggedIn EXCEPT ![r] = u] /\ replaced' = (replaced \cup LoggedInBeside(r)) \ {r}
      /\ UNCHANGED <<jar, cookie, key, initial, header, saved, out, flashed, shared>>
  BY DEF Authenticate
<1>2. store[key[r]] \in Data
  BY Serving
<1>3. data \in Data /\ data.id = store[key[r]].id /\ data.user = u /\ u # None /\ data.new = store[key[r]].new
  BY <1>2, NoneAssumption DEF Data
<1>4. issued \subseteq Ids
  BY DEF IInv, StoreTyped
<1> HIDE DEF data
<1> DEFINE b == saved[r]
           ms == flashed[r]
<1>5. b \in BOOLEAN /\ ms \in SUBSET Messages /\ saved' = [saved EXCEPT ![r] = b]
      /\ flashed' = [flashed EXCEPT ![r] = ms]
  BY <1>1, Serving
<1>6. key[r] \notin out => data.id = key[r] /\ (~b /\ r \notin shared => ms \subseteq data.new)
  BY <1>1, <1>3, Serving
<1>7. /\ replaced \ {r} \subseteq replaced'
      /\ \A q \in Requests \ {r} : loggedIn[q] # None /\ key[q] = key[r] => q \in replaced'
  BY <1>1 DEF LoggedInBeside
<1>8. Owed(r, data, b, ms, u)
  BY <1>1, <1>3, <1>6, <1>7 DEF Owed
<1> HIDE DEF b, ms
<1>9. /\ pc[r] \in {"serve", "login", "rotate"} /\ issued \subseteq issued' /\ issued' \subseteq Ids
      /\ u \in Users \cup {None} /\ out \subseteq out' /\ replaced \ {r} \subseteq replaced'
      /\ UNCHANGED <<jar, cookie, key, initial, header, shared>>
  BY <1>1, <1>4, <1>7
<1>10. /\ Changes(r, data) /\ data \in Data /\ Goto(r, "serve")
       /\ loggedIn' = [loggedIn EXCEPT ![r] = u]
  BY <1>1, <1>3
<1> QED BY <1>5, <1>8, <1>9, <1>10, ChangeHolds

LEMMA LoginHolds ==
    ASSUME IInv, NEW r \in Requests, NEW u \in Users, Login(r, u) \/ SetPasswordWithToken(r, u)
    PROVE  IInv'
BY AuthenticateHolds DEF Login, SetPasswordWithToken

LEMMA FlashHolds == ASSUME IInv, NEW r \in Requests, NEW m \in Messages, Flash(r, m) PROVE IInv'
<1> DEFINE data == Flashed(store[key[r]], m)
           b == saved[r]
           ms == flashed[r] \cup {m}
           u == loggedIn[r]
<1>1. pc[r] = "serve" /\ Changes(r, data) /\ flashed' = [flashed EXCEPT ![r] = @ \cup {m}]
      /\ UNCHANGED <<issued, jar, pc, cookie, key, initial, header, saved, out, loggedIn, replaced, shared>>
  BY DEF Flash
<1>2. store[key[r]] \in Data
  BY <1>1, Serving
<1>3. data \in Data /\ data.id = store[key[r]].id /\ data.user = store[key[r]].user
      /\ data.new = store[key[r]].new \cup {m}
  BY <1>2 DEF Data, Flashed
<1>4. issued \subseteq Ids /\ flashed' = [flashed EXCEPT ![r] = ms]
  BY <1>1 DEF IInv, StoreTyped, RequestsTyped
<1> HIDE DEF data
<1>5. /\ b \in BOOLEAN /\ ms \in SUBSET Messages /\ saved' = [saved EXCEPT ![r] = b] /\ Goto(r, "serve")
      /\ u \in Users \cup {None} /\ loggedIn' = [loggedIn EXCEPT ![r] = u]
  BY <1>1, Serving
<1>6. Owed(r, data, b, ms, u)
  BY <1>1, <1>3, Serving DEF Owed
<1>7. replaced \ {r} \subseteq replaced' /\ out \subseteq out'
  BY <1>1
<1> HIDE DEF b, ms, u
<1>9. pc[r] \in {"serve", "login", "rotate"} /\ issued \subseteq issued' /\ issued' \subseteq Ids
      /\ UNCHANGED <<jar, cookie, key, initial, header, shared>>
  BY <1>1, <1>4
<1>10. Changes(r, data) /\ data \in Data
  BY <1>1, <1>3
<1> QED BY <1>4, <1>5, <1>6, <1>7, <1>9, <1>10, ChangeHolds

LEMMA InvalidateHolds == ASSUME IInv, NEW r \in Requests, Invalidate(r) PROVE IInv'
<1>1. PICK id \in Ids \ issued : issued' = issued \cup {id} /\ Changes(r, EmptyData(id))
  BY DEF Invalidate
<1>2. /\ pc[r] = "serve" /\ out' = out \cup {key[r]}
      /\ UNCHANGED <<jar, pc, cookie, key, initial, header, saved, loggedIn, replaced, flashed, shared>>
  BY DEF Invalidate
<1>3. issued \subseteq Ids /\ EmptyData(id) \in Data
  BY EmptyTyped DEF IInv, StoreTyped
<1> DEFINE b == saved[r]
           ms == flashed[r]
           data == EmptyData(id)
           u == loggedIn[r]
<1>4. u \in Users \cup {None} /\ loggedIn' = [loggedIn EXCEPT ![r] = u] /\ b \in BOOLEAN /\ ms \in SUBSET Messages /\ saved' = [saved EXCEPT ![r] = b]
      /\ flashed' = [flashed EXCEPT ![r] = ms] /\ Goto(r, "serve")
  BY <1>2, Serving
<1>5. data \in Data /\ Changes(r, data)
  BY <1>1, <1>3
<1> HIDE DEF b, ms, data, u
<1>6. Owed(r, data, b, ms, u)
  BY <1>2 DEF Owed
<1>7. /\ pc[r] \in {"serve", "login", "rotate"} /\ issued \subseteq issued' /\ issued' \subseteq Ids
      /\ out \subseteq out' /\ replaced \ {r} \subseteq replaced'
      /\ UNCHANGED <<jar, cookie, key, initial, header, shared>>
  BY <1>1, <1>2, <1>3
<1> QED BY <1>4, <1>5, <1>6, <1>7, ChangeHolds

LEMMA SaveRotateHolds == ASSUME IInv, NEW r \in Requests, SaveRotate(r) PROVE IInv'
<1> DEFINE data == Rotated(store[key[r]])
           ms == flashed[r]
           u == loggedIn[r]
<1>1. pc[r] = "rotate" /\ Changes(r, data) /\ saved' = [saved EXCEPT ![r] = TRUE] /\ Goto(r, "serve")
      /\ UNCHANGED <<issued, jar, cookie, key, initial, header, out, loggedIn, replaced, flashed, shared>>
  BY DEF SaveRotate, history
<1>2. store[key[r]] \in Data
  BY <1>1, Serving
<1>3. data \in Data /\ data.id = store[key[r]].id /\ data.user = store[key[r]].user
  BY <1>2 DEF Data, Rotated
<1>4. issued \subseteq Ids
  BY DEF IInv, StoreTyped
<1> HIDE DEF data
<1>5. /\ ms \in SUBSET Messages /\ flashed' = [flashed EXCEPT ![r] = ms]
      /\ u \in Users \cup {None} /\ loggedIn' = [loggedIn EXCEPT ![r] = u]
  BY <1>1, Serving
<1>6. Owed(r, data, TRUE, ms, u)
  BY <1>1, <1>3, Serving DEF Owed
<1>7. replaced \ {r} \subseteq replaced' /\ out \subseteq out' /\ TRUE \in BOOLEAN
  BY <1>1
<1> HIDE DEF ms, u
<1>9. pc[r] \in {"serve", "login", "rotate"} /\ issued \subseteq issued' /\ issued' \subseteq Ids
      /\ UNCHANGED <<jar, cookie, key, initial, header, shared>>
  BY <1>1, <1>4
<1>10. Changes(r, data) /\ data \in Data /\ Goto(r, "serve") /\ saved' = [saved EXCEPT ![r] = TRUE]
  BY <1>1, <1>3
<1> QED BY <1>4, <1>5, <1>6, <1>7, <1>9, <1>10, ChangeHolds

\* Requests leave, all of them if the process dies.
LEMMA GoneHolds ==
    ASSUME IInv, NEW S \in SUBSET Requests, Gone(S), StoreTyped',
           \/ store' = store /\ out' = out
           \/ S = Requests /\ DOMAIN store' = {}
    PROVE  IInv'
<1>0. /\ RequestsTyped /\ HasObject /\ HandlersOnly
      /\ KeepsItsId /\ StaysLoggedIn /\ RacesShow /\ SharingShows /\ KeepsItsFlashes
  BY DEF IInv
<1>1. RequestsTyped'
  BY <1>0 DEF Gone, RequestsTyped, Stages
<1>2. \A r \in S : /\ pc'[r] = "idle" /\ loggedIn'[r] = None /\ flashed'[r] = {}
  BY DEF Gone
<1>3. \A r \in Requests \ S :
        /\ pc'[r] = pc[r] /\ key'[r] = key[r] /\ initial'[r] = initial[r] /\ header'[r] = header[r]
        /\ saved'[r] = saved[r] /\ flashed'[r] = flashed[r]
        /\ loggedIn'[r] = loggedIn[r]
        /\ r \in replaced' <=> r \in replaced
        /\ r \in shared' <=> r \in shared
  BY DEF Gone
<1>4. \A r \in Requests : r \notin S => store' = store /\ out' = out
  OBVIOUS
<1>5. HasObject'
  BY <1>0, <1>2, <1>3, <1>4 DEF HasObject
<1>6. HandlersOnly'
  BY <1>0, <1>2, <1>3 DEF HandlersOnly
<1>7. KeepsItsId'
  <2>1. \A k \in DOMAIN store' : k \notin out' => store'[k].id = k
    BY <1>0 DEF KeepsItsId
  <2> QED BY <1>0, <1>2, <1>3, <1>4, <2>1 DEF KeepsItsId
<1>8. StaysLoggedIn' /\ RacesShow'
  BY <1>0, <1>2, <1>3, <1>4 DEF StaysLoggedIn, RacesShow
<1>9. \A r \in Requests : Using(r)' => r \notin S /\ Using(r)
  BY <1>2, <1>3 DEF Using
<1>10. SharingShows'
  BY <1>0, <1>3, <1>9 DEF SharingShows
<1>11. KeepsItsFlashes'
  BY <1>0, <1>3, <1>4, <1>9 DEF KeepsItsFlashes
<1> QED BY <1>1, <1>5, <1>6, <1>7, <1>8, <1>10, <1>11 DEF IInv

LEMMA AnsweredHolds == ASSUME IInv, NEW r \in Requests, Deliver(r) \/ Lose(r) PROVE IInv'
<1>1. Gone({r}) /\ UNCHANGED <<store, issued, out>> /\ jar' \in {jar, header[r]}
  BY DEF Deliver, Lose
<1>2. StoreTyped'
  BY <1>1 DEF IInv, StoreTyped, RequestsTyped
<1> QED BY <1>1, <1>2, GoneHolds

LEMMA RestartHolds == ASSUME IInv, Restart PROVE IInv'
<1>1. Gone(Requests) /\ DOMAIN store' = {} /\ UNCHANGED <<issued, jar>>
  BY DEF Restart
<1>2. StoreTyped'
  BY <1>1 DEF IInv, StoreTyped
<1> QED BY <1>1, <1>2, GoneHolds

LEMMA StepHolds == IInv /\ [Next]_vars => IInv'
<1> SUFFICES ASSUME IInv, [Next]_vars PROVE IInv'
  OBVIOUS
<1>1. ASSUME NEW r \in Requests,
             \/ Arrive(r) \/ LoadFound(r) \/ CreateSession(r) \/ Announce(r) \/ Begin(r)
             \/ LoginCheck(r) \/ LoginRefused(r)
             \/ \E u \in Users : Login(r, u) \/ SetPasswordWithToken(r, u)
             \/ \E m \in Messages : Flash(r, m)
             \/ Invalidate(r)
             \/ SaveCookie(r) \/ SaveRotate(r) \/ Finish(r) \/ HandlerPanics(r)
             \/ Deliver(r) \/ Lose(r)
      PROVE  IInv'
  BY <1>1, ArriveHolds, LoadFoundHolds, CreateSessionHolds, AnnounceHolds, BeginHolds, LoginCheckHolds, LoginHolds, FlashHolds,
     InvalidateHolds, SaveCookieHolds, SaveRotateHolds, DoneHolds, AnsweredHolds
<1>2. CASE UNCHANGED vars
  <2>1. UNCHANGED <<store, issued, jar, pc, cookie, key, initial, header, saved, out, loggedIn, replaced, flashed, shared>>
    BY <1>2 DEF vars
  <2>2. (StoreTyped /\ RequestsTyped /\ HasObject /\ HandlersOnly)'
    BY <2>1 DEF IInv, StoreTyped, RequestsTyped, HasObject, HandlersOnly
  <2>3. (KeepsItsId /\ StaysLoggedIn /\ RacesShow /\ SharingShows /\ KeepsItsFlashes)'
    BY <2>1 DEF IInv, KeepsItsId, StaysLoggedIn, RacesShow, SharingShows, KeepsItsFlashes, Using
  <2> QED BY <2>2, <2>3 DEF IInv
<1> QED BY <1>1, <1>2, RestartHolds DEF Next

\* A request never loses the object it has loaded or created (store.go:42-70).
THEOREM TypesStay == Spec => []TypeOK
<1>1. IInv => TypeOK
  BY DEF IInv, StoreTyped, RequestsTyped, HasObject, Using, TypeOK
<1> QED BY <1>1, InitHolds, StepHolds, PTL DEF Spec

\* Whatever the other requests of the browser do with the session meanwhile, a
\* login is answered with the id of a session that is logged in, unless one of
\* them has logged out of it, and as its own user unless one of them has logged
\* in as well; a login that was checked races only with requests that overlap
\* (sessions.go:169-202, modules/authentication/sessions.go:27 and 73).
THEOREM LoginsAreAnswered == Spec => []LoginIsAnswered
<1>1. IInv => LoginIsAnswered
  <2> SUFFICES ASSUME IInv PROVE LoginIsAnswered
    OBVIOUS
  <2>1. ASSUME NEW r \in Requests, loggedIn[r] # None, pc[r] = "done", key[r] \notin out
        PROVE  /\ header[r] \in DOMAIN store
               /\ store[header[r]].user # None
               /\ r \notin replaced => store[header[r]].user = loggedIn[r]
    <3>1. key[r] \in DOMAIN store
      BY <2>1 DEF IInv, HasObject
    <3>2. header[r] = key[r]
      BY <2>1 DEF IInv, KeepsItsId
    <3>3. store[key[r]].user # None /\ (r \notin replaced => store[key[r]].user = loggedIn[r])
      BY <2>1 DEF IInv, StaysLoggedIn
    <3> QED BY <3>1, <3>2, <3>3
  <2>2. RacesShow
    BY DEF IInv
  <2> QED BY <2>1, <2>2 DEF LoginIsAnswered, RacesShow
<1> QED BY <1>1, InitHolds, StepHolds, PTL DEF Spec

\* A request that has its session for itself keeps what it has flashed for
\* the next one (inmemory/data.go:79-86).
THEOREM FlashesOfOneAreKept == Spec => OwnFlashLostOnlyIfShared
<1> DEFINE Kept == \A r \in Requests :
          (pc[r] = "rotate" /\ pc'[r] = "serve" /\ r \notin shared /\ key[r] \notin out)
          => flashed[r] \subseteq store'[key[r]].old
<1>1. IInv /\ [Next]_vars => [Kept]_vars
  <2> SUFFICES ASSUME IInv, Next, NEW r \in Requests, pc[r] = "rotate", pc'[r] = "serve",
                      r \notin shared, key[r] \notin out
               PROVE  flashed[r] \subseteq store'[key[r]].old
    OBVIOUS
  <2>1. SaveRotate(r)
    <3>1. RequestsTyped
      BY DEF IInv
    <3>2. ~Restart /\ \A q \in Requests : ~Deliver(q) /\ ~Lose(q)
      <4>1. \A S : Gone(S) => pc'[r] = IF r \in S THEN "idle" ELSE "rotate"
        BY DEF Gone
      <4>2. \A S : ~Gone(S)
        BY <4>1
      <4> QED BY <4>2 DEF Restart, Deliver, Lose
    <3>3. ASSUME NEW q \in Requests, \E stage \in Stages : Goto(q, stage), q # r PROVE FALSE
      BY <3>1, <3>3 DEF RequestsTyped, Goto
    <3>4. ASSUME NEW q \in Requests,
                 \/ Arrive(q) \/ LoadFound(q) \/ CreateSession(q) \/ Announce(q) \/ Begin(q)
                 \/ LoginCheck(q) \/ LoginRefused(q) \/ SaveCookie(q) \/ Finish(q) \/ HandlerPanics(q)
          PROVE  FALSE
      <4>1. \E stage \in Stages : Goto(q, stage)
        BY <3>4 DEF Arrive, LoadFound, CreateSession, Takes, Announce, Begin, LoginCheck, LoginRefused,
                    SaveCookie, Finish, HandlerPanics, Stages
      <4>2. q # r
        BY <3>4 DEF Arrive, LoadFound, CreateSession, Announce, Begin, LoginCheck, LoginRefused,
                    SaveCookie, Finish, HandlerPanics
      <4> QED BY <3>3, <4>1, <4>2
    <3>5. ASSUME NEW q \in Requests,
                 \/ \E u \in Users : Login(q, u) \/ SetPasswordWithToken(q, u)
                 \/ \E m \in Messages : Flash(q, m)
                 \/ Invalidate(q)
          PROVE  FALSE
      <4>1. pc' = pc \/ \E stage \in Stages : Goto(q, stage)
        BY <3>5 DEF Login, SetPasswordWithToken, Authenticate, Flash, Invalidate, Stages
      <4>2. q # r
        BY <3>5 DEF Login, SetPasswordWithToken, Flash, Invalidate
      <4> QED BY <3>3, <4>1, <4>2
    <3>6. ASSUME NEW q \in Requests, SaveRotate(q) PROVE q = r
      BY <3>3, <3>6 DEF SaveRotate, Stages
    <3> QED BY <3>2, <3>4, <3>5, <3>6 DEF Next
  <2>2. /\ key[r] \in DOMAIN store /\ flashed[r] \subseteq store[key[r]].new
        /\ store' = [store EXCEPT ![key[r]] = Rotated(store[key[r]])]
    BY <2>1, Serving DEF SaveRotate, Changes
  <2> QED BY <2>2 DEF Rotated
<1> QED BY <1>1, InitHolds, StepHolds, PTL DEF Spec, OwnFlashLostOnlyIfShared
=============================================================================
