--------------------------- MODULE RoutingProofs ---------------------------
(***************************************************************************)
(* Routing, the part of the application with the longest argument, for any *)
(* values of the constants: slices that share an array.                    *)
(*                                                                         *)
(* An array that append has allocated for n elements has room for fewer    *)
(* than n more, and its size is 1, 2, 4, 8 or at least 16 (Sizes).  Two    *)
(* routers that share one have been given the same so far, or have parted: *)
(* at the first place where they differ one has overwritten the other's,   *)
(* and then that one's slice is not what it was given (SlicesExplained).   *)
(***************************************************************************)
EXTENDS Application, SequenceTheorems, TLAPS

ArrayOf(r) == arrays[routers[r].array]
Given(r) == routers[r].given

\* A slice has as many middlewares as its router was given, and an array that
\* append has allocated is more than half full.
Sizes ==
    \A r \in Routing!Created :
        /\ routers[r].len = Len(Given(r))
        /\ routers[r].len <= used /\ routers[r].array <= used
        /\ \A i \in 1..Len(Given(r)) : Given(r)[i] <= used
        /\ Len(ArrayOf(r)) = 0 \/ Len(ArrayOf(r)) < 2 * routers[r].len
        /\ Len(ArrayOf(r)) \in {0, 1, 2, 4, 8} \/ 16 <= Len(ArrayOf(r))

Agree(s, u) == \A i \in DOMAIN s \cap DOMAIN u : s[i] = u[i]

\* Routers that share an array have been given the same, or have parted in it.
SharersPart ==
    \A r, q \in Routing!Created :
        r # q /\ routers[r].array = routers[q].array =>
            Agree(Given(r), Given(q)) \/ Routing!Parted(Given(r), Given(q))

Explained(s, r) == \E q \in Routing!Created \ {r} : Routing!Parted(s, Given(q))

\* A router has what it was given, or has parted from another.
SlicesExplained ==
    \A r \in Routing!Created :
        (\A i \in 1..Len(Given(r)) : ArrayOf(r)[i] = Given(r)[i]) \/ Explained(Given(r), r)

RoutesExplained == \A t \in routes : t.chain = t.given \/ Explained(t.given, t.router)

\* What a failure has returned is an errRouter, which Run does not serve.
FailuresKept == ("router" \in cur.failed => cur.errored) /\ (app = "serving" => ~cur.errored)

RoutingInv ==
    /\ Routing!TypeOK /\ Sizes /\ SharersPart /\ SlicesExplained /\ RoutesExplained /\ FailuresKept

Extends(s, u) == DOMAIN s \subseteq DOMAIN u /\ \A i \in DOMAIN s : u[i] = s[i]

\* Lists that have parted stay parted when they grow.
LEMMA PartedGrow ==
    ASSUME NEW s, NEW u, NEW s2, NEW u2, Extends(s, s2), Extends(u, u2), Routing!Parted(s, u),
           \A i \in DOMAIN s : 1..(i - 1) \subseteq DOMAIN s, \A i \in DOMAIN u : 1..(i - 1) \subseteq DOMAIN u
    PROVE  Routing!Parted(s2, u2)
BY DEF Extends, Routing!Parted

LEMMA PartedTurns == ASSUME NEW s, NEW u, Routing!Parted(s, u) PROVE Routing!Parted(u, s)
BY DEF Routing!Parted

LEMMA SeqOf ==
    ASSUME NEW S, NEW s \in Seq(S)
    PROVE  DOMAIN s = 1..Len(s) /\ Len(s) \in Nat /\ \A i \in 1..Len(s) : s[i] \in S
OBVIOUS

LEMMA FirstOf ==
    ASSUME NEW S, NEW s \in Seq(S), NEW n \in Nat, n <= Len(s)
    PROVE  /\ SubSeq(s, 1, n) \in Seq(S) /\ Len(SubSeq(s, 1, n)) = n
           /\ \A i \in 1..n : SubSeq(s, 1, n)[i] = s[i]
OBVIOUS

LEMMA RoutersAreThere ==
    ASSUME Routing!TypeOK, NEW r \in Routing!Created
    PROVE  /\ r \in Routers /\ routers[r] \in Routing!RouterType /\ ArrayOf(r) \in Seq(0..MaxUsed)
           /\ Given(r) \in Seq(1..MaxUsed) /\ DOMAIN Given(r) = 1..Len(Given(r)) /\ Len(Given(r)) \in Nat
           /\ \A i \in 1..Len(Given(r)) : Given(r)[i] \in 1..MaxUsed
<1>1. r \in Routers /\ routers[r] \in Routing!RouterType
  BY DEF Routing!TypeOK, Routing!Created
<1>2. routers[r].array \in 0..MaxUsed /\ routers[r].given \in Seq(1..MaxUsed)
  BY <1>1 DEF Routing!RouterType
<1>3. ArrayOf(r) \in Seq(0..MaxUsed)
  BY <1>2 DEF Routing!TypeOK, ArrayOf
<1> HIDE DEF Given
<1>4. Given(r) \in Seq(1..MaxUsed)
  BY <1>2 DEF Given
<1> QED BY <1>1, <1>3, <1>4, SeqOf

LEMMA RoutingInitHolds == Routing!Init => RoutingInv
<1> SUFFICES ASSUME Routing!Init PROVE RoutingInv
  OBVIOUS
<1>1. /\ cur \in {Routing!Value(Root), Routing!ErrRouter(Routing!Value(Root))}
      /\ routers = [r \in Routers |-> IF r = Root /\ ~cur.errored THEN Routing!Fresh ELSE None]
      /\ arrays = [n \in 0..MaxUsed |-> <<>>]
      /\ used = 0 /\ routes = {} /\ calls = 0 /\ app = "registering"
  BY DEF Routing!Init
<1>2. /\ Routing!Value(Root) = [router |-> Root, version |-> FALSE, errored |-> FALSE, failed |-> {}]
      /\ Routing!ErrRouter(Routing!Value(Root)) = [router |-> Root, version |-> FALSE, errored |-> TRUE, failed |-> {"router"}]
  <2> DEFINE v == [router |-> Root, version |-> FALSE, errored |-> FALSE, failed |-> {}]
  <2>1. Routing!Value(Root) = v
    BY DEF Routing!Value
  <2>2. Routing!Failed(v, "router") = [v EXCEPT !.failed = {"router"}]
    BY DEF Routing!Failed
  <2>3. Routing!ErrRouter(v) = [[v EXCEPT !.failed = {"router"}] EXCEPT !.errored = TRUE]
    BY <2>2 DEF Routing!ErrRouter
  <2> QED BY <2>1, <2>3
<1>3. cur \in Routing!ValueType /\ (~cur.errored => cur.router = Root) /\ FailuresKept
  <2>1. CASE cur = [router |-> Root, version |-> FALSE, errored |-> FALSE, failed |-> {}]
    BY <1>1, <2>1, RoutingAssumption DEF Routing!ValueType, FailuresKept
  <2>2. CASE cur = [router |-> Root, version |-> FALSE, errored |-> TRUE, failed |-> {"router"}]
    BY <1>1, <2>2, RoutingAssumption DEF Routing!ValueType, FailuresKept
  <2> QED BY <1>1, <1>2, <2>1, <2>2
<1>4. Routing!Fresh = [parent |-> None, array |-> 0, len |-> 0, given |-> <<>>, layouts |-> TRUE, mounts |-> {}]
  BY DEF Routing!Fresh
<1>5. Routing!Fresh \in Routing!RouterType
  BY <1>4, RoutingAssumption DEF Routing!RouterType
<1>6. ASSUME NEW r \in Routing!Created PROVE routers[r] = Routing!Fresh
  BY <1>1 DEF Routing!Created
<1>7. ~cur.errored => Root \in Routing!Created
  BY <1>1, <1>5, RoutingAssumption DEF Routing!Created
<1>8. Routing!TypeOK
  <2>1. routers \in [Routers -> Routing!RouterType \cup {None}]
    BY <1>1, <1>5
  <2>2. arrays \in [0..MaxUsed -> Seq(0..MaxUsed)] /\ Len(arrays[0]) = 0
    BY <1>1, RoutingAssumption
  <2>3. \A r \in Routing!Created : /\ routers[r].len <= Len(arrays[routers[r].array])
                                   /\ routers[r].parent \in Routing!Created \cup {None}
    BY <1>4, <1>6, <2>2
  <2>4. used \in 0..MaxUsed /\ calls \in 0..MaxCalls /\ routes \subseteq Routing!RouteType
        /\ \A t \in routes : t.router \in Routing!Created
    BY <1>1, RoutingAssumption
  <2>5. cur.errored \/ cur.router \in Routing!Created
    BY <1>3, <1>7
  <2> QED BY <1>1, <1>3, <2>1, <2>2, <2>3, <2>4, <2>5 DEF Routing!TypeOK
<1>9. ASSUME NEW r \in Routing!Created
      PROVE  Given(r) = <<>> /\ routers[r].len = 0 /\ routers[r].array = 0 /\ ArrayOf(r) = <<>>
  <2>1. Given(r) = <<>> /\ routers[r].len = 0 /\ routers[r].array = 0
    BY <1>4, <1>6 DEF Given
  <2>2. arrays[0] = <<>>
    BY <1>1, RoutingAssumption
  <2> QED BY <2>1, <2>2 DEF ArrayOf
<1>10. Sizes /\ SharersPart /\ SlicesExplained
  <2> HIDE DEF Given, ArrayOf
  <2>1. Sizes
    <3>1. \A r \in Routing!Created : Len(Given(r)) = 0 /\ Len(ArrayOf(r)) = 0
      BY <1>9
    <3> QED BY <1>1, <1>9, <3>1 DEF Sizes
  <2>2. SharersPart
    BY <1>9 DEF SharersPart, Agree
  <2>3. SlicesExplained
    BY <1>9 DEF SlicesExplained
  <2> QED BY <2>1, <2>2, <2>3
<1>11. RoutesExplained
  BY <1>1 DEF RoutesExplained
<1> QED BY <1>3, <1>8, <1>10, <1>11 DEF RoutingInv

\* A call is on a router that is there, if it is not answered by an errRouter.
LEMMA ValuesAreTyped ==
    ASSUME RoutingInv, NEW h \in Routing!Values
    PROVE  /\ h \in Routing!ValueType
           /\ ~h.errored => h.router \in Routing!Created /\ "router" \notin h.failed
<1>1. CASE h = cur
  BY <1>1 DEF RoutingInv, Routing!TypeOK, FailuresKept
<1>2. CASE \E r \in Routing!Created : h = Routing!Value(r)
  BY <1>2 DEF Routing!Value, Routing!ValueType, Routing!Created
<1> QED BY <1>1, <1>2 DEF Routing!Values

\* What does not touch the lists leaves what holds of them.
LEMMA ListsStay ==
    ASSUME RoutingInv, UNCHANGED <<arrays, used>>, Routing!Created' = Routing!Created,
           \A r \in Routing!Created : /\ routers'[r].array = routers[r].array /\ routers'[r].len = routers[r].len
                                      /\ routers'[r].given = routers[r].given
    PROVE  /\ Sizes' /\ SharersPart' /\ SlicesExplained'
           /\ \A s, r : Explained(s, r) => Explained(s, r)'
<1>1. \A r \in Routing!Created : ArrayOf(r)' = ArrayOf(r) /\ Given(r)' = Given(r)
  BY DEF ArrayOf, Given
<1>2. \A s, r : Explained(s, r) => Explained(s, r)'
  BY <1>1 DEF Explained, Routing!Parted
<1>3. Sizes'
  BY <1>1 DEF RoutingInv, Sizes
<1>4. SharersPart'
  BY <1>1 DEF RoutingInv, SharersPart, Agree, Routing!Parted
<1>5. SlicesExplained'
  <2> SUFFICES ASSUME NEW r \in Routing!Created, NEW g, g = Given(r), ~ Explained(g, r)'
               PROVE  \A i \in 1..Len(g) : ArrayOf(r)'[i] = g[i]
    BY <1>1 DEF SlicesExplained
  <2>1. ~ Explained(g, r)
    BY <1>2
  <2> QED BY <1>1, <2>1 DEF RoutingInv, SlicesExplained
<1> QED BY <1>2, <1>3, <1>4, <1>5

\* Calls that register nothing.
LEMMA OthersHold ==
    ASSUME RoutingInv, UNCHANGED <<arrays, used, routes>>,
           routers' \in [Routers -> Routing!RouterType \cup {None}], Routing!Created' = Routing!Created,
           \A r \in Routing!Created : /\ routers'[r].array = routers[r].array /\ routers'[r].len = routers[r].len
                                      /\ routers'[r].given = routers[r].given /\ routers'[r].parent = routers[r].parent,
           cur' \in Routing!ValueType, ~cur'.errored => cur'.router \in Routing!Created /\ "router" \notin cur'.failed,
           app' \in {"registering", "panicked", "error", "overflow", "serving"}, app' = "serving" => ~cur'.errored,
           calls' \in 0..MaxCalls
    PROVE  RoutingInv'
<1>1. /\ Sizes' /\ SharersPart' /\ SlicesExplained'
      /\ \A s, r : Explained(s, r) => Explained(s, r)'
  BY ListsStay
<1>2. Routing!TypeOK'
  BY DEF RoutingInv, Routing!TypeOK
<1>3. RoutesExplained'
  BY <1>1 DEF RoutingInv, RoutesExplained
<1>4. FailuresKept'
  BY DEF FailuresKept
<1> QED BY <1>1, <1>2, <1>3, <1>4 DEF RoutingInv

\* Ignored, Version, Layouts, Mount and Run.
LEMMA OtherCallsHold ==
    ASSUME RoutingInv, Routing!Ignored \/ \E h \in Routing!Values : \/ Routing!Version(h) \/ Routing!Layouts(h) \/ Routing!Run(h)
                                                                    \/ \E o \in Routing!Values : Routing!Mount(h, o)
    PROVE  RoutingInv'
<1>0. /\ routers \in [Routers -> Routing!RouterType \cup {None}] /\ calls \in 0..MaxCalls /\ cur \in Routing!ValueType
      /\ MaxCalls \in Nat /\ None \notin Routing!RouterType
      /\ app \in {"registering", "panicked", "error", "overflow", "serving"}
      /\ ~cur.errored => cur.router \in Routing!Created /\ "router" \notin cur.failed
  BY RoutingAssumption DEF RoutingInv, Routing!TypeOK, FailuresKept
<1>1. Routing!Counted => calls' \in 0..MaxCalls
  BY <1>0 DEF Routing!Counted
<1>2. routers' = routers => Routing!Created' = Routing!Created
  BY DEF Routing!Created
<1>3. CASE Routing!Ignored
  <2>1. calls' \in 0..MaxCalls /\ UNCHANGED <<routers, arrays, used, routes, cur, app>> /\ cur.errored /\ app = "registering"
    BY <1>1, <1>3 DEF Routing!Ignored
  <2> QED BY <1>0, <1>2, <2>1, OthersHold
<1>4. ASSUME NEW h \in Routing!Values, Routing!Version(h) PROVE RoutingInv'
  <2>1. /\ calls' \in 0..MaxCalls /\ UNCHANGED <<routers, arrays, used, routes, app>> /\ ~h.errored
        /\ app = "registering" /\ cur' = [h EXCEPT !.version = TRUE]
    BY <1>1, <1>4 DEF Routing!Version, Routing!On, Routing!Works
  <2>2. cur' \in Routing!ValueType /\ cur'.errored = h.errored /\ cur'.router = h.router /\ cur'.failed = h.failed
    BY <2>1, ValuesAreTyped DEF Routing!ValueType
  <2> QED BY <1>0, <1>2, <2>1, <2>2, OthersHold, ValuesAreTyped
<1>5. ASSUME NEW h \in Routing!Values, Routing!Run(h) PROVE RoutingInv'
  <2>1. /\ UNCHANGED <<routers, arrays, used, routes, calls>> /\ cur' = h
        /\ app' \in {"error", "overflow", "serving"} /\ (h.errored => app' = "error")
    BY <1>5 DEF Routing!Run
  <2> QED BY <1>0, <1>2, <2>1, OthersHold, ValuesAreTyped
<1>6. ASSUME NEW h \in Routing!Values, ~h.errored, NEW rec \in Routing!RouterType,
             routers' = [routers EXCEPT ![h.router] = rec],
             rec.array = routers[h.router].array, rec.len = routers[h.router].len,
             rec.given = routers[h.router].given, rec.parent = routers[h.router].parent
      PROVE  /\ routers' \in [Routers -> Routing!RouterType \cup {None}] /\ Routing!Created' = Routing!Created
             /\ \A r \in Routing!Created : /\ routers'[r].array = routers[r].array /\ routers'[r].len = routers[r].len
                                           /\ routers'[r].given = routers[r].given /\ routers'[r].parent = routers[r].parent
  <2>1. h.router \in Routing!Created /\ h.router \in Routers
    BY <1>6, ValuesAreTyped DEF Routing!Created
  <2>2. \A r \in Routers : routers'[r] = IF r = h.router THEN rec ELSE routers[r]
    BY <1>0, <1>6, <2>1
  <2>3. Routing!Created' = Routing!Created
    BY <1>0, <2>1, <2>2 DEF Routing!Created
  <2> QED BY <1>0, <1>6, <2>1, <2>2, <2>3 DEF Routing!Created
<1>7. ASSUME NEW h \in Routing!Values, Routing!Layouts(h) PROVE RoutingInv'
  <2>1. /\ calls' \in 0..MaxCalls /\ UNCHANGED <<arrays, used, routes, app>> /\ ~h.errored
        /\ app = "registering" /\ cur' = h
    BY <1>1, <1>7 DEF Routing!Layouts, Routing!On, Routing!Works
  <2>2. PICK there \in BOOLEAN : routers' = [routers EXCEPT ![h.router] = [routers[h.router] EXCEPT !.layouts = there]]
    BY <1>7 DEF Routing!Layouts
  <2>3. routers[h.router] \in Routing!RouterType
    BY <2>1, ValuesAreTyped, RoutersAreThere DEF RoutingInv
  <2> DEFINE rec == [routers[h.router] EXCEPT !.layouts = there]
  <2>4. /\ rec \in Routing!RouterType /\ rec.array = routers[h.router].array /\ rec.len = routers[h.router].len
        /\ rec.given = routers[h.router].given /\ rec.parent = routers[h.router].parent
    BY <2>3 DEF Routing!RouterType
  <2> HIDE DEF rec
  <2>5. routers' = [routers EXCEPT ![h.router] = rec]
    BY <2>2 DEF rec
  <2> QED BY <1>0, <1>6, <2>1, <2>4, <2>5, OthersHold, ValuesAreTyped
<1>8. ASSUME NEW h \in Routing!Values, NEW o \in Routing!Values, Routing!Mount(h, o) PROVE RoutingInv'
  <2>1. /\ calls' \in 0..MaxCalls /\ UNCHANGED <<arrays, used, routes, app>> /\ ~h.errored
        /\ app = "registering" /\ cur' = h
    BY <1>1, <1>8 DEF Routing!Mount, Routing!On, Routing!Works
  <2>2. routers[h.router] \in Routing!RouterType /\ o \in Routing!ValueType
    BY <2>1, ValuesAreTyped, RoutersAreThere DEF RoutingInv
  <2> DEFINE rec == [routers[h.router] EXCEPT !.mounts = routers[h.router].mounts \cup {o}]
  <2>3. routers' = [routers EXCEPT ![h.router] = rec]
    BY <1>8 DEF Routing!Mount
  <2>4. /\ rec \in Routing!RouterType /\ rec.array = routers[h.router].array /\ rec.len = routers[h.router].len
        /\ rec.given = routers[h.router].given /\ rec.parent = routers[h.router].parent
    BY <2>2 DEF Routing!RouterType
  <2> HIDE DEF rec
  <2> QED BY <1>0, <1>6, <2>1, <2>3, <2>4, OthersHold, ValuesAreTyped
<1> QED BY <1>3, <1>4, <1>5, <1>7, <1>8

\* A clone has what its parent has, in the same array.
LEMMA CloneHolds == ASSUME RoutingInv, NEW h \in Routing!Values, Routing!Clone(h) PROVE RoutingInv'
<1> DEFINE r == h.router
<1>1. /\ calls' \in 0..MaxCalls /\ UNCHANGED <<arrays, used, routes, app>> /\ ~h.errored /\ app = "registering"
  BY RoutingAssumption DEF Routing!Clone, Routing!On, Routing!Works, Routing!Counted, RoutingInv, Routing!TypeOK
<1>2. PICK c \in Routers \ Routing!Created :
        /\ routers' = [routers EXCEPT ![c] = [routers[r] EXCEPT !.parent = r, !.mounts = {}, !.layouts = TRUE]]
        /\ cur' = [h EXCEPT !.router = c]
  BY DEF Routing!Clone
<1>3. r \in Routing!Created /\ h \in Routing!ValueType /\ "router" \notin h.failed /\ r \in Routers
  BY <1>1, ValuesAreTyped DEF Routing!Created
<1> HIDE DEF r
<1>4. routers[r] \in Routing!RouterType /\ None \notin Routing!RouterType
      /\ routers \in [Routers -> Routing!RouterType \cup {None}]
  BY <1>3, RoutersAreThere, RoutingAssumption DEF RoutingInv, Routing!TypeOK
<1>5. /\ routers'[c] \in Routing!RouterType /\ routers'[c].array = routers[r].array
      /\ routers'[c].len = routers[r].len /\ routers'[c].given = routers[r].given /\ routers'[c].parent = r
  BY <1>2, <1>3, <1>4 DEF Routing!RouterType
<1>6. \A q \in Routers \ {c} : routers'[q] = routers[q]
  BY <1>2, <1>4
<1>7. Routing!Created' = Routing!Created \cup {c}
  BY <1>4, <1>5, <1>6 DEF Routing!Created
<1>8. /\ cur' \in Routing!ValueType /\ ~cur'.errored /\ cur'.router = c /\ "router" \notin cur'.failed
  BY <1>1, <1>2, <1>3 DEF Routing!ValueType
<1>9. Routing!TypeOK'
  <2>1. routers' \in [Routers -> Routing!RouterType \cup {None}]
    BY <1>2, <1>4, <1>5
  <2>2. ASSUME NEW q \in Routing!Created'
        PROVE  routers'[q].len <= Len(arrays[routers'[q].array]) /\ routers'[q].parent \in Routing!Created' \cup {None}
    <3>1. CASE q = c
      BY <1>3, <1>5, <1>7, <3>1 DEF RoutingInv, Routing!TypeOK
    <3>2. CASE q \in Routing!Created
      <4>1. routers'[q] = routers[q]
        BY <1>2, <1>6, <3>2 DEF Routing!Created
      <4> QED BY <1>7, <3>2, <4>1 DEF RoutingInv, Routing!TypeOK
    <3> QED BY <1>7, <3>1, <3>2
  <2> QED BY <1>1, <1>7, <1>8, <2>1, <2>2 DEF RoutingInv, Routing!TypeOK
<1>10. \A q \in Routing!Created : /\ q # c /\ routers'[q] = routers[q]
                                  /\ ArrayOf(q)' = ArrayOf(q) /\ Given(q)' = Given(q)
  BY <1>1, <1>2, <1>6 DEF Routing!Created, ArrayOf, Given
<1>11. ArrayOf(c)' = ArrayOf(r) /\ Given(c)' = Given(r)
  BY <1>1, <1>5 DEF ArrayOf, Given
<1>12. \A s, q : Explained(s, q) => Explained(s, q)'
  BY <1>7, <1>10 DEF Explained, Routing!Parted
<1>13. \A s : Explained(s, r) => Explained(s, c)'
  BY <1>7, <1>10 DEF Explained, Routing!Parted
<1>14. Sizes'
  BY <1>1, <1>3, <1>5, <1>7, <1>10, <1>11 DEF RoutingInv, Sizes
<1>15. SharersPart'
  <2> SUFFICES ASSUME NEW p \in Routing!Created', NEW q \in Routing!Created', p # q, routers'[p].array = routers'[q].array
               PROVE  Agree(Given(p)', Given(q)') \/ Routing!Parted(Given(p)', Given(q)')
    BY DEF SharersPart, Agree, Routing!Parted
  <2>1. CASE p \in Routing!Created /\ q \in Routing!Created
    BY <1>10, <2>1 DEF RoutingInv, SharersPart
  <2>2. CASE p = c /\ q \in Routing!Created
    <3>1. CASE q = r
      BY <1>10, <1>11, <2>2, <3>1 DEF Agree
    <3>2. CASE q # r
      <4>1. routers[r].array = routers[q].array
        BY <1>5, <1>10, <2>2
      <4> QED BY <1>3, <1>10, <1>11, <2>2, <3>2, <4>1 DEF RoutingInv, SharersPart
    <3> QED BY <3>1, <3>2
  <2>3. CASE q = c /\ p \in Routing!Created
    <3>1. CASE p = r
      BY <1>10, <1>11, <2>3, <3>1 DEF Agree
    <3>2. CASE p # r
      <4>1. routers[p].array = routers[r].array
        BY <1>5, <1>10, <2>3
      <4> QED BY <1>3, <1>10, <1>11, <2>3, <3>2, <4>1 DEF RoutingInv, SharersPart
    <3> QED BY <3>1, <3>2
  <2> QED BY <1>7, <2>1, <2>2, <2>3
<1>16. SlicesExplained'
  <2> SUFFICES ASSUME NEW q \in Routing!Created', NEW g, g = Given(q)', ~ Explained(g, q)'
               PROVE  \A i \in 1..Len(g) : ArrayOf(q)'[i] = g[i]
    BY DEF SlicesExplained
  <2>1. CASE q = c
    <3>1. g = Given(r) /\ ~ Explained(g, r)
      BY <1>11, <1>13, <2>1
    <3> QED BY <1>3, <1>11, <2>1, <3>1 DEF RoutingInv, SlicesExplained
  <2>2. CASE q \in Routing!Created
    <3>1. g = Given(q) /\ ~ Explained(g, q)
      BY <1>10, <1>12, <2>2
    <3> QED BY <1>10, <2>2, <3>1 DEF RoutingInv, SlicesExplained
  <2> QED BY <1>7, <2>1, <2>2
<1>17. RoutesExplained'
  BY <1>1, <1>12 DEF RoutingInv, RoutesExplained
<1>18. FailuresKept'
  BY <1>1, <1>8 DEF FailuresKept
<1> QED BY <1>9, <1>14, <1>15, <1>16, <1>17, <1>18 DEF RoutingInv

\* Calls that register routes, or fail to.
LEMMA RoutesHold ==
    ASSUME RoutingInv, UNCHANGED <<routers, arrays, used>>, calls' \in 0..MaxCalls,
           NEW new \in SUBSET Routing!RouteType, routes' \subseteq routes \cup new,
           \A t \in new : t.router \in Routing!Created /\ (t.chain = t.given \/ Explained(t.given, t.router)),
           cur' \in Routing!ValueType, ~cur'.errored => cur'.router \in Routing!Created /\ "router" \notin cur'.failed,
           app' \in {"registering", "panicked"}
    PROVE  RoutingInv'
<1>1. Routing!Created' = Routing!Created
  BY DEF Routing!Created
<1>2. /\ Sizes' /\ SharersPart' /\ SlicesExplained'
      /\ \A s, r : Explained(s, r) => Explained(s, r)'
  BY <1>1, ListsStay
<1>3. Routing!TypeOK'
  BY <1>1 DEF RoutingInv, Routing!TypeOK
<1>4. RoutesExplained'
  BY <1>2 DEF RoutingInv, RoutesExplained
<1>5. FailuresKept'
  BY DEF FailuresKept
<1> QED BY <1>2, <1>3, <1>4, <1>5 DEF RoutingInv

\* The middlewares of a new route are those of its router.
LEMMA RoutesAreExplained ==
    ASSUME RoutingInv, NEW h \in Routing!Values, ~h.errored, NEW p \in Paths, NEW sub \in BOOLEAN
    PROVE  /\ Routing!Route(h, p, sub) \in Routing!RouteType
           /\ Routing!Route(h, p, sub).router = h.router
           /\ Routing!Route(h, p, sub).given = Given(h.router)
           /\ \/ Routing!Route(h, p, sub).chain = Given(h.router)
              \/ Explained(Given(h.router), h.router)
<1>1. h.router \in Routing!Created /\ h \in Routing!ValueType
  BY ValuesAreTyped
<1>2. /\ routers[h.router] \in Routing!RouterType /\ ArrayOf(h.router) \in Seq(0..MaxUsed)
      /\ Given(h.router) \in Seq(1..MaxUsed) /\ DOMAIN Given(h.router) = 1..Len(Given(h.router))
      /\ Len(Given(h.router)) \in Nat
  BY <1>1, RoutersAreThere DEF RoutingInv
<1>3. routers[h.router].len = Len(Given(h.router)) /\ routers[h.router].len <= Len(ArrayOf(h.router))
  BY <1>1 DEF RoutingInv, Sizes, Routing!TypeOK, ArrayOf
<1>4. Routing!Slice(h.router) = SubSeq(ArrayOf(h.router), 1, Len(Given(h.router)))
  BY <1>3 DEF Routing!Slice, ArrayOf
<1>6. /\ Routing!Slice(h.router) \in Seq(0..MaxUsed)
      /\ Len(Routing!Slice(h.router)) = Len(Given(h.router))
      /\ \A i \in 1..Len(Given(h.router)) : Routing!Slice(h.router)[i] = ArrayOf(h.router)[i]
  <2>1. ASSUME NEW n \in Nat, n = Len(Given(h.router))
        PROVE  /\ SubSeq(ArrayOf(h.router), 1, n) \in Seq(0..MaxUsed) /\ Len(SubSeq(ArrayOf(h.router), 1, n)) = n
               /\ \A i \in 1..n : SubSeq(ArrayOf(h.router), 1, n)[i] = ArrayOf(h.router)[i]
    <3>1. ArrayOf(h.router) \in Seq(0..MaxUsed) /\ n <= Len(ArrayOf(h.router))
      BY <1>2, <1>3, <2>1
    <3> QED BY <3>1, FirstOf
  <2> QED BY <1>2, <1>4, <2>1
<1>7. Routing!Slice(h.router) = Given(h.router) \/ Explained(Given(h.router), h.router)
  <2> SUFFICES ASSUME ~ Explained(Given(h.router), h.router) PROVE Routing!Slice(h.router) = Given(h.router)
    OBVIOUS
  <2>1. \A i \in 1..Len(Given(h.router)) : ArrayOf(h.router)[i] = Given(h.router)[i]
    BY <1>1 DEF RoutingInv, SlicesExplained
  <2>2. ASSUME NEW s \in Seq(0..MaxUsed), NEW u \in Seq(1..MaxUsed), Len(s) = Len(u), \A i \in 1..Len(u) : s[i] = u[i]
        PROVE  s = u
    BY <2>2
  <2> QED BY <1>2, <1>6, <2>1, <2>2
<1>8. Routing!Route(h, p, sub) =
        [router |-> h.router, version |-> h.version, path |-> p, sub |-> sub,
         chain |-> Routing!Slice(h.router), given |-> Given(h.router)]
  BY DEF Routing!Route, Given
<1> HIDE DEF Given
<1>9. Routing!Route(h, p, sub) \in Routing!RouteType
  <2>1. h.router \in Routers /\ h.version \in BOOLEAN
    BY <1>1 DEF Routing!ValueType
  <2> QED BY <1>2, <1>6, <1>8, <2>1 DEF Routing!RouteType
<1> QED BY <1>7, <1>8, <1>9

Returns(v) == v \in Routing!ValueType /\ (~v.errored => v.router \in Routing!Created /\ "router" \notin v.failed)

\* What registrations return: an errRouter is what remembers their failure.
LEMMA ReturnedValues ==
    ASSUME RoutingInv, NEW h \in Routing!Values, ~h.errored
    PROVE  /\ Returns(h) /\ Returns(Routing!ErrRouter(h)) /\ Returns(Routing!Behind(h)) /\ Returns(Routing!Refused(h))
           /\ Returns(Routing!Failed(h, "health"))
<1>1. h \in Routing!ValueType /\ h.router \in Routing!Created /\ "router" \notin h.failed
  BY ValuesAreTyped
<1>2. Returns(h)
  BY <1>1 DEF Returns
<1>3. Routing!ErrRouter(h) = [[h EXCEPT !.failed = h.failed \cup {"router"}] EXCEPT !.errored = TRUE]
  BY <1>1 DEF Routing!ValueType, Routing!Failed, Routing!ErrRouter
<1>4. Returns(Routing!ErrRouter(h))
  <2>1. /\ Routing!ErrRouter(h) \in Routing!ValueType /\ Routing!ErrRouter(h).errored
    BY <1>1, <1>3 DEF Routing!ValueType
  <2> QED BY <2>1 DEF Returns
<1>5. Returns(Routing!Behind(h))
  <2>1. /\ Routing!Behind(h) \in Routing!ValueType /\ Routing!Behind(h).router = h.router
        /\ Routing!Behind(h).failed = h.failed
    BY <1>1 DEF Routing!ValueType, Routing!Behind
  <2> QED BY <1>1, <2>1 DEF Returns
<1>6. ASSUME NEW by \in {"version", "health"} PROVE Returns(Routing!Failed(h, by))
  <2>1. Routing!Failed(h, by) = [h EXCEPT !.failed = h.failed \cup {by}]
    BY <1>1 DEF Routing!ValueType, Routing!Failed
  <2>2. h.failed \cup {by} \in SUBSET {"router", "version", "health"} /\ "router" \notin h.failed \cup {by}
    BY <1>1 DEF Routing!ValueType
  <2>3. /\ Routing!Failed(h, by) \in Routing!ValueType /\ Routing!Failed(h, by).router = h.router
        /\ Routing!Failed(h, by).failed = h.failed \cup {by}
    BY <1>1, <2>1, <2>2 DEF Routing!ValueType
  <2> QED BY <1>1, <2>2, <2>3 DEF Returns
<1> QED BY <1>2, <1>4, <1>5, <1>6 DEF Routing!Refused

LEMMA RegistersHold ==
    ASSUME RoutingInv, UNCHANGED <<routers, arrays, used>>, calls' \in 0..MaxCalls, app = "registering",
           NEW new \in SUBSET Routing!RouteType, NEW v, Returns(v),
           \A t \in new : t.router \in Routing!Created /\ (t.chain = t.given \/ Explained(t.given, t.router)),
           Routing!Registers(new, v) \/ (app' = "panicked" /\ UNCHANGED <<routes, cur>>)
    PROVE  RoutingInv'
<1>1. \/ app' = "panicked" /\ UNCHANGED <<routes, cur>>
      \/ routes' = routes \cup new /\ cur' = v /\ app' = app
  BY Zenon DEF Routing!Registers
<1>2. cur \in Routing!ValueType /\ (~cur.errored => cur.router \in Routing!Created /\ "router" \notin cur.failed)
  BY DEF RoutingInv, Routing!TypeOK, FailuresKept
<1> QED BY <1>1, <1>2, RoutesHold DEF Returns

LEMMA RegistrationsHold ==
    ASSUME RoutingInv, NEW h \in Routing!Values, NEW p \in Paths,
           Routing!GetFunc(h, p) \/ Routing!HealthCheck(h, p) \/ Routing!WebSocket(h, p) \/ Routing!Resource(h, p) \/ Routing!Static(h, p)
    PROVE  RoutingInv'
<1>1. calls' \in 0..MaxCalls /\ UNCHANGED <<routers, arrays, used>> /\ ~h.errored /\ app = "registering"
  BY RoutingAssumption DEF Routing!GetFunc, Routing!HealthCheck, Routing!WebSocket, Routing!Resource, Routing!Static,
     Routing!On, Routing!Works, Routing!Counted, RoutingInv, Routing!TypeOK
<1>2. /\ Returns(h) /\ Returns(Routing!ErrRouter(h)) /\ Returns(Routing!Behind(h)) /\ Returns(Routing!Refused(h))
      /\ Returns(Routing!Failed(h, "health"))
  BY <1>1, ReturnedValues
<1>3. h.router \in Routing!Created
  BY <1>1, ValuesAreTyped
<1> DEFINE one == Routing!Route(h, p, FALSE)
           sub == Routing!Route(h, p, TRUE)
           Fits(t) == t \in Routing!RouteType /\ t.router \in Routing!Created /\ (t.chain = t.given \/ Explained(t.given, t.router))
<1>4. Fits(one) /\ Fits(sub)
  BY <1>1, <1>3, RoutesAreExplained
<1>5. ASSUME NEW new, \A t \in new : Fits(t), NEW v, Returns(v), Routing!Registers(new, v) PROVE RoutingInv'
  <2>1. new \in SUBSET Routing!RouteType
    BY <1>5
  <2> QED BY <1>1, <1>5, <2>1, RegistersHold
<1>6. ASSUME app' = "panicked", UNCHANGED <<routes, cur>> PROVE RoutingInv'
  <2>1. cur \in Routing!ValueType /\ (~cur.errored => cur.router \in Routing!Created /\ "router" \notin cur.failed)
    BY DEF RoutingInv, Routing!TypeOK, FailuresKept
  <2>2. {} \in SUBSET Routing!RouteType /\ routes' \subseteq routes \cup {}
    BY <1>6
  <2>3. \A t \in {} : t.router \in Routing!Created /\ (t.chain = t.given \/ Explained(t.given, t.router))
    OBVIOUS
  <2> QED BY <1>1, <1>6, <2>1, <2>2, <2>3, RoutesHold
<1> HIDE DEF Fits, one, sub
<1>7. CASE Routing!GetFunc(h, p)
  <2>1. \/ Routing!Registers({one}, h) \/ Routing!Registers({}, Routing!Refused(h))
        \/ app' = "panicked" /\ UNCHANGED <<routes, cur>>
    BY <1>7 DEF Routing!GetFunc, Routing!serve, Routing!LoadPanics, one
  <2> QED BY <1>2, <1>4, <1>5, <1>6, <2>1
<1>8. CASE Routing!WebSocket(h, p)
  <2>1. Routing!Registers({one}, h) \/ (app' = "panicked" /\ UNCHANGED <<routes, cur>>)
    BY <1>8 DEF Routing!WebSocket, one
  <2> QED BY <1>2, <1>4, <1>5, <1>6, <2>1
<1>9. CASE Routing!Resource(h, p)
  <2>1. \/ Routing!Registers({one, sub}, Routing!Behind(h)) \/ Routing!Registers({}, Routing!ErrRouter(h))
        \/ Routing!Registers({one}, Routing!ErrRouter(h))
        \/ app' = "panicked" /\ UNCHANGED <<routes, cur>>
    BY <1>9 DEF Routing!Resource, Routing!LoadPanics, Routing!Subresource, one, sub
  <2> QED BY <1>2, <1>4, <1>5, <1>6, <2>1
<1>10. CASE Routing!Static(h, p)
  <2> DEFINE t == [router |-> h.router, version |-> FALSE, path |-> p, sub |-> FALSE, chain |-> <<>>, given |-> <<>>]
  <2>1. Routing!Registers({t}, h)
    BY <1>10 DEF Routing!Static
  <2>3. h.router \in Routers
    BY <1>2 DEF Returns, Routing!ValueType
  <2>4. t \in Routing!RouteType /\ t.router = h.router /\ t.chain = t.given
    BY <2>3 DEF Routing!RouteType
  <2> HIDE DEF t
  <2>5. Fits(t)
    BY <1>3, <2>4 DEF Fits
  <2> QED BY <1>2, <1>5, <2>1, <2>5
<1>11. CASE Routing!HealthCheck(h, p)
  <2> DEFINE t == [one EXCEPT !.version = FALSE]
  <2>1. \/ Routing!Registers({t}, h) \/ Routing!Registers({}, Routing!Failed(h, "health"))
        \/ app' = "panicked" /\ UNCHANGED <<routes, cur>>
    BY <1>11 DEF Routing!HealthCheck, Routing!LoadPanics, one
  <2>2. t \in Routing!RouteType /\ t.router = one.router /\ t.chain = one.chain /\ t.given = one.given
    BY <1>4 DEF Fits, Routing!RouteType
  <2> HIDE DEF t
  <2>3. Fits(t)
    BY <1>4, <2>2 DEF Fits
  <2> QED BY <1>2, <1>5, <1>6, <2>1, <2>3
<1> QED BY <1>7, <1>8, <1>9, <1>10, <1>11

\* A middleware is appended: to the array, if it has room, or to a new one.
LEMMA AppendsTo ==
    ASSUME RoutingInv, NEW h \in Routing!Values, Routing!RequestMiddleware(h), NEW r, r = h.router, NEW m, m = used + 1
    PROVE  /\ r \in Routing!Created /\ m \in 1..MaxUsed /\ used' = m /\ m = used + 1 /\ Returns(h) /\ cur' = h
           /\ ~h.errored /\ app = "registering" /\ UNCHANGED <<routes, calls, app>>
           /\ routers' \in [Routers -> Routing!RouterType \cup {None}]
           /\ \A q \in Routers \ {r} : routers'[q] = routers[q]
           /\ routers'[r].array = IF Routing!Room(r) THEN routers[r].array ELSE m
           /\ routers'[r].len = routers[r].len + 1 /\ routers'[r].parent = routers[r].parent
           /\ Given(r)' = Append(Given(r), m)
           /\ arrays' = IF Routing!Room(r) THEN [arrays EXCEPT ![routers[r].array] = [ArrayOf(r) EXCEPT ![routers[r].len + 1] = m]]
                        ELSE [arrays EXCEPT ![m] = Routing!Doubled(Routing!Slice(r), m)]
           /\ Routing!Created' = Routing!Created
<1>1. /\ ~h.errored /\ app = "registering" /\ used < MaxUsed /\ used' = m /\ cur' = h /\ UNCHANGED <<routes, calls, app>>
      /\ Routing!Apply(r, m)
  BY DEF Routing!RequestMiddleware, Routing!Works
<1>2. r \in Routing!Created /\ Returns(h)
  BY <1>1, ValuesAreTyped DEF Returns
<1>3. m \in 1..MaxUsed /\ used \in 0..MaxUsed /\ MaxUsed \in Nat
  BY <1>1, RoutingAssumption DEF RoutingInv, Routing!TypeOK
<1> DEFINE aa == IF Routing!Room(r) THEN routers[r].array ELSE m
           rec == [routers[r] EXCEPT !.array = aa, !.len = routers[r].len + 1, !.given = Append(Given(r), m)]
<1>4. /\ arrays' = IF Routing!Room(r) THEN [arrays EXCEPT ![routers[r].array] = [ArrayOf(r) EXCEPT ![routers[r].len + 1] = m]]
                   ELSE [arrays EXCEPT ![m] = Routing!Doubled(Routing!Slice(r), m)]
      /\ routers' = [routers EXCEPT ![r] = rec]
  BY <1>1 DEF Routing!Apply, Given, ArrayOf
<1>5. /\ r \in Routers /\ routers[r] \in Routing!RouterType /\ routers \in [Routers -> Routing!RouterType \cup {None}]
      /\ Given(r) \in Seq(1..MaxUsed) /\ None \notin Routing!RouterType
  BY <1>2, RoutersAreThere, RoutingAssumption DEF RoutingInv, Routing!TypeOK
<1>6. aa \in 0..MaxUsed /\ routers[r].len + 1 \in 0..MaxUsed
  BY <1>1, <1>2, <1>3, <1>5 DEF RoutingInv, Sizes, Routing!RouterType
<1>7. Append(Given(r), m) \in Seq(1..MaxUsed)
  BY <1>3, <1>5
<1> HIDE DEF aa
<1>8. /\ rec \in Routing!RouterType /\ rec.array = aa /\ rec.len = routers[r].len + 1
      /\ rec.given = Append(Given(r), m) /\ rec.parent = routers[r].parent
  BY <1>5, <1>6, <1>7 DEF Routing!RouterType
<1> HIDE DEF rec
<1>9. /\ routers' \in [Routers -> Routing!RouterType \cup {None}] /\ routers'[r] = rec
      /\ \A q \in Routers \ {r} : routers'[q] = routers[q]
  BY <1>4, <1>5, <1>8
<1>10. Routing!Created' = Routing!Created
  BY <1>2, <1>5, <1>8, <1>9 DEF Routing!Created
<1>11. Given(r)' = Append(Given(r), m)
  BY <1>8, <1>9 DEF Given
<1> QED BY <1>1, <1>2, <1>3, <1>4, <1>8, <1>9, <1>10, <1>11 DEF aa

\* What append copies into an array of twice the size.
LEMMA DoubledIs ==
    ASSUME NEW s \in Seq(0..MaxUsed), NEW m \in 1..MaxUsed
    PROVE  /\ Routing!Doubled(s, m) \in Seq(0..MaxUsed)
           /\ Len(Routing!Doubled(s, m)) = IF Len(s) = 0 THEN 1 ELSE 2 * Len(s)
           /\ \A i \in 1..Len(s) : Routing!Doubled(s, m)[i] = s[i]
           /\ Routing!Doubled(s, m)[Len(s) + 1] = m
<1> DEFINE t == [i \in 1..(IF s = <<>> THEN 0 ELSE Len(s) - 1) |-> 0]
           k == IF s = <<>> THEN 0 ELSE Len(s) - 1
<1>0. MaxUsed \in Nat
  BY RoutingAssumption
<1>1. Len(s) \in Nat /\ (s = <<>> <=> Len(s) = 0) /\ k \in Nat
  OBVIOUS
<1>2. t \in Seq(0..MaxUsed) /\ Len(t) = k
  <2>1. t \in [1..k -> 0..MaxUsed]
    BY <1>0
  <2> HIDE DEF t, k
  <2>2. t \in Seq(0..MaxUsed)
    BY <1>1, <2>1, SeqDef
  <2>3. DOMAIN t = 1..k
    BY <2>1
  <2> QED BY <1>1, <2>2, <2>3
<1>3. Append(s, m) \in Seq(0..MaxUsed) /\ Len(Append(s, m)) = Len(s) + 1
      /\ Append(s, m)[Len(s) + 1] = m /\ \A i \in 1..Len(s) : Append(s, m)[i] = s[i]
  OBVIOUS
<1>4. Routing!Doubled(s, m) = Append(s, m) \o t
  BY DEF Routing!Doubled
<1>5. k = IF Len(s) = 0 THEN 0 ELSE Len(s) - 1
  BY <1>1
<1> HIDE DEF t, k
<1>6. ASSUME NEW a \in Seq(0..MaxUsed), NEW b \in Seq(0..MaxUsed)
      PROVE  /\ a \o b \in Seq(0..MaxUsed) /\ Len(a \o b) = Len(a) + Len(b)
             /\ \A i \in 1..Len(a) : (a \o b)[i] = a[i]
  OBVIOUS
<1> DEFINE d == Append(s, m)
<1>7. /\ d \o t \in Seq(0..MaxUsed) /\ Len(d \o t) = Len(d) + Len(t)
      /\ \A i \in 1..Len(d) : (d \o t)[i] = d[i]
  BY <1>2, <1>3, <1>6
<1>8. Routing!Doubled(s, m) = d \o t /\ Len(d) = Len(s) + 1 /\ d[Len(s) + 1] = m /\ \A i \in 1..Len(s) : d[i] = s[i]
  BY <1>3, <1>4
<1> HIDE DEF d
<1>9. Len(d \o t) = IF Len(s) = 0 THEN 1 ELSE 2 * Len(s)
  <2>1. ASSUME NEW x \in Nat, NEW y, y = IF x = 0 THEN 0 ELSE x - 1, NEW z, z = (x + 1) + y
        PROVE  z = IF x = 0 THEN 1 ELSE 2 * x
    BY <2>1
  <2>2. Len(d \o t) = (Len(s) + 1) + k
    BY <1>2, <1>7, <1>8
  <2> QED BY <1>1, <1>5, <2>1, <2>2
<1>10. Len(s) + 1 \in 1..Len(d) /\ \A i \in 1..Len(s) : i \in 1..Len(d)
  BY <1>1, <1>8
<1>11. (d \o t)[Len(s) + 1] = m /\ \A i \in 1..Len(s) : (d \o t)[i] = s[i]
  BY <1>7, <1>8, <1>10
<1> QED BY <1>7, <1>8, <1>9, <1>11

\* The arrays after the append of m to r's slice of n, and what is left as it was.
Appended(r, m, n) ==
    /\ arrays' \in [0..MaxUsed -> Seq(0..MaxUsed)]
    /\ \A q \in Routing!Created \ {r} :
         \/ ArrayOf(q)' = ArrayOf(q)
         \/ /\ Routing!Room(r) /\ routers[q].array = routers[r].array
            /\ Len(ArrayOf(q)') = Len(ArrayOf(q))
            /\ \A i \in 1..Len(ArrayOf(q)) : i # n + 1 => ArrayOf(q)'[i] = ArrayOf(q)[i]
    /\ n \in Nat /\ n <= Len(ArrayOf(r)) /\ Len(ArrayOf(r)) \in Nat /\ (Routing!Room(r) <=> n < Len(ArrayOf(r)))
    /\ Len(ArrayOf(r)') = IF Routing!Room(r) THEN Len(ArrayOf(r)) ELSE IF n = 0 THEN 1 ELSE 2 * n
    /\ \A i \in 1..n : ArrayOf(r)'[i] = ArrayOf(r)[i]
    /\ ArrayOf(r)'[n + 1] = m

LEMMA ArraysAfter ==
    ASSUME RoutingInv, NEW h \in Routing!Values, Routing!RequestMiddleware(h), NEW r, r = h.router, NEW m, m = used + 1,
           NEW n, n = routers[r].len
    PROVE  Appended(r, m, n)
<1>1. /\ r \in Routing!Created /\ m \in 1..MaxUsed
      /\ \A q \in Routers \ {r} : routers'[q] = routers[q]
      /\ routers'[r].array = IF Routing!Room(r) THEN routers[r].array ELSE m
      /\ arrays' = IF Routing!Room(r) THEN [arrays EXCEPT ![routers[r].array] = [ArrayOf(r) EXCEPT ![routers[r].len + 1] = m]]
                   ELSE [arrays EXCEPT ![m] = Routing!Doubled(Routing!Slice(r), m)]
  BY AppendsTo
<1>2. arrays \in [0..MaxUsed -> Seq(0..MaxUsed)] /\ MaxUsed \in Nat /\ used \in 0..MaxUsed
  BY RoutingAssumption DEF RoutingInv, Routing!TypeOK
<1>3. \A q \in Routing!Created : q \in Routers /\ routers[q].array \in 0..MaxUsed /\ routers[q].array # m
  <2> SUFFICES ASSUME NEW q \in Routing!Created
               PROVE  q \in Routers /\ routers[q].array \in 0..MaxUsed /\ routers[q].array # m
    OBVIOUS
  <2>1. q \in Routers /\ routers[q] \in Routing!RouterType
    BY RoutersAreThere DEF RoutingInv
  <2>2. routers[q].array \in 0..MaxUsed /\ routers[q].array <= used
    BY <2>1 DEF RoutingInv, Sizes, Routing!RouterType
  <2> QED BY <1>2, <2>1, <2>2
<1>4. ArrayOf(r) \in Seq(0..MaxUsed) /\ Len(ArrayOf(r)) \in Nat /\ n \in Nat /\ n <= Len(ArrayOf(r))
  <2>1. ArrayOf(r) \in Seq(0..MaxUsed) /\ routers[r] \in Routing!RouterType
    BY <1>1, RoutersAreThere DEF RoutingInv
  <2>2. Len(ArrayOf(r)) \in Nat
    BY <2>1
  <2>3. n \in Nat
    BY <2>1 DEF Routing!RouterType
  <2>4. n <= Len(ArrayOf(r))
    BY <1>1 DEF RoutingInv, Routing!TypeOK, ArrayOf
  <2> QED BY <2>1, <2>2, <2>3, <2>4
<1>5. Routing!Room(r) <=> n < Len(ArrayOf(r))
  BY DEF Routing!Room, ArrayOf
<1>6. CASE Routing!Room(r)
  <2>1. ASSUME NEW s \in Seq(0..MaxUsed), n < Len(s)
        PROVE  /\ [s EXCEPT ![n + 1] = m] \in Seq(0..MaxUsed) /\ Len([s EXCEPT ![n + 1] = m]) = Len(s)
               /\ \A i \in 1..Len(s) : i # n + 1 => [s EXCEPT ![n + 1] = m][i] = s[i]
               /\ [s EXCEPT ![n + 1] = m][n + 1] = m
    BY <1>1, <1>4, <2>1
  <2> DEFINE x == [ArrayOf(r) EXCEPT ![n + 1] = m]
  <2>2. /\ x \in Seq(0..MaxUsed) /\ Len(x) = Len(ArrayOf(r))
        /\ \A i \in 1..Len(ArrayOf(r)) : i # n + 1 => x[i] = ArrayOf(r)[i]
        /\ x[n + 1] = m
    BY <1>4, <1>5, <1>6, <2>1
  <2>3. arrays' = [arrays EXCEPT ![routers[r].array] = x] /\ routers'[r].array = routers[r].array
    BY <1>1, <1>6
  <2> HIDE DEF x
  <2>4. /\ arrays' \in [0..MaxUsed -> Seq(0..MaxUsed)] /\ ArrayOf(r)' = x
        /\ \A q \in Routing!Created \ {r} : ArrayOf(q)' = IF routers[q].array = routers[r].array THEN x ELSE ArrayOf(q)
    <3>1. \A a \in 0..MaxUsed : arrays'[a] = IF a = routers[r].array THEN x ELSE arrays[a]
      BY <1>1, <1>2, <1>3, <2>3
    <3>2. arrays' \in [0..MaxUsed -> Seq(0..MaxUsed)]
      BY <1>2, <2>2, <2>3
    <3>3. ArrayOf(r)' = x
      BY <1>1, <1>3, <2>3, <3>1 DEF ArrayOf
    <3>4. ASSUME NEW q \in Routing!Created \ {r}
          PROVE  ArrayOf(q)' = IF routers[q].array = routers[r].array THEN x ELSE ArrayOf(q)
      <4>1. routers'[q] = routers[q] /\ routers[q].array \in 0..MaxUsed
        BY <1>1, <1>3
      <4> QED BY <3>1, <4>1 DEF ArrayOf
    <3> QED BY <3>2, <3>3, <3>4
  <2>5. \A q \in Routing!Created : routers[q].array = routers[r].array => ArrayOf(q) = ArrayOf(r)
    BY DEF ArrayOf
  <2>6. \A i \in 1..n : i # n + 1 /\ i \in 1..Len(ArrayOf(r))
    BY <1>4
  <2> HIDE DEF ArrayOf
  <2> QED BY <1>4, <1>5, <1>6, <2>2, <2>4, <2>5, <2>6 DEF Appended
<1>7. CASE ~Routing!Room(r)
  <2>1. n = Len(ArrayOf(r))
    BY <1>4, <1>5, <1>7
  <2>2. Routing!Slice(r) = SubSeq(ArrayOf(r), 1, n)
    BY DEF Routing!Slice, ArrayOf
  <2>3. /\ Routing!Slice(r) \in Seq(0..MaxUsed) /\ Len(Routing!Slice(r)) = n
        /\ \A i \in 1..n : Routing!Slice(r)[i] = ArrayOf(r)[i]
    <3>1. ASSUME NEW S, NEW s \in Seq(S), NEW k \in Nat, k = Len(s)
          PROVE  /\ SubSeq(s, 1, k) \in Seq(S) /\ Len(SubSeq(s, 1, k)) = k
                 /\ \A i \in 1..k : SubSeq(s, 1, k)[i] = s[i]
      <4>1. k <= Len(s)
        BY <3>1
      <4> QED BY <4>1, FirstOf
    <3>2. ASSUME NEW s, s = ArrayOf(r), s \in Seq(0..MaxUsed), n = Len(s)
          PROVE  /\ SubSeq(s, 1, n) \in Seq(0..MaxUsed) /\ Len(SubSeq(s, 1, n)) = n
                 /\ \A i \in 1..n : SubSeq(s, 1, n)[i] = s[i]
      BY <1>4, <3>1, <3>2
    <3> HIDE DEF ArrayOf
    <3> QED BY <1>4, <2>1, <2>2, <3>2
  <2> DEFINE x == Routing!Doubled(Routing!Slice(r), m)
  <2>4. /\ x \in Seq(0..MaxUsed) /\ Len(x) = IF n = 0 THEN 1 ELSE 2 * n
        /\ \A i \in 1..n : x[i] = ArrayOf(r)[i]
        /\ x[n + 1] = m
    <3>1. \A s \in Seq(0..MaxUsed) :
            /\ Routing!Doubled(s, m) \in Seq(0..MaxUsed)
            /\ Len(Routing!Doubled(s, m)) = IF Len(s) = 0 THEN 1 ELSE 2 * Len(s)
            /\ \A i \in 1..Len(s) : Routing!Doubled(s, m)[i] = s[i]
            /\ Routing!Doubled(s, m)[Len(s) + 1] = m
      BY <1>1, DoubledIs
    <3>2. ASSUME NEW s \in Seq(0..MaxUsed), Len(s) = n
          PROVE  /\ Routing!Doubled(s, m) \in Seq(0..MaxUsed)
                 /\ Len(Routing!Doubled(s, m)) = IF n = 0 THEN 1 ELSE 2 * n
                 /\ \A i \in 1..n : Routing!Doubled(s, m)[i] = s[i]
                 /\ Routing!Doubled(s, m)[n + 1] = m
      BY <3>1, <3>2
    <3>3. /\ x \in Seq(0..MaxUsed) /\ Len(x) = IF n = 0 THEN 1 ELSE 2 * n
          /\ \A i \in 1..n : x[i] = Routing!Slice(r)[i]
          /\ x[n + 1] = m
      BY <2>3, <3>2
    <3> QED BY <2>3, <3>3
  <2>5. arrays' = [arrays EXCEPT ![m] = x] /\ routers'[r].array = m
    BY <1>1, <1>7
  <2> HIDE DEF x
  <2>6. /\ arrays' \in [0..MaxUsed -> Seq(0..MaxUsed)] /\ ArrayOf(r)' = x
        /\ \A q \in Routing!Created \ {r} : ArrayOf(q)' = ArrayOf(q)
    <3>1. \A a \in 0..MaxUsed : arrays'[a] = IF a = m THEN x ELSE arrays[a]
      BY <1>1, <1>2, <2>5
    <3>2. arrays' \in [0..MaxUsed -> Seq(0..MaxUsed)]
      BY <1>2, <2>4, <2>5
    <3>3. ArrayOf(r)' = x
      BY <1>1, <1>2, <2>5, <3>1 DEF ArrayOf
    <3>4. ASSUME NEW q \in Routing!Created \ {r} PROVE ArrayOf(q)' = ArrayOf(q)
      <4>1. routers'[q] = routers[q] /\ routers[q].array \in 0..MaxUsed /\ routers[q].array # m
        BY <1>1, <1>3
      <4> QED BY <3>1, <4>1 DEF ArrayOf
    <3> QED BY <3>2, <3>3, <3>4
  <2> HIDE DEF ArrayOf
  <2> QED BY <1>4, <1>5, <1>7, <2>4, <2>6 DEF Appended
<1> QED BY <1>6, <1>7

\* Lists only grow, so what has parted stays so.
LEMMA GivenGrow ==
    ASSUME RoutingInv, NEW h \in Routing!Values, Routing!RequestMiddleware(h), NEW r, r = h.router, NEW m, m = used + 1
    PROVE  /\ \A q \in Routing!Created \ {r} : Given(q)' = Given(q)
           /\ \A q \in Routing!Created : Extends(Given(q), Given(q)')
           /\ \A q : \A s \in Seq(1..MaxUsed) : Explained(s, q) => Explained(s, q)'
<1>1. /\ r \in Routing!Created /\ m \in 1..MaxUsed
      /\ \A q \in Routers \ {r} : routers'[q] = routers[q]
      /\ Given(r)' = Append(Given(r), m) /\ Routing!Created' = Routing!Created
  BY AppendsTo
<1>2. \A q \in Routing!Created \ {r} : Given(q)' = Given(q)
  BY <1>1 DEF Given, Routing!Created
<1>3. ASSUME NEW q \in Routing!Created
      PROVE  /\ Given(q) \in Seq(1..MaxUsed)
             /\ Extends(Given(q), Given(q)')
  <2>1. Given(q) \in Seq(1..MaxUsed)
    BY RoutersAreThere DEF RoutingInv
  <2>2. ASSUME NEW s \in Seq(1..MaxUsed) PROVE Extends(s, s) /\ Extends(s, Append(s, m))
    BY <1>1 DEF Extends
  <2>3. CASE q = r
    <3>1. Given(q)' = Append(Given(q), m)
      BY <1>1, <2>3
    <3> HIDE DEF Given
    <3> QED BY <2>1, <2>2, <3>1
  <2>4. CASE q # r
    <3>1. Given(q)' = Given(q)
      BY <1>2, <2>4
    <3> HIDE DEF Given
    <3> QED BY <2>1, <2>2, <3>1
  <2> QED BY <2>1, <2>3, <2>4
<1>4. ASSUME NEW s \in Seq(1..MaxUsed), NEW q, Explained(s, q) PROVE Explained(s, q)'
  <2>1. PICK p \in Routing!Created \ {q} : Routing!Parted(s, Given(p))
    BY <1>4 DEF Explained
  <2>2. Given(p) \in Seq(1..MaxUsed) /\ Extends(Given(p), Given(p)')
    BY <1>3
  <2>3. ASSUME NEW u \in Seq(1..MaxUsed) PROVE \A i \in DOMAIN u : 1..(i - 1) \subseteq DOMAIN u
    OBVIOUS
  <2>4. Extends(s, s)
    BY DEF Extends
  <2>5. ASSUME NEW u2, NEW u, u \in Seq(1..MaxUsed), Extends(u, u2), Routing!Parted(s, u) PROVE Routing!Parted(s, u2)
    <3>1. /\ \A i \in DOMAIN s : 1..(i - 1) \subseteq DOMAIN s
          /\ \A i \in DOMAIN u : 1..(i - 1) \subseteq DOMAIN u
      BY <2>3, <2>5
    <3> QED BY <2>4, <2>5, <3>1, PartedGrow
  <2> HIDE DEF Given
  <2>6. Routing!Parted(s, Given(p)')
    BY <2>1, <2>2, <2>5
  <2> QED BY <1>1, <2>1, <2>6 DEF Explained, Routing!Parted
<1> QED BY <1>2, <1>3, <1>4

\* Two lists, of which one grows by what the other has not: where they agreed
\* they still do, or they part.
LEMMA OneGrows ==
    ASSUME NEW s \in Seq(1..MaxUsed), NEW u \in Seq(1..MaxUsed), NEW m \in Nat,
           \A i \in 1..Len(u) : u[i] < m, Len(s) \notin {0, 1, 2, 4, 8}, Agree(s, u) \/ Routing!Parted(s, u)
    PROVE  LET s2 == Append(s, m)
           IN  \/ Agree(s2, u) /\ Len(s) + 1 \notin 1..Len(u)
               \/ Routing!Parted(s2, u)
<1> DEFINE s2 == Append(s, m)
<1>1. /\ DOMAIN s2 = 1..(Len(s) + 1) /\ DOMAIN s = 1..Len(s) /\ DOMAIN u = 1..Len(u) /\ Len(s) \in Nat /\ Len(u) \in Nat
      /\ s2[Len(s) + 1] = m /\ \A i \in 1..Len(s) : s2[i] = s[i]
      /\ \A i \in 1..Len(u) : u[i] \in 1..MaxUsed
  <2>1. DOMAIN s2 = 1..(Len(s) + 1) /\ s2[Len(s) + 1] = m /\ \A i \in 1..Len(s) : s2[i] = s[i]
    OBVIOUS
  <2> HIDE DEF s2
  <2>2. DOMAIN s = 1..Len(s) /\ Len(s) \in Nat
    OBVIOUS
  <2> QED BY <2>1, <2>2, SeqOf
<1> HIDE DEF s2
<1>2. CASE Routing!Parted(s, u)
  <2>1. Extends(s, s2) /\ Extends(u, u)
    <3>1. Extends(s, s2)
      <4>1. 1..Len(s) \subseteq 1..(Len(s) + 1)
        BY <1>1
      <4> QED BY Zenon, <1>1, <4>1 DEF Extends
    <3>2. Extends(u, u)
      BY Zenon DEF Extends
    <3> QED BY <3>1, <3>2
  <2>2. /\ \A i \in DOMAIN s : 1..(i - 1) \subseteq DOMAIN s
        /\ \A i \in DOMAIN u : 1..(i - 1) \subseteq DOMAIN u
    <3>1. \A l \in Nat : \A i \in 1..l : 1..(i - 1) \subseteq 1..l
      OBVIOUS
    <3> QED BY <1>1, <3>1
  <2>3. Routing!Parted(s2, u)
    BY <1>2, <2>1, <2>2, PartedGrow
  <2> QED BY <2>3 DEF s2
<1>3. CASE Agree(s, u) /\ Len(s) + 1 \in 1..Len(u)
  <2>1. u[Len(s) + 1] # s2[Len(s) + 1]
    BY <1>1, <1>3, RoutingAssumption
  <2>2. \A i \in 1..Len(s) : s2[i] = u[i]
    <3>1. \A i \in 1..Len(s) : i \in DOMAIN s \cap DOMAIN u
      BY <1>1, <1>3
    <3> QED BY <1>1, <1>3, <3>1 DEF Agree
  <2>3. Routing!Parted(s2, u)
    <3>1. (Len(s) + 1) - 1 = Len(s) /\ Len(s) + 1 \in DOMAIN s2 \cap DOMAIN u
      BY <1>1, <1>3
    <3> QED BY <2>1, <2>2, <3>1 DEF Routing!Parted
  <2> QED BY <2>3 DEF s2
<1>4. CASE Agree(s, u) /\ Len(s) + 1 \notin 1..Len(u)
  <2>1. Agree(s2, u)
    <3>1. \A i \in DOMAIN s2 \cap DOMAIN u : i \in 1..Len(s) /\ i \in DOMAIN s \cap DOMAIN u
      BY <1>1, <1>4
    <3> QED BY <1>1, <1>4, <3>1 DEF Agree
  <2> QED BY <1>4, <2>1 DEF s2
<1> QED BY <1>2, <1>3, <1>4

LEMMA RequestMiddlewareHolds ==
    ASSUME RoutingInv, NEW h \in Routing!Values, Routing!RequestMiddleware(h)
    PROVE  RoutingInv'
<1> SUFFICES ASSUME NEW r, r = h.router, NEW m, m = used + 1, NEW n, n = routers[r].len PROVE RoutingInv'
  OBVIOUS
<1>1. /\ r \in Routing!Created /\ m \in 1..MaxUsed /\ used' = m /\ m = used + 1 /\ Returns(h) /\ cur' = h
      /\ ~h.errored /\ app = "registering" /\ UNCHANGED <<routes, calls, app>>
      /\ routers' \in [Routers -> Routing!RouterType \cup {None}]
      /\ \A q \in Routers \ {r} : routers'[q] = routers[q]
      /\ routers'[r].array = IF Routing!Room(r) THEN routers[r].array ELSE m
      /\ routers'[r].len = n + 1 /\ routers'[r].parent = routers[r].parent
      /\ Given(r)' = Append(Given(r), m)
      /\ Routing!Created' = Routing!Created
  BY AppendsTo
<1>2. /\ arrays' \in [0..MaxUsed -> Seq(0..MaxUsed)]
      /\ \A q \in Routing!Created \ {r} :
           \/ ArrayOf(q)' = ArrayOf(q)
           \/ /\ Routing!Room(r) /\ routers[q].array = routers[r].array
              /\ Len(ArrayOf(q)') = Len(ArrayOf(q))
              /\ \A i \in 1..Len(ArrayOf(q)) : i # n + 1 => ArrayOf(q)'[i] = ArrayOf(q)[i]
      /\ n \in Nat /\ n <= Len(ArrayOf(r)) /\ Len(ArrayOf(r)) \in Nat /\ (Routing!Room(r) <=> n < Len(ArrayOf(r)))
      /\ Len(ArrayOf(r)') = IF Routing!Room(r) THEN Len(ArrayOf(r)) ELSE IF n = 0 THEN 1 ELSE 2 * n
      /\ \A i \in 1..n : ArrayOf(r)'[i] = ArrayOf(r)[i]
      /\ ArrayOf(r)'[n + 1] = m
  <2>1. Appended(r, m, n)
    BY ArraysAfter
  <2> QED BY Zenon, <2>1 DEF Appended
<1>3. /\ \A q \in Routing!Created \ {r} : Given(q)' = Given(q)
      /\ \A q \in Routing!Created : Extends(Given(q), Given(q)')
      /\ \A q : \A s \in Seq(1..MaxUsed) : Explained(s, q) => Explained(s, q)'
  BY GivenGrow
<1>4. ASSUME NEW q \in Routing!Created
      PROVE  /\ q \in Routers /\ Given(q) \in Seq(1..MaxUsed) /\ Len(Given(q)) \in Nat
             /\ routers[q].len = Len(Given(q)) /\ routers[q].len <= used /\ routers[q].array \in 0..used
             /\ routers[q].len <= Len(ArrayOf(q)) /\ Len(ArrayOf(q)) \in Nat
             /\ \A i \in 1..Len(Given(q)) : Given(q)[i] \in 1..used
             /\ Len(ArrayOf(q)) = 0 \/ Len(ArrayOf(q)) < 2 * routers[q].len
             /\ Len(ArrayOf(q)) \in {0, 1, 2, 4, 8} \/ 16 <= Len(ArrayOf(q))
  <2>1. /\ q \in Routers /\ routers[q] \in Routing!RouterType /\ ArrayOf(q) \in Seq(0..MaxUsed)
        /\ Given(q) \in Seq(1..MaxUsed) /\ Len(Given(q)) \in Nat
        /\ \A i \in 1..Len(Given(q)) : Given(q)[i] \in 1..MaxUsed
    BY RoutersAreThere DEF RoutingInv
  <2>2. Len(ArrayOf(q)) \in Nat /\ routers[q].array \in 0..MaxUsed /\ used \in 0..MaxUsed /\ MaxUsed \in Nat
    BY <2>1, RoutingAssumption DEF Routing!RouterType, RoutingInv, Routing!TypeOK
  <2>3. routers[q].len <= Len(ArrayOf(q))
    BY DEF RoutingInv, Routing!TypeOK, ArrayOf
  <2> HIDE DEF ArrayOf, Given
  <2>4. /\ routers[q].len = Len(Given(q)) /\ routers[q].len <= used /\ routers[q].array <= used
        /\ \A i \in 1..Len(Given(q)) : Given(q)[i] <= used
        /\ Len(ArrayOf(q)) = 0 \/ Len(ArrayOf(q)) < 2 * routers[q].len
        /\ Len(ArrayOf(q)) \in {0, 1, 2, 4, 8} \/ 16 <= Len(ArrayOf(q))
    BY DEF RoutingInv, Sizes
  <2> QED BY <2>1, <2>2, <2>3, <2>4
<1> HIDE DEF ArrayOf, Given
<1>5. used \in Nat /\ n = Len(Given(r)) /\ MaxUsed \in Nat
  BY <1>1, <1>4, RoutingAssumption DEF RoutingInv, Routing!TypeOK
<1>6. Routing!Room(r) => n \notin {0, 1, 2, 4, 8}
  <2>1. ASSUME NEW k \in Nat, k = 0 \/ k < 2 * n, k \in {0, 1, 2, 4, 8} \/ 16 <= k, n < k
        PROVE  n \notin {0, 1, 2, 4, 8}
    BY <2>1
  <2> QED BY <1>1, <1>2, <1>4, <2>1
<1>7. Len(Given(r)') = n + 1 /\ \A i \in 1..n : Given(r)'[i] = Given(r)[i]
  <2>1. ASSUME NEW s \in Seq(1..MaxUsed), Len(s) = n
        PROVE  Len(Append(s, m)) = n + 1 /\ \A i \in 1..n : Append(s, m)[i] = s[i]
    BY <1>1, <2>1
  <2> QED BY <1>1, <1>4, <1>5, <2>1
<1>8. Given(r)'[n + 1] = m
  <2>1. ASSUME NEW s \in Seq(1..MaxUsed), Len(s) = n PROVE Append(s, m)[n + 1] = m
    BY <1>1, <1>2, <2>1
  <2> QED BY <1>1, <1>4, <1>5, <2>1
\* Where r and q still share their array, q has not what r is given now.
<1>9. ASSUME NEW q \in Routing!Created \ {r}, routers'[q].array = routers'[r].array
      PROVE  /\ Routing!Room(r) /\ routers[q].array = routers[r].array
             /\ \/ Agree(Given(r)', Given(q)') /\ n + 1 \notin 1..Len(Given(q))
                \/ Routing!Parted(Given(r)', Given(q)')
  <2>1. q \in Routers /\ routers'[q].array = routers[q].array /\ routers[q].array # m /\ Given(q)' = Given(q)
    BY <1>1, <1>3, <1>4, <1>5
  <2>2. Routing!Room(r) /\ routers[q].array = routers[r].array
    BY <1>1, <1>9, <2>1
  <2>3. Agree(Given(r), Given(q)) \/ Routing!Parted(Given(r), Given(q))
    BY <1>1, <2>2 DEF RoutingInv, SharersPart
  <2>4. Given(r) \in Seq(1..MaxUsed) /\ Given(q) \in Seq(1..MaxUsed) /\ m \in Nat /\ \A i \in 1..Len(Given(q)) : Given(q)[i] < m
    BY <1>1, <1>4, <1>5
  <2>5. ASSUME NEW s, NEW u, s \in Seq(1..MaxUsed), u \in Seq(1..MaxUsed), n = Len(s), \A i \in 1..Len(u) : u[i] < m,
               Agree(s, u) \/ Routing!Parted(s, u)
        PROVE  (Agree(Append(s, m), u) /\ n + 1 \notin 1..Len(u)) \/ Routing!Parted(Append(s, m), u)
    BY <1>6, <2>2, <2>4, <2>5, OneGrows
  <2>6. \/ Agree(Append(Given(r), m), Given(q)) /\ n + 1 \notin 1..Len(Given(q))
        \/ Routing!Parted(Append(Given(r), m), Given(q))
    BY <1>5, <2>3, <2>4, <2>5
  <2> QED BY <1>1, <2>1, <2>2, <2>6
<1>10. Routing!TypeOK'
  <2>1. ASSUME NEW q \in Routing!Created
        PROVE  routers'[q].len <= Len(ArrayOf(q)') /\ routers'[q].parent \in Routing!Created \cup {None}
    <3>1. routers[q].parent \in Routing!Created \cup {None}
      BY DEF RoutingInv, Routing!TypeOK
    <3>2. CASE q = r
      <4>1. routers'[r].len = n + 1 /\ routers'[r].parent = routers[r].parent
        BY <1>1
      <4>2. n + 1 <= Len(ArrayOf(r)')
        BY <1>2
      <4> QED BY <3>1, <3>2, <4>1, <4>2
    <3>3. CASE q # r
      <4>1. routers'[q] = routers[q] /\ Len(ArrayOf(q)') = Len(ArrayOf(q)) /\ routers[q].len <= Len(ArrayOf(q))
        BY <1>1, <1>2, <1>4, <3>3
      <4> QED BY <3>1, <4>1
    <3> QED BY <3>2, <3>3
  <2>2. \A q \in Routing!Created : ArrayOf(q)' = arrays'[routers'[q].array]
    BY DEF ArrayOf
  <2>3. cur' \in Routing!ValueType /\ (cur'.errored \/ cur'.router \in Routing!Created')
    BY <1>1 DEF Returns
  <2>4. used' \in 0..MaxUsed /\ calls' \in 0..MaxCalls /\ routes' \subseteq Routing!RouteType
        /\ (\A t \in routes' : t.router \in Routing!Created')
        /\ app' \in {"registering", "panicked", "error", "overflow", "serving"}
    BY <1>1, <1>5 DEF RoutingInv, Routing!TypeOK
  <2> QED BY <1>1, <1>2, <2>1, <2>2, <2>3, <2>4 DEF Routing!TypeOK
<1>11. Sizes'
  <2> SUFFICES ASSUME NEW q \in Routing!Created
        PROVE  /\ routers'[q].len = Len(Given(q)')
               /\ routers'[q].len <= used' /\ routers'[q].array <= used'
               /\ \A i \in 1..Len(Given(q)') : Given(q)'[i] <= used'
               /\ Len(ArrayOf(q)') = 0 \/ Len(ArrayOf(q)') < 2 * routers'[q].len
               /\ Len(ArrayOf(q)') \in {0, 1, 2, 4, 8} \/ 16 <= Len(ArrayOf(q)')
    BY <1>1 DEF Sizes
  <2>1. CASE q # r
    <3>1. /\ routers'[q] = routers[q] /\ Len(ArrayOf(q)') = Len(ArrayOf(q)) /\ Given(q)' = Given(q)
      BY <1>1, <1>2, <1>3, <1>4, <2>1
    <3>2. routers[q].len <= used' /\ routers[q].array <= used'
      BY <1>1, <1>4, <1>5
    <3>3. \A i \in 1..Len(Given(q)) : Given(q)[i] <= used'
      <4>1. \A i \in 1..Len(Given(q)) : Given(q)[i] \in 1..used
        BY <1>4
      <4>2. used \in Nat /\ used' = used + 1
        BY <1>1, <1>5
      <4> QED BY ONLY <4>1, <4>2
    <3> QED BY <1>4, <3>1, <3>2, <3>3
  <2>2. CASE q = r
    <3>1. /\ routers'[q].len = Len(Given(q)') /\ routers'[q].len <= used'
      <4>1. routers'[q].len = n + 1 /\ Len(Given(q)') = n + 1 /\ used' = used + 1
        BY <1>1, <1>7, <2>2
      <4>2. n <= used
        BY <1>1, <1>4
      <4> QED BY <1>2, <1>5, <4>1, <4>2
    <3>2. routers'[q].array <= used'
      BY <1>1, <1>4, <1>5, <2>2
    <3>3. \A i \in 1..Len(Given(q)') : Given(q)'[i] <= used'
      <4>1. \A i \in 1..(n + 1) : i \in 1..n \/ i = n + 1
        BY <1>2
      <4>2. \A i \in 1..n : Given(r)[i] \in 1..used
        BY <1>1, <1>4, <1>5
      <4>3. \A i \in 1..n : Given(r)'[i] <= m
        BY <1>1, <1>5, <1>7, <4>2
      <4>4. \A i \in 1..(n + 1) : Given(r)'[i] <= m
        BY <1>1, <1>5, <1>8, <4>1, <4>3
      <4> QED BY <1>1, <1>7, <2>2, <4>4
    <3>4. /\ Len(ArrayOf(q)') = 0 \/ Len(ArrayOf(q)') < 2 * routers'[q].len
          /\ Len(ArrayOf(q)') \in {0, 1, 2, 4, 8} \/ 16 <= Len(ArrayOf(q)')
      <4>1. \/ Routing!Room(r) /\ Len(ArrayOf(r)') = Len(ArrayOf(r))
            \/ n = Len(ArrayOf(r)) /\ Len(ArrayOf(r)') = IF n = 0 THEN 1 ELSE 2 * n
        BY <1>2
      <4>2. /\ Len(ArrayOf(r)) = 0 \/ Len(ArrayOf(r)) < 2 * n
            /\ Len(ArrayOf(r)) \in {0, 1, 2, 4, 8} \/ 16 <= Len(ArrayOf(r))
        BY <1>1, <1>4
      <4>3. ASSUME NEW k \in Nat, NEW k2, k2 = k \/ (n = k /\ k2 = IF n = 0 THEN 1 ELSE 2 * n),
                   k = 0 \/ k < 2 * n, k \in {0, 1, 2, 4, 8} \/ 16 <= k
            PROVE  /\ k2 = 0 \/ k2 < 2 * (n + 1)
                   /\ k2 \in {0, 1, 2, 4, 8} \/ 16 <= k2
        <5>1. CASE k2 = k
          BY <1>2, <4>3, <5>1
        <5>2. CASE n = k /\ k2 = IF n = 0 THEN 1 ELSE 2 * n
          <6>1. k2 < 2 * (n + 1)
            BY <1>2, <5>2
          <6>2. k2 \in {0, 1, 2, 4, 8} \/ 16 <= k2
            BY <1>2, <4>3, <5>2
          <6> QED BY <6>1, <6>2
        <5> QED BY <4>3, <5>1, <5>2
      <4> QED BY <1>1, <1>2, <2>2, <4>1, <4>2, <4>3
    <3> QED BY <3>1, <3>2, <3>3, <3>4
  <2> QED BY <2>1, <2>2
<1>12. SharersPart'
  <2> SUFFICES ASSUME NEW p \in Routing!Created, NEW q \in Routing!Created, p # q, routers'[p].array = routers'[q].array
               PROVE  Agree(Given(p)', Given(q)') \/ Routing!Parted(Given(p)', Given(q)')
    BY <1>1 DEF SharersPart, Agree, Routing!Parted
  <2>1. CASE p = r
    BY <1>9, <2>1
  <2>2. CASE q = r
    <3>1. Agree(Given(q)', Given(p)') \/ Routing!Parted(Given(q)', Given(p)')
      BY <1>9, <2>2
    <3> QED BY <3>1, PartedTurns DEF Agree
  <2>3. CASE p # r /\ q # r
    <3>1. /\ routers'[p] = routers[p] /\ routers'[q] = routers[q]
          /\ Given(p)' = Given(p) /\ Given(q)' = Given(q)
      BY <1>1, <1>3, <1>4, <2>3
    <3> QED BY <3>1 DEF RoutingInv, SharersPart
  <2> QED BY <2>1, <2>2, <2>3
<1>13. SlicesExplained'
  <2> SUFFICES ASSUME NEW q \in Routing!Created, NEW g, g = Given(q)', ~ Explained(g, q)'
               PROVE  \A i \in 1..Len(g) : ArrayOf(q)'[i] = g[i]
    BY <1>1 DEF SlicesExplained
  <2>1. CASE q # r
    <3>1. g = Given(q) /\ g \in Seq(1..MaxUsed) /\ Given(q)' = Given(q)
      BY <1>3, <1>4, <2>1
    <3>2. \A i \in 1..Len(g) : ArrayOf(q)[i] = g[i]
      BY <1>3, <3>1 DEF RoutingInv, SlicesExplained
    <3>3. CASE Routing!Room(r) /\ routers[q].array = routers[r].array
      <4>1. routers'[q].array = routers'[r].array
        BY <1>1, <1>4, <2>1, <3>3
      <4>2. ~ Routing!Parted(Given(r)', g)
        <5>1. Routing!Parted(Given(r)', g) => Routing!Parted(g, Given(r)')
          BY PartedTurns
        <5>2. r \in Routing!Created' \ {q}
          BY <1>1, <2>1
        <5>3. Explained(g, q)' <=> \E p \in Routing!Created' \ {q} : Routing!Parted(g, Given(p)')
          BY DEF Explained, Routing!Parted
        <5> QED BY <5>1, <5>2, <5>3
      <4>3. n + 1 \notin 1..Len(g)
        BY <1>9, <2>1, <3>1, <4>1, <4>2
      <4>4. \A i \in 1..Len(g) : i \in 1..Len(ArrayOf(q))
        BY <1>4, <3>1
      <4> QED BY <1>2, <2>1, <3>2, <3>3, <4>3, <4>4
    <3>4. CASE ~(Routing!Room(r) /\ routers[q].array = routers[r].array)
      BY <1>2, <2>1, <3>2, <3>4
    <3> QED BY <3>3, <3>4
  <2>2. CASE q = r
    <3>1. ASSUME NEW s, s = Given(r), Explained(s, r) PROVE FALSE
      <4>1. PICK p \in Routing!Created \ {r} : Routing!Parted(s, Given(p))
        BY <3>1 DEF Explained
      <4>2. Given(p)' = Given(p) /\ Given(p) \in Seq(1..MaxUsed) /\ s \in Seq(1..MaxUsed) /\ Extends(s, g)
        BY <1>1, <1>3, <1>4, <2>2, <3>1
      <4>3. ASSUME NEW u, u \in Seq(1..MaxUsed), Routing!Parted(s, u) PROVE Routing!Parted(g, u)
        <5>1. Extends(u, u) /\ \A i \in DOMAIN u : 1..(i - 1) \subseteq DOMAIN u
          BY <4>3 DEF Extends
        <5>2. \A i \in DOMAIN s : 1..(i - 1) \subseteq DOMAIN s
          BY <4>2
        <5> QED BY <4>2, <4>3, <5>1, <5>2, PartedGrow
      <4>4. Routing!Parted(g, Given(p)')
        BY <4>1, <4>2, <4>3
      <4>5. p \in Routing!Created' \ {q}
        BY <1>1, <2>2, <4>1
      <4> QED BY <4>4, <4>5 DEF Explained, Routing!Parted
    <3>2. \A i \in 1..n : ArrayOf(r)[i] = Given(r)[i]
      BY <1>1, <1>5, <3>1 DEF RoutingInv, SlicesExplained
    <3>3. \A i \in 1..(n + 1) : i \in 1..n \/ i = n + 1
      BY <1>2
    <3>4. g = Given(r)' /\ Len(g) = n + 1 /\ ArrayOf(q)' = ArrayOf(r)'
      BY <1>7, <2>2
    <3>5. \A i \in 1..n : ArrayOf(r)'[i] = g[i]
      BY <1>2, <1>7, <3>2, <3>4
    <3>6. ArrayOf(r)'[n + 1] = g[n + 1]
      BY <1>2, <1>8, <3>4
    <3> QED BY <3>3, <3>4, <3>5, <3>6
  <2> QED BY <2>1, <2>2
<1>14. RoutesExplained'
  <2>1. \A t \in routes : t.given \in Seq(1..MaxUsed)
    BY DEF RoutingInv, Routing!TypeOK, Routing!RouteType
  <2> QED BY <1>1, <1>3, <2>1 DEF RoutingInv, RoutesExplained
<1>15. FailuresKept'
  BY <1>1 DEF FailuresKept, Returns
<1> QED BY <1>10, <1>11, <1>12, <1>13, <1>14, <1>15 DEF RoutingInv

LEMMA RoutingStepHolds ==
    ASSUME RoutingInv, [Routing!Next]_(Routing!vars)
    PROVE  RoutingInv'
<1>1. CASE UNCHANGED Routing!vars
  <2>1. UNCHANGED <<routers, arrays, used, routes, cur, calls, app>>
    BY <1>1 DEF Routing!vars
  <2>2. Routing!Created' = Routing!Created
    BY <2>1 DEF Routing!Created
  <2>3. /\ cur \in Routing!ValueType /\ calls \in 0..MaxCalls /\ routers \in [Routers -> Routing!RouterType \cup {None}]
        /\ ~cur.errored => cur.router \in Routing!Created /\ "router" \notin cur.failed
        /\ app \in {"registering", "panicked", "error", "overflow", "serving"}
        /\ app = "serving" => ~cur.errored
    BY DEF RoutingInv, Routing!TypeOK, FailuresKept
  <2> QED BY <2>1, <2>2, <2>3, OthersHold
<1>2. CASE Routing!Next
  <2>1. ASSUME NEW h \in Routing!Values, Routing!RequestMiddleware(h) PROVE RoutingInv'
    BY <2>1, RequestMiddlewareHolds
  <2>2. ASSUME NEW h \in Routing!Values, Routing!Clone(h) PROVE RoutingInv'
    BY <2>2, CloneHolds
  <2>3. ASSUME NEW h \in Routing!Values, NEW p \in Paths,
               Routing!GetFunc(h, p) \/ Routing!HealthCheck(h, p) \/ Routing!WebSocket(h, p) \/ Routing!Resource(h, p) \/ Routing!Static(h, p)
        PROVE  RoutingInv'
    BY <2>3, RegistrationsHold
  <2>4. CASE Routing!Ignored \/ \E h \in Routing!Values : \/ Routing!Version(h) \/ Routing!Layouts(h) \/ Routing!Run(h)
                                                          \/ \E o \in Routing!Values : Routing!Mount(h, o)
    BY <2>4, OtherCallsHold
  <2> QED BY <1>2, <2>1, <2>2, <2>3, <2>4 DEF Routing!Next
<1> QED BY <1>1, <1>2

-----------------------------------------------------------------------------
(* What is mounted.                                                        *)

\* A value that is mounted is one the program had, and Run serves none that
\* is an errRouter.
MountsKept == \A r \in Routing!Created : \A m \in routers[r].mounts : "router" \in m.failed => m.errored
Served == app = "serving" => \A r \in Routing!Built : \A m \in routers[r].mounts : ~m.errored

LEMMA MountsInitHolds == Routing!Init => MountsKept /\ Served
<1> SUFFICES ASSUME Routing!Init PROVE MountsKept /\ Served
  OBVIOUS
<1>1. \A r \in Routing!Created : routers[r].mounts = {}
  BY DEF Routing!Init, Routing!Created, Routing!Fresh
<1> QED BY <1>1 DEF Routing!Init, MountsKept, Served

\* Routers that have no other mounts than they had.
LEMMA NoMounts ==
    ASSUME MountsKept,
           \A r \in Routing!Created' : routers'[r].mounts = {} \/ (r \in Routing!Created /\ routers'[r].mounts = routers[r].mounts)
    PROVE  MountsKept'
BY DEF MountsKept

LEMMA MountsHold == ASSUME RoutingInv, MountsKept, [Routing!Next]_(Routing!vars) PROVE MountsKept'
<1>0. routers \in [Routers -> Routing!RouterType \cup {None}] /\ None \notin Routing!RouterType
  BY RoutingAssumption DEF RoutingInv, Routing!TypeOK
<1>1. CASE routers' = routers
  BY <1>1, NoMounts DEF Routing!Created
<1>2. ASSUME NEW h \in Routing!Values, ~h.errored
      PROVE  /\ h.router \in Routers /\ h.router \in Routing!Created /\ routers[h.router] \in Routing!RouterType
             /\ DOMAIN routers[h.router] = {"parent", "array", "len", "given", "layouts", "mounts"}
  <2>1. h.router \in Routers /\ h.router \in Routing!Created /\ routers[h.router] \in Routing!RouterType
    BY <1>0, <1>2, ValuesAreTyped DEF Routing!Created
  <2> QED BY <2>1 DEF Routing!RouterType
<1>3. ASSUME NEW h \in Routing!Values, Routing!RequestMiddleware(h) PROVE MountsKept'
  <2>1. ~h.errored /\ Routing!Created' = Routing!Created
    BY <1>3, AppendsTo DEF Routing!RequestMiddleware, Routing!Works
  <2>2. \A r \in Routing!Created : routers'[r].mounts = routers[r].mounts
    BY <1>0, <1>2, <1>3, <2>1 DEF Routing!RequestMiddleware, Routing!Apply, Routing!Created
  <2> QED BY <2>1, <2>2, NoMounts
<1>4. ASSUME NEW h \in Routing!Values, Routing!Clone(h) PROVE MountsKept'
  <2>1. PICK c \in Routers \ Routing!Created :
          routers' = [routers EXCEPT ![c] = [routers[h.router] EXCEPT !.parent = h.router, !.mounts = {}, !.layouts = TRUE]]
    BY <1>4 DEF Routing!Clone
  <2>2. ~h.errored
    BY <1>4 DEF Routing!Clone, Routing!On, Routing!Works
  <2>3. routers'[c].mounts = {} /\ \A r \in Routers \ {c} : routers'[r] = routers[r]
    BY <1>0, <1>2, <2>1, <2>2
  <2> QED BY <2>3, NoMounts DEF Routing!Created
<1>5. ASSUME NEW h \in Routing!Values, Routing!Layouts(h) PROVE MountsKept'
  <2>1. ~h.errored
    BY <1>5 DEF Routing!Layouts, Routing!On, Routing!Works
  <2>2. PICK there \in BOOLEAN : routers' = [routers EXCEPT ![h.router] = [routers[h.router] EXCEPT !.layouts = there]]
    BY <1>5 DEF Routing!Layouts
  <2>3. routers'[h.router].mounts = routers[h.router].mounts /\ \A r \in Routers \ {h.router} : routers'[r] = routers[r]
    BY <1>0, <1>2, <2>1, <2>2
  <2> QED BY <1>2, <2>1, <2>3, NoMounts DEF Routing!Created
<1>6. ASSUME NEW h \in Routing!Values, NEW o \in Routing!Values, Routing!Mount(h, o) PROVE MountsKept'
  <2>1. ~h.errored
    BY <1>6 DEF Routing!Mount, Routing!On, Routing!Works
  <2>2. routers' = [routers EXCEPT ![h.router] = [routers[h.router] EXCEPT !.mounts = routers[h.router].mounts \cup {o}]]
    BY <1>6 DEF Routing!Mount
  <2>3. routers'[h.router].mounts = routers[h.router].mounts \cup {o} /\ \A r \in Routers \ {h.router} : routers'[r] = routers[r]
    BY <1>0, <1>2, <2>1, <2>2
  <2>4. "router" \in o.failed => o.errored
    BY ValuesAreTyped
  <2> QED BY <1>2, <2>1, <2>3, <2>4 DEF MountsKept, Routing!Created
<1>7. CASE Routing!Ignored \/ \E h \in Routing!Values : Routing!Version(h) \/ Routing!Run(h)
  BY <1>1, <1>7 DEF Routing!Ignored, Routing!Version, Routing!Run
<1>8. CASE \E h \in Routing!Values, p \in Paths :
             Routing!GetFunc(h, p) \/ Routing!HealthCheck(h, p) \/ Routing!WebSocket(h, p) \/ Routing!Resource(h, p) \/ Routing!Static(h, p)
  BY <1>1, <1>8 DEF Routing!GetFunc, Routing!HealthCheck, Routing!WebSocket, Routing!Resource, Routing!Static
<1>9. CASE UNCHANGED Routing!vars
  BY <1>1, <1>9 DEF Routing!vars
<1> QED BY <1>3, <1>4, <1>5, <1>6, <1>7, <1>8, <1>9 DEF Routing!Next

\* Only Run begins to serve, and it ends the registration.
LEMMA ServedHolds == ASSUME Served, [Routing!Next]_(Routing!vars) PROVE Served'
<1>1. CASE UNCHANGED Routing!vars
  BY <1>1 DEF Routing!vars, Served, Routing!Built, Routing!Builds, Routing!Mounts, Routing!Created
<1>2. ASSUME NEW h \in Routing!Values, Routing!Run(h) PROVE Served'
  <2>1. routers' = routers /\ (app' = "serving" => ~ \E r \in Routing!Built : \E m \in routers[r].mounts : m.errored)
    BY <1>2 DEF Routing!Run
  <2>2. Routing!Built' = Routing!Built
    BY <2>1 DEF Routing!Built, Routing!Builds, Routing!Mounts, Routing!Created
  <2> QED BY <2>1, <2>2 DEF Served
<1>3. ASSUME NEW h \in Routing!Values,
             \/ Routing!RequestMiddleware(h) \/ Routing!Clone(h) \/ Routing!Version(h) \/ Routing!Layouts(h)
             \/ \E o \in Routing!Values : Routing!Mount(h, o)
      PROVE  app' # "serving"
  BY <1>3 DEF Routing!RequestMiddleware, Routing!Clone, Routing!Version, Routing!Layouts, Routing!Mount, Routing!On, Routing!Works
<1>4. ASSUME NEW h \in Routing!Values, NEW p \in Paths,
             Routing!GetFunc(h, p) \/ Routing!HealthCheck(h, p) \/ Routing!WebSocket(h, p) \/ Routing!Resource(h, p) \/ Routing!Static(h, p)
      PROVE  app' # "serving"
  <2>1. app = "registering"
    BY <1>4 DEF Routing!GetFunc, Routing!HealthCheck, Routing!WebSocket, Routing!Resource, Routing!Static, Routing!On, Routing!Works
  <2>2. app' = "panicked" \/ \E new, v : Routing!Registers(new, v)
    BY Zenon, <1>4 DEF Routing!GetFunc, Routing!HealthCheck, Routing!WebSocket, Routing!Resource, Routing!Static,
       Routing!serve, Routing!LoadPanics
  <2>3. ASSUME NEW new, NEW v, Routing!Registers(new, v) PROVE app' = "panicked" \/ app' = app
    BY Zenon, <2>3 DEF Routing!Registers
  <2> QED BY <2>1, <2>2, <2>3
<1>5. CASE Routing!Ignored
  BY <1>5 DEF Routing!Ignored, Served
<1> QED BY <1>1, <1>2, <1>3, <1>4, <1>5 DEF Routing!Next, Served

LEMMA RoutingIsSound ==
    RoutingInv /\ MountsKept /\ Served => Routing!RoutesRunTheirMiddlewares /\ Routing!FailedRegistrationIsReported
<1> SUFFICES ASSUME RoutingInv, MountsKept, Served PROVE Routing!RoutesRunTheirMiddlewares /\ Routing!FailedRegistrationIsReported
  OBVIOUS
<1>1. Routing!RoutesRunTheirMiddlewares
  BY DEF RoutingInv, RoutesExplained, Explained, Given, Routing!RoutesRunTheirMiddlewares
<1>2. Routing!FailedRegistrationIsReported
  <2> SUFFICES ASSUME app = "serving", NEW v \in {cur} \cup UNION {routers[r].mounts : r \in Routing!Built}
               PROVE  v.failed \subseteq {"version", "health"}
    BY DEF Routing!FailedRegistrationIsReported
  <2>1. v \in Routing!ValueType /\ "router" \notin v.failed
    <3>1. CASE v = cur
      BY <3>1 DEF RoutingInv, FailuresKept, Routing!TypeOK
    <3>2. ASSUME NEW r \in Routing!Built, v \in routers[r].mounts PROVE v \in Routing!ValueType /\ "router" \notin v.failed
      <4>1. r \in Routing!Created /\ routers[r] \in Routing!RouterType
        BY <3>2, RoutersAreThere DEF RoutingInv, Routing!Built
      <4> QED BY <3>2, <4>1 DEF MountsKept, Served, Routing!RouterType
    <3> QED BY <3>1, <3>2
  <2> QED BY <2>1 DEF Routing!ValueType
<1> QED BY <1>1, <1>2
=============================================================================
