------------------------- MODULE FeatureFlagsProofs -------------------------
(***************************************************************************)
(* The flag cache stays consistent, whatever the requests do with it.      *)
(***************************************************************************)
EXTENDS FeatureFlags, FiniteSetTheorems, SequenceTheorems, TLAPS

\* The strengthening: the order is a sequence of cached keys and the keys are
\* finitely many, so that their number can be compared with the capacity.
Shape(c) ==
    /\ c.order \in Seq(DOMAIN c.items)
    /\ IsFiniteSet(DOMAIN c.items)
    /\ \A k \in DOMAIN c.items : In(k, c.order)
    /\ Distinct(c.order)

ShapeInv == Shape(cache) /\ Cardinality(DOMAIN cache.items) <= Cap

\* x has its place before y.
Ordered(q, x, y) == \E i, j \in 1..Len(q) : i < j /\ q[i] = x /\ q[j] = y

-----------------------------------------------------------------------------
(* The order.                                                              *)

\* removeFromOrder (cache.go:73-80) cuts out the one place of the key and
\* keeps every other key, once.
LEMMA RemovalCutsOne ==
    ASSUME NEW S, NEW q \in Seq(S), NEW k, In(k, q), Distinct(q)
    PROVE  /\ RemoveFromOrder(q, k) \in Seq(S \ {k})
           /\ Distinct(RemoveFromOrder(q, k))
           /\ \A x \in S \ {k} : In(x, q) => In(x, RemoveFromOrder(q, k))
           /\ \A x, y : Ordered(RemoveFromOrder(q, k), x, y) => Ordered(q, x, y)
<1> DEFINE First(i) == q[i] = k /\ \A j \in 1..(i - 1) : q[j] # k
           at == CHOOSE i \in 1..Len(q) : First(i)
           p == RemoveFromOrder(q, k)
<1>1. Len(q) \in Nat /\ \A i \in 1..Len(q) : q[i] \in S
  OBVIOUS
<1>2. PICK n \in 1..Len(q) : q[n] = k
  BY DEF In
<1>3. First(n)
  <2>1. \A j \in 1..(n - 1) : j \in 1..Len(q) /\ j # n
    BY <1>1
  <2> QED BY <1>2, <2>1 DEF Distinct
<1>4. at \in 1..Len(q) /\ First(at)
  BY <1>3
<1>5. p = [j \in 1..(Len(q) - 1) |-> IF j < at THEN q[j] ELSE q[j + 1]]
  BY DEF RemoveFromOrder
<1> HIDE DEF First, at, p
<1>6. q[at] = k
  BY <1>4 DEF First
<1>7. \A j \in 1..(Len(q) - 1) :
         /\ j \in 1..Len(q) /\ j + 1 \in 1..Len(q)
         /\ p[j] = IF j < at THEN q[j] ELSE q[j + 1]
  BY <1>1, <1>5
<1>8. \A j \in 1..Len(q) : j # at => q[j] # k
  BY <1>4, <1>6 DEF Distinct
<1>9. \A j \in 1..(Len(q) - 1) : p[j] \in S \ {k}
  <2> SUFFICES ASSUME NEW j \in 1..(Len(q) - 1) PROVE p[j] \in S \ {k}
    OBVIOUS
  <2>1. CASE j < at
    BY <2>1, <1>1, <1>7, <1>8
  <2>2. CASE ~(j < at)
    BY <2>2, <1>1, <1>4, <1>7, <1>8
  <2> QED BY <2>1, <2>2
<1>10. Len(q) - 1 \in Nat
  BY <1>1, <1>2
<1>11. p \in Seq(S \ {k}) /\ Len(p) = Len(q) - 1
  BY <1>5, <1>9, <1>10
<1>12. Distinct(p)
  <2> SUFFICES ASSUME NEW i \in 1..(Len(q) - 1), NEW j \in 1..(Len(q) - 1), p[i] = p[j]
               PROVE  i = j
    BY <1>11 DEF Distinct
  <2> DEFINE old(m) == IF m < at THEN m ELSE m + 1
  <2>1. old(i) \in 1..Len(q) /\ old(j) \in 1..Len(q)
    BY <1>7
  <2>2. p[i] = q[old(i)] /\ p[j] = q[old(j)]
    BY <1>7
  <2>3. old(i) = old(j)
    BY <2>1, <2>2 DEF Distinct
  <2> QED BY <2>3, <1>4
<1>13. ASSUME NEW x \in S \ {k}, In(x, q) PROVE In(x, p)
  <2>1. PICK m \in 1..Len(q) : q[m] = x
    BY <1>13 DEF In
  <2>2. m # at
    BY <2>1, <1>6
  <2>3. CASE m < at
    <3>1. m \in 1..(Len(q) - 1)
      BY <2>3, <1>4, <1>1
    <3> QED BY <3>1, <2>1, <2>3, <1>7, <1>11 DEF In
  <2>4. CASE m > at
    <3>1. m - 1 \in 1..(Len(q) - 1) /\ ~(m - 1 < at) /\ (m - 1) + 1 = m
      BY <2>4, <1>4, <1>1
    <3> QED BY <3>1, <2>1, <1>7, <1>11 DEF In
  <2> QED BY <2>2, <2>3, <2>4, <1>1, <1>4
<1>14. ASSUME NEW x, NEW y, Ordered(p, x, y) PROVE Ordered(q, x, y)
  <2>1. PICK i, j \in 1..(Len(q) - 1) : i < j /\ p[i] = x /\ p[j] = y
    BY <1>11, <1>14 DEF Ordered
  <2> DEFINE old(m) == IF m < at THEN m ELSE m + 1
  <2>2. /\ old(i) \in 1..Len(q) /\ old(j) \in 1..Len(q) /\ old(i) < old(j)
        /\ p[i] = q[old(i)] /\ p[j] = q[old(j)]
    BY <1>1, <1>4, <1>7, <2>1
  <2> HIDE DEF old
  <2> QED BY <2>1, <2>2 DEF Ordered
<1> QED BY <1>11, <1>12, <1>13, <1>14 DEF p

\* A key that is not in the order is appended as its last, and only, place.
LEMMA AppendingAddsOne ==
    ASSUME NEW S, NEW q \in Seq(S), NEW k, k \notin S, Distinct(q)
    PROVE  /\ Append(q, k) \in Seq(S \cup {k})
           /\ Distinct(Append(q, k))
           /\ \A x : In(x, q) => In(x, Append(q, k))
           /\ In(k, Append(q, k))
<1> DEFINE p == Append(q, k)
<1>1. Len(q) \in Nat /\ \A i \in 1..Len(q) : q[i] \in S
  OBVIOUS
<1>2. q \in Seq(S \cup {k}) /\ k \in S \cup {k}
  OBVIOUS
<1>3. p \in Seq(S \cup {k}) /\ Len(p) = Len(q) + 1
      /\ \A i \in 1..(Len(q) + 1) : p[i] = IF i <= Len(q) THEN q[i] ELSE k
  BY <1>2
<1> HIDE DEF p
<1>4. Distinct(p)
  <2> SUFFICES ASSUME NEW i \in 1..(Len(q) + 1), NEW j \in 1..(Len(q) + 1), p[i] = p[j]
               PROVE  i = j
    BY <1>3 DEF Distinct
  <2>1. CASE i <= Len(q) /\ j <= Len(q)
    BY <2>1, <1>1, <1>3 DEF Distinct
  <2>2. CASE i <= Len(q) /\ ~(j <= Len(q))
    BY <2>2, <1>1, <1>3
  <2>3. CASE ~(i <= Len(q)) /\ j <= Len(q)
    BY <2>3, <1>1, <1>3
  <2>4. CASE ~(i <= Len(q)) /\ ~(j <= Len(q))
    BY <2>4, <1>1
  <2> QED BY <2>1, <2>2, <2>3, <2>4
<1>5. \A x : In(x, q) => In(x, p)
  BY <1>1, <1>3 DEF In
<1>6. In(k, p)
  BY <1>1, <1>3 DEF In
<1> QED BY <1>3, <1>4, <1>5, <1>6 DEF p

\* Only the key that is appended comes after others that it did not.
LEMMA AppendingKeepsOrder ==
    ASSUME NEW S, NEW q \in Seq(S), NEW k, NEW x, NEW y, Ordered(Append(q, k), x, y)
    PROVE  x \in S /\ (y = k \/ Ordered(q, x, y))
<1> DEFINE p == Append(q, k)
<1>1. Len(q) \in Nat /\ \A i \in 1..Len(q) : q[i] \in S
  OBVIOUS
<1>2. q \in Seq(S \cup {k}) /\ k \in S \cup {k}
  OBVIOUS
<1>3. Len(p) = Len(q) + 1 /\ \A i \in 1..(Len(q) + 1) : p[i] = IF i <= Len(q) THEN q[i] ELSE k
  BY <1>2
<1> HIDE DEF p
<1>4. PICK i, j \in 1..(Len(q) + 1) : i < j /\ p[i] = x /\ p[j] = y
  BY <1>3 DEF Ordered, p
<1>5. i \in 1..Len(q) /\ x = q[i]
  BY <1>1, <1>3, <1>4
<1>6. CASE j <= Len(q)
  <2>1. j \in 1..Len(q) /\ y = q[j]
    BY <1>1, <1>3, <1>4, <1>6
  <2> QED BY <1>1, <1>4, <1>5, <2>1 DEF Ordered
<1>7. CASE ~(j <= Len(q))
  BY <1>1, <1>3, <1>4, <1>5, <1>7
<1> QED BY <1>6, <1>7

\* touch (cache.go:67-71) leaves the same keys, each once.
LEMMA TouchKeepsKeys ==
    ASSUME NEW S, NEW q \in Seq(S), NEW k \in S, Distinct(q), \A x \in S : In(x, q)
    PROVE  /\ Touch(q, k) \in Seq(S)
           /\ Distinct(Touch(q, k))
           /\ \A x \in S : In(x, Touch(q, k))
           /\ \A x, y : Ordered(Touch(q, k), x, y) => x # k /\ (y = k \/ Ordered(q, x, y))
<1> DEFINE p == RemoveFromOrder(q, k)
<1>1. /\ p \in Seq(S \ {k}) /\ Distinct(p) /\ \A x \in S \ {k} : In(x, p)
      /\ \A x, y : Ordered(p, x, y) => Ordered(q, x, y)
  BY RemovalCutsOne
<1>2. (S \ {k}) \cup {k} = S
  OBVIOUS
<1> HIDE DEF p
<1>3. /\ Append(p, k) \in Seq((S \ {k}) \cup {k})
      /\ Distinct(Append(p, k))
      /\ \A x : In(x, p) => In(x, Append(p, k))
      /\ In(k, Append(p, k))
  <2>1. k \notin S \ {k}
    OBVIOUS
  <2> QED BY <1>1, <2>1, AppendingAddsOne
<1>4. Touch(q, k) = Append(p, k)
  BY DEF Touch, p
<1>5. \A x, y : Ordered(Append(p, k), x, y) => x \in S \ {k} /\ (y = k \/ Ordered(p, x, y))
  BY <1>1, AppendingKeepsOrder
<1> QED BY <1>1, <1>2, <1>3, <1>4, <1>5

-----------------------------------------------------------------------------
(* The cache.                                                              *)

\* get (cache.go:34-48) keeps the shape, and never makes the cache larger.
LEMMA GetKeepsShape ==
    ASSUME NEW c, Shape(c), NEW k
    PROVE  /\ Shape(AfterGet(c, k))
           /\ DOMAIN AfterGet(c, k).items \subseteq DOMAIN c.items
<1> DEFINE S == DOMAIN c.items
<1>1. CASE k \notin S
  BY <1>1 DEF AfterGet
<1>2. CASE k \in S /\ Hit(c, k)
  <2>1. AfterGet(c, k) = [items |-> c.items, order |-> Touch(c.order, k)]
    BY <1>2 DEF AfterGet
  <2>2. /\ Touch(c.order, k) \in Seq(S) /\ Distinct(Touch(c.order, k))
        /\ \A x \in S : In(x, Touch(c.order, k))
    BY <1>2, TouchKeepsKeys DEF Shape
  <2> QED BY <2>1, <2>2 DEF Shape
<1>3. CASE k \in S /\ ~Hit(c, k)
  <2> DEFINE p == RemoveFromOrder(c.order, k)
             d == AfterGet(c, k)
  <2>1. d = [items |-> Without(c.items, {k}), order |-> p]
    BY <1>3 DEF AfterGet
  <2>2. p \in Seq(S \ {k}) /\ Distinct(p) /\ \A x \in S \ {k} : In(x, p)
    BY <1>3, RemovalCutsOne DEF Shape
  <2>3. DOMAIN d.items = S \ {k}
    BY <2>1 DEF Without
  <2>4. IsFiniteSet(S \ {k})
    BY FS_RemoveElement DEF Shape
  <2>5. d.order = p
    BY <2>1
  <2> HIDE DEF d, p, S
  <2>6. Shape(d)
    BY <2>2, <2>3, <2>4, <2>5 DEF Shape
  <2>7. DOMAIN d.items \subseteq S
    BY <2>3
  <2> QED BY <2>6, <2>7 DEF d, S
<1> QED BY <1>1, <1>2, <1>3

\* The eviction at the end of set (cache.go:59-64) takes the key at the head
\* out of both the order and the items, so what is left still has the shape.
LEMMA EvictionKeepsShape ==
    ASSUME NEW c, Shape(c), Cardinality(DOMAIN c.items) <= Cap + 1
    PROVE  Shape(Evict(c)) /\ Cardinality(DOMAIN Evict(c).items) <= Cap
<1> DEFINE S == DOMAIN c.items
           q == c.order
<1>1. CASE Cardinality(S) <= Cap
  BY <1>1 DEF Evict
<1>2. CASE ~(Cardinality(S) <= Cap)
  <2> DEFINE k == Head(q)
             d == Evict(c)
  <2>1. d = [items |-> Without(c.items, {k}), order |-> Tail(q)]
    BY <1>2 DEF Evict
  <2>2. IsFiniteSet(S) /\ Cardinality(S) \in Nat /\ Cap \in Nat
    BY FS_CardinalityType, LRUAssumption DEF Shape
  <2>3. PICK x : x \in S
    <3>1. S # {}
      BY <1>2, <2>2, FS_EmptySet
    <3> QED BY <3>1
  <2>4. q \in Seq(S) /\ Distinct(q) /\ \A y \in S : In(y, q)
    BY DEF Shape
  <2>5. Len(q) \in Nat /\ Len(q) >= 1
    <3>1. In(x, q)
      BY <2>3, <2>4
    <3> QED BY <3>1, <2>4 DEF In
  <2>6. k = q[1] /\ k \in S
    BY <2>4, <2>5
  <2>7. /\ Tail(q) \in Seq(S) /\ Len(Tail(q)) = Len(q) - 1
        /\ \A i \in 1..(Len(q) - 1) : Tail(q)[i] = q[i + 1] /\ i + 1 \in 1..Len(q)
    <3>1. q # <<>>
      BY <2>5
    <3>2. q \in Seq(S)
      BY <2>4
    <3> HIDE DEF S, q
    <3>3. /\ Tail(q) \in Seq(S) /\ Len(Tail(q)) = Len(q) - 1
          /\ \A i \in 1..Len(Tail(q)) : Tail(q)[i] = q[i + 1]
      BY <3>1, <3>2, HeadTailProperties
    <3> QED BY <2>5, <3>3
  <2> HIDE DEF k, d, S, q
  <2>8. \A i \in 1..(Len(q) - 1) : Tail(q)[i] \in S \ {k}
    <3> SUFFICES ASSUME NEW i \in 1..(Len(q) - 1) PROVE Tail(q)[i] \in S \ {k}
      OBVIOUS
    <3>1. Tail(q)[i] = q[i + 1] /\ i + 1 \in 1..Len(q) /\ 1 \in 1..Len(q) /\ i + 1 # 1
      BY <2>5, <2>7
    <3>2. q[i + 1] # q[1]
      BY <3>1, <2>4 DEF Distinct
    <3>3. q[i + 1] \in S
      BY <3>1, <2>4
    <3> QED BY <3>1, <3>2, <3>3, <2>6
  <2>9. Tail(q) \in Seq(S \ {k})
    <3>1. Tail(q) \in [1..(Len(q) - 1) -> S]
      BY <2>7, LenProperties
    <3>2. Tail(q) \in [1..(Len(q) - 1) -> S \ {k}]
      BY <3>1, <2>8
    <3>3. Len(q) - 1 \in Nat
      BY <2>5
    <3>4. \A T : T = [1..(Len(q) - 1) -> S \ {k}] => T \in {[1..n -> S \ {k}] : n \in Nat}
      BY <3>3, Zenon
    <3> QED BY <3>2, <3>4, SeqDef, Zenon
  <2>10. Distinct(Tail(q))
    <3> SUFFICES ASSUME NEW i \in 1..(Len(q) - 1), NEW j \in 1..(Len(q) - 1), Tail(q)[i] = Tail(q)[j]
                 PROVE  i = j
      BY <2>7 DEF Distinct
    <3>1. q[i + 1] = q[j + 1] /\ i + 1 \in 1..Len(q) /\ j + 1 \in 1..Len(q)
      BY <2>7
    <3>2. i + 1 = j + 1
      BY <3>1, <2>4 DEF Distinct
    <3> QED BY <3>2, <2>5
  <2>11. ASSUME NEW y \in S \ {k} PROVE In(y, Tail(q))
    <3>1. PICK i \in 1..Len(q) : q[i] = y
      BY <2>4 DEF In
    <3>2. i # 1
      BY <3>1, <2>6
    <3>3. i - 1 \in 1..(Len(q) - 1) /\ (i - 1) + 1 = i
      BY <3>2, <2>5
    <3>4. Tail(q)[i - 1] = y
      BY <3>1, <3>3, <2>7
    <3> QED BY <3>3, <3>4, <2>7 DEF In
  <2>12. DOMAIN d.items = S \ {k} /\ d.order = Tail(q)
    BY <2>1 DEF Without, S
  <2>13. IsFiniteSet(S \ {k}) /\ Cardinality(S \ {k}) = Cardinality(S) - 1
    BY <2>2, <2>6, FS_RemoveElement
  <2>14. Shape(d)
    BY <2>9, <2>10, <2>11, <2>12, <2>13 DEF Shape
  <2>15. Cardinality(S \ {k}) <= Cap
    <3>1. Cardinality(S) <= Cap + 1
      BY DEF S
    <3> QED BY <2>2, <2>13, <3>1
  <2>16. Cardinality(DOMAIN d.items) <= Cap
    BY <2>12, <2>15
  <2> QED BY <2>14, <2>16 DEF d
<1> QED BY <1>1, <1>2

\* set (cache.go:50-65) keeps the shape and the capacity: it adds at most one
\* key before it evicts one.
LEMMA SetKeepsShape ==
    ASSUME NEW c, Shape(c), Cardinality(DOMAIN c.items) <= Cap, NEW k, NEW entry
    PROVE  Shape(AfterSet(c, k, entry)) /\ Cardinality(DOMAIN AfterSet(c, k, entry).items) <= Cap
<1> DEFINE S == DOMAIN c.items
           items == [x \in S \cup {k} |-> IF x = k THEN entry ELSE c.items[x]]
           order == IF k \in S THEN Touch(c.order, k) ELSE Append(c.order, k)
           d == [items |-> items, order |-> order]
<1>1. AfterSet(c, k, entry) = Evict(d)
  BY DEF AfterSet
<1>2. DOMAIN d.items = S \cup {k} /\ d.order = order
  OBVIOUS
<1>3. c.order \in Seq(S) /\ IsFiniteSet(S) /\ Distinct(c.order) /\ \A x \in S : In(x, c.order)
  BY DEF Shape
<1>4. order \in Seq(S \cup {k}) /\ Distinct(order) /\ \A x \in S \cup {k} : In(x, order)
  <2>1. CASE k \in S
    <3>1. S \cup {k} = S
      BY <2>1
    <3>2. order = Touch(c.order, k)
      BY <2>1
    <3> HIDE DEF S, order
    <3> QED BY <2>1, <1>3, <3>1, <3>2, TouchKeepsKeys
  <2>2. CASE k \notin S
    <3>2. order = Append(c.order, k)
      BY <2>2
    <3> HIDE DEF S, order
    <3> QED BY <2>2, <1>3, <3>2, AppendingAddsOne
  <2> QED BY <2>1, <2>2
<1>5. Cardinality(S) \in Nat /\ Cap \in Nat /\ Cardinality(S) <= Cap
  BY <1>3, FS_CardinalityType, LRUAssumption
<1>6. IsFiniteSet(S \cup {k}) /\ Cardinality(S \cup {k}) <= Cap + 1
  <2>1. IsFiniteSet(S \cup {k})
        /\ Cardinality(S \cup {k}) = IF k \in S THEN Cardinality(S) ELSE Cardinality(S) + 1
    BY <1>3, FS_AddElement
  <2>2. Cardinality(S) <= Cap + 1 /\ Cardinality(S) + 1 <= Cap + 1
    BY <1>5
  <2> QED BY <2>1, <2>2
<1> HIDE DEF d, S, order
<1>7. Shape(d) /\ Cardinality(DOMAIN d.items) <= Cap + 1
  BY <1>2, <1>4, <1>6 DEF Shape
<1> QED BY <1>1, <1>7, EvictionKeepsShape

-----------------------------------------------------------------------------
(* The invariant.                                                          *)

LEMMA ShapeAtTheStart == Init => ShapeInv
<1> SUFFICES ASSUME Init PROVE ShapeInv
  OBVIOUS
<1>1. cache.items = [k \in {} |-> 0] /\ cache.order = <<>>
  BY DEF Init, EmptyCache
<1>2. DOMAIN cache.items = {}
  BY <1>1
<1>3. IsFiniteSet({}) /\ Cardinality({}) = 0
  BY FS_EmptySet
<1>4. cache.order \in Seq({}) /\ 1..Len(cache.order) = {}
  BY <1>1
<1>5. Distinct(cache.order)
  BY <1>4, Zenon DEF Distinct
<1> QED BY <1>2, <1>3, <1>4, <1>5, LRUAssumption DEF ShapeInv, Shape

\* Of the steps, only get, set and the clock touch the cache.
LEMMA StepsKeepShape == ShapeInv /\ [Next]_vars => ShapeInv'
<1> SUFFICES ASSUME ShapeInv, [Next]_vars PROVE ShapeInv'
  OBVIOUS
<1>1. ASSUME NEW r \in Requests, CacheGet(r) PROVE ShapeInv'
  <2>1. cache' = AfterGet(cache, req[r].key)
    BY <1>1 DEF CacheGet
  <2>2. Shape(cache') /\ DOMAIN cache'.items \subseteq DOMAIN cache.items
    BY <2>1, GetKeepsShape DEF ShapeInv
  <2>3. IsFiniteSet(DOMAIN cache.items)
    BY DEF ShapeInv, Shape
  <2>4. /\ Cardinality(DOMAIN cache'.items) <= Cardinality(DOMAIN cache.items)
        /\ Cardinality(DOMAIN cache'.items) \in Nat
        /\ Cardinality(DOMAIN cache.items) \in Nat
    BY <2>2, <2>3, FS_Subset, FS_CardinalityType
  <2>5. Cardinality(DOMAIN cache'.items) <= Cap
    BY <2>4, LRUAssumption DEF ShapeInv
  <2> QED BY <2>2, <2>5 DEF ShapeInv, Shape
<1>2. ASSUME NEW r \in Requests, CacheSet(r) PROVE ShapeInv'
  <2>1. cache' = AfterSet(cache, req[r].key, [age |-> 0, data |-> req[r].flags])
    BY <1>2 DEF CacheSet
  <2>2. Shape(cache') /\ Cardinality(DOMAIN cache'.items) <= Cap
    BY <2>1, SetKeepsShape DEF ShapeInv
  <2> QED BY <2>2 DEF ShapeInv, Shape
<1>3. CASE Tick
  <2>1. cache' = Aged(cache)
    BY <1>3 DEF Tick
  <2>2. DOMAIN cache'.items = DOMAIN cache.items /\ cache'.order = cache.order
    BY <2>1 DEF Aged
  <2> QED BY <2>2 DEF ShapeInv, Shape
<1>4. ASSUME cache' = cache PROVE ShapeInv'
  BY <1>4 DEF ShapeInv, Shape
<1>5. CASE UNCHANGED vars
  BY <1>4, <1>5 DEF vars
<1>6. ASSUME NEW f \in Flags, NEW d \in BOOLEAN, RegisterFlags(f, d) PROVE ShapeInv'
  BY <1>4, <1>6 DEF RegisterFlags
<1>7. ASSUME NEW o \in Operators, NEW t \in Targets, NEW v \in BOOLEAN, UpdateOverride(o, t, v)
      PROVE  ShapeInv'
  BY <1>4, <1>7 DEF UpdateOverride
<1>8. ASSUME NEW o \in Operators, InsertOverride(o) PROVE ShapeInv'
  BY <1>4, <1>8 DEF InsertOverride
<1>9. ASSUME NEW t \in Targets, DeleteOverride(t) PROVE ShapeInv'
  BY <1>4, <1>9 DEF DeleteOverride
<1>10. ASSUME NEW r \in Requests, NEW p \in Principals, ListKeys(r, p) PROVE ShapeInv'
  BY <1>4, <1>10 DEF ListKeys
<1>11. ASSUME NEW r \in Requests, MakeCacheKey(r) \/ ListOverrides(r) PROVE ShapeInv'
  BY <1>4, <1>11 DEF MakeCacheKey, ListOverrides
<1>12. ASSUME NEW r \in Requests, NEW f \in Flags, ComputeFlag(r, f) PROVE ShapeInv'
  BY <1>4, <1>12 DEF ComputeFlag
<1> QED BY <1>1, <1>2, <1>3, <1>5, <1>6, <1>7, <1>8, <1>9, <1>10, <1>11, <1>12 DEF Next

LEMMA ShapeIsConsistent == ShapeInv => CacheIsConsistent
<1> SUFFICES ASSUME ShapeInv PROVE CacheIsConsistent
  OBVIOUS
<1>1. \A i \in 1..Len(cache.order) : cache.order[i] \in DOMAIN cache.items
  BY DEF ShapeInv, Shape
<1> QED BY <1>1 DEF ShapeInv, Shape, CacheIsConsistent, Consistent

\* The order of the flag cache always lists each cached key exactly once and
\* nothing else, and the cache never exceeds its capacity, for any capacity,
\* any number of requests and any interleaving of their gets and sets.
THEOREM CacheStaysConsistent == Spec => []CacheIsConsistent
<1>1. Spec => []ShapeInv
  BY ShapeAtTheStart, StepsKeepShape, PTL DEF Spec
<1> QED BY <1>1, ShapeIsConsistent, PTL

-----------------------------------------------------------------------------
(* The types.                                                              *)

SomeRows == UNION {[S -> BOOLEAN] : S \in SUBSET Targets}

\* A row that an operator will insert, and a request by its stage.
Insertion == [target : Targets, value : BOOLEAN]
Listing == [stage : {"listed"}, p : Principals, keys : SUBSET Flags, lag : 0..MaxFetch]
Fetching == [stage : {"keyed", "missed"}, key : Keys, keys : SUBSET Flags, lag : 0..MaxFetch]
Computing == [stage : {"computing"}, key : Keys, todo : SUBSET Flags, rows : SomeRows,
              flags : SomeFlags, lag : 0..MaxFetch]

RegistryTyped ==
    /\ registered \in SomeFlags
    /\ changes \in 0..MaxChanges
    /\ version \in 0..(Cardinality(Flags) + changes)

TableTyped == overrides \in SomeRows /\ inserting \in [Operators -> Insertion \cup {None}]

RequestsTyped == req \in [Requests -> {Idle} \cup Listing \cup Fetching \cup Computing]

CacheTyped ==
    /\ DOMAIN cache.items \subseteq Keys
    /\ \A k \in DOMAIN cache.items :
         cache.items[k].age \in 0..(TTL + 1) /\ cache.items[k].data \in SomeFlags

Typed == RegistryTyped /\ TableTyped /\ RequestsTyped /\ CacheTyped /\ quiet \in Nat

LEMMA Bounds ==
    /\ MaxChanges \in Nat /\ MaxFetch \in Nat /\ TTL \in Nat /\ Cap \in Nat
    /\ IsFiniteSet(Flags) /\ Cardinality(Flags) \in Nat
    /\ MaxVersion = Cardinality(Flags) + MaxChanges /\ MaxVersion \in Nat
    /\ MaxLag = TTL + MaxFetch /\ MaxLag \in Nat
BY FlagsAssumption, LRUAssumption, FS_CardinalityType DEF MaxVersion, MaxLag

\* What a request of each stage has.
LEMMA Stages ==
    ASSUME RequestsTyped, NEW r \in Requests
    PROVE  /\ req[r].stage \in {"idle", "listed", "keyed", "missed", "computing"}
           /\ req[r].stage = "idle" <=> req[r] = Idle
           /\ req[r].stage = "listed" => req[r] \in Listing
           /\ req[r].stage \in {"keyed", "missed"} => req[r] \in Fetching
           /\ req[r].stage = "computing" => req[r] \in Computing
           /\ req[r].stage # "idle" => req[r].lag \in 0..MaxFetch
<1>1. req[r] \in {Idle} \cup Listing \cup Fetching \cup Computing
  BY DEF RequestsTyped
<1>2. CASE req[r] = Idle
  BY <1>2 DEF Idle
<1>3. CASE req[r] \in Listing
  BY <1>3 DEF Listing, Idle
<1>4. CASE req[r] \in Fetching
  BY <1>4 DEF Fetching, Idle
<1>5. CASE req[r] \in Computing
  BY <1>5 DEF Computing, Idle
<1> QED BY <1>1, <1>2, <1>3, <1>4, <1>5

\* A function that is given a value at a place is one with a larger domain.
LEMMA PutTyped ==
    ASSUME NEW S, NEW f \in UNION {[T -> BOOLEAN] : T \in SUBSET S}, NEW x \in S, NEW y \in BOOLEAN
    PROVE  /\ Put(f, x, y) \in UNION {[T -> BOOLEAN] : T \in SUBSET S}
           /\ DOMAIN Put(f, x, y) = DOMAIN f \cup {x}
           /\ \A z \in DOMAIN f \cup {x} : Put(f, x, y)[z] = IF z = x THEN y ELSE f[z]
<1>1. PICK T \in SUBSET S : f \in [T -> BOOLEAN]
  OBVIOUS
<1>2. Put(f, x, y) \in [T \cup {x} -> BOOLEAN] /\ T \cup {x} \in SUBSET S
  BY <1>1 DEF Put
<1>3. DOMAIN Put(f, x, y) = DOMAIN f \cup {x}
      /\ \A z \in DOMAIN f \cup {x} : Put(f, x, y)[z] = IF z = x THEN y ELSE f[z]
  BY DEF Put
<1> QED BY <1>2, <1>3

\* What get and set do to the entries: get may drop the one of the key, set
\* stores it and may drop any.
LEMMA EntriesOfGet ==
    ASSUME NEW c, NEW k
    PROVE  /\ DOMAIN AfterGet(c, k).items \subseteq DOMAIN c.items
           /\ \A x \in DOMAIN AfterGet(c, k).items : AfterGet(c, k).items[x] = c.items[x]
<1>1. CASE k \notin DOMAIN c.items
  BY <1>1 DEF AfterGet
<1>2. CASE k \in DOMAIN c.items /\ Hit(c, k)
  BY <1>2 DEF AfterGet
<1>3. CASE k \in DOMAIN c.items /\ ~Hit(c, k)
  <2>1. AfterGet(c, k).items = Without(c.items, {k})
    BY <1>3 DEF AfterGet
  <2> QED BY <2>1 DEF Without
<1> QED BY <1>1, <1>2, <1>3

LEMMA EntriesOfSet ==
    ASSUME NEW c, NEW k, NEW entry
    PROVE  /\ DOMAIN AfterSet(c, k, entry).items \subseteq DOMAIN c.items \cup {k}
           /\ \A x \in DOMAIN AfterSet(c, k, entry).items :
                AfterSet(c, k, entry).items[x] = IF x = k THEN entry ELSE c.items[x]
<1> DEFINE items == [x \in DOMAIN c.items \cup {k} |-> IF x = k THEN entry ELSE c.items[x]]
           d == [items |-> items,
                 order |-> IF k \in DOMAIN c.items THEN Touch(c.order, k) ELSE Append(c.order, k)]
<1>1. AfterSet(c, k, entry) = Evict(d)
  BY DEF AfterSet
<1>2. d.items = items
  OBVIOUS
<1> HIDE DEF d
<1>3. CASE Cardinality(DOMAIN d.items) <= Cap
  BY <1>1, <1>2, <1>3 DEF Evict
<1>4. CASE ~(Cardinality(DOMAIN d.items) <= Cap)
  <2>1. AfterSet(c, k, entry).items = Without(items, {Head(d.order)})
    BY <1>1, <1>2, <1>4 DEF Evict
  <2> QED BY <2>1 DEF Without
<1> QED BY <1>3, <1>4

LEMMA TypedAtTheStart == Init => Typed
<1> SUFFICES ASSUME Init PROVE Typed
  OBVIOUS
<1>1. registered \in SomeFlags /\ DOMAIN registered \subseteq Flags
  BY DEF Init, SomeFlags
<1>2. Cardinality(DOMAIN registered) \in Nat /\ Cardinality(DOMAIN registered) <= Cardinality(Flags)
  BY <1>1, Bounds, FS_Subset, FS_CardinalityType
<1>3. RegistryTyped
  BY <1>1, <1>2, Bounds DEF Init, RegistryTyped
<1>4. overrides \in SomeRows
  BY FlagsAssumption DEF Init, SomeRows
<1>5. TableTyped /\ RequestsTyped
  BY <1>4 DEF Init, TableTyped, RequestsTyped
<1>6. DOMAIN cache.items = {}
  BY DEF Init, EmptyCache
<1> QED BY <1>3, <1>5, <1>6 DEF Init, Typed, CacheTyped

LEMMA StepsKeepRegistry == Typed /\ [Next]_vars => RegistryTyped'
<1> SUFFICES ASSUME Typed, [Next]_vars PROVE RegistryTyped'
  OBVIOUS
<1> USE DEF Typed, RegistryTyped
<1>1. ASSUME NEW f \in Flags, NEW d \in BOOLEAN, RegisterFlags(f, d) PROVE RegistryTyped'
  <2>1. registered' \in SomeFlags
    BY <1>1, PutTyped DEF RegisterFlags, SomeFlags
  <2>2. changes' \in 0..MaxChanges /\ version' \in 0..(Cardinality(Flags) + changes')
    BY <1>1, Bounds DEF RegisterFlags
  <2> QED BY <2>1, <2>2
<1>2. ASSUME NEW t \in Targets, NEW o \in Operators, NEW v \in BOOLEAN,
             UpdateOverride(o, t, v) PROVE RegistryTyped'
  <2>1. registered' = registered /\ version' = version /\ changes' = changes + 1 /\ changes < MaxChanges
    BY <1>2 DEF UpdateOverride
  <2> QED BY <2>1, Bounds
<1>3. ASSUME NEW t \in Targets, DeleteOverride(t) PROVE RegistryTyped'
  <2>1. registered' = registered /\ version' = version /\ changes' = changes + 1 /\ changes < MaxChanges
    BY <1>3 DEF DeleteOverride
  <2> QED BY <2>1, Bounds
<1>4. ASSUME UNCHANGED <<registered, version, changes>> PROVE RegistryTyped'
  BY <1>4
<1>5. ASSUME NEW o \in Operators, InsertOverride(o) PROVE RegistryTyped'
  BY <1>4, <1>5 DEF InsertOverride
<1>6. ASSUME NEW r \in Requests, NEW p \in Principals, ListKeys(r, p) PROVE RegistryTyped'
  BY <1>4, <1>6 DEF ListKeys
<1>7. ASSUME NEW r \in Requests,
             MakeCacheKey(r) \/ CacheGet(r) \/ ListOverrides(r) \/ CacheSet(r) PROVE RegistryTyped'
  BY <1>4, <1>7 DEF MakeCacheKey, CacheGet, ListOverrides, CacheSet
<1>8. ASSUME NEW r \in Requests, NEW f \in Flags, ComputeFlag(r, f) PROVE RegistryTyped'
  BY <1>4, <1>8 DEF ComputeFlag
<1>9. CASE Tick \/ UNCHANGED vars
  BY <1>4, <1>9 DEF Tick, vars
<1> QED BY <1>1, <1>2, <1>3, <1>5, <1>6, <1>7, <1>8, <1>9 DEF Next

LEMMA StepsKeepTable == Typed /\ [Next]_vars => TableTyped'
<1> SUFFICES ASSUME Typed, [Next]_vars PROVE TableTyped'
  OBVIOUS
<1> USE DEF Typed, TableTyped
<1>1. ASSUME NEW o \in Operators, NEW t \in Targets, NEW v \in BOOLEAN, UpdateOverride(o, t, v) PROVE TableTyped'
  <2>1. Put(overrides, t, v) \in SomeRows
    BY PutTyped DEF SomeRows
  <2>2. [target |-> t, value |-> v] \in Insertion
    BY DEF Insertion
  <2> QED BY <1>1, <2>1, <2>2 DEF UpdateOverride
<1>2. ASSUME NEW o \in Operators, InsertOverride(o) PROVE TableTyped'
  <2>1. inserting[o].target \in Targets /\ inserting[o].value \in BOOLEAN
    BY <1>2 DEF InsertOverride, Insertion
  <2>2. Put(overrides, inserting[o].target, inserting[o].value) \in SomeRows
    BY <2>1, PutTyped DEF SomeRows
  <2> QED BY <1>2, <2>2 DEF InsertOverride
<1>3. ASSUME NEW t \in Targets, DeleteOverride(t) PROVE TableTyped'
  <2>1. PICK T \in SUBSET Targets : overrides \in [T -> BOOLEAN]
    BY DEF SomeRows
  <2>2. Without(overrides, {t}) \in [T \ {t} -> BOOLEAN] /\ T \ {t} \in SUBSET Targets
    BY <2>1 DEF Without
  <2>3. Without(overrides, {t}) \in SomeRows
    BY <2>2 DEF SomeRows
  <2> QED BY <1>3, <2>3 DEF DeleteOverride
<1>4. ASSUME UNCHANGED <<overrides, inserting>> PROVE TableTyped'
  BY <1>4
<1>5. ASSUME NEW f \in Flags, NEW d \in BOOLEAN, RegisterFlags(f, d) PROVE TableTyped'
  BY <1>4, <1>5 DEF RegisterFlags
<1>6. ASSUME NEW r \in Requests, NEW p \in Principals, ListKeys(r, p) PROVE TableTyped'
  BY <1>4, <1>6 DEF ListKeys
<1>7. ASSUME NEW r \in Requests,
             MakeCacheKey(r) \/ CacheGet(r) \/ ListOverrides(r) \/ CacheSet(r) PROVE TableTyped'
  BY <1>4, <1>7 DEF MakeCacheKey, CacheGet, ListOverrides, CacheSet
<1>8. ASSUME NEW r \in Requests, NEW f \in Flags, ComputeFlag(r, f) PROVE TableTyped'
  BY <1>4, <1>8 DEF ComputeFlag
<1>9. CASE Tick \/ UNCHANGED vars
  BY <1>4, <1>9 DEF Tick, vars
<1> QED BY <1>1, <1>2, <1>3, <1>5, <1>6, <1>7, <1>8, <1>9 DEF Next

\* A request becomes one of a stage, the others stay as they are.
LEMMA BecomesTyped ==
    ASSUME RequestsTyped, NEW r \in Requests, NEW state, Becomes(r, state),
           state \in {Idle} \cup Listing \cup Fetching \cup Computing
    PROVE  RequestsTyped'
BY DEF RequestsTyped, Becomes

\* The rows that are seen are some of the table's.
LEMMA SeenTyped ==
    ASSUME overrides \in SomeRows, NEW seen \in SUBSET DOMAIN overrides
    PROVE  [t \in seen |-> overrides[t]] \in SomeRows
<1>1. PICK T \in SUBSET Targets : overrides \in [T -> BOOLEAN]
  BY DEF SomeRows
<1>2. [t \in seen |-> overrides[t]] \in [seen -> BOOLEAN] /\ seen \in SUBSET Targets
  BY <1>1
<1> QED BY <1>2 DEF SomeRows

LEMMA DefaultTyped == ASSUME RegistryTyped, NEW f PROVE Default(f) \in BOOLEAN
<1>1. PICK T \in SUBSET Flags : registered \in [T -> BOOLEAN]
  BY DEF RegistryTyped, SomeFlags
<1> QED BY <1>1 DEF Default

LEMMA ComputedTyped ==
    ASSUME NEW rows, NEW f, NEW d \in BOOLEAN PROVE ComputeEffective(rows, f, d) \in BOOLEAN
<1>1. \A type : (TRUE \in Given(rows, f, type)) \in BOOLEAN
  OBVIOUS
<1>2. ComputeEffective(rows, f, d) = d \/ \E type : ComputeEffective(rows, f, d) = (TRUE \in Given(rows, f, type))
  BY DEF ComputeEffective
<1> QED BY <1>1, <1>2

LEMMA StepsKeepRequests == Typed /\ [Next]_vars => RequestsTyped'
<1> SUFFICES ASSUME Typed, [Next]_vars PROVE RequestsTyped'
  OBVIOUS
<1>0. RequestsTyped /\ RegistryTyped /\ TableTyped
  BY DEF Typed
<1>1. ASSUME NEW r \in Requests, NEW p \in Principals, ListKeys(r, p) PROVE RequestsTyped'
  <2> DEFINE state == [stage |-> "listed", p |-> p, keys |-> DOMAIN registered, lag |-> 0]
  <2>1. DOMAIN registered \subseteq Flags
    BY <1>0 DEF RegistryTyped, SomeFlags
  <2>2. state \in Listing
    BY <2>1, Bounds DEF Listing
  <2>3. Becomes(r, state)
    BY <1>1 DEF ListKeys
  <2> QED BY <1>0, <2>2, <2>3, BecomesTyped
<1>2. ASSUME NEW r \in Requests, MakeCacheKey(r) PROVE RequestsTyped'
  <2> DEFINE state == [stage |-> "keyed", key |-> [p |-> req[r].p, ver |-> version],
                       keys |-> req[r].keys, lag |-> req[r].lag]
  <2>1. req[r] \in Listing
    BY <1>0, <1>2, Stages DEF MakeCacheKey
  <2>2. version \in 0..MaxVersion
    BY <1>0, Bounds DEF RegistryTyped
  <2>3. state \in Fetching
    BY <2>1, <2>2 DEF Listing, Fetching, Keys
  <2>4. Becomes(r, state)
    BY <1>2 DEF MakeCacheKey
  <2> QED BY <1>0, <2>3, <2>4, BecomesTyped
<1>3. ASSUME NEW r \in Requests, CacheGet(r) PROVE RequestsTyped'
  <2> DEFINE state == IF Hit(cache, req[r].key) THEN Idle
                      ELSE [stage |-> "missed", key |-> req[r].key,
                            keys |-> req[r].keys, lag |-> req[r].lag]
  <2>1. req[r] \in Fetching
    BY <1>0, <1>3, Stages DEF CacheGet
  <2>2. state \in {Idle} \cup Fetching
    BY <2>1 DEF Fetching
  <2>3. Becomes(r, state)
    BY <1>3 DEF CacheGet
  <2> QED BY <1>0, <2>2, <2>3, BecomesTyped
<1>4. ASSUME NEW r \in Requests, ListOverrides(r) PROVE RequestsTyped'
  <2>1. req[r] \in Fetching
    BY <1>0, <1>4, Stages DEF ListOverrides
  <2>2. PICK seen \in SUBSET Selected(overrides, req[r].keys, req[r].key.p) :
          Becomes(r, [stage |-> "computing", key |-> req[r].key, todo |-> req[r].keys,
                      rows |-> [t \in seen |-> overrides[t]],
                      flags |-> [f \in {} |-> FALSE], lag |-> req[r].lag])
    BY <1>4 DEF ListOverrides
  <2> DEFINE rows == [t \in seen |-> overrides[t]]
             flags == [f \in {} |-> FALSE]
  <2>3. rows \in SomeRows
    BY <1>0, SeenTyped DEF TableTyped, Selected
  <2>4. flags \in SomeFlags
    <3>1. {} \in SUBSET Flags /\ flags \in [{} -> BOOLEAN]
      OBVIOUS
    <3> QED BY <3>1 DEF SomeFlags
  <2> HIDE DEF rows, flags
  <2>5. [stage |-> "computing", key |-> req[r].key, todo |-> req[r].keys,
         rows |-> rows, flags |-> flags, lag |-> req[r].lag] \in Computing
    BY <2>1, <2>3, <2>4 DEF Fetching, Computing
  <2> QED BY <1>0, <2>2, <2>5, BecomesTyped DEF rows, flags
<1>5. ASSUME NEW r \in Requests, NEW f \in Flags, ComputeFlag(r, f) PROVE RequestsTyped'
  <2> DEFINE flags == Put(req[r].flags, f, ComputeEffective(req[r].rows, f, Default(f)))
  <2>1. req[r] \in Computing
    BY <1>0, <1>5, Stages DEF ComputeFlag
  <2>2. ComputeEffective(req[r].rows, f, Default(f)) \in BOOLEAN
    BY <1>0, DefaultTyped, ComputedTyped
  <2>3. flags \in SomeFlags
    BY <2>1, <2>2, PutTyped DEF Computing, SomeFlags
  <2>4. Becomes(r, [stage |-> "computing", key |-> req[r].key, todo |-> req[r].todo \ {f},
                    rows |-> req[r].rows, lag |-> req[r].lag, flags |-> flags])
    BY <1>5 DEF ComputeFlag
  <2> HIDE DEF flags
  <2>5. [stage |-> "computing", key |-> req[r].key, todo |-> req[r].todo \ {f},
         rows |-> req[r].rows, lag |-> req[r].lag, flags |-> flags] \in Computing
    BY <2>1, <2>3 DEF Computing
  <2> QED BY <1>0, <2>4, <2>5, BecomesTyped
<1>6. ASSUME NEW r \in Requests, CacheSet(r) PROVE RequestsTyped'
  BY <1>0, <1>6, BecomesTyped DEF CacheSet
<1>7. CASE Tick
  <2> SUFFICES ASSUME NEW r \in Requests
               PROVE  (IF req[r].stage = "idle" THEN req[r] ELSE [req[r] EXCEPT !.lag = @ + 1])
                        \in {Idle} \cup Listing \cup Fetching \cup Computing
    BY <1>7 DEF Tick, RequestsTyped
  <2>1. CASE req[r].stage = "idle"
    BY <1>0, <2>1, Stages
  <2>2. CASE req[r].stage # "idle"
    <3>1. req[r].lag + 1 \in 0..MaxFetch
      <4>1. req[r].lag \in 0..MaxFetch /\ req[r].lag < MaxFetch
        BY <1>0, <1>7, <2>2, Stages DEF Tick
      <4> QED BY <4>1, Bounds
    <3>2. req[r] \in Listing => [req[r] EXCEPT !.lag = @ + 1] \in Listing
      BY <3>1 DEF Listing
    <3>3. req[r] \in Fetching => [req[r] EXCEPT !.lag = @ + 1] \in Fetching
      BY <3>1 DEF Fetching
    <3>4. req[r] \in Computing => [req[r] EXCEPT !.lag = @ + 1] \in Computing
      BY <3>1 DEF Computing
    <3> QED BY <1>0, <2>2, <3>2, <3>3, <3>4, Stages
  <2> QED BY <2>1, <2>2
<1>8. ASSUME req' = req PROVE RequestsTyped'
  BY <1>0, <1>8 DEF RequestsTyped
<1>9. ASSUME NEW o \in Operators, NEW t \in Targets, NEW v \in BOOLEAN,
             UpdateOverride(o, t, v) PROVE RequestsTyped'
  BY <1>8, <1>9 DEF UpdateOverride
<1>10. ASSUME NEW f \in Flags, NEW d \in BOOLEAN, RegisterFlags(f, d) PROVE RequestsTyped'
  BY <1>8, <1>10 DEF RegisterFlags
<1>11. CASE UNCHANGED vars
  BY <1>8, <1>11 DEF vars
<1>12. ASSUME NEW o \in Operators, InsertOverride(o) PROVE RequestsTyped'
  BY <1>8, <1>12 DEF InsertOverride
<1>13. ASSUME NEW t \in Targets, DeleteOverride(t) PROVE RequestsTyped'
  BY <1>8, <1>13 DEF DeleteOverride
<1> QED BY <1>1, <1>2, <1>3, <1>4, <1>5, <1>6, <1>7, <1>9, <1>10, <1>11, <1>12, <1>13 DEF Next

LEMMA StepsKeepCache == Typed /\ [Next]_vars => CacheTyped' /\ quiet' \in Nat
<1> SUFFICES ASSUME Typed, [Next]_vars PROVE CacheTyped' /\ quiet' \in Nat
  OBVIOUS
<1>0. RequestsTyped /\ CacheTyped /\ quiet \in Nat
  BY DEF Typed
<1>1. ASSUME cache' = cache PROVE CacheTyped'
  BY <1>0, <1>1 DEF CacheTyped
<1>2. ASSUME NEW r \in Requests, CacheGet(r) PROVE CacheTyped' /\ quiet' \in Nat
  BY <1>0, <1>2, EntriesOfGet DEF CacheGet, CacheTyped
<1>3. ASSUME NEW r \in Requests, CacheSet(r) PROVE CacheTyped' /\ quiet' \in Nat
  <2>1. req[r] \in Computing
    BY <1>0, <1>3, Stages DEF CacheSet
  <2> DEFINE k == req[r].key
             entry == [age |-> 0, data |-> req[r].flags]
  <2>2. k \in Keys /\ entry.age \in 0..(TTL + 1) /\ entry.data \in SomeFlags
    BY <2>1, Bounds DEF Computing
  <2>3. cache' = AfterSet(cache, k, entry) /\ quiet' = quiet
    BY <1>3 DEF CacheSet
  <2> HIDE DEF k, entry
  <2> QED BY <1>0, <2>2, <2>3, EntriesOfSet DEF CacheTyped
<1>4. CASE Tick
  <2>1. /\ DOMAIN cache'.items = DOMAIN cache.items
        /\ \A k \in DOMAIN cache.items :
             /\ cache'.items[k].age = Older(cache.items[k].age)
             /\ cache'.items[k].data = cache.items[k].data
    BY <1>4 DEF Tick, Aged
  <2>2. \A age \in 0..(TTL + 1) : Older(age) \in 0..(TTL + 1)
    BY Bounds DEF Older
  <2>3. quiet' \in Nat
    BY <1>0, <1>4 DEF Tick
  <2> QED BY <1>0, <2>1, <2>2, <2>3 DEF CacheTyped
<1>5. ASSUME NEW o \in Operators, NEW t \in Targets, NEW v \in BOOLEAN, UpdateOverride(o, t, v)
      PROVE  CacheTyped' /\ quiet' \in Nat
  BY <1>0, <1>1, <1>5 DEF UpdateOverride
<1>6. ASSUME NEW o \in Operators, InsertOverride(o) PROVE CacheTyped' /\ quiet' \in Nat
  BY <1>0, <1>1, <1>6 DEF InsertOverride
<1>7. ASSUME NEW t \in Targets, DeleteOverride(t) PROVE CacheTyped' /\ quiet' \in Nat
  BY <1>0, <1>1, <1>7 DEF DeleteOverride
<1>8. ASSUME NEW f \in Flags, NEW d \in BOOLEAN, RegisterFlags(f, d) PROVE CacheTyped' /\ quiet' \in Nat
  BY <1>0, <1>1, <1>8 DEF RegisterFlags
<1>9. ASSUME NEW r \in Requests, NEW p \in Principals, ListKeys(r, p) PROVE CacheTyped' /\ quiet' \in Nat
  BY <1>0, <1>1, <1>9 DEF ListKeys
<1>10. ASSUME NEW r \in Requests, MakeCacheKey(r) \/ ListOverrides(r) PROVE CacheTyped' /\ quiet' \in Nat
  <2>1. cache' = cache /\ quiet' \in {quiet, 0}
    BY <1>10 DEF MakeCacheKey, ListOverrides
  <2> QED BY <1>0, <1>1, <2>1
<1>11. ASSUME NEW r \in Requests, NEW f \in Flags, ComputeFlag(r, f) PROVE CacheTyped' /\ quiet' \in Nat
  BY <1>0, <1>1, <1>11 DEF ComputeFlag
<1>12. CASE UNCHANGED vars
  BY <1>0, <1>1, <1>12 DEF vars
<1> QED BY <1>2, <1>3, <1>4, <1>5, <1>6, <1>7, <1>8, <1>9, <1>10, <1>11, <1>12 DEF Next

LEMMA StepsKeepTypes == Typed /\ [Next]_vars => Typed'
BY StepsKeepRegistry, StepsKeepTable, StepsKeepRequests, StepsKeepCache DEF Typed

\* The registry, the table, the cache and the requests are of their types: a
\* request that lists keys, fetches and computes has what its next read needs,
\* and a key that is cached is of a version the registry has had.
THEOREM TypesStay == Spec => []TypeOK
<1>1. Typed /\ ShapeInv => TypeOK
  <2> SUFFICES ASSUME Typed, ShapeInv PROVE TypeOK
    OBVIOUS
  <2>0. RegistryTyped /\ TableTyped /\ RequestsTyped /\ CacheTyped
    BY DEF Typed
  <2>1. version \in 0..MaxVersion
    BY <2>0, Bounds DEF RegistryTyped
  <2>2. DOMAIN overrides \subseteq Targets
    BY <2>0 DEF TableTyped, SomeRows
  <2>3. \A i \in DOMAIN cache.order : cache.order[i] \in Keys
    BY <2>0 DEF CacheTyped, ShapeInv, Shape
  <2>4. \A r \in Requests : req[r] # Idle => req[r].lag \in 0..MaxFetch
    BY <2>0, Stages
  <2> QED BY <2>0, <2>1, <2>2, <2>3, <2>4 DEF TypeOK, RegistryTyped, CacheTyped
<1> QED BY <1>1, TypedAtTheStart, StepsKeepTypes, ShapeAtTheStart, StepsKeepShape, PTL DEF Spec

-----------------------------------------------------------------------------
(* Precedence.                                                             *)

Type(t) == CHOOSE i \in DOMAIN Ranking : Ranking[i] = t.type

\* An override is of one type, and its place in the ranking is the type's.
LEMMA Types ==
    ASSUME NEW t \in Targets
    PROVE  \/ t.type = "user" /\ Type(t) = 1
           \/ t.type = "role" /\ Type(t) = 2
           \/ t.type = "tenant" /\ Type(t) = 3
           \/ t.type = "global" /\ Type(t) = 4
<1>1. DOMAIN Ranking = 1..4 /\ Ranking[1] = "user" /\ Ranking[2] = "role"
      /\ Ranking[3] = "tenant" /\ Ranking[4] = "global"
  BY DEF Ranking
<1> HIDE DEF Ranking
<1>2. PICK i \in 1..4 : t.type = Ranking[i]
  BY <1>1, FlagsAssumption
<1>3. Type(t) \in 1..4 /\ Ranking[Type(t)] = t.type
  BY <1>1, <1>2 DEF Type
<1>4. \A j \in 1..4 : j = 1 \/ j = 2 \/ j = 3 \/ j = 4
  OBVIOUS
<1> QED BY <1>1, <1>3, <1>4

\* computeEffective (effective.go) goes through the types by rank: from all
\* the rows that concern a request it finds what the strongest one says.
LEMMA ComputesEffective ==
    ASSUME RegistryTyped, overrides \in SomeRows, NEW keys, NEW p, NEW f \in keys, f \in DOMAIN registered,
           NEW rows, rows = [t \in Selected(overrides, keys, p) |-> overrides[t]]
    PROVE  ComputeEffective(rows, f, Default(f)) = Effective(f, p)
<1> DEFINE mine == Selected(overrides, {f}, p)
           of(type) == {t \in mine : t.type = type}
<1>1. \A t \in mine : t \in Targets /\ t \in DOMAIN rows /\ rows[t] = overrides[t] /\ overrides[t] \in BOOLEAN
  BY DEF Selected, SomeRows
<1>2. \A t \in DOMAIN rows : t.flag = f <=> t \in mine
  BY DEF Selected
<1>3. \A type : Given(rows, f, type) = {overrides[t] : t \in of(type)}
  BY <1>1, <1>2 DEF Given
<1>4. Default(f) = registered[f]
  <2>1. PICK T \in SUBSET Flags : registered \in [T -> BOOLEAN]
    BY DEF RegistryTyped, SomeFlags
  <2> QED BY <2>1 DEF Default
<1>5. Strongest(f, p) = {t \in mine : \A u \in mine : Type(t) <= Type(u)}
  BY DEF Strongest, Type
<1>6. Effective(f, p) = IF Strongest(f, p) = {} THEN registered[f] ELSE \E t \in Strongest(f, p) : overrides[t]
  BY DEF Effective
<1> HIDE DEF mine
<1> SUFFICES ComputeEffective(rows, f, Default(f)) <=> Effective(f, p)
  <2>1. Effective(f, p) \in BOOLEAN
    <3>1. registered[f] \in BOOLEAN
      BY <1>4, DefaultTyped
    <3> QED BY <1>6, <3>1
  <2>2. ComputeEffective(rows, f, Default(f)) \in BOOLEAN
    BY DefaultTyped, ComputedTyped
  <2> QED BY <2>1, <2>2
<1>7. \A t \in mine : \/ t \in of("user") /\ Type(t) = 1
                      \/ t \in of("role") /\ Type(t) = 2
                      \/ t \in of("tenant") /\ Type(t) = 3
                      \/ t \in of("global") /\ Type(t) = 4
  BY <1>1, Types
<1>8. ASSUME NEW type, of(type) # {}, Strongest(f, p) = of(type)
      PROVE  (TRUE \in Given(rows, f, type)) <=> Effective(f, p)
  <2>1. Effective(f, p) = \E t \in of(type) : overrides[t]
    BY <1>6, <1>8
  <2>2. (TRUE \in Given(rows, f, type)) <=> \E t \in of(type) : overrides[t] = TRUE
    <3>1. Given(rows, f, type) = {overrides[t] : t \in of(type)}
      BY <1>3
    <3> HIDE DEF of
    <3> QED BY <3>1
  <2>3. \A t \in of(type) : overrides[t] \in BOOLEAN
    BY <1>1
  <2> HIDE DEF of
  <2>4. (\E t \in of(type) : overrides[t] = TRUE) <=> \E t \in of(type) : overrides[t]
    BY <2>3
  <2> QED BY <2>1, <2>2, <2>4
<1>9. \A type : Given(rows, f, type) = {} <=> of(type) = {}
  BY <1>3
<1>10. CASE of("user") # {}
  <2>1. Strongest(f, p) = of("user")
    BY <1>5, <1>7, <1>10
  <2>2. ComputeEffective(rows, f, Default(f)) <=> TRUE \in Given(rows, f, "user")
    BY <1>9, <1>10, Zenon DEF ComputeEffective
  <2>3. (TRUE \in Given(rows, f, "user")) <=> Effective(f, p)
    BY <1>8, <1>10, <2>1
  <2> QED BY <2>2, <2>3
<1>11. CASE of("user") = {} /\ of("role") # {}
  <2>1. Strongest(f, p) = of("role")
    BY <1>5, <1>7, <1>11
  <2>2. ComputeEffective(rows, f, Default(f)) <=> TRUE \in Given(rows, f, "role")
    BY <1>9, <1>11, Zenon DEF ComputeEffective
  <2>3. (TRUE \in Given(rows, f, "role")) <=> Effective(f, p)
    BY <1>8, <1>11, <2>1
  <2> QED BY <2>2, <2>3
<1>12. CASE of("user") = {} /\ of("role") = {} /\ of("tenant") # {}
  <2>1. Strongest(f, p) = of("tenant")
    BY <1>5, <1>7, <1>12
  <2>2. ComputeEffective(rows, f, Default(f)) <=> TRUE \in Given(rows, f, "tenant")
    BY <1>9, <1>12, Zenon DEF ComputeEffective
  <2>3. (TRUE \in Given(rows, f, "tenant")) <=> Effective(f, p)
    BY <1>8, <1>12, <2>1
  <2> QED BY <2>2, <2>3
<1>13. CASE of("user") = {} /\ of("role") = {} /\ of("tenant") = {} /\ of("global") # {}
  <2>1. Strongest(f, p) = of("global")
    BY <1>5, <1>7, <1>13
  <2>2. ComputeEffective(rows, f, Default(f)) <=> TRUE \in Given(rows, f, "global")
    BY <1>9, <1>13, Zenon DEF ComputeEffective
  <2>3. (TRUE \in Given(rows, f, "global")) <=> Effective(f, p)
    BY <1>8, <1>13, <2>1
  <2> QED BY <2>2, <2>3
<1>14. CASE of("user") = {} /\ of("role") = {} /\ of("tenant") = {} /\ of("global") = {}
  <2>1. mine = {}
    BY <1>7, <1>14
  <2>2. Strongest(f, p) = {}
    BY <1>5, <2>1
  <2>3. ComputeEffective(rows, f, Default(f)) = Default(f)
    BY <1>9, <1>14, Zenon DEF ComputeEffective
  <2> QED BY <1>4, <1>6, <2>2, <2>3
<1> QED BY <1>10, <1>11, <1>12, <1>13, <1>14

-----------------------------------------------------------------------------
(* Freshness.                                                              *)

\* These flags are what they should be for a request that acts as p.
Right(p, flags) == \A f \in DOMAIN flags : flags[f] = Effective(f, p)

\* A request during which nothing has changed knows the keys, the rows and
\* the values as they are.
Timely(r) ==
    quiet > req[r].lag =>
      /\ req[r].stage \in {"listed", "keyed", "missed"} => req[r].keys = DOMAIN registered
      /\ req[r].stage = "computing" =>
           /\ req[r].rows = [t \in Selected(overrides, DOMAIN registered, req[r].key.p) |-> overrides[t]]
           /\ req[r].todo \cup DOMAIN req[r].flags = DOMAIN registered
           /\ Right(req[r].key.p, req[r].flags)

\* An entry that would be served is right if nothing has changed since its
\* request listed the keys, at the latest MaxFetch before it was stored.
EntryTimely(k) ==
    cache.items[k].age <= TTL /\ quiet > cache.items[k].age + MaxFetch =>
      /\ DOMAIN cache.items[k].data = DOMAIN registered
      /\ Right(k.p, cache.items[k].data)

FreshInv ==
    /\ \A r \in Requests : req[r].stage # "idle" => Timely(r)
    /\ \A k \in DOMAIN cache.items : EntryTimely(k)

LEMMA FreshAtTheStart == Init => FreshInv
<1> SUFFICES ASSUME Init PROVE FreshInv
  OBVIOUS
<1>1. DOMAIN cache.items = {}
  BY DEF Init, EmptyCache
<1> QED BY <1>1 DEF Init, FreshInv, Idle

\* A change makes everything that is fetched or cached suspect.
LEMMA ChangesStartAgain ==
    ASSUME Typed, req' = req, cache' = cache, quiet' = 0 PROVE FreshInv'
<1>1. \A r \in Requests : req[r].stage # "idle" => ~(0 > req[r].lag)
  BY Stages DEF Typed
<1>2. \A k \in DOMAIN cache.items : ~(0 > cache.items[k].age + MaxFetch)
  BY Bounds DEF Typed, CacheTyped
<1> QED BY <1>1, <1>2 DEF FreshInv, Timely, EntryTimely

\* While the registry, the table and the time stay, so does what they make
\* effective.
LEMMA OthersStayTimely ==
    ASSUME FreshInv, UNCHANGED <<registered, overrides, quiet>>, NEW r \in Requests,
           \A q \in Requests \ {r} : req'[q] = req[q],
           req'[r].stage # "idle" => Timely(r)',
           \A k \in DOMAIN cache'.items :
             \/ EntryTimely(k)'
             \/ k \in DOMAIN cache.items /\ cache'.items[k] = cache.items[k]
    PROVE  FreshInv'
<1>1. \A f, p : Effective(f, p)' = Effective(f, p)
  BY DEF Effective, Strongest, Selected
<1>2. \A q \in Requests \ {r} : req'[q].stage # "idle" => Timely(q)'
  <2> SUFFICES ASSUME NEW q \in Requests \ {r}, req'[q].stage # "idle" PROVE Timely(q)'
    OBVIOUS
  <2>1. Timely(q) /\ req'[q] = req[q]
    BY DEF FreshInv
  <2> QED BY <1>1, <2>1 DEF Timely, Right, Selected
<1>3. \A k \in DOMAIN cache'.items : EntryTimely(k)'
  <2> SUFFICES ASSUME NEW k \in DOMAIN cache.items, cache'.items[k] = cache.items[k] PROVE EntryTimely(k)'
    OBVIOUS
  <2>1. EntryTimely(k)
    BY DEF FreshInv
  <2> QED BY <1>1, <2>1 DEF EntryTimely, Right
<1> QED BY <1>2, <1>3 DEF FreshInv

LEMMA StepsStayFresh == Typed /\ FreshInv /\ [Next]_vars => FreshInv'
<1> SUFFICES ASSUME Typed, FreshInv, [Next]_vars PROVE FreshInv'
  OBVIOUS
<1>0. RequestsTyped /\ RegistryTyped /\ TableTyped /\ CacheTyped /\ quiet \in Nat
  BY DEF Typed
<1>1. ASSUME NEW f \in Flags, NEW d \in BOOLEAN, RegisterFlags(f, d) PROVE FreshInv'
  BY <1>1, ChangesStartAgain DEF RegisterFlags
<1>2. ASSUME UNCHANGED <<registered, overrides, quiet, req, cache>> PROVE FreshInv'
  <2>1. \A f, p : Effective(f, p)' = Effective(f, p)
    BY <1>2 DEF Effective, Strongest, Selected
  <2> QED BY <1>2, <2>1 DEF FreshInv, Timely, EntryTimely, Right, Selected
<1>3. ASSUME NEW o \in Operators, NEW t \in Targets, NEW v \in BOOLEAN, UpdateOverride(o, t, v) PROVE FreshInv'
  <2>1. CASE t \in DOMAIN overrides
    BY <1>3, <2>1, ChangesStartAgain DEF UpdateOverride
  <2>2. CASE t \notin DOMAIN overrides
    BY <1>2, <1>3, <2>2 DEF UpdateOverride
  <2> QED BY <2>1, <2>2
<1>4. ASSUME NEW o \in Operators, InsertOverride(o) PROVE FreshInv'
  <2>1. CASE inserting[o].target \notin DOMAIN overrides
    BY <1>4, <2>1, ChangesStartAgain DEF InsertOverride
  <2>2. CASE inserting[o].target \in DOMAIN overrides
    BY <1>2, <1>4, <2>2 DEF InsertOverride
  <2> QED BY <2>1, <2>2
<1>5. ASSUME NEW t \in Targets, DeleteOverride(t) PROVE FreshInv'
  BY <1>5, ChangesStartAgain DEF DeleteOverride
<1>6. ASSUME NEW r \in Requests, NEW p \in Principals, ListKeys(r, p) PROVE FreshInv'
  <2>1. /\ req' = [req EXCEPT ![r] = [stage |-> "listed", p |-> p, keys |-> DOMAIN registered, lag |-> 0]]
        /\ UNCHANGED <<registered, overrides, quiet, cache>>
    BY <1>6 DEF ListKeys, Becomes
  <2>2. req'[r] = [stage |-> "listed", p |-> p, keys |-> DOMAIN registered, lag |-> 0]
    BY <1>0, <2>1 DEF RequestsTyped
  <2>3. Timely(r)'
    BY <2>1, <2>2 DEF Timely
  <2> QED BY <1>0, <2>1, <2>3, OthersStayTimely DEF RequestsTyped
<1>7. ASSUME NEW r \in Requests, MakeCacheKey(r) PROVE FreshInv'
  <2> DEFINE state == [stage |-> "keyed", key |-> [p |-> req[r].p, ver |-> version],
                       keys |-> req[r].keys, lag |-> req[r].lag]
  <2>1. req' = [req EXCEPT ![r] = state] /\ UNCHANGED <<registered, overrides, quiet, cache>>
    BY <1>7 DEF MakeCacheKey, Becomes
  <2>2. req'[r] = state
    BY <1>0, <2>1 DEF RequestsTyped
  <2>3. Timely(r) /\ req[r].stage = "listed"
    BY <1>7 DEF MakeCacheKey, FreshInv
  <2>4. Timely(r)'
    BY <2>1, <2>2, <2>3 DEF Timely
  <2> QED BY <1>0, <2>1, <2>4, OthersStayTimely DEF RequestsTyped
<1>8. ASSUME NEW r \in Requests, CacheGet(r) PROVE FreshInv'
  <2> DEFINE k == req[r].key
             missed == [stage |-> "missed", key |-> k, keys |-> req[r].keys, lag |-> req[r].lag]
  <2>1. /\ req' = [req EXCEPT ![r] = IF Hit(cache, k) THEN Idle ELSE missed]
        /\ cache' = AfterGet(cache, k)
        /\ UNCHANGED <<registered, overrides, quiet>>
    BY <1>8 DEF CacheGet, Becomes
  <2>2. req'[r] = IF Hit(cache, k) THEN Idle ELSE missed
    BY <1>0, <2>1 DEF RequestsTyped
  <2>3. Timely(r) /\ req[r].stage = "keyed"
    BY <1>8 DEF CacheGet, FreshInv
  <2>4. req'[r].stage # "idle" => Timely(r)'
    BY <2>1, <2>2, <2>3 DEF Timely, Idle
  <2>5. \A x \in DOMAIN cache'.items : x \in DOMAIN cache.items /\ cache'.items[x] = cache.items[x]
    BY <2>1, EntriesOfGet
  <2> HIDE DEF k, missed
  <2>6. \A q \in Requests \ {r} : req'[q] = req[q]
    BY <1>0, <2>1 DEF RequestsTyped
  <2> QED BY <2>1, <2>4, <2>5, <2>6, OthersStayTimely
<1>9. ASSUME NEW r \in Requests, ListOverrides(r) PROVE FreshInv'
  <2> DEFINE all == Selected(overrides, req[r].keys, req[r].key.p)
             state(seen) == [stage |-> "computing", key |-> req[r].key, todo |-> req[r].keys,
                             rows |-> [t \in seen |-> overrides[t]],
                             flags |-> [f \in {} |-> FALSE], lag |-> req[r].lag]
  <2>1. PICK seen \in SUBSET all :
          req' = [req EXCEPT ![r] = state(seen)] /\ quiet' = IF seen = all THEN quiet ELSE 0
    BY <1>9 DEF ListOverrides, Becomes
  <2>2. UNCHANGED <<registered, overrides, cache>> /\ req[r].stage = "missed" /\ Timely(r)
    BY <1>9 DEF ListOverrides, FreshInv
  <2>3. req'[r] = state(seen) /\ \A q \in Requests \ {r} : req'[q] = req[q]
    BY <1>0, <2>1 DEF RequestsTyped
  <2>4. req[r].lag \in Nat
    BY <1>0, <2>2, Stages, Bounds
  <2>5. CASE seen = all
    <3>1. Timely(r)'
      BY <2>1, <2>2, <2>3, <2>5 DEF Timely, Right
    <3> QED BY <2>1, <2>2, <2>3, <2>5, <3>1, OthersStayTimely
  <2>6. CASE seen # all
    <3>1. quiet' = 0
      BY <2>1, <2>6
    <3>2. \A q \in Requests : req'[q].stage # "idle" => ~(quiet' > req'[q].lag)
      <4> SUFFICES ASSUME NEW q \in Requests, req'[q].stage # "idle" PROVE ~(quiet' > req'[q].lag)
        OBVIOUS
      <4>1. req'[q].lag = req[q].lag /\ (q # r => req'[q] = req[q])
        BY <2>3
      <4>2. req[q].lag \in Nat
        BY <1>0, <2>4, <4>1, Stages, Bounds
      <4> QED BY <3>1, <4>1, <4>2
    <3>3. \A x \in DOMAIN cache.items : ~(quiet' > cache.items[x].age + MaxFetch)
      BY <1>0, <3>1, Bounds DEF CacheTyped
    <3> QED BY <2>2, <3>2, <3>3 DEF FreshInv, Timely, EntryTimely
  <2> QED BY <2>5, <2>6
<1>10. ASSUME NEW r \in Requests, NEW f \in Flags, ComputeFlag(r, f) PROVE FreshInv'
  <2> DEFINE p == req[r].key.p
             flags == Put(req[r].flags, f, ComputeEffective(req[r].rows, f, Default(f)))
             state == [stage |-> "computing", key |-> req[r].key, todo |-> req[r].todo \ {f},
                       rows |-> req[r].rows, lag |-> req[r].lag, flags |-> flags]
  <2>1. req' = [req EXCEPT ![r] = state] /\ UNCHANGED <<registered, overrides, quiet, cache>>
        /\ req[r].stage = "computing" /\ f \in req[r].todo
    BY <1>10 DEF ComputeFlag, Becomes
  <2>2. req'[r] = state /\ \A q \in Requests \ {r} : req'[q] = req[q]
    BY <1>0, <2>1 DEF RequestsTyped
  <2>3. Timely(r) /\ req[r] \in Computing
    BY <1>0, <2>1, Stages DEF FreshInv
  <2>4. /\ DOMAIN flags = DOMAIN req[r].flags \cup {f}
        /\ \A x \in DOMAIN flags : flags[x] = IF x = f THEN ComputeEffective(req[r].rows, f, Default(f))
                                              ELSE req[r].flags[x]
    BY DEF Put
  <2> HIDE DEF flags
  <2>5. ASSUME quiet > req[r].lag
        PROVE  (req[r].todo \ {f}) \cup DOMAIN flags = DOMAIN registered /\ Right(p, flags)
    <3>1. /\ req[r].rows = [t \in Selected(overrides, DOMAIN registered, p) |-> overrides[t]]
          /\ req[r].todo \cup DOMAIN req[r].flags = DOMAIN registered
          /\ Right(p, req[r].flags)
      BY <2>1, <2>3, <2>5 DEF Timely
    <3>2. ComputeEffective(req[r].rows, f, Default(f)) = Effective(f, p)
      BY <1>0, <2>1, <3>1, ComputesEffective DEF TableTyped
    <3> QED BY <2>1, <2>4, <3>1, <3>2 DEF Right
  <2>6. \A x, y : Effective(x, y)' = Effective(x, y)
    BY <2>1 DEF Effective, Strongest, Selected
  <2>7. Timely(r)'
    <3>1. req'[r].stage = "computing" /\ req'[r].key = req[r].key /\ req'[r].todo = req[r].todo \ {f}
          /\ req'[r].rows = req[r].rows /\ req'[r].lag = req[r].lag /\ req'[r].flags = flags
      BY <2>2
    <3>2. quiet > req[r].lag => req[r].rows = [t \in Selected(overrides, DOMAIN registered, p) |-> overrides[t]]
      BY <2>1, <2>3 DEF Timely
    <3>3. \A x : Selected(overrides, DOMAIN registered, x)' = Selected(overrides, DOMAIN registered, x)
      BY <2>1 DEF Selected
    <3> HIDE DEF state
    <3>4. ASSUME quiet > req[r].lag
          PROVE  /\ req[r].rows = [t \in Selected(overrides, DOMAIN registered, p) |-> overrides[t]]
                 /\ (req[r].todo \ {f}) \cup DOMAIN flags = DOMAIN registered
                 /\ \A x \in DOMAIN flags : flags[x] = Effective(x, p)
      BY <2>5, <3>2, <3>4 DEF Right
    <3> QED BY <2>1, <2>6, <3>1, <3>3, <3>4 DEF Timely, Right
  <2> QED BY <2>1, <2>2, <2>7, OthersStayTimely
<1>11. ASSUME NEW r \in Requests, CacheSet(r) PROVE FreshInv'
  <2> DEFINE k == req[r].key
             entry == [age |-> 0, data |-> req[r].flags]
  <2>1. /\ req' = [req EXCEPT ![r] = Idle] /\ cache' = AfterSet(cache, k, entry)
        /\ UNCHANGED <<registered, overrides, quiet>>
        /\ req[r].stage = "computing" /\ req[r].todo = {}
    BY <1>11 DEF CacheSet, Becomes
  <2>2. req'[r] = Idle /\ \A q \in Requests \ {r} : req'[q] = req[q]
    BY <1>0, <2>1 DEF RequestsTyped
  <2>3. Timely(r) /\ req[r].lag \in 0..MaxFetch
    BY <1>0, <2>1, Stages DEF FreshInv
  <2>4. \A x \in DOMAIN cache'.items :
          \/ x = k /\ cache'.items[x] = entry
          \/ x \in DOMAIN cache.items /\ cache'.items[x] = cache.items[x]
    <3> HIDE DEF k, entry
    <3> QED BY <2>1, EntriesOfSet
  <2>5. \A x, y : Effective(x, y)' = Effective(x, y)
    BY <2>1 DEF Effective, Strongest, Selected
  <2>6. ASSUME quiet > entry.age + MaxFetch
        PROVE  DOMAIN entry.data = DOMAIN registered /\ Right(k.p, entry.data)
    <3>1. quiet > req[r].lag
      BY <1>0, <2>3, <2>6, Bounds
    <3> QED BY <2>1, <2>3, <3>1 DEF Timely
  <2> HIDE DEF k, entry
  <2>7. ASSUME NEW x \in DOMAIN cache'.items, x = k, cache'.items[x] = entry PROVE EntryTimely(x)'
    BY <2>1, <2>5, <2>6, <2>7 DEF EntryTimely, Right
  <2> QED BY <2>1, <2>2, <2>4, <2>7, OthersStayTimely DEF Idle
<1>12. CASE Tick
  <2>1. /\ UNCHANGED <<registered, overrides>>
        /\ quiet' = IF quiet > MaxLag THEN quiet ELSE quiet + 1
        /\ \A r \in Requests : req'[r] = IF req[r].stage = "idle" THEN req[r] ELSE [req[r] EXCEPT !.lag = @ + 1]
    BY <1>12 DEF Tick
  <2>2. /\ DOMAIN cache'.items = DOMAIN cache.items
        /\ \A k \in DOMAIN cache.items :
             /\ cache'.items[k].age = Older(cache.items[k].age)
             /\ cache'.items[k].data = cache.items[k].data
    BY <1>12 DEF Tick, Aged
  <2>3. \A x, y : Effective(x, y)' = Effective(x, y)
    BY <2>1 DEF Effective, Strongest, Selected
  <2>4. ASSUME NEW r \in Requests, req'[r].stage # "idle" PROVE Timely(r)'
    <3>1. req[r].stage # "idle" /\ req'[r] = [req[r] EXCEPT !.lag = @ + 1]
      BY <2>1, <2>4
    <3>2. Timely(r) /\ req[r].lag \in 0..MaxFetch
      BY <1>0, <3>1, Stages DEF FreshInv
    <3>3. /\ req'[r].stage = req[r].stage
          /\ req[r].stage \in {"listed", "keyed", "missed"} => req'[r].keys = req[r].keys
          /\ req[r].stage = "computing" => /\ req'[r].key = req[r].key /\ req'[r].rows = req[r].rows
                                           /\ req'[r].todo = req[r].todo /\ req'[r].flags = req[r].flags
      BY <3>1
    <3>4. req'[r].lag = req[r].lag + 1
      <4>1. req[r] \in Listing \/ req[r] \in Fetching \/ req[r] \in Computing
        BY <1>0, <3>1, Stages
      <4> QED BY <3>1, <4>1 DEF Listing, Fetching, Computing
    <3>5. quiet' > req'[r].lag => quiet > req[r].lag
      BY <1>0, <2>1, <3>2, <3>4, Bounds
    <3> QED BY <2>1, <2>3, <3>2, <3>3, <3>5 DEF Timely, Right, Selected
  <2>5. ASSUME NEW k \in DOMAIN cache.items PROVE EntryTimely(k)'
    <3>1. EntryTimely(k) /\ cache.items[k].age \in 0..(TTL + 1)
      BY <1>0 DEF FreshInv, CacheTyped
    <3>2. cache'.items[k].age <= TTL /\ quiet' > cache'.items[k].age + MaxFetch
            => cache.items[k].age <= TTL /\ quiet > cache.items[k].age + MaxFetch
      BY <1>0, <2>1, <2>2, <3>1, Bounds DEF Older
    <3> QED BY <2>1, <2>2, <2>3, <3>1, <3>2 DEF EntryTimely, Right
  <2> QED BY <2>2, <2>4, <2>5 DEF FreshInv
<1>13. CASE UNCHANGED vars
  BY <1>2, <1>13 DEF vars
<1> QED BY <1>1, <1>3, <1>4, <1>5, <1>6, <1>7, <1>8, <1>9, <1>10, <1>11, <1>12, <1>13 DEF Next

\* Whatever registrations, overrides, failed queries and other requests come
\* between the steps of a request, what it caches is served wrong for the time
\* to live of an entry and the time of a request at most: after that every
\* flag is what its strongest overrides say (middleware.go:54-72).
THEOREM StalenessEnds == Spec => []StaleForAWhileOnly
<1>1. Typed /\ FreshInv => StaleForAWhileOnly
  <2> SUFFICES ASSUME Typed, FreshInv, quiet > MaxLag, NEW k \in DOMAIN cache.items, Hit(cache, k),
                      NEW f \in DOMAIN registered
               PROVE  Enabled(cache.items[k].data, f) = Effective(f, k.p)
    BY DEF StaleForAWhileOnly
  <2>1. cache.items[k].age \in Nat /\ cache.items[k].age <= TTL /\ quiet \in Nat
    BY Bounds DEF Hit, Typed, CacheTyped
  <2>2. quiet > cache.items[k].age + MaxFetch
    BY <2>1, Bounds
  <2>3. DOMAIN cache.items[k].data = DOMAIN registered /\ cache.items[k].data[f] = Effective(f, k.p)
    BY <2>1, <2>2 DEF FreshInv, EntryTimely, Right
  <2>4. cache.items[k].data[f] \in BOOLEAN
    <3>1. PICK S \in SUBSET Flags : cache.items[k].data \in [S -> BOOLEAN]
      BY DEF Typed, CacheTyped, SomeFlags
    <3> QED BY <2>3, <3>1
  <2> DEFINE flags == cache.items[k].data
  <2> HIDE DEF flags
  <2>5. Enabled(flags, f) = flags[f]
    BY <2>3, <2>4 DEF Enabled, flags
  <2> QED BY <2>3, <2>5 DEF flags
<1> QED BY <1>1, TypedAtTheStart, StepsKeepTypes, FreshAtTheStart, StepsStayFresh, PTL DEF Spec

-----------------------------------------------------------------------------
(* Eviction.                                                               *)

\* A key whose place is before another's was last used before it.
Placed == \A x, y \in DOMAIN cache.items : Ordered(cache.order, x, y) => <<x, y>> \in older

LEMMA OrderOfGet ==
    ASSUME NEW c, Shape(c), NEW k, NEW x \in DOMAIN AfterGet(c, k).items, NEW y \in DOMAIN AfterGet(c, k).items,
           Ordered(AfterGet(c, k).order, x, y), k \in DOMAIN c.items
    PROVE  x # k /\ (y = k \/ Ordered(c.order, x, y))
<1>1. c.order \in Seq(DOMAIN c.items) /\ Distinct(c.order) /\ \A z \in DOMAIN c.items : In(z, c.order)
  BY DEF Shape
<1>2. CASE Hit(c, k)
  <2>1. AfterGet(c, k).order = Touch(c.order, k)
    BY <1>2 DEF AfterGet
  <2> QED BY <1>1, <2>1, TouchKeepsKeys
<1>3. CASE ~Hit(c, k)
  <2>1. AfterGet(c, k) = [items |-> Without(c.items, {k}), order |-> RemoveFromOrder(c.order, k)]
    BY <1>3 DEF AfterGet
  <2>2. x # k
    BY <2>1 DEF Without
  <2>3. Ordered(RemoveFromOrder(c.order, k), x, y) => Ordered(c.order, x, y)
    BY <1>1, RemovalCutsOne
  <2> QED BY <2>1, <2>2, <2>3
<1> QED BY <1>2, <1>3

\* The head of the order is before every other key.
LEMMA HeadIsFirst ==
    ASSUME NEW q, Len(q) \in Nat, NEW x, NEW y, q[1] = x, In(y, q), y # x
    PROVE  Ordered(q, x, y)
<1>1. PICK j \in 1..Len(q) : q[j] = y
  BY DEF In
<1>2. 1 < j /\ 1 \in 1..Len(q)
  BY <1>1
<1> QED BY <1>1, <1>2 DEF Ordered

\* Taking the head away changes the order of no others.
LEMMA TailKeepsOrder ==
    ASSUME NEW S, NEW q \in Seq(S), q # <<>>, NEW x, NEW y, Ordered(Tail(q), x, y)
    PROVE  Ordered(q, x, y)
<1>1. /\ Tail(q) \in Seq(S) /\ Len(Tail(q)) = Len(q) - 1
      /\ \A i \in 1..Len(Tail(q)) : Tail(q)[i] = q[i + 1]
  BY HeadTailProperties
<1>2. Len(q) \in Nat
  OBVIOUS
<1>3. PICK i, j \in 1..Len(Tail(q)) : i < j /\ Tail(q)[i] = x /\ Tail(q)[j] = y
  BY DEF Ordered
<1>4. i + 1 \in 1..Len(q) /\ j + 1 \in 1..Len(q) /\ i + 1 < j + 1 /\ q[i + 1] = x /\ q[j + 1] = y
  BY <1>1, <1>2, <1>3
<1> QED BY <1>4 DEF Ordered

\* set puts its key last, and takes the head of the order away if the cache
\* was full and the key is new.
LEMMA OrderOfSet ==
    ASSUME NEW c, Shape(c), Cardinality(DOMAIN c.items) <= Cap, NEW k, NEW entry
    PROVE  /\ \A x, y : Ordered(AfterSet(c, k, entry).order, x, y) => x # k /\ (y = k \/ Ordered(c.order, x, y))
           /\ \A x \in DOMAIN c.items \ DOMAIN AfterSet(c, k, entry).items :
                /\ Cardinality(DOMAIN c.items) = Cap
                /\ \A y \in DOMAIN c.items \ {x} : Ordered(c.order, x, y)
<1> DEFINE S == DOMAIN c.items
           items == [x \in S \cup {k} |-> IF x = k THEN entry ELSE c.items[x]]
           order == IF k \in S THEN Touch(c.order, k) ELSE Append(c.order, k)
           d == [items |-> items, order |-> order]
<1>1. AfterSet(c, k, entry) = Evict(d) /\ DOMAIN d.items = S \cup {k} /\ d.order = order /\ d.items = items
  BY DEF AfterSet
<1>2. c.order \in Seq(S) /\ IsFiniteSet(S) /\ Distinct(c.order) /\ \A x \in S : In(x, c.order)
  BY DEF Shape
<1>3. order \in Seq(S \cup {k})
  <2>1. CASE k \in S
    <3>1. S \cup {k} = S /\ order = Touch(c.order, k)
      BY <2>1
    <3> HIDE DEF S, order
    <3> QED BY <1>2, <2>1, <3>1, TouchKeepsKeys
  <2>2. CASE k \notin S
    <3>1. order = Append(c.order, k)
      BY <2>2
    <3> HIDE DEF S, order
    <3> QED BY <1>2, <2>2, <3>1, AppendingAddsOne
  <2> QED BY <2>1, <2>2
<1>4. \A x, y : Ordered(order, x, y) => x # k /\ (y = k \/ Ordered(c.order, x, y))
  <2>1. CASE k \in S
    <3>1. order = Touch(c.order, k)
      BY <2>1
    <3> HIDE DEF S, order
    <3> QED BY <1>2, <2>1, <3>1, TouchKeepsKeys
  <2>2. CASE k \notin S
    <3>1. order = Append(c.order, k)
      BY <2>2
    <3> HIDE DEF S, order
    <3>2. \A x, y : Ordered(order, x, y) => x \in S /\ (y = k \/ Ordered(c.order, x, y))
      BY <1>2, <3>1, AppendingKeepsOrder
    <3> QED BY <2>2, <3>2
  <2> QED BY <2>1, <2>2
<1>5. Cardinality(S) \in Nat /\ Cap \in Nat /\ Cardinality(S) <= Cap
  BY <1>2, FS_CardinalityType, LRUAssumption
<1>6. Cardinality(S \cup {k}) = IF k \in S THEN Cardinality(S) ELSE Cardinality(S) + 1
  BY <1>2, FS_AddElement
<1> HIDE DEF S, items, order, d
<1>7. CASE Cardinality(S \cup {k}) <= Cap
  <2>1. AfterSet(c, k, entry).order = order /\ DOMAIN AfterSet(c, k, entry).items = S \cup {k}
    BY <1>1, <1>7 DEF Evict
  <2> QED BY <1>4, <2>1 DEF S
<1>8. CASE ~(Cardinality(S \cup {k}) <= Cap)
  <2>1. /\ AfterSet(c, k, entry).order = Tail(order)
        /\ AfterSet(c, k, entry).items = Without(d.items, {Head(order)})
    BY <1>1, <1>8 DEF Evict
  <2>2. k \notin S /\ Cardinality(S) = Cap
    BY <1>5, <1>6, <1>8
  <2>3. order = Append(c.order, k) /\ Len(c.order) \in Nat
    BY <1>2, <2>2 DEF order
  <2>4. order # <<>>
    <3>1. Len(order) = Len(c.order) + 1
      BY <1>2, <2>3
    <3> QED BY <2>3, <3>1
  <2>5. \A x, y : Ordered(Tail(order), x, y) => Ordered(order, x, y)
    BY <1>3, <2>4, TailKeepsOrder
  <2>6. ASSUME NEW x \in S, x \notin DOMAIN AfterSet(c, k, entry).items, NEW y \in S \ {x}
        PROVE  Ordered(c.order, x, y)
    <3>1. x = Head(order)
      BY <1>1, <2>1, <2>6 DEF Without
    <3>2. PICK i \in 1..Len(c.order) : c.order[i] = x
      BY <1>2, <2>6 DEF In
    <3>3. Head(order) = c.order[1]
      BY <1>2, <2>3, <3>2
    <3> QED BY <1>2, <2>3, <2>6, <3>1, <3>3, HeadIsFirst
  <2> QED BY <1>4, <2>1, <2>2, <2>5, <2>6 DEF S
<1> QED BY <1>7, <1>8

LEMMA PlacedAtTheStart == Init => Placed
<1> SUFFICES ASSUME Init PROVE Placed
  OBVIOUS
<1>1. DOMAIN cache.items = {}
  BY DEF Init, EmptyCache
<1> QED BY <1>1 DEF Placed

\* A use of a key that leaves the order of the others alone.
LEMMA UseKeepsPlaced ==
    ASSUME Placed, ShapeInv', NEW k, NowUsed(k),
           \A x, y \in DOMAIN cache'.items : Ordered(cache'.order, x, y) =>
             /\ x # k
             /\ \/ y = k
                \/ x \in DOMAIN cache.items /\ y \in DOMAIN cache.items /\ Ordered(cache.order, x, y)
    PROVE  Placed'
<1> SUFFICES ASSUME NEW x \in DOMAIN cache'.items, NEW y \in DOMAIN cache'.items, Ordered(cache'.order, x, y)
             PROVE  <<x, y>> \in older'
  BY DEF Placed
<1>1. x # y
  BY DEF ShapeInv, Shape, Distinct, Ordered
<1>2. x # k /\ (y = k \/ <<x, y>> \in older)
  BY DEF Placed
<1> DEFINE pair == <<x, y>>
<1>3. pair[1] = x /\ pair[2] = y
  OBVIOUS
<1>4. pair \in (DOMAIN cache'.items) \X (DOMAIN cache'.items)
  OBVIOUS
<1> HIDE DEF pair
<1> QED BY <1>1, <1>2, <1>3, <1>4 DEF NowUsed, pair

LEMMA StepsKeepPlaced == ShapeInv /\ ShapeInv' /\ Placed /\ [Next]_vars => Placed'
<1> SUFFICES ASSUME ShapeInv, ShapeInv', Placed, [Next]_vars PROVE Placed'
  OBVIOUS
<1>1. ASSUME NEW r \in Requests, CacheGet(r) PROVE Placed'
  <2> DEFINE k == req[r].key
  <2>1. cache' = AfterGet(cache, k) /\ NowUsed(k)
    BY <1>1 DEF CacheGet
  <2>2. DOMAIN cache'.items \subseteq DOMAIN cache.items
    BY <2>1, EntriesOfGet
  <2> HIDE DEF k
  <2>3. CASE k \in DOMAIN cache.items
    <3>1. \A x, y \in DOMAIN cache'.items : Ordered(cache'.order, x, y) => x # k /\ (y = k \/ Ordered(cache.order, x, y))
      BY <2>1, <2>3, OrderOfGet DEF ShapeInv
    <3> QED BY <2>1, <2>2, <3>1, UseKeepsPlaced
  <2>4. CASE k \notin DOMAIN cache.items
    <3>1. cache' = cache
      BY <2>1, <2>4 DEF AfterGet
    <3>2. \A x \in DOMAIN cache'.items : x # k
      BY <2>4, <3>1
    <3> QED BY <2>1, <3>1, <3>2, UseKeepsPlaced
  <2> QED BY <2>3, <2>4
<1>2. ASSUME NEW r \in Requests, CacheSet(r) PROVE Placed'
  <2> DEFINE k == req[r].key
             entry == [age |-> 0, data |-> req[r].flags]
  <2>1. cache' = AfterSet(cache, k, entry) /\ NowUsed(k)
    BY <1>2 DEF CacheSet
  <2> HIDE DEF k, entry
  <2>2. DOMAIN cache'.items \subseteq DOMAIN cache.items \cup {k}
    BY <2>1, EntriesOfSet
  <2>3. \A x, y : Ordered(cache'.order, x, y) => x # k /\ (y = k \/ Ordered(cache.order, x, y))
    BY <2>1, OrderOfSet DEF ShapeInv
  <2> QED BY <2>1, <2>2, <2>3, UseKeepsPlaced
<1>3. CASE Tick
  <2>1. DOMAIN cache'.items = DOMAIN cache.items /\ cache'.order = cache.order /\ older' = older
    BY <1>3 DEF Tick, Aged
  <2> QED BY <2>1 DEF Placed
<1>4. ASSUME UNCHANGED <<cache, older>> PROVE Placed'
  BY <1>4 DEF Placed
<1>5. ASSUME NEW o \in Operators, NEW t \in Targets, NEW v \in BOOLEAN, UpdateOverride(o, t, v) PROVE Placed'
  BY <1>4, <1>5 DEF UpdateOverride
<1>6. ASSUME NEW o \in Operators, InsertOverride(o) PROVE Placed'
  BY <1>4, <1>6 DEF InsertOverride
<1>7. ASSUME NEW t \in Targets, DeleteOverride(t) PROVE Placed'
  BY <1>4, <1>7 DEF DeleteOverride
<1>8. ASSUME NEW f \in Flags, NEW d \in BOOLEAN, RegisterFlags(f, d) PROVE Placed'
  BY <1>4, <1>8 DEF RegisterFlags
<1>9. ASSUME NEW r \in Requests, NEW p \in Principals, ListKeys(r, p) PROVE Placed'
  BY <1>4, <1>9 DEF ListKeys
<1>10. ASSUME NEW r \in Requests, MakeCacheKey(r) \/ ListOverrides(r) PROVE Placed'
  BY <1>4, <1>10 DEF MakeCacheKey, ListOverrides
<1>11. ASSUME NEW r \in Requests, NEW f \in Flags, ComputeFlag(r, f) PROVE Placed'
  BY <1>4, <1>11 DEF ComputeFlag
<1>12. CASE UNCHANGED vars
  BY <1>4, <1>12 DEF vars
<1> QED BY <1>1, <1>2, <1>3, <1>5, <1>6, <1>7, <1>8, <1>9, <1>10, <1>11, <1>12 DEF Next

\* What leaves the cache in a step has expired or was used least recently.
LeavesInTurn ==
    \A k \in DOMAIN cache.items \ DOMAIN cache'.items :
        \/ cache.items[k].age > TTL
        \/ /\ Cardinality(DOMAIN cache.items) = Cap
           /\ \A x \in DOMAIN cache.items \ {k} : <<k, x>> \in older

LEMMA StepsEvictInTurn == ShapeInv /\ Typed /\ Placed /\ [Next]_vars => LeavesInTurn
<1> SUFFICES ASSUME ShapeInv, Typed, Placed, [Next]_vars PROVE LeavesInTurn
  OBVIOUS
<1>1. ASSUME NEW r \in Requests, CacheGet(r) PROVE LeavesInTurn
  <2> DEFINE k == req[r].key
  <2>1. cache' = AfterGet(cache, k)
    BY <1>1 DEF CacheGet
  <2> HIDE DEF k
  <2>2. CASE k \notin DOMAIN cache.items \/ Hit(cache, k)
    BY <2>1, <2>2 DEF AfterGet, LeavesInTurn
  <2>3. CASE k \in DOMAIN cache.items /\ ~Hit(cache, k)
    <3>1. DOMAIN cache.items \ DOMAIN cache'.items = {k}
      BY <2>1, <2>3 DEF AfterGet, Without
    <3>2. cache.items[k].age > TTL
      BY <2>3, Bounds DEF Hit, Typed, CacheTyped
    <3> QED BY <3>1, <3>2 DEF LeavesInTurn
  <2> QED BY <2>2, <2>3
<1>2. ASSUME NEW r \in Requests, CacheSet(r) PROVE LeavesInTurn
  <2> DEFINE k == req[r].key
             entry == [age |-> 0, data |-> req[r].flags]
  <2>1. cache' = AfterSet(cache, k, entry)
    BY <1>2 DEF CacheSet
  <2> HIDE DEF k, entry
  <2>2. \A x \in DOMAIN cache.items \ DOMAIN cache'.items :
          /\ Cardinality(DOMAIN cache.items) = Cap
          /\ \A y \in DOMAIN cache.items \ {x} : Ordered(cache.order, x, y)
    BY <2>1, OrderOfSet DEF ShapeInv
  <2> QED BY <2>2 DEF LeavesInTurn, Placed
<1>3. ASSUME DOMAIN cache'.items = DOMAIN cache.items PROVE LeavesInTurn
  BY <1>3 DEF LeavesInTurn
<1>4. CASE Tick
  BY <1>3, <1>4 DEF Tick, Aged
<1>5. ASSUME NEW o \in Operators, NEW t \in Targets, NEW v \in BOOLEAN, UpdateOverride(o, t, v) PROVE LeavesInTurn
  BY <1>3, <1>5 DEF UpdateOverride
<1>6. ASSUME NEW o \in Operators, InsertOverride(o) PROVE LeavesInTurn
  BY <1>3, <1>6 DEF InsertOverride
<1>7. ASSUME NEW t \in Targets, DeleteOverride(t) PROVE LeavesInTurn
  BY <1>3, <1>7 DEF DeleteOverride
<1>8. ASSUME NEW f \in Flags, NEW d \in BOOLEAN, RegisterFlags(f, d) PROVE LeavesInTurn
  BY <1>3, <1>8 DEF RegisterFlags
<1>9. ASSUME NEW r \in Requests, NEW p \in Principals, ListKeys(r, p) PROVE LeavesInTurn
  BY <1>3, <1>9 DEF ListKeys
<1>10. ASSUME NEW r \in Requests, MakeCacheKey(r) \/ ListOverrides(r) PROVE LeavesInTurn
  BY <1>3, <1>10 DEF MakeCacheKey, ListOverrides
<1>11. ASSUME NEW r \in Requests, NEW f \in Flags, ComputeFlag(r, f) PROVE LeavesInTurn
  BY <1>3, <1>11 DEF ComputeFlag
<1>12. CASE UNCHANGED vars
  BY <1>3, <1>12 DEF vars
<1> QED BY <1>1, <1>2, <1>4, <1>5, <1>6, <1>7, <1>8, <1>9, <1>10, <1>11, <1>12 DEF Next

\* An entry leaves the cache only when it has expired, or when the cache is
\* full and every other entry was used after it (cache.go:34-65), for any
\* capacity and interleaving.
THEOREM EvictionIsInTurn == Spec => EvictsLeastRecentlyUsed
<1>1. ShapeInv /\ Typed /\ Placed /\ [Next]_vars =>
        [\A k \in DOMAIN cache.items \ DOMAIN cache'.items :
            \/ cache.items[k].age > TTL
            \/ /\ Cardinality(DOMAIN cache.items) = Cap
               /\ \A x \in DOMAIN cache.items \ {k} : <<k, x>> \in older]_vars
  BY StepsEvictInTurn DEF LeavesInTurn
<1> QED BY <1>1, ShapeAtTheStart, StepsKeepShape, TypedAtTheStart, StepsKeepTypes, PlacedAtTheStart,
          StepsKeepPlaced, PTL DEF Spec, EvictsLeastRecentlyUsed
=============================================================================
