------------------------------ MODULE FlagLRU -------------------------------
(***************************************************************************)
(* The process-wide cache of computed feature flags (lruCache in           *)
(* src/modules/featureflags/cache.go), as operators on a cache: a map of   *)
(* entries and the order in which its keys were last used.  Every method   *)
(* runs under the cache's mutex, so each is one step of its caller.        *)
(*                                                                         *)
(* An entry holds its age instead of the time it was stored at.            *)
(***************************************************************************)
EXTENDS Naturals, Sequences, FiniteSets

CONSTANTS
    TTL,    \* the age up to which an entry is served
    Cap     \* how many entries the cache may hold

ASSUME LRUAssumption == TTL \in Nat /\ Cap \in Nat

\* newLRU
EmptyCache == [items |-> [k \in {} |-> 0], order |-> <<>>]

In(k, q) == \E i \in 1..Len(q) : q[i] = k

\* removeFromOrder: the first occurrence of the key is cut out.
RemoveFromOrder(q, k) ==
    IF ~In(k, q) THEN q
    ELSE LET i == CHOOSE i \in 1..Len(q) : q[i] = k /\ \A j \in 1..(i - 1) : q[j] # k
         IN  [j \in 1..(Len(q) - 1) |-> IF j < i THEN q[j] ELSE q[j + 1]]

\* A plausible bug: a use of a key does not move it.
NoTouch(q, k) == IF In(k, q) THEN q ELSE Append(q, k)

\* touch: the key moves to the end, the place of the last used.
Touch(q, k) == Append(RemoveFromOrder(q, k), k)

Without(f, S) == [k \in DOMAIN f \ S |-> f[k]]

\* get found an entry, and it is not too old.
Hit(c, k) == k \in DOMAIN c.items /\ c.items[k].age <= TTL

\* A plausible bug: an expired entry loses its place but stays.
ForgetPlaceOnly(c, k) ==
    IF k \notin DOMAIN c.items THEN c
    ELSE IF Hit(c, k) THEN [items |-> c.items, order |-> Touch(c.order, k)]
    ELSE [items |-> c.items, order |-> RemoveFromOrder(c.order, k)]

\* A plausible bug: an entry that is used stays young.
RefreshOnGet(c, k) ==
    IF k \notin DOMAIN c.items THEN c
    ELSE IF Hit(c, k) THEN
        [items |-> [x \in DOMAIN c.items |->
                       IF x = k THEN [age |-> 0, data |-> c.items[k].data] ELSE c.items[x]],
         order |-> Touch(c.order, k)]
    ELSE [items |-> Without(c.items, {k}), order |-> RemoveFromOrder(c.order, k)]

\* What get leaves behind: a hit is now the last used, an expired entry is gone.
AfterGet(c, k) ==
    IF k \notin DOMAIN c.items THEN c
    ELSE IF Hit(c, k) THEN [items |-> c.items, order |-> Touch(c.order, k)]
    ELSE [items |-> Without(c.items, {k}), order |-> RemoveFromOrder(c.order, k)]

\* The eviction of one entry, the least recently used one.  A set adds at most
\* one, so the loop of the code runs at most once.
Evict(c) ==
    IF Cardinality(DOMAIN c.items) <= Cap THEN c
    ELSE [items |-> Without(c.items, {Head(c.order)}), order |-> Tail(c.order)]

\* set: the entry is stored and is the last used, and the oldest is evicted.
AfterSet(c, k, entry) ==
    Evict([items |-> [x \in DOMAIN c.items \cup {k} |->
                         IF x = k THEN entry ELSE c.items[x]],
           order |-> IF k \in DOMAIN c.items THEN Touch(c.order, k) ELSE Append(c.order, k)])

\* A tick of the clock: entries that have expired need not be told apart.
Older(age) == IF age > TTL THEN age ELSE age + 1
Aged(c) ==
    [items |-> [k \in DOMAIN c.items |-> [age |-> Older(c.items[k].age), data |-> c.items[k].data]],
     order |-> c.order]

Distinct(q) == \A i, j \in 1..Len(q) : q[i] = q[j] => i = j

\* The order lists every key once and nothing else, within the capacity.
Consistent(c) ==
    /\ \A k \in DOMAIN c.items : In(k, c.order)
    /\ \A i \in 1..Len(c.order) : c.order[i] \in DOMAIN c.items
    /\ Distinct(c.order)
    /\ Cardinality(DOMAIN c.items) <= Cap

=============================================================================
