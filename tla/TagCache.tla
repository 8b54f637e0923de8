----------------------------- MODULE TagCache -----------------------------
(***************************************************************************)
(* The cache (src/cache.go) between requests that read through it and      *)
(* requests that change what it is a copy of.  Each call of the cache is   *)
(* one step, under its lock; the callers are the application's.            *)
(*                                                                         *)
(* The source of a key is a counter: a change makes the value that is in   *)
(* the cache an old one.  Every key is about one subject, the tag that a   *)
(* writer of the key invalidates if it goes by tags.                       *)
(***************************************************************************)
EXTENDS Naturals, Sequences, SequencesExt

CONSTANTS Readers,
          Writers,
          Keys,
          Tags,
          Subject,   \* the tag of each key
          None

VARIABLES
    items,    \* the entries: [value, alive, tags, late]
    tags,     \* tag -> list of keys
    source,   \* the value of each key, where the cached one comes from
    reading,  \* what each reader does: [at, key, value]
    writing   \* the key each writer has changed and not yet invalidated

vars == <<items, tags, source, reading, writing>>

Init ==
    /\ items = [k \in Keys |-> None]
    /\ tags = [t \in Tags |-> <<>>]
    /\ source = [k \in Keys |-> 0]
    /\ reading = [r \in Readers |-> [at |-> "start", key |-> None, value |-> None]]
    /\ writing = [w \in Writers |-> "start"]

-----------------------------------------------------------------------------
(* The cache.                                                              *)

\* Mutant: the list of a tag is replaced, not appended to.
IndexedAlone(list, k) == <<k>>

Indexed(list, k) == Append(list, k)

\* SetWithTags, Set without tags; late is history: the value is not the
\* source's any more.
SetWithTags(k, value, ts) ==
    /\ items' = [items EXCEPT ![k] = [value |-> value, alive |-> TRUE, tags |-> ts, late |-> value # source[k]]]
    /\ tags' = [t \in Tags |-> IF t \in ts THEN Indexed(tags[t], k) ELSE tags[t]]

\* The lists of the tags keep the key.
Delete(k) == items' = [items EXCEPT ![k] = None] /\ tags' = tags

InvalidateTag(t) ==
    /\ items' = [k \in Keys |-> IF k \in ToSet(tags[t]) THEN None ELSE items[k]]
    /\ tags' = [tags EXCEPT ![t] = <<>>]

InvalidateAll ==
    /\ items' = [k \in Keys |-> None]
    /\ tags' = [t \in Tags |-> <<>>]

\* The time to live has passed, if the entry has one: Get goes past it, but
\* it stays in the map.
Expire(k) ==
    /\ items[k] # None /\ items[k].alive
    /\ items' = [items EXCEPT ![k].alive = FALSE]
    /\ UNCHANGED <<tags, source, reading, writing>>

-----------------------------------------------------------------------------
(* The application (external).                                             *)

Get(r, k) ==
    /\ reading[r].at = "start"
    /\ reading' = [reading EXCEPT ![r] =
         IF items[k] # None /\ items[k].alive THEN [at |-> "hit", key |-> k, value |-> items[k].value]
         ELSE [at |-> "missed", key |-> k, value |-> None]]
    /\ UNCHANGED <<items, tags, source, writing>>

Read(r) ==
    /\ reading[r].at = "missed"
    /\ reading' = [reading EXCEPT ![r].at = "read", ![r].value = source[reading[r].key]]
    /\ UNCHANGED <<items, tags, source, writing>>

Store(r) ==
    /\ reading[r].at = "read"
    /\ \E ts \in SUBSET Tags : SetWithTags(reading[r].key, reading[r].value, ts)
    /\ reading' = [reading EXCEPT ![r].at = "stored"]
    /\ UNCHANGED <<source, writing>>

Change(w, k) ==
    /\ writing[w] = "start"
    /\ source' = [source EXCEPT ![k] = @ + 1]
    /\ writing' = [writing EXCEPT ![w] = k]
    /\ UNCHANGED <<items, tags, reading>>

Invalidate(w) ==
    /\ writing[w] \in Keys
    /\ \/ InvalidateTag(Subject[writing[w]])
       \/ Delete(writing[w])
       \/ InvalidateAll
    /\ writing' = [writing EXCEPT ![w] = "done"]
    /\ UNCHANGED <<source, reading>>

Next ==
    \/ \E r \in Readers : Read(r) \/ Store(r) \/ \E k \in Keys : Get(r, k)
    \/ \E w \in Writers : Invalidate(w) \/ \E k \in Keys : Change(w, k)
    \/ \E k \in Keys : Expire(k)

Spec == Init /\ [][Next]_vars

-----------------------------------------------------------------------------
(* Properties.                                                             *)

\* Every variable has its type; what a list has are keys.
TypeOK ==
    /\ items \in [Keys -> [value : Nat, alive : BOOLEAN, tags : SUBSET Tags, late : BOOLEAN] \cup {None}]
    /\ tags \in [Tags -> Seq(Keys)]
    /\ source \in [Keys -> Nat]
    /\ reading \in [Readers -> [at : {"start", "hit", "missed", "read", "stored"},
                                key : Keys \cup {None}, value : Nat \cup {None}]]
    /\ writing \in [Writers -> Keys \cup {"start", "done"}]

\* The cache has an old value only until its writer invalidates it, or if a
\* reader put it there that had read the source before it changed, or if the
\* entry does not have the tag the writer goes by, whatever lists the key
\* has been on, fallen off or been left on (cache.go:78).
StaleOnlyByRace ==
    \A k \in Keys : items[k] # None /\ items[k].value # source[k] =>
        \/ \E w \in Writers : writing[w] = k
        \/ items[k].late
        \/ Subject[k] \notin items[k].tags
=============================================================================
