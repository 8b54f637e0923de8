----------------------------- MODULE RateLimit -----------------------------
(***************************************************************************)
(* The rate limiter (src/ratelimit.go): a list of the times of the latest  *)
(* requests for every key, and a middleware that answers 429 instead of    *)
(* the handler.  A request of a key is one step, under the limiter's lock; *)
(* time is the monotonic clock of time.Now, in any unit.                   *)
(***************************************************************************)
EXTENDS Integers, Sequences

CONSTANTS Keys,      \* what KeyFunc makes of requests
          Limits,    \* the values of config.Requests
          Window,    \* config.Window
          MaxTime    \* bound: the clock

VARIABLES
    limit,    \* config.Requests
    now,      \* the clock
    data,     \* the times the limiter has kept for each key
    passed,   \* history: the times at which requests of each key have passed
    refused,  \* history: the refusals, [key, at, until]
    panicked  \* history: the keys whose request has ended in a panic

vars == <<limit, now, data, passed, refused, panicked>>

Init ==
    /\ limit \in Limits
    /\ now = 0
    /\ data = [k \in Keys |-> <<>>]
    /\ passed = [k \in Keys |-> <<>>]
    /\ refused = {}
    /\ panicked = {}

Tick ==
    /\ now < MaxTime
    /\ now' = now + 1
    /\ UNCHANGED <<limit, data, passed, refused, panicked>>

\* Allow keeps a time if t.After(windowStart).  The list is in the order of
\* time, and so the times it drops are the first ones of it.
Dropped(k) == CHOOSE n \in 0..Len(data[k]) : \A i \in 1..Len(data[k]) : i <= n <=> data[k][i] + Window <= now

Recent(k) == SubSeq(data[k], Dropped(k) + 1, Len(data[k]))

\* Mutant: the list is put back only after a refusal.
PassUnstored(k) ==
    /\ Len(Recent(k)) < limit
    /\ passed' = [passed EXCEPT ![k] = Append(@, now)]
    /\ UNCHANGED <<limit, now, data, refused, panicked>>

Pass(k) ==
    /\ Len(Recent(k)) < limit
    /\ data' = [data EXCEPT ![k] = Append(Recent(k), now)]
    /\ passed' = [passed EXCEPT ![k] = Append(@, now)]
    /\ UNCHANGED <<limit, now, refused, panicked>>

\* Until is the end of retryAfter, of which the header has the whole seconds.
Refuse(k) ==
    /\ Len(Recent(k)) >= limit /\ Recent(k) # <<>>
    /\ data' = [data EXCEPT ![k] = Recent(k)]
    /\ refused' = refused \cup {[key |-> k, at |-> now, until |-> Recent(k)[1] + Window]}
    /\ UNCHANGED <<limit, now, passed, panicked>>

\* newHits[0] of an empty list: the limit is not positive.
Panic(k) ==
    /\ Len(Recent(k)) >= limit /\ Recent(k) = <<>>
    /\ data' = [data EXCEPT ![k] = <<>>]
    /\ panicked' = panicked \cup {k}
    /\ UNCHANGED <<limit, now, passed, refused>>

Next == Tick \/ \E k \in Keys : Pass(k) \/ Refuse(k) \/ Panic(k)

-----------------------------------------------------------------------------
(* Properties.                                                             *)

\* Every variable has its type, and no time that is kept is after now.
TypeOK ==
    /\ limit \in Limits
    /\ now \in 0..MaxTime
    /\ data \in [Keys -> Seq(0..now)] /\ passed \in [Keys -> Seq(0..now)]
    /\ \A f \in refused : f.key \in Keys /\ f.at \in 0..now /\ f.until \in Nat
    /\ panicked \subseteq Keys

\* Not more than the limit pass in any window, wherever it begins: whoever
\* passes does so a window after the one who was limit requests before.  Who
\* is refused is told how long the limit is reached: since a request that is
\* the limit-th last to have passed, until its window ends, and no request of
\* the key passes before.  Only a limit that lets nobody pass ends in a panic
\* (ratelimit.go:58).
RateBound ==
    /\ \A k \in Keys : \A i, j \in DOMAIN passed[k] :
         j = i + limit => passed[k][i] + Window <= passed[k][j]
    /\ \A f \in refused : \E n \in DOMAIN passed[f.key] :
         /\ limit \in 1..n /\ passed[f.key][n] <= f.at /\ f.at < f.until
         /\ f.until = passed[f.key][n + 1 - limit] + Window
         /\ n + 1 \in DOMAIN passed[f.key] => f.until <= passed[f.key][n + 1]
    /\ panicked # {} => limit <= 0
=============================================================================
