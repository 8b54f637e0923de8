------------------------------ MODULE JobQueue ------------------------------
(***************************************************************************)
(* The in-memory job queue (src/jobs.go): a buffered channel, a pool of    *)
(* workers that receive from it and, for a retry, also send to it,         *)
(* goroutines that hold early jobs back, and the server that starts and    *)
(* stops the pool (run in src/router.go).                                  *)
(*                                                                         *)
(* A Go channel serves blocked senders in the order they came: a receive   *)
(* from a full buffer moves the first blocked sender's value in.  So the   *)
(* channel and its blocked senders are one line: the first Capacity        *)
(* entries are the buffer, a later one belongs to a goroutine that is      *)
(* blocked in its send.                                                    *)
(*                                                                         *)
(* Time is what it does to a job: an entry may still be early, and one     *)
(* that has been slept on is not.                                          *)
(***************************************************************************)
EXTENDS Naturals, Sequences

CONSTANTS
    Jobs,       \* the jobs that may be enqueued, each once
    Workers,    \* the worker goroutines; the code starts five
    Capacity,   \* of the channel; 1000 in the code
    MaxRetries, \* RetryableJob.MaxRetries of each job, 0 for other jobs
    Caller,     \* any goroutine but a worker: a request, a sleeper
    None        \* no job received yet

ASSUME ConstantsAssumption ==
    /\ Capacity \in Nat \ {0}
    /\ MaxRetries \in [Jobs -> Nat]
    /\ Caller \notin Workers

VARIABLES
    line,       \* the channel's buffer followed by what blocked senders hold
    sleeping,   \* what the goroutines that wait for a job's time hold
    pc,         \* where each worker is
    held,       \* the queuedJob each worker handles
    phase,      \* of the pool: new, running, stopping, stopped
    cancelled,  \* q.ctx is done
    submitted,  \* history: the jobs Enqueue was called with
    done,       \* history: the jobs whose Handle returned nil
    dead,       \* history: the jobs that failed with no retry left
    runs        \* history: how often each job's Handle has been called

vars == <<line, sleeping, pc, held, phase, cancelled, submitted, done, dead, runs>>

\* queuedJob, and the goroutine that sent it.
Entry == [job : Jobs, attempt : Nat, early : BOOLEAN, by : Workers \cup {Caller}]

WorkerStages == {"none", "select", "handle", "gone"}
Phases == {"new", "running", "stopping", "stopped"}

\* Goroutine g is blocked in a send: its entry is behind the buffer.
Blocked(g) == \E i \in (Capacity + 1)..Len(line) : line[i].by = g

Init ==
    /\ line = <<>>
    /\ sleeping = {}
    /\ pc = [w \in Workers |-> "none"]
    /\ held = [w \in Workers |-> None]
    /\ phase = "new"
    /\ cancelled = FALSE
    /\ submitted = {}
    /\ done = {}
    /\ dead = {}
    /\ runs = [j \in Jobs |-> 0]

Send(e) == line' = Append(line, e)

\* Enqueue, and EnqueueAt for a later time: by any request, in any phase.
EnqueueAt(j, early) ==
    /\ j \notin submitted
    /\ submitted' = submitted \cup {j}
    /\ Send([job |-> j, attempt |-> 0, early |-> early, by |-> Caller])
    /\ UNCHANGED <<sleeping, pc, held, phase, cancelled, done, dead, runs>>

-----------------------------------------------------------------------------
(* The pool.                                                               *)

\* run starts the queue before it listens.
Start ==
    /\ phase = "new"
    /\ phase' = "running"
    /\ pc' = [w \in Workers |-> "select"]
    /\ UNCHANGED <<line, sleeping, held, cancelled, submitted, done, dead, runs>>

\* The context run was called with is done; q.ctx is its child.
CancelRun ==
    /\ phase = "running"
    /\ ~cancelled
    /\ cancelled' = TRUE
    /\ UNCHANGED <<line, sleeping, pc, held, phase, submitted, done, dead, runs>>

\* run returns (its context is done, a signal came, or the server failed):
\* the deferred Stop cancels the context and waits for the workers.
Stop ==
    /\ phase = "running"
    /\ phase' = "stopping"
    /\ cancelled' = TRUE
    /\ UNCHANGED <<line, sleeping, pc, held, submitted, done, dead, runs>>

\* A plausible bug: Stop only cancels.
StopWithoutWaiting ==
    /\ phase = "stopping"
    /\ phase' = "stopped"
    /\ UNCHANGED <<line, sleeping, pc, held, cancelled, submitted, done, dead, runs>>

\* A plausible bug: Stop waits for the queue to drain as well.
StopReturnsIfDrained ==
    /\ phase = "stopping"
    /\ line = <<>>
    /\ \A w \in Workers : pc[w] = "gone"
    /\ phase' = "stopped"
    /\ UNCHANGED <<line, sleeping, pc, held, cancelled, submitted, done, dead, runs>>

\* wg.Wait returns.
StopReturns ==
    /\ phase = "stopping"
    /\ \A w \in Workers : pc[w] = "gone"
    /\ phase' = "stopped"
    /\ UNCHANGED <<line, sleeping, pc, held, cancelled, submitted, done, dead, runs>>

-----------------------------------------------------------------------------
(* A worker.                                                               *)

\* At the select, and not in the send of a retry.
AtSelect(w) == pc[w] = "select" /\ ~Blocked(w)

\* The select takes ctx.Done.
Leave(w) ==
    /\ AtSelect(w)
    /\ cancelled
    /\ pc' = [pc EXCEPT ![w] = "gone"]
    /\ UNCHANGED <<line, sleeping, held, phase, cancelled, submitted, done, dead, runs>>

\* The select takes a job whose time has not come: a goroutine sleeps on it.
Postpone(w) ==
    /\ AtSelect(w)
    /\ line # <<>>
    /\ Head(line).early
    /\ line' = Tail(line)
    /\ sleeping' = sleeping \cup {Head(line)}
    /\ UNCHANGED <<pc, held, phase, cancelled, submitted, done, dead, runs>>

\* A plausible bug: the job is handled and sent back as well.
PickupAndPostpone(w) ==
    /\ AtSelect(w)
    /\ line # <<>>
    /\ line' = Tail(line)
    /\ held' = [held EXCEPT ![w] = Head(line)]
    /\ pc' = [pc EXCEPT ![w] = "handle"]
    /\ runs' = [runs EXCEPT ![Head(line).job] = @ + 1]
    /\ sleeping' = sleeping \cup (IF Head(line).early THEN {Head(line)} ELSE {})
    /\ UNCHANGED <<phase, cancelled, submitted, done, dead>>

\* The select takes a job whose time has come, and Handle is called.
Pickup(w) ==
    /\ AtSelect(w)
    /\ line # <<>>
    /\ line' = Tail(line)
    /\ held' = [held EXCEPT ![w] = Head(line)]
    /\ pc' = [pc EXCEPT ![w] = "handle"]
    /\ runs' = [runs EXCEPT ![Head(line).job] = @ + 1]
    /\ UNCHANGED <<sleeping, phase, cancelled, submitted, done, dead>>

\* Handle returns nil.
Succeed(w) ==
    /\ pc[w] = "handle"
    /\ pc' = [pc EXCEPT ![w] = "select"]
    /\ held' = [held EXCEPT ![w] = None]
    /\ done' = done \cup {held[w].job}
    /\ UNCHANGED <<line, sleeping, phase, cancelled, submitted, dead, runs>>

\* A plausible bug: the attempt is not counted.
RetriedUncounted(e, w) ==
    [job |-> e.job, attempt |-> e.attempt, early |-> TRUE, by |-> w]

\* The queuedJob worker w sends for the next attempt of e.
Retried(e, w) ==
    [job |-> e.job, attempt |-> e.attempt + 1, early |-> TRUE, by |-> w]

\* A plausible bug: one retry too many.
RetryOnceMore(w) ==
    /\ pc[w] = "handle"
    /\ held[w].attempt <= MaxRetries[held[w].job]
    /\ pc' = [pc EXCEPT ![w] = "select"]
    /\ held' = [held EXCEPT ![w] = None]
    /\ Send(Retried(held[w], w))
    /\ UNCHANGED <<sleeping, phase, cancelled, submitted, done, dead, runs>>

\* Handle returns an error and a retry is left: the worker itself sends the job
\* to the channel it receives from.
Retry(w) ==
    /\ pc[w] = "handle"
    /\ held[w].attempt < MaxRetries[held[w].job]
    /\ pc' = [pc EXCEPT ![w] = "select"]
    /\ held' = [held EXCEPT ![w] = None]
    /\ Send(Retried(held[w], w))
    /\ UNCHANGED <<sleeping, phase, cancelled, submitted, done, dead, runs>>

\* Handle returns an error and no retry is left: the job is dropped.
GiveUp(w) ==
    /\ pc[w] = "handle"
    /\ held[w].attempt >= MaxRetries[held[w].job]
    /\ pc' = [pc EXCEPT ![w] = "select"]
    /\ held' = [held EXCEPT ![w] = None]
    /\ dead' = dead \cup {held[w].job}
    /\ UNCHANGED <<line, sleeping, phase, cancelled, submitted, done, runs>>

\* The queuedJob a sleeper sends: its time has come.
Woken(e) ==
    [job |-> e.job, attempt |-> e.attempt, early |-> FALSE, by |-> Caller]

\* A plausible bug: a send that drops the job when the buffer is full.
WakeIfRoom(j) ==
    /\ \E e \in sleeping :
          /\ e.job = j
          /\ sleeping' = sleeping \ {e}
          /\ line' = IF Len(line) < Capacity THEN Append(line, Woken(e)) ELSE line
    /\ UNCHANGED <<pc, held, phase, cancelled, submitted, done, dead, runs>>

\* The goroutine that slept on job j sends it.
Wake(j) ==
    /\ \E e \in sleeping :
          /\ e.job = j
          /\ sleeping' = sleeping \ {e}
          /\ Send(Woken(e))
    /\ UNCHANGED <<pc, held, phase, cancelled, submitted, done, dead, runs>>

Handle(w) == Succeed(w) \/ Retry(w) \/ GiveUp(w)
Select(w) == Leave(w) \/ Postpone(w) \/ Pickup(w)

Next ==
    \/ \E j \in Jobs, early \in BOOLEAN : EnqueueAt(j, early)
    \/ \E w \in Workers : Select(w) \/ Handle(w)
    \/ \E j \in Jobs : Wake(j)
    \/ Start
    \/ CancelRun
    \/ Stop
    \/ StopReturns

Spec == Init /\ [][Next]_vars

\* Goroutines run, handlers return, sleeps end and Stop's wait notices; when
\* jobs are enqueued and when the server starts and stops is not assumed.
Fairness ==
    /\ \A w \in Workers : WF_vars(Select(w)) /\ WF_vars(Handle(w))
    /\ \A j \in Jobs : WF_vars(Wake(j))
    /\ WF_vars(StopReturns)

FairSpec == Spec /\ Fairness

-----------------------------------------------------------------------------
(* Properties.                                                             *)

\* No attempt goes beyond the last retry.
InRetries(e) == e.attempt <= MaxRetries[e.job]

\* Every variable has its type; a worker that handles holds a job, and no job
\* is attempted beyond its last retry.
TypeOK ==
    /\ line \in Seq(Entry)
    /\ \A i \in 1..Len(line) : InRetries(line[i])
    /\ sleeping \subseteq Entry
    /\ \A e \in sleeping : InRetries(e)
    /\ pc \in [Workers -> WorkerStages]
    /\ held \in [Workers -> Entry \cup {None}]
    /\ \A w \in Workers : pc[w] = "handle" => held[w] \in Entry /\ InRetries(held[w])
    /\ phase \in Phases
    /\ cancelled \in BOOLEAN
    /\ submitted \subseteq Jobs /\ done \subseteq Jobs /\ dead \subseteq Jobs
    /\ runs \in [Jobs -> Nat]

InLine(j) == \E i \in 1..Len(line) : line[i].job = j
Asleep(j) == \E e \in sleeping : e.job = j
Running(j) == \E w \in Workers : pc[w] = "handle" /\ held[w].job = j

\* A job is in one place: once in the line, with one sleeper, with one worker,
\* or finished; so no job is handled by two workers, however often it was
\* postponed or retried.
EachJobOnce ==
    /\ \A i, k \in 1..Len(line) : line[i].job = line[k].job => i = k
    /\ \A e, f \in sleeping : e.job = f.job => e = f
    /\ \A v, w \in Workers :
          pc[v] = "handle" /\ pc[w] = "handle" /\ held[v].job = held[w].job => v = w
    /\ \A j \in Jobs :
          /\ InLine(j) => ~Asleep(j) /\ ~Running(j)
          /\ Asleep(j) => ~Running(j)
          /\ InLine(j) \/ Asleep(j) \/ Running(j)
             => j \in submitted /\ j \notin done \cup dead

\* Where the life of a job has got to, seen from outside.
StatusOf(j) ==
    IF j \in done THEN "done"
    ELSE IF j \in dead THEN "dead"
    ELSE IF Running(j) THEN "running"
    ELSE IF InLine(j) \/ Asleep(j) THEN "queued"
    ELSE "new"

Lifecycle == INSTANCE JobLifecycle WITH status <- [j \in Jobs |-> StatusOf(j)]

\* The queue keeps the promise of JobLifecycle: no job that was enqueued is
\* forgotten, handled once too often or given up too early.
ImplementsLifecycle == Lifecycle!Spec

\* Stop waits for the workers: once it has returned, no Handle is running and
\* none is ever started, although jobs still come in and sleepers still wake.
NothingAfterStop ==
    [][phase = "stopped" => runs' = runs /\ done' = done /\ dead' = dead]_vars

\* All workers are in the send of a retry: nobody receives any more.
Stalled == \A w \in Workers : Blocked(w)

\* While the server runs every job that was enqueued is settled, unless all
\* workers block on the full channel they receive from.
JobsSettle ==
    \A j \in Jobs :
        j \in submitted /\ phase = "running"
        ~> j \in done \cup dead \/ cancelled \/ Stalled

\* Stop returns, unless a worker is left in the send of a retry with no other
\* worker to receive.
StopEnds ==
    phase = "stopping"
    ~> \/ phase = "stopped"
       \/ /\ \E w \in Workers : Blocked(w)
          /\ \A w \in Workers : pc[w] = "gone" \/ Blocked(w)

\* The background-job design (tracks-requests/14-background-jobs.md) promises
\* Enqueue -> Queue -> Worker Pickup -> Execute for every job: while the server
\* runs, an enqueued job is executed until it succeeds or runs out of retries.
JobsAreHandled ==
    \A j \in Jobs :
        j \in submitted /\ phase = "running" ~> j \in done \cup dead \/ cancelled

=============================================================================
