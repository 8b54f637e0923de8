--------------------------- MODULE JobQueueProofs ---------------------------
(***************************************************************************)
(* Proofs about JobQueue, for any jobs, workers, retries and any capacity  *)
(* of the channel: a job is in one place at a time, the queue implements   *)
(* JobLifecycle, and nothing is handled once Stop has returned.            *)
(***************************************************************************)
EXTENDS JobQueue, TLAPS

-----------------------------------------------------------------------------
(* The line.                                                               *)

\* A send adds its entry at the end of the line.
LEMMA LineSend ==
    ASSUME line \in Seq(Entry), NEW e \in Entry, Send(e)
    PROVE  /\ line' \in Seq(Entry)
           /\ Len(line') = Len(line) + 1
           /\ \A i \in 1..Len(line) : line'[i] = line[i]
           /\ line'[Len(line) + 1] = e
           /\ \A j : InLine(j)' <=> InLine(j) \/ j = e.job
<1>1. /\ line' \in Seq(Entry)
      /\ Len(line') = Len(line) + 1
      /\ \A i \in 1..Len(line) : line'[i] = line[i]
      /\ line'[Len(line) + 1] = e
  BY DEF Send
<1>2. Len(line) \in Nat
  OBVIOUS
<1>3. \A j : InLine(j)' <=> InLine(j) \/ j = e.job
  BY <1>1, <1>2 DEF InLine
<1> QED BY <1>1, <1>3

\* A receive takes the first entry and moves the others up.
LEMMA LineTake ==
    ASSUME line \in Seq(Entry), line # <<>>, line' = Tail(line)
    PROVE  /\ Head(line) \in Entry
           /\ Head(line) = line[1]
           /\ Len(line) \in Nat \ {0}
           /\ line' \in Seq(Entry)
           /\ Len(line') = Len(line) - 1
           /\ \A i \in 1..Len(line') : line'[i] = line[i + 1]
           /\ \A j : InLine(j) <=> InLine(j)' \/ j = Head(line).job
<1>1. /\ Head(line) \in Entry
      /\ Head(line) = line[1]
      /\ Len(line) \in Nat \ {0}
      /\ line' \in Seq(Entry)
      /\ Len(line') = Len(line) - 1
      /\ \A i \in 1..Len(line') : line'[i] = line[i + 1]
  OBVIOUS
<1>2. ASSUME NEW j PROVE InLine(j) <=> InLine(j)' \/ j = Head(line).job
  <2>1. ASSUME InLine(j) PROVE InLine(j)' \/ j = Head(line).job
    <3>1. PICK i \in 1..Len(line) : line[i].job = j
      BY <2>1 DEF InLine
    <3>2. CASE i = 1
      BY <1>1, <3>1, <3>2
    <3>3. CASE i # 1
      <4>1. i - 1 \in 1..Len(line') /\ line'[i - 1] = line[i]
        BY <1>1, <3>3
      <4> QED BY <3>1, <4>1 DEF InLine
    <3> QED BY <3>2, <3>3
  <2>2. ASSUME InLine(j)' PROVE InLine(j)
    <3>1. PICK i \in 1..Len(line') : line'[i].job = j
      BY <2>2 DEF InLine
    <3>2. i + 1 \in 1..Len(line) /\ line[i + 1].job = j
      BY <1>1, <3>1
    <3> QED BY <3>2 DEF InLine
  <2>3. ASSUME j = Head(line).job PROVE InLine(j)
    <3>1. 1 \in 1..Len(line) /\ line[1].job = j
      BY <1>1, <2>3
    <3> QED BY <3>1 DEF InLine
  <2> QED BY <2>1, <2>2, <2>3
<1> QED BY <1>1, <1>2

\* What is sent is a queuedJob again, of the same job.
LEMMA Sent ==
    ASSUME NEW e \in Entry, InRetries(e)
    PROVE  /\ Woken(e) \in Entry /\ Woken(e).job = e.job /\ Woken(e).attempt = e.attempt
           /\ \A w \in Workers : e.attempt < MaxRetries[e.job]
                => /\ Retried(e, w) \in Entry /\ InRetries(Retried(e, w))
                   /\ Retried(e, w).job = e.job
                   /\ Retried(e, w).attempt = e.attempt + 1
<1>1. MaxRetries[e.job] \in Nat
  BY ConstantsAssumption DEF Entry
<1>2. Woken(e) \in Entry /\ Woken(e).job = e.job /\ Woken(e).attempt = e.attempt
  BY DEF Woken, Entry
<1>3. ASSUME NEW w \in Workers, e.attempt < MaxRetries[e.job]
      PROVE  /\ Retried(e, w) \in Entry
             /\ Retried(e, w).job = e.job
             /\ Retried(e, w).attempt = e.attempt + 1
  BY DEF Retried, Entry
<1>4. ASSUME NEW w \in Workers, e.attempt < MaxRetries[e.job]
      PROVE  InRetries(Retried(e, w))
  <2>1. e.attempt \in Nat
    BY DEF Entry
  <2> QED BY <1>1, <1>3, <1>4, <2>1 DEF InRetries
<1> QED BY <1>2, <1>3, <1>4

-----------------------------------------------------------------------------
(* The invariant.                                                          *)

\* An entry knows how often its job has been handled.
Counts ==
    /\ \A i \in 1..Len(line) : runs[line[i].job] = line[i].attempt
    /\ \A e \in sleeping : runs[e.job] = e.attempt
    /\ \A w \in Workers : pc[w] = "handle" => runs[held[w].job] = held[w].attempt + 1
    /\ \A j \in Jobs \ submitted : runs[j] = 0

\* A job is settled once, after it was enqueued.
SettledOnce == done \cap dead = {} /\ done \cup dead \subseteq submitted

\* No worker runs before Start, and Stop has returned only when all have.
PoolPhase ==
    /\ phase = "new" => \A w \in Workers : pc[w] = "none"
    /\ phase = "stopped" => \A w \in Workers : pc[w] = "gone"

Inv == TypeOK /\ EachJobOnce /\ Counts /\ SettledOnce /\ PoolPhase

\* An empty line and no worker: the invariant holds at the start.
LEMMA InitInv == Init => Inv
<1> SUFFICES ASSUME Init PROVE Inv
  OBVIOUS
<1> USE DEF Init
<1>0. Len(line) = 0 /\ line \in Seq(Entry) /\ \A w \in Workers : pc[w] = "none"
  OBVIOUS
<1>1. \A j : ~InLine(j) /\ ~Asleep(j) /\ ~Running(j)
  <2>1. \A j : ~InLine(j)
    <3>1. 1..Len(line) = {}
      BY <1>0
    <3> QED BY <3>1, Zenon DEF InLine
  <2>2. \A j : ~Asleep(j)
    BY DEF Asleep
  <2>3. \A j : ~Running(j)
    BY <1>0 DEF Running
  <2> QED BY <2>1, <2>2, <2>3
<1>2. TypeOK
  <2>1. pc \in [Workers -> WorkerStages] /\ held \in [Workers -> Entry \cup {None}]
    BY DEF WorkerStages
  <2>2. runs \in [Jobs -> Nat] /\ phase \in Phases
    BY DEF Phases
  <2>3. \A i \in 1..Len(line) : InRetries(line[i])
    BY <1>0
  <2> QED BY <1>0, <2>1, <2>2, <2>3 DEF TypeOK
<1>3. EachJobOnce
  BY <1>0, <1>1 DEF EachJobOnce
<1>4. Counts /\ SettledOnce /\ PoolPhase
  BY <1>0 DEF Counts, SettledOnce, PoolPhase
<1> QED BY <1>2, <1>3, <1>4 DEF Inv

\* A send of an entry that was nowhere else keeps the invariant: the entry's
\* job has left its other places, and has been handled as often as it says.
LEMMA SendKeeps ==
    ASSUME Inv, NEW e \in Entry, InRetries(e), Send(e),
           ~InLine(e.job), ~Asleep(e.job)', ~Running(e.job)',
           e.job \in submitted', e.job \notin done \cup dead,
           runs[e.job] = e.attempt,
           sleeping' \subseteq sleeping, submitted \subseteq submitted',
           submitted' \subseteq Jobs,
           pc' \in [Workers -> WorkerStages],
           held' \in [Workers -> Entry \cup {None}],
           \A w \in Workers : pc'[w] = "handle" => pc[w] = "handle" /\ held'[w] = held[w],
           UNCHANGED <<phase, cancelled, done, dead, runs>>,
           PoolPhase'
    PROVE  Inv'
<1> USE DEF Inv
<1>1. /\ line' \in Seq(Entry)
      /\ Len(line') = Len(line) + 1
      /\ \A i \in 1..Len(line) : line'[i] = line[i]
      /\ line'[Len(line) + 1] = e
      /\ \A j : InLine(j)' <=> InLine(j) \/ j = e.job
  BY LineSend DEF TypeOK
<1>2. Len(line) \in Nat
  BY DEF TypeOK
<1>3. TypeOK'
  <2>1. \A i \in 1..Len(line') : InRetries(line'[i])
    BY <1>1, <1>2 DEF TypeOK
  <2> QED BY <1>1, <2>1 DEF TypeOK, InRetries
<1>4. \A j : (Asleep(j)' => Asleep(j)) /\ (Running(j)' => Running(j))
  BY DEF Asleep, Running
<1>5. EachJobOnce'
  <2>1. \A i, k \in 1..Len(line') : line'[i].job = line'[k].job => i = k
    <3>1. \A i \in 1..Len(line) : line[i].job # e.job
      BY DEF InLine
    <3> QED BY <1>1, <1>2, <3>1 DEF EachJobOnce
  <2>2. \A d, f \in sleeping' : d.job = f.job => d = f
    BY DEF EachJobOnce
  <2>3. \A v, w \in Workers :
          pc'[v] = "handle" /\ pc'[w] = "handle" /\ held'[v].job = held'[w].job => v = w
    BY DEF EachJobOnce
  <2>4. \A j \in Jobs :
          /\ InLine(j)' => ~Asleep(j)' /\ ~Running(j)'
          /\ Asleep(j)' => ~Running(j)'
          /\ InLine(j)' \/ Asleep(j)' \/ Running(j)'
             => j \in submitted' /\ j \notin done' \cup dead'
    BY <1>1, <1>4 DEF EachJobOnce
  <2> QED BY <2>1, <2>2, <2>3, <2>4 DEF EachJobOnce
<1>6. Counts'
  <2>1. \A i \in 1..Len(line') : runs[line'[i].job] = line'[i].attempt
    BY <1>1, <1>2 DEF Counts
  <2> QED BY <2>1 DEF Counts
<1>7. SettledOnce'
  BY DEF SettledOnce
<1> QED BY <1>3, <1>5, <1>6, <1>7

\* A receive of a worker: the job at the head of the line moves to a sleeper
\* or to the worker.
LEMMA TakeKeeps ==
    ASSUME Inv, NEW w \in Workers, Postpone(w) \/ Pickup(w)
    PROVE  Inv'
<1> USE DEF Inv
<1>1. line # <<>> /\ line' = Tail(line) /\ pc[w] = "select"
  BY DEF Postpone, Pickup, AtSelect
<1>0. PICK e \in Entry : e = Head(line)
  BY <1>1, LineTake DEF TypeOK
<1>2. /\ e = line[1]
      /\ Len(line) \in Nat \ {0}
      /\ line' \in Seq(Entry)
      /\ Len(line') = Len(line) - 1
      /\ \A i \in 1..Len(line') : line'[i] = line[i + 1]
      /\ \A j : InLine(j) <=> InLine(j)' \/ j = e.job
  BY <1>0, <1>1, LineTake DEF TypeOK
<1>3. InRetries(e) /\ e.job \in Jobs /\ e.attempt \in Nat /\ runs[e.job] = e.attempt
  <2>1. 1 \in 1..Len(line)
    BY <1>2
  <2> QED BY <1>2, <2>1 DEF TypeOK, Counts, Entry
<1>4. InLine(e.job) /\ ~Asleep(e.job) /\ ~Running(e.job)
      /\ e.job \in submitted /\ e.job \notin done \cup dead
  BY <1>2, <1>3 DEF EachJobOnce
<1>5. ~InLine(e.job)'
  <2>1. ASSUME NEW i \in 1..Len(line'), line'[i].job = e.job PROVE FALSE
    <3>1. i + 1 \in 1..Len(line) /\ 1 \in 1..Len(line) /\ line[i + 1].job = line[1].job
      BY <1>2, <2>1
    <3>2. i + 1 = 1
      BY <3>1 DEF EachJobOnce
    <3> QED BY <3>2
  <2> QED BY <2>1 DEF InLine
<1>6. \A i, k \in 1..Len(line') : line'[i].job = line'[k].job => i = k
  <2> SUFFICES ASSUME NEW i \in 1..Len(line'), NEW k \in 1..Len(line'),
                      line'[i].job = line'[k].job
               PROVE  i = k
    OBVIOUS
  <2>1. i + 1 \in 1..Len(line) /\ k + 1 \in 1..Len(line)
        /\ line[i + 1].job = line[k + 1].job
    BY <1>2
  <2>2. i + 1 = k + 1
    BY <2>1 DEF EachJobOnce
  <2> QED BY <2>2
<1>7. \A i \in 1..Len(line') : /\ InRetries(line'[i])
                               /\ line'[i].job \in Jobs
                               /\ line'[i].job # e.job
                               /\ runs[line'[i].job] = line'[i].attempt
  <2> SUFFICES ASSUME NEW i \in 1..Len(line')
               PROVE  /\ InRetries(line'[i])
                      /\ line'[i].job \in Jobs
                      /\ line'[i].job # e.job
                      /\ runs[line'[i].job] = line'[i].attempt
    OBVIOUS
  <2>1. i + 1 \in 1..Len(line) /\ line'[i] = line[i + 1]
    BY <1>2
  <2>2. line[i + 1] \in Entry
    BY <2>1 DEF TypeOK
  <2>3. line'[i].job # e.job
    BY <1>5 DEF InLine
  <2>4. runs[line[i + 1].job] = line[i + 1].attempt /\ InRetries(line[i + 1])
    BY <2>1 DEF TypeOK, Counts
  <2> QED BY <2>1, <2>2, <2>3, <2>4 DEF Entry
<1>8. CASE Postpone(w)
  <2>1. /\ sleeping' = sleeping \cup {e}
        /\ UNCHANGED <<pc, held, phase, cancelled, submitted, done, dead, runs>>
    BY <1>0, <1>8 DEF Postpone
  <2>2. \A j : (Asleep(j)' <=> Asleep(j) \/ j = e.job) /\ (Running(j)' <=> Running(j))
    BY <2>1 DEF Asleep, Running
  <2>3. TypeOK'
    BY <1>2, <1>3, <1>7, <2>1 DEF TypeOK, InRetries
  <2>4. EachJobOnce'
    <3>1. \A d, f \in sleeping' : d.job = f.job => d = f
      BY <1>4, <2>1 DEF EachJobOnce, Asleep
    <3>2. \A j \in Jobs :
            /\ InLine(j)' => ~Asleep(j)' /\ ~Running(j)'
            /\ Asleep(j)' => ~Running(j)'
            /\ InLine(j)' \/ Asleep(j)' \/ Running(j)'
               => j \in submitted' /\ j \notin done' \cup dead'
      BY <1>2, <1>4, <1>5, <2>1, <2>2 DEF EachJobOnce
    <3> QED BY <1>6, <2>1, <3>1, <3>2 DEF EachJobOnce
  <2>5. Counts' /\ SettledOnce' /\ PoolPhase'
    BY <1>3, <1>7, <2>1 DEF Counts, SettledOnce, PoolPhase
  <2> QED BY <2>3, <2>4, <2>5
<1>9. CASE Pickup(w)
  <2>1. /\ held' = [held EXCEPT ![w] = e]
        /\ pc' = [pc EXCEPT ![w] = "handle"]
        /\ runs' = [runs EXCEPT ![e.job] = @ + 1]
        /\ UNCHANGED <<sleeping, phase, cancelled, submitted, done, dead>>
    BY <1>0, <1>9 DEF Pickup
  <2>2. \A v \in Workers : v # w => /\ pc'[v] = pc[v]
                                    /\ pc[v] = "handle" => held'[v] = held[v]
    BY <2>1 DEF TypeOK
  <2>3. pc'[w] = "handle" /\ held'[w] = e /\ pc[w] # "handle"
    BY <1>1, <2>1 DEF TypeOK
  <2>4. \A j : (Asleep(j)' <=> Asleep(j)) /\ (Running(j)' <=> Running(j) \/ j = e.job)
    BY <2>1, <2>2, <2>3 DEF Asleep, Running
  <2>5. TypeOK'
    <3>1. pc' \in [Workers -> WorkerStages] /\ held' \in [Workers -> Entry \cup {None}]
      BY <2>1 DEF TypeOK, WorkerStages
    <3>2. \A v \in Workers : pc'[v] = "handle" => held'[v] \in Entry /\ InRetries(held'[v])
      BY <1>3, <2>2, <2>3 DEF TypeOK
    <3>3. runs' \in [Jobs -> Nat]
      BY <1>3, <2>1 DEF TypeOK
    <3> QED BY <1>2, <1>7, <2>1, <3>1, <3>2, <3>3 DEF TypeOK, InRetries
  <2>6. EachJobOnce'
    <3>1. \A u, v \in Workers :
            pc'[u] = "handle" /\ pc'[v] = "handle" /\ held'[u].job = held'[v].job => u = v
      BY <1>4, <2>2, <2>3 DEF EachJobOnce, Running
    <3>2. \A j \in Jobs :
            /\ InLine(j)' => ~Asleep(j)' /\ ~Running(j)'
            /\ Asleep(j)' => ~Running(j)'
            /\ InLine(j)' \/ Asleep(j)' \/ Running(j)'
               => j \in submitted' /\ j \notin done' \cup dead'
      BY <1>2, <1>4, <1>5, <2>1, <2>4 DEF EachJobOnce
    <3> QED BY <1>6, <2>1, <3>1, <3>2 DEF EachJobOnce
  <2>7. Counts'
    <3>1. runs'[e.job] = e.attempt + 1 /\ \A j \in Jobs : j # e.job => runs'[j] = runs[j]
      BY <1>3, <2>1 DEF TypeOK
    <3>2. \A i \in 1..Len(line') : runs'[line'[i].job] = line'[i].attempt
      BY <1>7, <3>1
    <3>3. \A f \in sleeping' : runs'[f.job] = f.attempt
      BY <1>4, <2>1, <3>1 DEF Counts, TypeOK, Entry, Asleep
    <3>4. \A v \in Workers : pc'[v] = "handle" => runs'[held'[v].job] = held'[v].attempt + 1
      <4> SUFFICES ASSUME NEW v \in Workers, pc'[v] = "handle"
                   PROVE  runs'[held'[v].job] = held'[v].attempt + 1
        OBVIOUS
      <4>1. CASE v = w
        BY <2>3, <3>1, <4>1
      <4>2. CASE v # w
        <5>1. pc[v] = "handle" /\ held'[v] = held[v] /\ held[v] \in Entry
          BY <2>2, <4>2 DEF TypeOK
        <5>2. held[v].job # e.job /\ held[v].job \in Jobs
          BY <1>4, <5>1 DEF Running, Entry
        <5> QED BY <3>1, <5>1, <5>2 DEF Counts
      <4> QED BY <4>1, <4>2
    <3>5. \A j \in Jobs \ submitted' : runs'[j] = 0
      BY <1>4, <2>1, <3>1 DEF Counts
    <3> QED BY <3>2, <3>3, <3>4, <3>5 DEF Counts
  <2>8. SettledOnce' /\ PoolPhase'
    BY <1>1, <2>1 DEF SettledOnce, PoolPhase
  <2> QED BY <2>5, <2>6, <2>7, <2>8
<1> QED BY <1>8, <1>9

\* A step that moves no job but out of a worker's hands keeps the invariant:
\* what it settles is nowhere any more.
LEMMA SettleKeeps ==
    ASSUME Inv,
           UNCHANGED <<line, sleeping, submitted, runs>>,
           pc' \in [Workers -> WorkerStages],
           held' \in [Workers -> Entry \cup {None}],
           \A w \in Workers : pc'[w] = "handle" => pc[w] = "handle" /\ held'[w] = held[w],
           done' \cap dead' = {}, done' \cup dead' \subseteq submitted,
           \A j \in (done' \cup dead') \ (done \cup dead) :
              ~InLine(j) /\ ~Asleep(j) /\ ~Running(j)',
           phase' \in Phases, cancelled' \in BOOLEAN,
           PoolPhase'
    PROVE  Inv'
<1> USE DEF Inv
<1>1. \A j : /\ InLine(j)' <=> InLine(j)
             /\ Asleep(j)' <=> Asleep(j)
             /\ Running(j)' => Running(j)
  BY DEF InLine, Asleep, Running
<1>2. TypeOK'
  <2>1. done' \subseteq Jobs /\ dead' \subseteq Jobs
    BY DEF TypeOK
  <2> QED BY <2>1 DEF TypeOK, InRetries
<1>3. EachJobOnce'
  <2>1. \A j \in Jobs :
          /\ InLine(j)' => ~Asleep(j)' /\ ~Running(j)'
          /\ Asleep(j)' => ~Running(j)'
          /\ InLine(j)' \/ Asleep(j)' \/ Running(j)'
             => j \in submitted' /\ j \notin done' \cup dead'
    BY <1>1 DEF EachJobOnce
  <2> QED BY <2>1 DEF EachJobOnce
<1>4. Counts'
  BY DEF Counts
<1>5. SettledOnce'
  BY DEF SettledOnce
<1> QED BY <1>2, <1>3, <1>4, <1>5

\* Every step keeps the invariant.
LEMMA NextInv == Inv /\ [Next]_vars => Inv'
<1> SUFFICES ASSUME Inv, [Next]_vars PROVE Inv'
  OBVIOUS
<1>0. TypeOK /\ EachJobOnce /\ Counts /\ SettledOnce /\ PoolPhase
  BY DEF Inv
<1>1. ASSUME NEW j \in Jobs, NEW early \in BOOLEAN, EnqueueAt(j, early) PROVE Inv'
  <2>0. [job |-> j, attempt |-> 0, early |-> early, by |-> Caller] \in Entry
    BY DEF Entry
  <2>1. PICK e \in Entry : e = [job |-> j, attempt |-> 0, early |-> early, by |-> Caller]
    BY <2>0
  <2>2. InRetries(e)
    <3>1. MaxRetries[j] \in Nat
      BY ConstantsAssumption
    <3> QED BY <2>1, <3>1 DEF InRetries
  <2>3. Send(e) /\ j \notin submitted /\ submitted' = submitted \cup {j}
        /\ UNCHANGED <<sleeping, pc, held, phase, cancelled, done, dead, runs>>
    BY <1>1, <2>1 DEF EnqueueAt
  <2>4. ~InLine(j) /\ ~Asleep(j) /\ ~Running(j)
    BY <1>0, <2>3 DEF EachJobOnce
  <2>5. ~Asleep(j)' /\ ~Running(j)'
    BY <2>3, <2>4 DEF Asleep, Running
  <2>6. j \notin done \cup dead /\ runs[j] = 0
    BY <1>0, <2>3 DEF SettledOnce, Counts
  <2>7. PoolPhase' /\ pc' \in [Workers -> WorkerStages]
        /\ held' \in [Workers -> Entry \cup {None}] /\ submitted' \subseteq Jobs
    BY <1>0, <2>3 DEF PoolPhase, TypeOK
  <2>8. ~Asleep(e.job)' /\ ~Running(e.job)'
    BY <2>1, <2>5 DEF Asleep, Running
  <2>9. /\ ~InLine(e.job) /\ e.job \in submitted' /\ e.job \notin done \cup dead
        /\ runs[e.job] = e.attempt
    BY <2>1, <2>3, <2>4, <2>6
  <2>10. \A w \in Workers : pc'[w] = "handle" => pc[w] = "handle" /\ held'[w] = held[w]
    BY <2>3
  <2> QED BY <2>2, <2>3, <2>7, <2>8, <2>9, <2>10, SendKeeps
<1>2. ASSUME NEW w \in Workers, Postpone(w) \/ Pickup(w) PROVE Inv'
  BY <1>2, TakeKeeps
<1>3. ASSUME NEW w \in Workers, Leave(w) PROVE Inv'
  <2>1. /\ pc[w] = "select" /\ pc' = [pc EXCEPT ![w] = "gone"]
        /\ UNCHANGED <<line, sleeping, held, phase, cancelled, submitted, done, dead, runs>>
    BY <1>3 DEF Leave, AtSelect
  <2>2. PoolPhase' /\ pc' \in [Workers -> WorkerStages]
        /\ \A v \in Workers : pc'[v] = "handle" => pc[v] = "handle"
    BY <1>0, <2>1 DEF TypeOK, WorkerStages, PoolPhase
  <2> QED BY <1>0, <2>1, <2>2, SettleKeeps DEF TypeOK, SettledOnce
<1>4. ASSUME NEW w \in Workers, pc[w] = "handle",
             pc' = [pc EXCEPT ![w] = "select"], held' = [held EXCEPT ![w] = None]
      PROVE  /\ pc' \in [Workers -> WorkerStages]
             /\ held' \in [Workers -> Entry \cup {None}]
             /\ \A v \in Workers : pc'[v] = "handle" =>
                   v # w /\ pc[v] = "handle" /\ held'[v] = held[v]
             /\ held[w] \in Entry /\ InRetries(held[w])
             /\ runs[held[w].job] = held[w].attempt + 1
             /\ held[w].job \in submitted /\ held[w].job \notin done \cup dead
             /\ ~InLine(held[w].job) /\ ~Asleep(held[w].job)
             /\ phase \notin {"new", "stopped"}
  <2>1. pc' \in [Workers -> WorkerStages] /\ held' \in [Workers -> Entry \cup {None}]
    BY <1>0, <1>4 DEF TypeOK, WorkerStages
  <2>2. \A v \in Workers : pc'[v] = "handle" =>
           v # w /\ pc[v] = "handle" /\ held'[v] = held[v]
    BY <1>0, <1>4 DEF TypeOK
  <2>3. held[w] \in Entry /\ InRetries(held[w]) /\ held[w].job \in Jobs
        /\ runs[held[w].job] = held[w].attempt + 1
    BY <1>0, <1>4 DEF TypeOK, Counts, Entry
  <2>4. Running(held[w].job)
    BY <1>4 DEF Running
  <2> QED BY <1>0, <1>4, <2>1, <2>2, <2>3, <2>4 DEF EachJobOnce, PoolPhase
<1>5. ASSUME NEW w \in Workers, Succeed(w) PROVE Inv'
  <2>1. /\ pc[w] = "handle" /\ pc' = [pc EXCEPT ![w] = "select"]
        /\ held' = [held EXCEPT ![w] = None]
        /\ done' = done \cup {held[w].job}
        /\ UNCHANGED <<line, sleeping, phase, cancelled, submitted, dead, runs>>
    BY <1>5 DEF Succeed
  <2>2. PICK j \in Jobs : j = held[w].job
    BY <1>4, <2>1 DEF Entry
  <2>3. ~Running(j)'
    BY <1>0, <1>4, <2>1, <2>2 DEF EachJobOnce, Running
  <2>4. /\ j \in submitted /\ j \notin done \cup dead /\ ~InLine(j) /\ ~Asleep(j)
        /\ PoolPhase'
    BY <1>4, <2>1, <2>2 DEF PoolPhase
  <2>5. done' \cap dead' = {} /\ done' \cup dead' = done \cup dead \cup {j}
        /\ done' \cup dead' \subseteq submitted
    BY <1>0, <2>1, <2>2, <2>4 DEF SettledOnce
  <2>6. phase' \in Phases /\ cancelled' \in BOOLEAN
    BY <1>0, <2>1 DEF TypeOK
  <2>7. /\ pc' \in [Workers -> WorkerStages] /\ held' \in [Workers -> Entry \cup {None}]
        /\ \A v \in Workers : pc'[v] = "handle" => pc[v] = "handle" /\ held'[v] = held[v]
    BY <1>4, <2>1
  <2>8. \A i \in (done' \cup dead') \ (done \cup dead) :
           ~InLine(i) /\ ~Asleep(i) /\ ~Running(i)'
    BY <2>3, <2>4, <2>5 DEF Running
  <2> QED BY <2>1, <2>5, <2>6, <2>7, <2>8, <2>4, SettleKeeps
<1>6. ASSUME NEW w \in Workers, GiveUp(w) PROVE Inv'
  <2>1. /\ pc[w] = "handle" /\ pc' = [pc EXCEPT ![w] = "select"]
        /\ held' = [held EXCEPT ![w] = None]
        /\ dead' = dead \cup {held[w].job}
        /\ UNCHANGED <<line, sleeping, phase, cancelled, submitted, done, runs>>
    BY <1>6 DEF GiveUp
  <2>2. PICK j \in Jobs : j = held[w].job
    BY <1>4, <2>1 DEF Entry
  <2>3. ~Running(j)'
    BY <1>0, <1>4, <2>1, <2>2 DEF EachJobOnce, Running
  <2>4. /\ j \in submitted /\ j \notin done \cup dead /\ ~InLine(j) /\ ~Asleep(j)
        /\ PoolPhase'
    BY <1>4, <2>1, <2>2 DEF PoolPhase
  <2>5. done' \cap dead' = {} /\ done' \cup dead' = done \cup dead \cup {j}
        /\ done' \cup dead' \subseteq submitted
    BY <1>0, <2>1, <2>2, <2>4 DEF SettledOnce
  <2>6. phase' \in Phases /\ cancelled' \in BOOLEAN
    BY <1>0, <2>1 DEF TypeOK
  <2>7. /\ pc' \in [Workers -> WorkerStages] /\ held' \in [Workers -> Entry \cup {None}]
        /\ \A v \in Workers : pc'[v] = "handle" => pc[v] = "handle" /\ held'[v] = held[v]
    BY <1>4, <2>1
  <2>8. \A i \in (done' \cup dead') \ (done \cup dead) :
           ~InLine(i) /\ ~Asleep(i) /\ ~Running(i)'
    BY <2>3, <2>4, <2>5 DEF Running
  <2> QED BY <2>1, <2>5, <2>6, <2>7, <2>8, <2>4, SettleKeeps
<1>7. ASSUME NEW w \in Workers, Retry(w) PROVE Inv'
  <2>1. /\ pc[w] = "handle" /\ pc' = [pc EXCEPT ![w] = "select"]
        /\ held' = [held EXCEPT ![w] = None]
        /\ held[w].attempt < MaxRetries[held[w].job]
        /\ Send(Retried(held[w], w))
        /\ UNCHANGED <<sleeping, phase, cancelled, submitted, done, dead, runs>>
    BY <1>7 DEF Retry
  <2>2. PICK e \in Entry : e = Retried(held[w], w)
    BY <1>4, <2>1, Sent
  <2>3. InRetries(e) /\ e.job = held[w].job /\ e.attempt = held[w].attempt + 1
    BY <1>4, <2>1, <2>2, Sent
  <2>4. ~Running(e.job)' /\ ~Asleep(e.job)'
    <3>1. ASSUME NEW v \in Workers, pc'[v] = "handle" PROVE held'[v].job # e.job
      <4>1. v # w /\ pc[v] = "handle" /\ held'[v] = held[v]
        BY <1>4, <2>1, <3>1
      <4>2. held[v].job # held[w].job
        BY <1>0, <2>1, <4>1 DEF EachJobOnce
      <4> QED BY <2>3, <4>1, <4>2
    <3>2. ~Asleep(e.job)'
      BY <1>4, <2>1, <2>3 DEF Asleep
    <3> QED BY <3>1, <3>2 DEF Running
  <2>5. PoolPhase'
    BY <1>4, <2>1 DEF PoolPhase
  <2>6. Send(e) /\ ~InLine(e.job) /\ e.job \in submitted' /\ e.job \notin done \cup dead
        /\ runs[e.job] = e.attempt
    BY <1>4, <2>1, <2>2, <2>3
  <2>7. submitted' \subseteq Jobs
    BY <1>0, <2>1 DEF TypeOK
  <2> QED BY <1>4, <2>1, <2>3, <2>4, <2>5, <2>6, <2>7, SendKeeps
<1>8. ASSUME NEW j \in Jobs, Wake(j) PROVE Inv'
  <2>1. PICK f \in sleeping : /\ f.job = j
                              /\ sleeping' = sleeping \ {f}
                              /\ Send(Woken(f))
    BY <1>8 DEF Wake
  <2>2. UNCHANGED <<pc, held, phase, cancelled, submitted, done, dead, runs>>
    BY <1>8 DEF Wake
  <2>3. f \in Entry /\ InRetries(f) /\ runs[j] = f.attempt
    BY <1>0, <2>1 DEF TypeOK, Counts
  <2>4. PICK e \in Entry : e = Woken(f)
    BY <2>3, Sent
  <2>5. e.job = j /\ e.attempt = f.attempt /\ InRetries(e)
    BY <2>1, <2>3, <2>4, Sent DEF InRetries
  <2>6. Asleep(j)
    BY <2>1 DEF Asleep
  <2>7. ~InLine(j) /\ ~Running(j) /\ j \in submitted /\ j \notin done \cup dead
    BY <1>0, <2>6 DEF EachJobOnce
  <2>8. ~Asleep(e.job)' /\ ~Running(e.job)'
    BY <1>0, <2>1, <2>2, <2>5, <2>7 DEF EachJobOnce, Asleep, Running
  <2>9. PoolPhase' /\ pc' \in [Workers -> WorkerStages]
        /\ held' \in [Workers -> Entry \cup {None}] /\ submitted' \subseteq Jobs
        /\ \A w \in Workers : pc'[w] = "handle" => pc[w] = "handle" /\ held'[w] = held[w]
    BY <1>0, <2>2 DEF PoolPhase, TypeOK
  <2>10. Send(e) /\ ~InLine(e.job) /\ e.job \in submitted' /\ e.job \notin done \cup dead
         /\ runs[e.job] = e.attempt
    BY <2>1, <2>2, <2>3, <2>4, <2>5, <2>7
  <2> QED BY <2>1, <2>2, <2>5, <2>8, <2>9, <2>10, SendKeeps
<1>9. CASE Start
  <2>1. /\ phase' = "running"
        /\ pc' = [w \in Workers |-> "select"]
        /\ UNCHANGED <<line, sleeping, held, cancelled, submitted, done, dead, runs>>
    BY <1>9 DEF Start
  <2>2. pc' \in [Workers -> WorkerStages] /\ phase' \in Phases /\ PoolPhase'
    BY <2>1 DEF WorkerStages, Phases, PoolPhase
  <2> QED BY <1>0, <2>1, <2>2, SettleKeeps DEF TypeOK, SettledOnce
<1>10. CASE CancelRun \/ Stop \/ StopReturns
  <2>1. UNCHANGED <<line, sleeping, pc, held, submitted, done, dead, runs>>
    BY <1>10 DEF CancelRun, Stop, StopReturns
  <2>2. cancelled' \in BOOLEAN /\ phase' \in Phases /\ PoolPhase'
    BY <1>0, <1>10 DEF CancelRun, Stop, StopReturns, TypeOK, Phases, PoolPhase
  <2> QED BY <1>0, <2>1, <2>2, SettleKeeps DEF TypeOK, SettledOnce
<1>11. CASE UNCHANGED vars
  <2>1. UNCHANGED <<line, sleeping, pc, held, phase, cancelled, submitted, done, dead, runs>>
    BY <1>11 DEF vars
  <2>2. PoolPhase'
    BY <1>0, <2>1 DEF PoolPhase
  <2> QED BY <1>0, <2>1, <2>2, SettleKeeps DEF TypeOK, SettledOnce
<1> QED
  BY <1>1, <1>2, <1>3, <1>5, <1>6, <1>7, <1>8, <1>9, <1>10, <1>11
     DEF Next, Select, Handle

\* src/jobs.go: what workers, sleepers and callers pass on is always a queuedJob
\* with a retry left for the attempt it is for.
THEOREM QueueTypeCorrect == Spec => []TypeOK
<1>1. Inv => TypeOK
  BY DEF Inv
<1> QED BY InitInv, NextInv, <1>1, PTL DEF Spec

\* src/jobs.go worker: a job is in one place at a time, whatever the workers,
\* the sleepers and the full channel do.
THEOREM JobsAreNotDuplicated == Spec => []EachJobOnce
<1>1. Inv => EachJobOnce
  BY DEF Inv
<1> QED BY InitInv, NextInv, <1>1, PTL DEF Spec

\* src/jobs.go Stop: no Handle runs, or is started, once Stop has returned.
THEOREM StopIsFinal == Spec => NothingAfterStop
<1> DEFINE A == phase = "stopped" => runs' = runs /\ done' = done /\ dead' = dead
<1>1. Inv /\ [Next]_vars => A
  <2> SUFFICES ASSUME Inv, [Next]_vars, phase = "stopped"
               PROVE  runs' = runs /\ done' = done /\ dead' = dead
    OBVIOUS
  <2>1. \A w \in Workers : pc[w] = "gone"
    BY DEF Inv, PoolPhase
  <2>2. \A w \in Workers : ~Select(w) /\ ~Handle(w)
    BY <2>1 DEF Select, Handle, Leave, Postpone, Pickup, AtSelect, Succeed, Retry, GiveUp
  <2>3. ~Start /\ ~Stop /\ ~CancelRun /\ ~StopReturns
    BY DEF Start, Stop, CancelRun, StopReturns
  <2>4. CASE UNCHANGED vars
    BY <2>4 DEF vars
  <2>5. CASE \E j \in Jobs : Wake(j) \/ \E early \in BOOLEAN : EnqueueAt(j, early)
    BY <2>5 DEF Wake, EnqueueAt
  <2> QED BY <2>2, <2>3, <2>4, <2>5 DEF Next
<1>2. Inv /\ [Next]_vars => [A]_vars
  BY <1>1
<1>3. [][A]_vars => NothingAfterStop
  BY PTL DEF NothingAfterStop
<1> HIDE DEF A
<1> QED BY InitInv, NextInv, <1>2, <1>3, PTL DEF Spec

-----------------------------------------------------------------------------
(* The queue implements JobLifecycle.                                      *)

\* In the queue, seen from outside.
Waiting(j) == InLine(j) \/ Asleep(j)

\* The status of a job that is nowhere but in one place.
LEMMA StatusIs ==
    ASSUME NEW j \in Jobs
    PROVE  /\ j \in done => StatusOf(j) = "done"
           /\ j \notin done /\ j \in dead => StatusOf(j) = "dead"
           /\ j \notin done \cup dead /\ Running(j) => StatusOf(j) = "running"
           /\ j \notin done \cup dead /\ ~Running(j) /\ Waiting(j) => StatusOf(j) = "queued"
           /\ j \notin done \cup dead /\ ~Running(j) /\ ~Waiting(j) => StatusOf(j) = "new"
BY DEF StatusOf, Waiting

\* A job that stays where it is keeps its status.
LEMMA StatusKept ==
    ASSUME NEW j \in Jobs,
           j \in done' <=> j \in done, j \in dead' <=> j \in dead,
           Running(j)' <=> Running(j), Waiting(j)' <=> Waiting(j)
    PROVE  StatusOf(j)' = StatusOf(j)
<1>1. StatusOf(j) = IF j \in done THEN "done" ELSE IF j \in dead THEN "dead"
                    ELSE IF Running(j) THEN "running"
                    ELSE IF Waiting(j) THEN "queued" ELSE "new"
  BY DEF StatusOf, Waiting
<1>2. StatusOf(j)' = IF j \in done' THEN "done" ELSE IF j \in dead' THEN "dead"
                     ELSE IF Running(j)' THEN "running"
                     ELSE IF Waiting(j)' THEN "queued" ELSE "new"
  BY DEF StatusOf, Waiting
<1> QED BY <1>1, <1>2

\* A step that changes nobody's status and handles nothing is a stutter of the
\* lifecycle.
LEMMA StatusesKept ==
    ASSUME UNCHANGED <<done, dead, runs>>,
           \A j \in Jobs : (Running(j)' <=> Running(j)) /\ (Waiting(j)' <=> Waiting(j))
    PROVE  UNCHANGED Lifecycle!lifecycleVars
<1>1. \A j \in Jobs : StatusOf(j)' = StatusOf(j)
  BY StatusKept
<1>2. [j \in Jobs |-> StatusOf(j)]' = [j \in Jobs |-> StatusOf(j)]
  BY <1>1
<1> QED BY <1>2 DEF Lifecycle!lifecycleVars

\* A step that changes the status of one job is that move of the lifecycle.
LEMMA StatusMoves ==
    ASSUME NEW j \in Jobs, NEW a, NEW b,
           StatusOf(j) = a, StatusOf(j)' = b,
           \A k \in Jobs \ {j} : StatusOf(k)' = StatusOf(k)
    PROVE  Lifecycle!Move(j, a, b)
<1>1. [k \in Jobs |-> StatusOf(k)]' = [[k \in Jobs |-> StatusOf(k)] EXCEPT ![j] = b]
  OBVIOUS
<1> QED BY <1>1 DEF Lifecycle!Move

\* The initial state is the lifecycle's.
LEMMA InitLifecycle == Init => Lifecycle!Init
<1> SUFFICES ASSUME Init PROVE Lifecycle!Init
  OBVIOUS
<1>0. 1..Len(line) = {} /\ done = {} /\ dead = {}
  BY DEF Init
<1>1. \A j \in Jobs : ~InLine(j)
  BY <1>0, Zenon DEF InLine
<1>2. \A j \in Jobs : ~Asleep(j) /\ ~Running(j)
  BY DEF Init, Asleep, Running
<1>3. \A j \in Jobs : StatusOf(j) = "new"
  BY <1>0, <1>1, <1>2, StatusIs DEF Waiting
<1> QED BY <1>3 DEF Lifecycle!Init, Init

\* Every step of the queue is a step or a stutter of the lifecycle.
LEMMA NextLifecycle == Inv /\ Inv' /\ [Next]_vars => [Lifecycle!Next]_(Lifecycle!lifecycleVars)
<1> SUFFICES ASSUME Inv, Inv', [Next]_vars
             PROVE  Lifecycle!Next \/ UNCHANGED Lifecycle!lifecycleVars
  OBVIOUS
<1>0. TypeOK /\ EachJobOnce /\ Counts /\ SettledOnce /\ EachJobOnce'
  BY DEF Inv
<1>1. ASSUME NEW j \in Jobs, NEW early \in BOOLEAN, EnqueueAt(j, early)
      PROVE  Lifecycle!Submit(j)
  <2>0. [job |-> j, attempt |-> 0, early |-> early, by |-> Caller] \in Entry
    BY DEF Entry
  <2>1. PICK e \in Entry : e = [job |-> j, attempt |-> 0, early |-> early, by |-> Caller]
    BY <2>0
  <2>2. Send(e) /\ e.job = j /\ j \notin submitted
        /\ UNCHANGED <<sleeping, pc, held, phase, cancelled, done, dead, runs>>
    BY <1>1, <2>1 DEF EnqueueAt
  <2>3. \A k : InLine(k)' <=> InLine(k) \/ k = j
    BY <1>0, <2>2, LineSend DEF TypeOK
  <2>4. \A k : (Asleep(k)' <=> Asleep(k)) /\ (Running(k)' <=> Running(k))
    BY <2>2 DEF Asleep, Running
  <2>5. ~Waiting(j) /\ ~Running(j) /\ j \notin done \cup dead
    BY <1>0, <2>2 DEF EachJobOnce, SettledOnce, Waiting
  <2>6. \A k \in Jobs \ {j} : StatusOf(k)' = StatusOf(k)
    BY <2>2, <2>3, <2>4, StatusKept DEF Waiting
  <2>7. StatusOf(j) = "new"
    BY <2>5, StatusIs
  <2>8. Waiting(j)' /\ ~Running(j)' /\ j \notin done' \cup dead'
    BY <2>2, <2>3, <2>4, <2>5 DEF Waiting
  <2>9. StatusOf(j)' = "queued"
    BY <2>8 DEF StatusOf, Waiting
  <2>10. Lifecycle!Move(j, "new", "queued")
    BY <2>6, <2>7, <2>9, StatusMoves
  <2> QED BY <2>2, <2>10 DEF Lifecycle!Submit
<1>2. ASSUME NEW w \in Workers, Postpone(w) PROVE UNCHANGED Lifecycle!lifecycleVars
  <2>1. /\ line # <<>> /\ line' = Tail(line)
        /\ sleeping' = sleeping \cup {Head(line)}
        /\ UNCHANGED <<pc, held, phase, cancelled, submitted, done, dead, runs>>
    BY <1>2 DEF Postpone
  <2>2. \A k : InLine(k) <=> InLine(k)' \/ k = Head(line).job
    BY <1>0, <2>1, LineTake DEF TypeOK
  <2>3. \A k : Asleep(k)' <=> Asleep(k) \/ k = Head(line).job
    BY <2>1 DEF Asleep
  <2>4. \A k : Running(k)' <=> Running(k)
    BY <2>1 DEF Running
  <2> QED BY <2>1, <2>2, <2>3, <2>4, StatusesKept DEF Waiting
<1>3. ASSUME NEW w \in Workers, Pickup(w) PROVE \E j \in Jobs : Lifecycle!Pickup(j)
  <2>1. line # <<>> /\ line' = Tail(line) /\ pc[w] = "select"
    BY <1>3 DEF Pickup, AtSelect
  <2>2. PICK e \in Entry : e = Head(line)
    BY <1>0, <2>1, LineTake DEF TypeOK
  <2>3. /\ held' = [held EXCEPT ![w] = e]
        /\ pc' = [pc EXCEPT ![w] = "handle"]
        /\ runs' = [runs EXCEPT ![e.job] = @ + 1]
        /\ UNCHANGED <<sleeping, phase, cancelled, submitted, done, dead>>
    BY <1>3, <2>2 DEF Pickup
  <2>4. e.job \in Jobs /\ \A k : InLine(k) <=> InLine(k)' \/ k = e.job
    BY <1>0, <2>1, <2>2, LineTake DEF TypeOK, Entry
  <2>5. \A v \in Workers : v # w => /\ pc'[v] = pc[v]
                                    /\ pc[v] = "handle" => held'[v] = held[v]
    BY <1>0, <2>3 DEF TypeOK
  <2>6. pc'[w] = "handle" /\ held'[w] = e
    BY <1>0, <2>3 DEF TypeOK
  <2>7. \A k : (Asleep(k)' <=> Asleep(k)) /\ (Running(k)' <=> Running(k) \/ k = e.job)
    BY <2>1, <2>3, <2>5, <2>6 DEF Asleep, Running
  <2>8. InLine(e.job) /\ ~Running(e.job) /\ e.job \notin done \cup dead
    BY <1>0, <2>4 DEF EachJobOnce
  <2>9. \A k \in Jobs \ {e.job} : StatusOf(k)' = StatusOf(k)
    BY <2>3, <2>4, <2>7, StatusKept DEF Waiting
  <2>10. StatusOf(e.job) = "queued"
    BY <2>4, <2>8, StatusIs DEF Waiting
  <2>11. StatusOf(e.job)' = "running"
    <3>1. Running(e.job)' /\ e.job \notin done' \cup dead'
      BY <2>3, <2>7, <2>8
    <3> QED BY <3>1 DEF StatusOf
  <2>12. Lifecycle!Move(e.job, "queued", "running")
    BY <2>4, <2>9, <2>10, <2>11, StatusMoves
  <2> QED BY <2>3, <2>4, <2>12 DEF Lifecycle!Pickup
<1>4. ASSUME NEW w \in Workers, pc[w] = "handle",
             pc' = [pc EXCEPT ![w] = "select"], held' = [held EXCEPT ![w] = None]
      PROVE  \E j \in Jobs : /\ j = held[w].job
                             /\ j \notin done \cup dead
                             /\ runs[j] = held[w].attempt + 1
                             /\ held[w] \in Entry /\ InRetries(held[w])
                             /\ MaxRetries[j] \in Nat
                             /\ Running(j) /\ ~Running(j)' /\ ~Waiting(j)
                             /\ \A k : k # j => (Running(k)' <=> Running(k))
  <2>1. held[w] \in Entry /\ InRetries(held[w]) /\ runs[held[w].job] = held[w].attempt + 1
    BY <1>0, <1>4 DEF TypeOK, Counts
  <2>2. PICK j \in Jobs : j = held[w].job
    BY <2>1 DEF Entry
  <2>3. \A v \in Workers : v # w => pc'[v] = pc[v] /\ held'[v] = held[v]
    BY <1>0, <1>4 DEF TypeOK
  <2>4. pc'[w] = "select"
    BY <1>0, <1>4 DEF TypeOK
  <2>5. Running(j)
    BY <1>4, <2>2 DEF Running
  <2>6. ~Running(j)'
    <3>1. ASSUME NEW v \in Workers, pc'[v] = "handle" PROVE held'[v].job # j
      <4>1. v # w /\ pc[v] = "handle" /\ held'[v] = held[v]
        BY <2>3, <2>4, <3>1
      <4>2. held[v].job # held[w].job
        BY <1>0, <1>4, <4>1 DEF EachJobOnce
      <4> QED BY <2>2, <4>1, <4>2
    <3> QED BY <3>1 DEF Running
  <2>7. \A k : k # j => (Running(k)' <=> Running(k))
    BY <2>2, <2>3, <2>4 DEF Running
  <2>8. j \notin done \cup dead /\ ~Waiting(j)
    BY <1>0, <2>5 DEF EachJobOnce, Waiting
  <2>9. MaxRetries[j] \in Nat
    BY ConstantsAssumption
  <2> QED BY <2>1, <2>2, <2>5, <2>6, <2>7, <2>8, <2>9
<1>5. ASSUME NEW w \in Workers, Succeed(w) PROVE \E j \in Jobs : Lifecycle!Succeed(j)
  <2>1. /\ pc[w] = "handle" /\ pc' = [pc EXCEPT ![w] = "select"]
        /\ held' = [held EXCEPT ![w] = None]
        /\ done' = done \cup {held[w].job}
        /\ UNCHANGED <<line, sleeping, phase, cancelled, submitted, dead, runs>>
    BY <1>5 DEF Succeed
  <2>2. PICK j \in Jobs : /\ j = held[w].job
                          /\ j \notin done \cup dead
                          /\ Running(j) /\ ~Running(j)' /\ ~Waiting(j)
                          /\ \A k : k # j => (Running(k)' <=> Running(k))
    BY <1>4, <2>1
  <2>3. \A k \in Jobs : Waiting(k)' <=> Waiting(k)
    BY <2>1 DEF Waiting, InLine, Asleep
  <2>4. \A k \in Jobs \ {j} : StatusOf(k)' = StatusOf(k)
    BY <2>1, <2>2, <2>3, StatusKept
  <2>5. StatusOf(j) = "running" /\ StatusOf(j)' = "done"
    BY <2>1, <2>2, StatusIs DEF StatusOf
  <2>6. Lifecycle!Move(j, "running", "done")
    BY <2>4, <2>5, StatusMoves
  <2> QED BY <2>1, <2>6 DEF Lifecycle!Succeed
<1>6. ASSUME NEW w \in Workers, GiveUp(w) PROVE \E j \in Jobs : Lifecycle!GiveUp(j)
  <2>1. /\ pc[w] = "handle" /\ pc' = [pc EXCEPT ![w] = "select"]
        /\ held' = [held EXCEPT ![w] = None]
        /\ held[w].attempt >= MaxRetries[held[w].job]
        /\ dead' = dead \cup {held[w].job}
        /\ UNCHANGED <<line, sleeping, phase, cancelled, submitted, done, runs>>
    BY <1>6 DEF GiveUp
  <2>2. PICK j \in Jobs : /\ j = held[w].job
                          /\ j \notin done \cup dead
                          /\ runs[j] = held[w].attempt + 1
                          /\ held[w] \in Entry /\ InRetries(held[w])
                          /\ MaxRetries[j] \in Nat
                          /\ Running(j) /\ ~Running(j)' /\ ~Waiting(j)
                          /\ \A k : k # j => (Running(k)' <=> Running(k))
    BY <1>4, <2>1
  <2>3. \A k \in Jobs : Waiting(k)' <=> Waiting(k)
    BY <2>1 DEF Waiting, InLine, Asleep
  <2>4. \A k \in Jobs \ {j} : StatusOf(k)' = StatusOf(k)
    BY <2>1, <2>2, <2>3, StatusKept
  <2>5. StatusOf(j) = "running" /\ StatusOf(j)' = "dead"
    BY <2>1, <2>2, StatusIs DEF StatusOf
  <2>6. Lifecycle!Move(j, "running", "dead")
    BY <2>4, <2>5, StatusMoves
  <2>7. runs[j] = MaxRetries[j] + 1
    <3>1. held[w].attempt \in Nat
      BY <2>2 DEF Entry
    <3> QED BY <2>1, <2>2, <3>1 DEF InRetries
  <2> QED BY <2>1, <2>6, <2>7 DEF Lifecycle!GiveUp
<1>7. ASSUME NEW w \in Workers, Retry(w) PROVE \E j \in Jobs : Lifecycle!Retry(j)
  <2>1. /\ pc[w] = "handle" /\ pc' = [pc EXCEPT ![w] = "select"]
        /\ held' = [held EXCEPT ![w] = None]
        /\ held[w].attempt < MaxRetries[held[w].job]
        /\ Send(Retried(held[w], w))
        /\ UNCHANGED <<sleeping, phase, cancelled, submitted, done, dead, runs>>
    BY <1>7 DEF Retry
  <2>2. PICK j \in Jobs : /\ j = held[w].job
                          /\ j \notin done \cup dead
                          /\ runs[j] = held[w].attempt + 1
                          /\ held[w] \in Entry /\ InRetries(held[w])
                          /\ MaxRetries[j] \in Nat
                          /\ Running(j) /\ ~Running(j)' /\ ~Waiting(j)
                          /\ \A k : k # j => (Running(k)' <=> Running(k))
    BY <1>4, <2>1
  <2>3. PICK e \in Entry : e = Retried(held[w], w)
    BY <2>1, <2>2, Sent
  <2>4. Send(e) /\ e.job = j
    BY <2>1, <2>2, <2>3, Sent
  <2>5. \A k : InLine(k)' <=> InLine(k) \/ k = j
    BY <1>0, <2>4, LineSend DEF TypeOK
  <2>6. \A k : Asleep(k)' <=> Asleep(k)
    BY <2>1 DEF Asleep
  <2>7. \A k \in Jobs \ {j} : StatusOf(k)' = StatusOf(k)
    BY <2>1, <2>2, <2>5, <2>6, StatusKept DEF Waiting
  <2>8. StatusOf(j) = "running"
    BY <2>2, StatusIs
  <2>9. StatusOf(j)' = "queued"
    <3>1. j \notin done' \cup dead' /\ ~Running(j)' /\ InLine(j)'
      BY <2>1, <2>2, <2>5
    <3> QED BY <3>1 DEF StatusOf
  <2>10. Lifecycle!Move(j, "running", "queued")
    BY <2>7, <2>8, <2>9, StatusMoves
  <2>11. runs[j] <= MaxRetries[j]
    <3>1. held[w].attempt \in Nat
      BY <2>2 DEF Entry
    <3> QED BY <2>1, <2>2, <3>1
  <2> QED BY <2>1, <2>10, <2>11 DEF Lifecycle!Retry
<1>8. ASSUME NEW j \in Jobs, Wake(j) PROVE UNCHANGED Lifecycle!lifecycleVars
  <2>1. PICK f \in sleeping : /\ f.job = j
                              /\ sleeping' = sleeping \ {f}
                              /\ Send(Woken(f))
    BY <1>8 DEF Wake
  <2>2. UNCHANGED <<pc, held, phase, cancelled, submitted, done, dead, runs>>
    BY <1>8 DEF Wake
  <2>3. f \in Entry /\ InRetries(f)
    BY <1>0, <2>1 DEF TypeOK
  <2>4. Woken(f) \in Entry /\ Woken(f).job = j
    BY <2>1, <2>3, Sent
  <2>5. PICK e \in Entry : e = Woken(f)
    BY <2>4
  <2>6. \A k : InLine(k)' <=> InLine(k) \/ k = j
    BY <1>0, <2>1, <2>4, <2>5, LineSend DEF TypeOK
  <2>7. \A k : k # j => (Asleep(k)' <=> Asleep(k))
    BY <2>1 DEF Asleep
  <2>8. Asleep(j)
    BY <2>1 DEF Asleep
  <2>9. \A k \in Jobs : (Running(k)' <=> Running(k)) /\ (Waiting(k)' <=> Waiting(k))
    BY <2>2, <2>6, <2>7, <2>8 DEF Waiting, Running
  <2> QED BY <2>2, <2>9, StatusesKept
<1>9. ASSUME NEW w \in Workers, Leave(w) PROVE UNCHANGED Lifecycle!lifecycleVars
  <2>1. /\ pc[w] = "select" /\ pc' = [pc EXCEPT ![w] = "gone"]
        /\ UNCHANGED <<line, sleeping, held, phase, cancelled, submitted, done, dead, runs>>
    BY <1>9 DEF Leave, AtSelect
  <2>2. \A v \in Workers : pc'[v] = "handle" <=> pc[v] = "handle"
    BY <1>0, <2>1 DEF TypeOK
  <2>3. \A k \in Jobs : (Running(k)' <=> Running(k)) /\ (Waiting(k)' <=> Waiting(k))
    BY <2>1, <2>2 DEF Running, Waiting, InLine, Asleep
  <2> QED BY <2>1, <2>3, StatusesKept
<1>10. CASE Start
  <2>1. /\ phase = "new" /\ pc' = [w \in Workers |-> "select"]
        /\ UNCHANGED <<line, sleeping, held, cancelled, submitted, done, dead, runs>>
    BY <1>10 DEF Start
  <2>2. \A w \in Workers : pc[w] = "none" /\ pc'[w] = "select"
    BY <2>1 DEF Inv, PoolPhase
  <2>3. \A k \in Jobs : (Running(k)' <=> Running(k)) /\ (Waiting(k)' <=> Waiting(k))
    BY <2>1, <2>2 DEF Running, Waiting, InLine, Asleep
  <2> QED BY <2>1, <2>3, StatusesKept
<1>11. CASE CancelRun \/ Stop \/ StopReturns \/ UNCHANGED vars
  <2>1. UNCHANGED <<line, sleeping, pc, held, submitted, done, dead, runs>>
    BY <1>11 DEF CancelRun, Stop, StopReturns, vars
  <2>2. \A k \in Jobs : (Running(k)' <=> Running(k)) /\ (Waiting(k)' <=> Waiting(k))
    BY <2>1 DEF Running, Waiting, InLine, Asleep
  <2> QED BY <2>1, <2>2, StatusesKept
<1> QED
  BY <1>1, <1>2, <1>3, <1>5, <1>6, <1>7, <1>8, <1>9, <1>10, <1>11
     DEF Next, Select, Handle, Lifecycle!Next

\* src/jobs.go: seen from outside, the queue does to each job what JobLifecycle
\* allows: none is forgotten, handled once too often or given up too early.
THEOREM QueueImplementsLifecycle == Spec => ImplementsLifecycle
<1>1. Spec => Lifecycle!Init /\ [][Lifecycle!Next]_(Lifecycle!lifecycleVars)
  BY InitInv, NextInv, InitLifecycle, NextLifecycle, PTL DEF Spec
<1> QED BY <1>1 DEF ImplementsLifecycle, Lifecycle!Spec

=============================================================================
