---------------------------- MODULE JobLifecycle ----------------------------
(***************************************************************************)
(* What the job queue promises for each job, whoever runs it: a job that   *)
(* was enqueued waits, is picked up, and then is done, is retried as often *)
(* as it allows, or is given up for good.  No job is forgotten, no job is  *)
(* handled twice at once or once more than it asked for.                   *)
(***************************************************************************)
EXTENDS Naturals

CONSTANTS
    Jobs,       \* the jobs that may be enqueued, each once
    MaxRetries  \* RetryableJob.MaxRetries of each job, 0 for other jobs

VARIABLES
    status,     \* where each job is in its life
    runs        \* how often each job's Handle has been called

lifecycleVars == <<status, runs>>

Init ==
    /\ status = [j \in Jobs |-> "new"]
    /\ runs = [j \in Jobs |-> 0]

Move(j, from, to) ==
    /\ status[j] = from
    /\ status' = [status EXCEPT ![j] = to]

Submit(j) == Move(j, "new", "queued") /\ UNCHANGED runs

Pickup(j) ==
    /\ Move(j, "queued", "running")
    /\ runs' = [runs EXCEPT ![j] = @ + 1]

Succeed(j) == Move(j, "running", "done") /\ UNCHANGED runs

Retry(j) ==
    /\ runs[j] <= MaxRetries[j]
    /\ Move(j, "running", "queued")
    /\ UNCHANGED runs

GiveUp(j) ==
    /\ runs[j] = MaxRetries[j] + 1
    /\ Move(j, "running", "dead")
    /\ UNCHANGED runs

Next ==
    \E j \in Jobs :
        Submit(j) \/ Pickup(j) \/ Succeed(j) \/ Retry(j) \/ GiveUp(j)

Spec == Init /\ [][Next]_lifecycleVars

=============================================================================
