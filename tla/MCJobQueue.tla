----------------------------- MODULE MCJobQueue -----------------------------
(***************************************************************************)
(* JobQueue with two workers, a channel of one place and three jobs: the   *)
(* least in which every worker can hold a job while the channel is full.   *)
(* Two jobs may be retried once, the third is no RetryableJob.             *)
(***************************************************************************)
EXTENDS JobQueue

CONSTANTS w1, w2, j1, j2, j3

MCWorkers == {w1, w2}
MCJobs == {j1, j2, j3}
MCMaxRetries == [j \in MCJobs |-> IF j = j3 THEN 0 ELSE 1]
=============================================================================
