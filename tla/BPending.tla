------------------------------ MODULE BPending ------------------------------
(***************************************************************************)
(* The job list of BPending.c, in which a job is at most once:              *)
(* BSmallPending_Set takes it out of the list and puts it in front, and     *)
(* BPendingGroup_ExecuteJob runs the first: the job set last runs first.    *)
(***************************************************************************)
EXTENDS Naturals, Sequences

IsSet(jobs, job) == \E i \in 1..Len(jobs) : jobs[i] = job

Unset(jobs, job) ==
    LET i == CHOOSE n \in 1..Len(jobs) : jobs[n] = job
    IN  IF IsSet(jobs, job)
        THEN SubSeq(jobs, 1, i - 1) \o SubSeq(jobs, i + 1, Len(jobs)) ELSE jobs

Set(jobs, job) == <<job>> \o Unset(jobs, job)
=============================================================================
