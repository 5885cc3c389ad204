------------------------------ MODULE JobQueue ------------------------------
(***************************************************************************)
(* The grading queue of server/vibe/jobs.py: the `jobs` table and the loop *)
(* of server/vibe/worker.py that drains it.                                *)
(*                                                                         *)
(* A row's id is its position in the sequence `jobs` (AUTOINCREMENT, rows  *)
(* are never deleted).  Every statement commits on its own, and the claim  *)
(* is one UPDATE in a BEGIN IMMEDIATE transaction, so each is one step.    *)
(* One worker process runs the loop, one iteration at a time (APScheduler  *)
(* starts a single instance of a job), and may be killed between any two   *)
(* statements; it then restarts with nothing claimed.                      *)
(***************************************************************************)
EXTENDS Naturals, Sequences, FiniteSets

CONSTANTS
  Sessions,        \* the sessions a job can be about
  MaxAttempts,     \* the 3 of fail_job
  MaxJobs,         \* bound: rows the table may reach
  WorkerMayCrash   \* whether the worker process may be killed mid-job

ASSUME QueueAssumption ==
  /\ MaxAttempts \in Nat \ {0}
  /\ MaxJobs \in Nat
  /\ WorkerMayCrash \in BOOLEAN

VARIABLES
  jobs,   \* the table, in order of id
  held    \* id of the row the worker claimed and has not settled, or NoJob

qvars == <<jobs, held>>

NoJob == 0
Settled == {"done", "failed"}
JobStatuses == {"pending", "running"} \union Settled
Job == [sess : Sessions, status : JobStatuses, attempts : Nat]

NewJob(s) == [sess |-> s, status |-> "pending", attempts |-> 0]
Pending == {i \in DOMAIN jobs : jobs[i].status = "pending"}
\* A claimed row: its attempt is counted as it starts.
Taken(job) == [sess |-> job.sess, status |-> "running", attempts |-> job.attempts + 1]
HasJob(s) == \E i \in DOMAIN jobs : jobs[i].sess = s

\* The worker died holding the row: nothing in the code looks for these again.
Orphaned(i) == jobs[i].status = "running" /\ held # i

QInit == jobs = << >> /\ held = NoJob

----------------------------------------------------------------------------
(* Inserting: the rows of one transaction, one for each session of `batch`. *)
Enqueue(batch) ==
  /\ Len(jobs) + Len(batch) <= MaxJobs
  /\ jobs' = jobs \o [i \in 1..Len(batch) |-> NewJob(batch[i])]
  /\ UNCHANGED held

\* Mutants of claim_job: ORDER BY id dropped; nothing claimed while another row
\* is running.
ClaimAny ==
  /\ held = NoJob
  /\ \E i \in Pending : jobs' = [jobs EXCEPT ![i] = Taken(@)] /\ held' = i
ClaimSingleFlight ==
  /\ held = NoJob
  /\ \A i \in DOMAIN jobs : jobs[i].status # "running"
  /\ \E i \in Pending :
       /\ \A k \in Pending : i <= k
       /\ jobs' = [jobs EXCEPT ![i] = Taken(@)]
       /\ held' = i

(* claim_job: the oldest pending row becomes running, its attempt counted.  *)
Claim ==
  /\ held = NoJob
  /\ \E i \in Pending :
       /\ \A k \in Pending : i <= k
       /\ jobs' = [jobs EXCEPT ![i] = Taken(@)]
       /\ held' = i

(* complete_job *)
Complete ==
  /\ held # NoJob
  /\ jobs' = [jobs EXCEPT ![held].status = "done"]
  /\ held' = NoJob

(* fail_job: back to pending until the attempts are used up.                *)
Fail ==
  /\ held # NoJob
  /\ jobs' = [jobs EXCEPT ![held].status =
                IF jobs[held].attempts >= MaxAttempts THEN "failed" ELSE "pending"]
  /\ held' = NoJob

(* The process is killed, or complete_job and fail_job both raise: the row  *)
(* stays running and the next iteration starts from claim_job.              *)
WorkerCrash ==
  /\ WorkerMayCrash
  /\ held # NoJob
  /\ held' = NoJob
  /\ UNCHANGED jobs

Batches == UNION {[1..n -> Sessions] : n \in 1..Cardinality(Sessions)}

QNext ==
  \/ \E batch \in Batches : Enqueue(batch)
  \/ Claim
  \/ Complete
  \/ Fail
  \/ WorkerCrash

QSpec == QInit /\ [][QNext]_qvars

(* The scheduler fires the drain loop every 10 s, and an iteration that has *)
(* started ends in complete_job or fail_job unless the process is killed.   *)
QFairness == WF_qvars(Claim) /\ WF_qvars(Complete \/ Fail)

----------------------------------------------------------------------------
QTypeOK ==
  /\ jobs \in Seq(Job)
  /\ held \in {NoJob} \union DOMAIN jobs

\* fail_job's limit: no job is tried more than MaxAttempts times, a job that
\* can still be claimed has a try left, and a job is given up only when every
\* try was used.
AttemptsBounded ==
  \A i \in DOMAIN jobs :
    /\ jobs[i].attempts <= MaxAttempts
    /\ jobs[i].status = "pending" => jobs[i].attempts < MaxAttempts
    /\ jobs[i].status = "failed" => jobs[i].attempts = MaxAttempts

\* claim_job's ORDER BY id: once a job has been tried, no older job is still
\* waiting, so neither a retry nor a burst of submissions makes a candidate
\* wait behind a younger job.
OldestFirst ==
  \A i, j \in DOMAIN jobs :
    i < j /\ jobs[j].attempts > 0 => jobs[i].status # "pending"

\* The claim is exclusive: the row the worker holds is running, it has been
\* tried, and every other running row is one whose worker was killed.
HeldIsRunning ==
  /\ held # NoJob => jobs[held].status = "running" /\ jobs[held].attempts > 0
  /\ ~WorkerMayCrash => \A i \in DOMAIN jobs : ~Orphaned(i)

\* A settled job is final, and no job is ever taken out of the table or handed
\* to another session: a report is never graded again behind the recruiter's
\* back by an old row.
SettledIsFinal ==
  [][/\ Len(jobs') >= Len(jobs)
     /\ \A i \in DOMAIN jobs :
          /\ jobs'[i].sess = jobs[i].sess
          /\ jobs[i].status \in Settled => jobs'[i] = jobs[i]]_qvars

\* Every job the table ever holds is settled in the end, whatever fails on the
\* way, unless the worker was killed while it held the row.
EveryJobAnswered ==
  \A i \in 1..MaxJobs :
    (i \in DOMAIN jobs) ~>
      (i \in DOMAIN jobs /\ (jobs[i].status \in Settled \/ Orphaned(i)))
=============================================================================
