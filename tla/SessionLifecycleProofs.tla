----------------------- MODULE SessionLifecycleProofs -----------------------
(***************************************************************************)
(* Theorems about the grading queue, for any set of sessions, any limit on *)
(* attempts and any number of rows, and about the life of an interview,    *)
(* which the queue is a part of, for any requests in flight and deadlines. *)
(***************************************************************************)
EXTENDS SessionLifecycle, SequenceTheorems, FiniteSetTheorems, TLAPS

----------------------------------------------------------------------------
(* The queue.  QInv is its inductive invariant.                              *)

\* What OldestFirst needs to survive a retry: while the worker holds a row,
\* no younger row has been tried, so putting it back leaves no younger one
\* ahead of it.
HeldIsYoungestTried ==
  held # NoJob => \A j \in DOMAIN jobs : held < j => jobs[j].attempts = 0

QInv ==
  /\ QTypeOK
  /\ AttemptsBounded
  /\ OldestFirst
  /\ HeldIsRunning
  /\ HeldIsYoungestTried

USE QueueAssumption DEF NoJob, Settled, Pending, Orphaned

\* The fields of a row, and of the rows the operations replace it by.
LEMMA JobFields ==
  ASSUME NEW job \in Job
  PROVE  job.sess \in Sessions /\ job.status \in JobStatuses /\ job.attempts \in Nat
  BY DEF Job, JobStatuses

LEMMA TakenFields ==
  ASSUME NEW job \in Job
  PROVE  /\ Taken(job) \in Job /\ Taken(job).sess = job.sess
         /\ Taken(job).status = "running" /\ Taken(job).attempts = job.attempts + 1
  BY DEF Job, JobStatuses, Taken

LEMMA RestatusedFields ==
  ASSUME NEW job \in Job, NEW st \in JobStatuses
  PROVE  LET new == [job EXCEPT !.status = st]
         IN  /\ new \in Job /\ new.sess = job.sess
             /\ new.status = st /\ new.attempts = job.attempts
  <1>1. [job EXCEPT !.status = st] \in Job
    BY DEF Job, JobStatuses
  <1>2. /\ [job EXCEPT !.status = st].sess = job.sess
        /\ [job EXCEPT !.status = st].status = st
        /\ [job EXCEPT !.status = st].attempts = job.attempts
    BY DEF Job, JobStatuses
  <1> QED BY <1>1, <1>2

\* What the type of the table says of its rows.
LEMMA TableFacts ==
  ASSUME QTypeOK
  PROVE  /\ jobs \in Seq(Job)
         /\ Len(jobs) \in Nat
         /\ DOMAIN jobs = 1..Len(jobs)
         /\ \A i \in DOMAIN jobs :
              /\ i \in Nat /\ i # 0
              /\ jobs[i] \in Job /\ jobs[i].attempts \in Nat
  <1>1. jobs \in Seq(Job)
    BY DEF QTypeOK
  <1>2. Len(jobs) \in Nat /\ DOMAIN jobs = 1..Len(jobs)
    BY <1>1, LenProperties
  <1>3. \A i \in 1..Len(jobs) : jobs[i] \in Job
    BY <1>1, ElementOfSeq
  <1> QED BY <1>1, <1>2, <1>3, JobFields

\* An UPDATE of one row leaves every other row alone.
LEMMA RowUpdate ==
  ASSUME jobs \in Seq(Job), NEW r \in DOMAIN jobs, NEW row \in Job,
         jobs' = [jobs EXCEPT ![r] = row]
  PROVE  /\ jobs' \in Seq(Job) /\ DOMAIN jobs' = DOMAIN jobs /\ Len(jobs') = Len(jobs)
         /\ jobs'[r] = row
         /\ \A i \in DOMAIN jobs : i # r => jobs'[i] = jobs[i]
  <1>1. DOMAIN jobs = 1..Len(jobs)
    BY LenProperties
  <1>2. /\ jobs' \in Seq(Job) /\ Len(jobs') = Len(jobs)
        /\ \A i \in 1..Len(jobs) : jobs'[i] = IF i = r THEN row ELSE jobs[i]
    BY <1>1, ExceptSeq
  <1>3. DOMAIN jobs' = 1..Len(jobs')
    BY <1>2, LenProperties
  <1> QED BY <1>1, <1>2, <1>3

\* What a batch of new rows does to the table: the old rows keep their place
\* and every added one is a fresh pending job.
LEMMA EnqueueAppends ==
  ASSUME QTypeOK, NEW batch \in Seq(Sessions), Enqueue(batch)
  PROVE  /\ jobs' \in Seq(Job)
         /\ Len(batch) \in Nat
         /\ Len(jobs') = Len(jobs) + Len(batch)
         /\ DOMAIN jobs' = 1..Len(jobs')
         /\ \A i \in DOMAIN jobs : i \in DOMAIN jobs' /\ jobs'[i] = jobs[i]
         /\ \A i \in DOMAIN jobs' : i \notin DOMAIN jobs =>
              jobs'[i].status = "pending" /\ jobs'[i].attempts = 0
         /\ \A i \in DOMAIN jobs' : i \notin DOMAIN jobs =>
              i - Len(jobs) \in 1..Len(batch) /\ jobs'[i].sess = batch[i - Len(jobs)]
         /\ \A k \in 1..Len(batch) :
              Len(jobs) + k \in DOMAIN jobs' /\ jobs'[Len(jobs) + k].sess = batch[k]
  <1> DEFINE rows == [i \in 1..Len(batch) |-> NewJob(batch[i])]
  <1>1. Len(batch) \in Nat /\ \A i \in 1..Len(batch) : batch[i] \in Sessions
    BY LenProperties, ElementOfSeq
  <1>2. \A s \in Sessions : NewJob(s) \in Job
    BY DEF NewJob, Job, JobStatuses
  <1>3. rows \in Seq(Job) /\ Len(rows) = Len(batch)
    BY <1>1, <1>2
  <1>4. jobs' = jobs \o rows
    BY DEF Enqueue
  <1>5. \A k \in 1..Len(batch) :
          rows[k].status = "pending" /\ rows[k].attempts = 0 /\ rows[k].sess = batch[k]
    BY <1>1 DEF NewJob
  <1> HIDE DEF rows
  <1>6. /\ jobs' \in Seq(Job)
        /\ Len(jobs') = Len(jobs) + Len(rows)
        /\ \A i \in 1..Len(jobs) + Len(rows) :
             jobs'[i] = IF i <= Len(jobs) THEN jobs[i] ELSE rows[i - Len(jobs)]
    <2>1. jobs \in Seq(Job)
      BY TableFacts
    <2>2. /\ jobs \o rows \in Seq(Job)
          /\ Len(jobs \o rows) = Len(jobs) + Len(rows)
          /\ \A i \in 1..Len(jobs) + Len(rows) :
               (jobs \o rows)[i] = IF i <= Len(jobs) THEN jobs[i] ELSE rows[i - Len(jobs)]
      BY <1>3, <2>1, ConcatProperties, ZenonT(30)
    <2> QED BY <1>4, <2>2
  <1>7. DOMAIN jobs' = 1..Len(jobs')
    BY <1>6, LenProperties
  <1>8. Len(jobs) \in Nat /\ DOMAIN jobs = 1..Len(jobs)
    BY TableFacts
  <1>9. ASSUME NEW i \in DOMAIN jobs', i \notin DOMAIN jobs
        PROVE  /\ jobs'[i].status = "pending" /\ jobs'[i].attempts = 0
               /\ i - Len(jobs) \in 1..Len(batch) /\ jobs'[i].sess = batch[i - Len(jobs)]
    <2>1. i - Len(jobs) \in 1..Len(batch) /\ jobs'[i] = rows[i - Len(jobs)]
      BY <1>1, <1>3, <1>6, <1>7, <1>8, <1>9
    <2> QED BY <2>1, <1>5
  <1>10. \A i \in DOMAIN jobs : i \in DOMAIN jobs' /\ jobs'[i] = jobs[i]
    BY <1>1, <1>3, <1>6, <1>7, <1>8
  <1>11. ASSUME NEW k \in 1..Len(batch)
         PROVE  Len(jobs) + k \in DOMAIN jobs' /\ jobs'[Len(jobs) + k].sess = batch[k]
    <2>1. /\ Len(jobs) + k \in 1..Len(jobs) + Len(rows)
          /\ ~(Len(jobs) + k <= Len(jobs)) /\ (Len(jobs) + k) - Len(jobs) = k
      BY <1>1, <1>3, <1>8
    <2>2. Len(jobs) + k \in DOMAIN jobs' /\ jobs'[Len(jobs) + k] = rows[k]
      BY <2>1, <1>6, <1>7
    <2> QED BY <2>2, <1>5
  <1> QED
    BY <1>1, <1>3, <1>6, <1>7, <1>9, <1>10, <1>11

LEMMA QInvInit == QInit => QInv
  BY EmptySeq DEF QInit, QInv, QTypeOK, AttemptsBounded, OldestFirst, HeldIsRunning, HeldIsYoungestTried

\* What the worker's statements do to the table: one row changes, and keeps its
\* session.
LEMMA WorkerRewrites ==
  ASSUME QTypeOK, Claim \/ Complete \/ Fail \/ WorkerCrash
  PROVE  /\ jobs' \in Seq(Job) /\ DOMAIN jobs' = DOMAIN jobs
         /\ \A i \in DOMAIN jobs : jobs'[i].sess = jobs[i].sess
         /\ held' \in {0} \union DOMAIN jobs
         /\ Claim => held' \in DOMAIN jobs /\ held' # 0
         /\ ~Claim => held' = 0
  <1>f. jobs \in Seq(Job) /\ \A i \in DOMAIN jobs : i # 0 /\ jobs[i] \in Job
    BY TableFacts
  <1>1. ASSUME NEW r \in DOMAIN jobs, NEW row \in Job, jobs' = [jobs EXCEPT ![r] = row],
               row.sess = jobs[r].sess
        PROVE  /\ jobs' \in Seq(Job) /\ DOMAIN jobs' = DOMAIN jobs
               /\ \A i \in DOMAIN jobs : jobs'[i].sess = jobs[i].sess
    BY <1>1, <1>f, RowUpdate
  <1>2. CASE Claim
    <2>1. PICK i \in DOMAIN jobs : jobs' = [jobs EXCEPT ![i] = Taken(jobs[i])] /\ held' = i
      BY <1>2 DEF Claim
    <2>2. Taken(jobs[i]) \in Job /\ Taken(jobs[i]).sess = jobs[i].sess
      BY <1>f, TakenFields
    <2> QED BY <1>1, <1>2, <1>f, <2>1, <2>2
  <1>3. ASSUME NEW st \in JobStatuses, held # 0, held' = 0, jobs' = [jobs EXCEPT ![held].status = st]
        PROVE  /\ jobs' \in Seq(Job) /\ DOMAIN jobs' = DOMAIN jobs
               /\ \A i \in DOMAIN jobs : jobs'[i].sess = jobs[i].sess
    <2> DEFINE row == [jobs[held] EXCEPT !.status = st]
    <2>1. held \in DOMAIN jobs
      BY <1>3 DEF QTypeOK
    <2>2. row \in Job /\ row.sess = jobs[held].sess
      BY <1>f, <2>1, RestatusedFields
    <2>3. jobs' = [jobs EXCEPT ![held] = row]
      BY <1>3
    <2> HIDE DEF row
    <2> QED BY <1>1, <2>1, <2>2, <2>3
  <1>4. CASE Complete
    BY <1>3, <1>4, <1>f DEF Complete, JobStatuses, Claim
  <1>5. CASE Fail
    <2> DEFINE st == IF jobs[held].attempts >= MaxAttempts THEN "failed" ELSE "pending"
    <2>1. held # 0 /\ held' = 0 /\ jobs' = [jobs EXCEPT ![held].status = st]
      BY <1>5 DEF Fail
    <2>2. st \in JobStatuses
      BY DEF JobStatuses
    <2> HIDE DEF st
    <2> QED BY <1>3, <2>1, <2>2 DEF Claim
  <1>6. CASE WorkerCrash
    BY <1>6, <1>f DEF WorkerCrash, Claim
  <1> QED BY <1>2, <1>4, <1>5, <1>6

\* Claim picks the oldest waiting row.
LEMMA ClaimStep == QInv /\ Claim => QInv'
  <1> SUFFICES ASSUME QInv, Claim PROVE QInv'
    OBVIOUS
  <1>t. QTypeOK /\ AttemptsBounded /\ OldestFirst /\ HeldIsRunning
    BY DEF QInv
  <1>f. /\ jobs \in Seq(Job)
        /\ \A k \in DOMAIN jobs : k \in Nat /\ k # 0 /\ jobs[k] \in Job /\ jobs[k].attempts \in Nat
    BY <1>t, TableFacts
  <1>1. PICK i \in DOMAIN jobs :
          /\ jobs[i].status = "pending"
          /\ \A k \in Pending : i <= k
          /\ jobs' = [jobs EXCEPT ![i] = Taken(jobs[i])]
          /\ held = 0 /\ held' = i
    BY DEF Claim
  <1> DEFINE row == Taken(jobs[i])
  <1>2. row \in Job /\ row.status = "running" /\ row.attempts = jobs[i].attempts + 1
    BY <1>f, TakenFields
  <1> HIDE DEF row
  <1>3. /\ jobs' \in Seq(Job) /\ DOMAIN jobs' = DOMAIN jobs
        /\ jobs'[i] = row
        /\ \A k \in DOMAIN jobs : k # i => jobs'[k] = jobs[k]
    BY <1>1, <1>2, <1>f, RowUpdate DEF row
  <1>6. QTypeOK'
    BY <1>1, <1>3 DEF QTypeOK
  <1>7. AttemptsBounded'
    BY <1>1, <1>2, <1>3, <1>t, <1>f DEF AttemptsBounded
  <1>8. \A j \in DOMAIN jobs : i < j => jobs[j].attempts = 0
    BY <1>1, <1>t, <1>f DEF OldestFirst
  <1>9. OldestFirst'
    <2> SUFFICES ASSUME NEW k \in DOMAIN jobs, NEW j \in DOMAIN jobs, k < j,
                        jobs'[j].attempts > 0, jobs'[k].status = "pending"
                 PROVE  FALSE
      BY <1>3 DEF OldestFirst
    <2>1. k # i /\ jobs[k].status = "pending"
      BY <1>2, <1>3
    <2>2. CASE j = i
      BY <2>1, <2>2, <1>1, <1>f
    <2>3. CASE j # i
      BY <2>1, <2>3, <1>3, <1>t DEF OldestFirst
    <2> QED BY <2>2, <2>3
  <1>10. HeldIsRunning'
    BY <1>1, <1>2, <1>3, <1>t, <1>f DEF HeldIsRunning
  <1>11. HeldIsYoungestTried'
    BY <1>1, <1>3, <1>8, <1>f DEF HeldIsYoungestTried
  <1> QED BY <1>6, <1>7, <1>9, <1>10, <1>11 DEF QInv

\* Complete and Fail both replace the status of the held row and let go of it.
\* A row goes back to pending only with tries left, to failed only without.
LEMMA SettleStep ==
  ASSUME QInv, held # NoJob, held' = NoJob,
         NEW st \in {"done", "failed", "pending"},
         jobs' = [jobs EXCEPT ![held].status = st],
         st = "pending" => jobs[held].attempts < MaxAttempts,
         st = "failed" => jobs[held].attempts >= MaxAttempts
  PROVE  QInv'
  <1>t. QTypeOK /\ AttemptsBounded /\ OldestFirst /\ HeldIsRunning /\ HeldIsYoungestTried
    BY DEF QInv
  <1>f. /\ jobs \in Seq(Job)
        /\ \A k \in DOMAIN jobs : k \in Nat /\ k # 0 /\ jobs[k] \in Job /\ jobs[k].attempts \in Nat
    BY <1>t, TableFacts
  <1>h. held \in DOMAIN jobs
    BY <1>t DEF QTypeOK
  <1> DEFINE row == [jobs[held] EXCEPT !.status = st]
  <1>2. row \in Job /\ row.status = st /\ row.attempts = jobs[held].attempts
    BY <1>f, <1>h, RestatusedFields DEF JobStatuses
  <1>3. jobs' = [jobs EXCEPT ![held] = row]
    BY <1>h
  <1> HIDE DEF row
  <1>4. /\ jobs' \in Seq(Job) /\ DOMAIN jobs' = DOMAIN jobs
        /\ jobs'[held] = row
        /\ \A k \in DOMAIN jobs : k # held => jobs'[k] = jobs[k]
    BY <1>f, <1>h, <1>2, <1>3, RowUpdate
  <1>5. QTypeOK'
    BY <1>4 DEF QTypeOK
  <1>6. AttemptsBounded'
    BY <1>h, <1>2, <1>4, <1>t, <1>f DEF AttemptsBounded
  <1>7. OldestFirst'
    <2> SUFFICES ASSUME NEW k \in DOMAIN jobs, NEW j \in DOMAIN jobs, k < j, jobs'[j].attempts > 0
                 PROVE  jobs'[k].status # "pending"
      BY <1>4 DEF OldestFirst
    <2>1. jobs[j].attempts > 0
      BY <1>2, <1>4, <1>h
    <2>2. k # held
      BY <2>1, <1>t, <1>f, <1>h DEF HeldIsYoungestTried
    <2> QED BY <2>1, <2>2, <1>4, <1>t DEF OldestFirst
  <1>8. HeldIsRunning'
    BY <1>2, <1>4, <1>t DEF HeldIsRunning
  <1>9. HeldIsYoungestTried'
    BY DEF HeldIsYoungestTried
  <1> QED BY <1>5, <1>6, <1>7, <1>8, <1>9 DEF QInv

LEMMA EnqueueStep == ASSUME QInv, NEW batch \in Seq(Sessions), Enqueue(batch) PROVE QInv'
  <1>t. QTypeOK /\ AttemptsBounded /\ OldestFirst /\ HeldIsRunning /\ HeldIsYoungestTried
    BY DEF QInv
  <1>f. Len(jobs) \in Nat /\ DOMAIN jobs = 1..Len(jobs)
    BY <1>t, TableFacts
  <1>1. /\ jobs' \in Seq(Job)
        /\ Len(batch) \in Nat /\ Len(jobs') = Len(jobs) + Len(batch)
        /\ DOMAIN jobs' = 1..Len(jobs')
        /\ \A i \in DOMAIN jobs : i \in DOMAIN jobs' /\ jobs'[i] = jobs[i]
        /\ \A i \in DOMAIN jobs' : i \notin DOMAIN jobs =>
             jobs'[i].status = "pending" /\ jobs'[i].attempts = 0
    BY <1>t, EnqueueAppends
  <1>2. held' = held
    BY DEF Enqueue
  <1>3. QTypeOK'
    BY <1>1, <1>2, <1>t DEF QTypeOK
  <1>4. AttemptsBounded'
    BY <1>1, <1>t DEF AttemptsBounded
  <1>5. OldestFirst'
    <2> SUFFICES ASSUME NEW i \in DOMAIN jobs', NEW j \in DOMAIN jobs', i < j, jobs'[j].attempts > 0
                 PROVE  jobs'[i].status # "pending"
      BY DEF OldestFirst
    <2>1. j \in DOMAIN jobs
      BY <1>1
    <2>2. i \in DOMAIN jobs
      BY <2>1, <1>1, <1>f
    <2> QED BY <2>1, <2>2, <1>1, <1>t DEF OldestFirst
  <1>6. HeldIsRunning'
    BY <1>1, <1>2, <1>t DEF HeldIsRunning, QTypeOK
  <1>7. HeldIsYoungestTried'
    BY <1>1, <1>2, <1>t DEF HeldIsYoungestTried, QTypeOK
  <1> QED BY <1>3, <1>4, <1>5, <1>6, <1>7 DEF QInv

LEMMA BatchIsSeq == ASSUME NEW batch \in Batches PROVE batch \in Seq(Sessions)
  <1>1. PICK n \in 1..Cardinality(Sessions) : batch \in [1..n -> Sessions]
    BY DEF Batches
  <1> QED BY <1>1

LEMMA QInvStep == QInv /\ [QNext]_qvars => QInv'
  <1> SUFFICES ASSUME QInv, [QNext]_qvars PROVE QInv'
    OBVIOUS
  <1>1. ASSUME NEW batch \in Batches, Enqueue(batch) PROVE QInv'
    <2>1. batch \in Seq(Sessions)
      BY BatchIsSeq
    <2> QED BY <1>1, <2>1, EnqueueStep
  <1>2. CASE Claim
    BY <1>2, ClaimStep
  <1>3. CASE Complete
    BY <1>3, SettleStep DEF Complete
  <1>4. CASE Fail
    <2> DEFINE st == IF jobs[held].attempts >= MaxAttempts THEN "failed" ELSE "pending"
    <2>1. held # NoJob /\ held' = NoJob /\ jobs' = [jobs EXCEPT ![held].status = st]
      BY <1>4 DEF Fail
    <2>2. jobs[held].attempts \in Nat
      BY <2>1, TableFacts DEF QInv, QTypeOK
    <2>3. /\ st \in {"done", "failed", "pending"}
          /\ st = "pending" => jobs[held].attempts < MaxAttempts
          /\ st = "failed" => jobs[held].attempts >= MaxAttempts
      BY <2>2
    <2> HIDE DEF st
    <2> QED BY <2>1, <2>3, SettleStep
  <1>5. CASE WorkerCrash
    BY <1>5 DEF WorkerCrash, QInv, QTypeOK, AttemptsBounded, OldestFirst, HeldIsRunning,
                HeldIsYoungestTried
  <1>6. CASE UNCHANGED qvars
    BY <1>6 DEF qvars, QInv, QTypeOK, AttemptsBounded, OldestFirst, HeldIsRunning,
                HeldIsYoungestTried
  <1> QED BY <1>1, <1>2, <1>3, <1>4, <1>5, <1>6 DEF QNext

\* The queue keeps its invariant whatever is inserted, retried or killed.
THEOREM QueueInvariant == QSpec => []QInv
  BY QInvInit, QInvStep, PTL DEF QSpec

\* Type correctness of the table and of the worker's claim.
THEOREM QueueTyped == QSpec => []QTypeOK
  <1>1. QInv => QTypeOK BY DEF QInv
  <1> QED BY QueueInvariant, <1>1, PTL

\* No job is tried more often than fail_job allows (jobs.py:33-43).
THEOREM AttemptsAreBounded == QSpec => []AttemptsBounded
  <1>1. QInv => AttemptsBounded BY DEF QInv
  <1> QED BY QueueInvariant, <1>1, PTL

\* A job is tried only when no older job waits (jobs.py:17).
THEOREM OldestIsFirst == QSpec => []OldestFirst
  <1>1. QInv => OldestFirst BY DEF QInv
  <1> QED BY QueueInvariant, <1>1, PTL

\* The claim is exclusive, and only a killed worker leaves a row running.
THEOREM ClaimIsExclusive == QSpec => []HeldIsRunning
  <1>1. QInv => HeldIsRunning BY DEF QInv
  <1> QED BY QueueInvariant, <1>1, PTL

\* A settled job never changes again and rows are never lost: what holds of a
\* step of the queue from a state that satisfies the invariant.
THEOREM SettledStaysSettled == QSpec => SettledIsFinal
  <1> DEFINE Kept == /\ Len(jobs') >= Len(jobs)
                     /\ \A i \in DOMAIN jobs :
                          /\ jobs'[i].sess = jobs[i].sess
                          /\ jobs[i].status \in Settled => jobs'[i] = jobs[i]
  <1>1. ASSUME QInv, [QNext]_qvars PROVE [Kept]_qvars
    <2>t. QTypeOK /\ HeldIsRunning
      BY <1>1 DEF QInv
    <2>f. /\ jobs \in Seq(Job) /\ Len(jobs) \in Nat
          /\ \A i \in DOMAIN jobs : jobs[i] \in Job
          /\ held # 0 => held \in DOMAIN jobs /\ jobs[held].status = "running"
      BY <2>t, TableFacts DEF QTypeOK, HeldIsRunning
    <2>1. ASSUME NEW batch \in Batches, Enqueue(batch) PROVE Kept
      <3>1. batch \in Seq(Sessions)
        BY BatchIsSeq
      <3>2. /\ Len(batch) \in Nat /\ Len(jobs') = Len(jobs) + Len(batch)
            /\ \A i \in DOMAIN jobs : jobs'[i] = jobs[i]
        BY <2>1, <2>t, <3>1, EnqueueAppends
      <3> QED BY <2>f, <3>2
    <2>2. ASSUME NEW r \in DOMAIN jobs, NEW row \in Job,
                 jobs' = [jobs EXCEPT ![r] = row],
                 row.sess = jobs[r].sess, jobs[r].status \notin Settled
          PROVE  Kept
      <3>1. /\ Len(jobs') = Len(jobs)
            /\ jobs'[r] = row
            /\ \A i \in DOMAIN jobs : i # r => jobs'[i] = jobs[i]
        BY <2>2, <2>f, RowUpdate
      <3> QED BY <2>2, <2>f, <3>1
    <2>3. CASE Claim
      <3>1. PICK i \in DOMAIN jobs :
              /\ jobs[i].status = "pending"
              /\ jobs' = [jobs EXCEPT ![i] = Taken(jobs[i])]
        BY <2>3 DEF Claim
      <3>2. Taken(jobs[i]) \in Job /\ Taken(jobs[i]).sess = jobs[i].sess
        BY <2>f, TakenFields
      <3> QED BY <2>2, <3>1, <3>2
    <2>4. ASSUME NEW st \in {"done", "failed", "pending"}, held # 0,
                 jobs' = [jobs EXCEPT ![held].status = st]
          PROVE  Kept
      <3> DEFINE row == [jobs[held] EXCEPT !.status = st]
      <3>1. row \in Job /\ row.sess = jobs[held].sess
        BY <2>4, <2>f, RestatusedFields DEF JobStatuses
      <3>2. jobs' = [jobs EXCEPT ![held] = row]
        BY <2>4, <2>f
      <3> HIDE DEF row
      <3> QED BY <2>2, <2>4, <2>f, <3>1, <3>2
    <2>5. CASE Complete
      BY <2>4, <2>5 DEF Complete
    <2>6. CASE Fail
      <3> DEFINE st == IF jobs[held].attempts >= MaxAttempts THEN "failed" ELSE "pending"
      <3>1. held # 0 /\ jobs' = [jobs EXCEPT ![held].status = st]
        BY <2>6 DEF Fail
      <3>2. st \in {"done", "failed", "pending"}
        OBVIOUS
      <3> HIDE DEF st
      <3> QED BY <2>4, <3>1, <3>2
    <2>7. CASE WorkerCrash
      BY <2>7, <2>f DEF WorkerCrash
    <2> QED BY <1>1, <2>1, <2>3, <2>5, <2>6, <2>7 DEF QNext
  <1> QED BY <1>1, QueueInvariant, PTL DEF QSpec, SettledIsFinal

HIDE QueueAssumption DEF NoJob, Settled, Pending, Orphaned

----------------------------------------------------------------------------
(* What the UPDATEs do to the sessions table, field by field. *)

LEMMA RowFields ==
  ASSUME NEW row \in Row
  PROVE  /\ row.status \in Statuses /\ row.createdAt \in Nat /\ row.startedAt \in Nat
         /\ row.submittedAt \in Nat /\ row.flag \in Requests \union {NoFlag}
  BY DEF Row

LEMMA SetStatus ==
  ASSUME NEW row \in Row, NEW st \in Statuses
  PROVE  LET new == [row EXCEPT !.status = st]
         IN  /\ new \in Row /\ new.status = st /\ new.createdAt = row.createdAt
             /\ new.startedAt = row.startedAt /\ new.submittedAt = row.submittedAt
             /\ new.flag = row.flag
  <1>1. [row EXCEPT !.status = st] \in Row
    BY DEF Row
  <1>2. /\ [row EXCEPT !.status = st].status = st
        /\ [row EXCEPT !.status = st].createdAt = row.createdAt
        /\ [row EXCEPT !.status = st].startedAt = row.startedAt
        /\ [row EXCEPT !.status = st].submittedAt = row.submittedAt
        /\ [row EXCEPT !.status = st].flag = row.flag
    BY DEF Row
  <1> QED BY <1>1, <1>2

LEMMA SetCreated ==
  ASSUME NEW row \in Row, NEW t \in Nat
  PROVE  LET new == [row EXCEPT !.createdAt = t]
         IN  /\ new \in Row /\ new.createdAt = t /\ new.status = row.status
             /\ new.startedAt = row.startedAt /\ new.submittedAt = row.submittedAt
             /\ new.flag = row.flag
  <1>1. [row EXCEPT !.createdAt = t] \in Row
    BY DEF Row
  <1>2. /\ [row EXCEPT !.createdAt = t].createdAt = t
        /\ [row EXCEPT !.createdAt = t].status = row.status
        /\ [row EXCEPT !.createdAt = t].startedAt = row.startedAt
        /\ [row EXCEPT !.createdAt = t].submittedAt = row.submittedAt
        /\ [row EXCEPT !.createdAt = t].flag = row.flag
    BY DEF Row
  <1> QED BY <1>1, <1>2

LEMMA SetStarted ==
  ASSUME NEW row \in Row, NEW t \in Nat
  PROVE  LET new == [row EXCEPT !.startedAt = t]
         IN  /\ new \in Row /\ new.startedAt = t /\ new.status = row.status
             /\ new.createdAt = row.createdAt /\ new.submittedAt = row.submittedAt
             /\ new.flag = row.flag
  <1>1. [row EXCEPT !.startedAt = t] \in Row
    BY DEF Row
  <1>2. /\ [row EXCEPT !.startedAt = t].startedAt = t
        /\ [row EXCEPT !.startedAt = t].status = row.status
        /\ [row EXCEPT !.startedAt = t].createdAt = row.createdAt
        /\ [row EXCEPT !.startedAt = t].submittedAt = row.submittedAt
        /\ [row EXCEPT !.startedAt = t].flag = row.flag
    BY DEF Row
  <1> QED BY <1>1, <1>2

LEMMA SetSubmittedAt ==
  ASSUME NEW row \in Row, NEW t \in Nat
  PROVE  LET new == [row EXCEPT !.submittedAt = t]
         IN  /\ new \in Row /\ new.submittedAt = t /\ new.status = row.status
             /\ new.createdAt = row.createdAt /\ new.startedAt = row.startedAt
             /\ new.flag = row.flag
  <1>1. [row EXCEPT !.submittedAt = t] \in Row
    BY DEF Row
  <1>2. /\ [row EXCEPT !.submittedAt = t].submittedAt = t
        /\ [row EXCEPT !.submittedAt = t].status = row.status
        /\ [row EXCEPT !.submittedAt = t].createdAt = row.createdAt
        /\ [row EXCEPT !.submittedAt = t].startedAt = row.startedAt
        /\ [row EXCEPT !.submittedAt = t].flag = row.flag
    BY DEF Row
  <1> QED BY <1>1, <1>2

LEMMA SetFlag ==
  ASSUME NEW row \in Row, NEW r \in Requests
  PROVE  LET new == [row EXCEPT !.flag = r]
         IN  /\ new \in Row /\ new.flag = r /\ new.status = row.status
             /\ new.createdAt = row.createdAt /\ new.startedAt = row.startedAt
             /\ new.submittedAt = row.submittedAt
  <1>1. [row EXCEPT !.flag = r] \in Row
    BY DEF Row
  <1>2. /\ [row EXCEPT !.flag = r].flag = r
        /\ [row EXCEPT !.flag = r].status = row.status
        /\ [row EXCEPT !.flag = r].createdAt = row.createdAt
        /\ [row EXCEPT !.flag = r].startedAt = row.startedAt
        /\ [row EXCEPT !.flag = r].submittedAt = row.submittedAt
    BY DEF Row
  <1> QED BY <1>1, <1>2

LEMMA CreatedRow ==
  ASSUME NEW row \in Row, now \in Nat
  PROVE  /\ Created(row) \in Row /\ Created(row).status = "pending"
         /\ Created(row).submittedAt = row.submittedAt
         /\ Created(row).startedAt = row.startedAt /\ Created(row).flag = row.flag
  <1> DEFINE mid == [row EXCEPT !.status = "pending"]
  <1>1. /\ mid \in Row /\ mid.status = "pending" /\ mid.submittedAt = row.submittedAt
        /\ mid.startedAt = row.startedAt /\ mid.flag = row.flag
    BY SetStatus DEF Statuses
  <1>2. Created(row) = [mid EXCEPT !.createdAt = now]
    BY DEF Created
  <1> HIDE DEF mid
  <1> QED BY <1>1, <1>2, SetCreated

LEMMA SubmittedRow ==
  ASSUME NEW row \in Row, now \in Nat
  PROVE  /\ Submitted(row) \in Row /\ Submitted(row).status = "submitted"
         /\ Submitted(row).submittedAt = now /\ Submitted(row).createdAt = row.createdAt
         /\ Submitted(row).startedAt = row.startedAt /\ Submitted(row).flag = row.flag
  <1> DEFINE mid == [row EXCEPT !.status = "submitted"]
  <1>1. /\ mid \in Row /\ mid.status = "submitted" /\ mid.createdAt = row.createdAt
        /\ mid.startedAt = row.startedAt /\ mid.flag = row.flag
    BY SetStatus DEF Statuses
  <1>2. Submitted(row) = [mid EXCEPT !.submittedAt = now]
    BY DEF Submitted
  <1> HIDE DEF mid
  <1> QED BY <1>1, <1>2, SetSubmittedAt

----------------------------------------------------------------------------
(* The same for the whole table: `x` is the session the statement is about. *)

LEMMA TypeFacts ==
  ASSUME TypeOK
  PROVE  /\ now \in Nat /\ session \in [Sessions -> Row] /\ req \in [Requests -> Request]
         /\ \A s \in Sessions :
              /\ session[s] \in Row /\ session[s].status \in Statuses
              /\ session[s].startedAt \in Nat /\ session[s].submittedAt \in Nat
         /\ \A r \in Requests :
              /\ req[r] \in Request /\ req[r].step \in Steps /\ req[r].at \in Nat
              /\ req[r].step # "idle" => req[r].sess \in Sessions
  <1>1. \A s \in Sessions : session[s] \in Row
    BY DEF TypeOK
  <1>2. \A r \in Requests : req[r] \in Request
    BY DEF TypeOK
  <1>3. \A q \in Request : q.step \in Steps /\ q.at \in Nat
    BY DEF Request
  <1> QED BY <1>1, <1>2, <1>3, RowFields DEF TypeOK

LEMMA StatusUpdate ==
  ASSUME session \in [Sessions -> Row], NEW x \in Sessions, NEW st \in Statuses,
         session' = [session EXCEPT ![x].status = st]
  PROVE  /\ session' \in [Sessions -> Row]
         /\ \A s \in Sessions :
              /\ session'[s].status = IF s = x THEN st ELSE session[s].status
              /\ session'[s].createdAt = session[s].createdAt
              /\ session'[s].startedAt = session[s].startedAt
              /\ session'[s].submittedAt = session[s].submittedAt
              /\ session'[s].flag = session[s].flag
  <1> DEFINE new == [session[x] EXCEPT !.status = st]
  <1>1. session' = [session EXCEPT ![x] = new]
    OBVIOUS
  <1>2. /\ new \in Row /\ new.status = st /\ new.createdAt = session[x].createdAt
        /\ new.startedAt = session[x].startedAt
        /\ new.submittedAt = session[x].submittedAt /\ new.flag = session[x].flag
    BY SetStatus
  <1> HIDE DEF new
  <1> QED BY <1>1, <1>2

LEMMA CreateUpdate ==
  ASSUME session \in [Sessions -> Row], now \in Nat, NEW x \in Sessions,
         session' = [session EXCEPT ![x] = Created(@)]
  PROVE  /\ session' \in [Sessions -> Row]
         /\ \A s \in Sessions :
              /\ session'[s].status = IF s = x THEN "pending" ELSE session[s].status
              /\ session'[s].startedAt = session[s].startedAt
              /\ session'[s].submittedAt = session[s].submittedAt
              /\ session'[s].flag = session[s].flag
  <1>1. /\ Created(session[x]) \in Row /\ Created(session[x]).status = "pending"
        /\ Created(session[x]).startedAt = session[x].startedAt
        /\ Created(session[x]).submittedAt = session[x].submittedAt
        /\ Created(session[x]).flag = session[x].flag
    BY CreatedRow
  <1> QED BY <1>1

LEMMA StartUpdate ==
  ASSUME session \in [Sessions -> Row], now \in Nat, NEW x \in Sessions,
         session' = [session EXCEPT ![x].startedAt = IF @ = NoTime THEN now ELSE @]
  PROVE  /\ session' \in [Sessions -> Row]
         /\ \A s \in Sessions :
              /\ session'[s].status = session[s].status
              /\ session'[s].startedAt = IF s = x /\ session[s].startedAt = 0
                                           THEN now ELSE session[s].startedAt
              /\ session'[s].submittedAt = session[s].submittedAt
              /\ session'[s].flag = session[s].flag
  <1> DEFINE t == IF session[x].startedAt = NoTime THEN now ELSE session[x].startedAt
             new == [session[x] EXCEPT !.startedAt = t]
  <1>1. session' = [session EXCEPT ![x] = new]
    OBVIOUS
  <1>2. t \in Nat
    BY RowFields
  <1>3. t = IF session[x].startedAt = 0 THEN now ELSE session[x].startedAt
    BY DEF NoTime
  <1> HIDE DEF t
  <1>4. /\ new \in Row /\ new.status = session[x].status /\ new.startedAt = t
        /\ new.submittedAt = session[x].submittedAt /\ new.flag = session[x].flag
    BY <1>2, SetStarted
  <1> HIDE DEF new
  <1> QED BY <1>1, <1>3, <1>4

LEMMA FlagUpdate ==
  ASSUME session \in [Sessions -> Row], NEW x \in Sessions, NEW r \in Requests,
         session' = [session EXCEPT ![x].flag = r]
  PROVE  /\ session' \in [Sessions -> Row]
         /\ \A s \in Sessions :
              /\ session'[s].status = session[s].status
              /\ session'[s].startedAt = session[s].startedAt
              /\ session'[s].submittedAt = session[s].submittedAt
              /\ session'[s].flag = IF s = x THEN r ELSE session[s].flag
  <1> DEFINE new == [session[x] EXCEPT !.flag = r]
  <1>1. session' = [session EXCEPT ![x] = new]
    OBVIOUS
  <1>2. /\ new \in Row /\ new.status = session[x].status
        /\ new.startedAt = session[x].startedAt
        /\ new.submittedAt = session[x].submittedAt /\ new.flag = r
    BY SetFlag
  <1> HIDE DEF new
  <1> QED BY <1>1, <1>2

LEMMA SubmitUpdate ==
  ASSUME session \in [Sessions -> Row], now \in Nat, NEW ids \in SUBSET Sessions,
         session' = [s \in Sessions |-> IF s \in ids THEN Submitted(session[s]) ELSE session[s]]
  PROVE  /\ session' \in [Sessions -> Row]
         /\ \A s \in Sessions :
              /\ session'[s].status = IF s \in ids THEN "submitted" ELSE session[s].status
              /\ session'[s].startedAt = session[s].startedAt
              /\ session'[s].submittedAt = IF s \in ids THEN now ELSE session[s].submittedAt
              /\ session'[s].flag = session[s].flag
  <1>1. \A s \in Sessions :
          /\ Submitted(session[s]) \in Row /\ Submitted(session[s]).status = "submitted"
          /\ Submitted(session[s]).submittedAt = now
          /\ Submitted(session[s]).startedAt = session[s].startedAt
          /\ Submitted(session[s]).flag = session[s].flag
    BY SubmittedRow
  <1> QED BY <1>1

----------------------------------------------------------------------------
(* What the requests do. *)

LEMMA RequestBegins ==
  ASSUME TypeOK, NEW r \in Requests, NEW x \in Sessions, NEW step \in Steps,
         Begin(r, x, step)
  PROVE  /\ req' \in [Requests -> Request]
         /\ \A q \in Requests :
              /\ req'[q].step = IF q = r THEN step ELSE req[q].step
              /\ req'[q].sess = IF q = r THEN x ELSE req[q].sess
  <1> DEFINE new == [step |-> step, sess |-> x, at |-> 0]
  <1>1. req' = [req EXCEPT ![r] = new] /\ req \in [Requests -> Request]
    BY DEF Begin, NoTime, TypeOK
  <1>2. new \in Request /\ new.step = step /\ new.sess = x
    BY DEF Request
  <1> HIDE DEF new
  <1> QED BY <1>1, <1>2

LEMMA RequestFinishes ==
  ASSUME TypeOK, NEW r \in Requests, Finish(r)
  PROVE  /\ req' \in [Requests -> Request]
         /\ req'[r].step = "idle"
         /\ \A q \in Requests : q # r => req'[q] = req[q]
  <1>1. req' = [req EXCEPT ![r] = Idle] /\ req \in [Requests -> Request]
    BY DEF Finish, TypeOK
  <1>2. Idle \in Request /\ Idle.step = "idle"
    BY DEF Request, Idle, Steps, NoTime
  <1> QED BY <1>1, <1>2

LEMMA RequestRereads ==
  ASSUME TypeOK, NEW r \in Requests, At(r, "anchor"),
         req' = [req EXCEPT ![r] = [step |-> "reread", sess |-> req[r].sess, at |-> now]]
  PROVE  /\ req' \in [Requests -> Request]
         /\ \A q \in Requests :
              /\ req'[q].step = IF q = r THEN "reread" ELSE req[q].step
              /\ req'[q].sess = req[q].sess
  <1> DEFINE new == [step |-> "reread", sess |-> req[r].sess, at |-> now]
  <1>1. req' = [req EXCEPT ![r] = new] /\ req \in [Requests -> Request]
    BY DEF TypeOK
  <1>2. req[r].sess \in Sessions /\ now \in Nat
    BY TypeFacts DEF At
  <1>3. new \in Request /\ new.step = "reread" /\ new.sess = req[r].sess
    BY <1>2 DEF Request, Steps
  <1> HIDE DEF new
  <1> QED BY <1>1, <1>3

LEMMA RequestQueues ==
  ASSUME TypeOK, NEW r \in Requests, req' = [req EXCEPT ![r].step = "enqueue"]
  PROVE  /\ req' \in [Requests -> Request]
         /\ \A q \in Requests :
              /\ req'[q].step = IF q = r THEN "enqueue" ELSE req[q].step
              /\ req'[q].sess = req[q].sess
  <1> DEFINE new == [req[r] EXCEPT !.step = "enqueue"]
  <1>1. req' = [req EXCEPT ![r] = new] /\ req \in [Requests -> Request] /\ req[r] \in Request
    BY DEF TypeOK
  <1>2. new \in Request
    BY <1>1 DEF Request, Steps
  <1>3. new.step = "enqueue" /\ new.sess = req[r].sess
    BY <1>1 DEF Request
  <1> HIDE DEF new
  <1> QED BY <1>1, <1>2, <1>3

----------------------------------------------------------------------------
(* What a step does to the queue. *)

\* The sweep's batch names each of the sessions once.
LEMMA OrdersFacts ==
  ASSUME NEW S \in SUBSET Sessions, NEW batch \in Orders(S)
  PROVE  /\ batch \in Seq(Sessions)
         /\ Len(batch) = Cardinality(S) /\ Cardinality(S) \in 0..Cardinality(Sessions)
         /\ \A k \in 1..Len(batch) : batch[k] \in S
         /\ \A s \in S : \E k \in 1..Len(batch) : batch[k] = s
  <1> DEFINE n == Cardinality(S)
  <1>1. IsFiniteSet(S) /\ n \in Nat /\ n <= Cardinality(Sessions) /\ Cardinality(Sessions) \in Nat
    BY LifecycleAssumption, FS_Subset, FS_CardinalityType
  <1>2. batch \in [1..n -> S] /\ \A i, j \in 1..n : batch[i] = batch[j] => i = j
    BY DEF Orders
  <1> HIDE DEF n
  <1>3. batch \in Seq(Sessions) /\ Len(batch) = n
    BY <1>1, <1>2
  <1>4. batch \in Injection(1..n, S)
    BY <1>2 DEF Injection, IsInjective
  <1>5. Cardinality(1..n) = n
    BY <1>1, FS_Interval
  <1>6. batch \in Surjection(1..n, S)
    BY <1>1, <1>4, <1>5, FS_Injection DEF n
  <1>7. \A s \in S : \E k \in 1..n : batch[k] = s
    BY <1>6 DEF Surjection
  <1> QED BY <1>1, <1>2, <1>3, <1>7 DEF n

\* Inserting a batch gives each of its sessions a job and leaves the rest alone.
LEMMA QueueGrows ==
  ASSUME QTypeOK, NEW batch \in Seq(Sessions), Enqueue(batch)
  PROVE  /\ QTypeOK' /\ held' = held
         /\ held # 0 => jobs'[held].sess = jobs[held].sess
         /\ \A s \in Sessions :
              HasJob(s)' <=> HasJob(s) \/ \E k \in 1..Len(batch) : batch[k] = s
  <1>1. /\ jobs' \in Seq(Job) /\ Len(batch) \in Nat
        /\ \A i \in DOMAIN jobs : i \in DOMAIN jobs' /\ jobs'[i] = jobs[i]
        /\ \A i \in DOMAIN jobs' : i \notin DOMAIN jobs =>
             i - Len(jobs) \in 1..Len(batch) /\ jobs'[i].sess = batch[i - Len(jobs)]
        /\ \A k \in 1..Len(batch) :
             Len(jobs) + k \in DOMAIN jobs' /\ jobs'[Len(jobs) + k].sess = batch[k]
    BY EnqueueAppends
  <1>2. held' = held /\ held \in {0} \union DOMAIN jobs
    BY DEF Enqueue, QTypeOK, NoJob
  <1>3. QTypeOK'
    BY <1>1, <1>2 DEF QTypeOK, NoJob
  <1>4. ASSUME NEW s \in Sessions
        PROVE  HasJob(s)' <=> HasJob(s) \/ \E k \in 1..Len(batch) : batch[k] = s
    BY <1>1 DEF HasJob
  <1> QED BY <1>1, <1>2, <1>3, <1>4

\* The worker's statements change no job's session.
LEMMA QueueRuns ==
  ASSUME QTypeOK, Claim \/ Complete \/ Fail \/ WorkerCrash
  PROVE  /\ QTypeOK'
         /\ Claim => held' # 0
         /\ ~Claim => held' = 0
         /\ \A s \in Sessions : HasJob(s)' <=> HasJob(s)
  <1>1. /\ jobs' \in Seq(Job) /\ DOMAIN jobs' = DOMAIN jobs
        /\ \A i \in DOMAIN jobs : jobs'[i].sess = jobs[i].sess
        /\ held' \in {0} \union DOMAIN jobs
        /\ Claim => held' # 0
        /\ ~Claim => held' = 0
    BY WorkerRewrites
  <1>2. QTypeOK'
    BY <1>1 DEF QTypeOK, NoJob
  <1> QED BY <1>1, <1>2 DEF HasJob

\* The session of the row the worker holds.
LEMMA SubjectFacts ==
  ASSUME QTypeOK, held # 0
  PROVE  Subject \in Sessions /\ HasJob(Subject)
  <1>1. held \in DOMAIN jobs
    BY DEF QTypeOK, NoJob
  <1>2. jobs[held].sess \in Sessions
    BY <1>1, TableFacts, JobFields
  <1> QED BY <1>1, <1>2 DEF Subject, HasJob

----------------------------------------------------------------------------
(* The inductive invariant *)

\* What the copy of the row a request started from still guarantees when the
\* request goes on: statuses never go back to pending, times are never unset.
RequestActivated(r) ==
  /\ req[r].step = "provision" =>
       Status(req[r].sess) # "absent" /\ OpensAt[req[r].sess] <= now
  /\ req[r].step \in {"anchor", "reread", "flag", "mark", "enqueue"} =>
       Status(req[r].sess) \notin {"absent", "pending"}
  /\ req[r].step = "reread" => session[req[r].sess].startedAt # 0
  /\ req[r].step = "enqueue" => session[req[r].sess].submittedAt # 0
RequestsActivated == \A r \in Requests : RequestActivated(r)

\* Only a session whose scheduled time has come is ever activated.
ActivatedInTime ==
  /\ now # 0
  /\ \A s \in Sessions : Status(s) \notin {"absent", "pending"} => OpensAt[s] <= now

\* The grader marks a session graded only after it stored the report.
MarkHasReport == runner = "mark" => Subject \in grades

LInv ==
  /\ TypeOK
  /\ RequestsActivated
  /\ ActivatedInTime
  /\ NothingBeforeActivation
  /\ GradingFollowsSubmission
  /\ GradedHasReport
  /\ MarkHasReport
  /\ SubmittedIsQueued
  /\ PanelClockWaits

\* What a handler's step leaves alone.
LEMMA ElsewhereFacts ==
  ASSUME UNCHANGED Elsewhere
  PROVE  /\ now' = now /\ grades' = grades /\ jobs' = jobs /\ held' = held
         /\ runner' = runner /\ crashes' = crashes /\ stranded' = stranded
         /\ \A s \in Sessions : HasJob(s)' <=> HasJob(s)
         /\ Subject' = Subject
         /\ QTypeOK => QTypeOK'
  BY DEF Elsewhere, HasJob, Subject, QTypeOK


\* Rows only go forward: what a copy taken earlier showed to have happened has
\* still happened.
RowsAdvance ==
  /\ now <= now'
  /\ \A s \in Sessions :
       /\ Status(s) # "absent" => Status(s)' # "absent"
       /\ Status(s) \notin {"absent", "pending"} => Status(s)' \notin {"absent", "pending"}
       /\ session[s].startedAt # 0 => session'[s].startedAt # 0
       /\ session[s].submittedAt # 0 => session'[s].submittedAt # 0

LEMMA InvParts ==
  ASSUME LInv
  PROVE  /\ TypeOK /\ RequestsActivated /\ ActivatedInTime /\ NothingBeforeActivation
         /\ GradingFollowsSubmission /\ GradedHasReport /\ MarkHasReport
         /\ SubmittedIsQueued /\ PanelClockWaits
  BY DEF LInv

\* The request r moved and every other one stayed where it was.
OnlyMoves(r) ==
  \A q \in Requests : q # r => req'[q].step = req[q].step /\ req'[q].sess = req[q].sess

LEMMA OthersStayActivated ==
  ASSUME TypeOK, now' \in Nat, RequestsActivated, RowsAdvance, NEW r,
         OnlyMoves(r), r \in Requests => RequestActivated(r)'
  PROVE  RequestsActivated'
  <1> SUFFICES ASSUME NEW q \in Requests, q # r PROVE RequestActivated(q)'
    BY DEF RequestsActivated
  <1>1. RequestActivated(q) /\ req'[q].step = req[q].step /\ req'[q].sess = req[q].sess
    BY DEF RequestsActivated, OnlyMoves
  <1>2. CASE req[q].step = "idle"
    BY <1>1, <1>2 DEF RequestActivated
  <1>3. CASE req[q].step # "idle"
    <2>1. req[q].sess \in Sessions /\ OpensAt[req[q].sess] \in Nat /\ now \in Nat
      BY <1>3, TypeFacts, LifecycleAssumption
    <2>2. OpensAt[req[q].sess] <= now => OpensAt[req[q].sess] <= now'
      BY <2>1 DEF RowsAdvance
    <2> QED BY <1>1, <2>1, <2>2 DEF RequestActivated, RowsAdvance, Status
  <1> QED BY <1>2, <1>3

\* A handler's step changes the request and at most the sessions table.
LEMMA HandlerTypes ==
  ASSUME TypeOK, UNCHANGED Elsewhere, session' \in [Sessions -> Row],
         req' \in [Requests -> Request], told' \in [Sessions -> SUBSET Nat],
         NEW r, OnlyMoves(r),
         r \in Requests => req'[r].step = "idle" \/ req'[r].sess \in Sessions
  PROVE  TypeOK'
  <1>1. QTypeOK' /\ now' = now /\ grades' = grades /\ held' = held /\ runner' = runner
        /\ crashes' = crashes /\ stranded' = stranded
    BY ElsewhereFacts DEF TypeOK
  <1>2. \A q \in Requests : req'[q].step = "idle" \/ req'[q].sess \in Sessions
    BY DEF TypeOK, OnlyMoves
  <1> QED BY <1>1, <1>2 DEF TypeOK

----------------------------------------------------------------------------
(* Steps of a request that leave the sessions table alone. *)

LEMMA RequestOnlyStep ==
  ASSUME LInv, UNCHANGED <<session, Elsewhere>>, NEW r \in Requests,
         req' \in [Requests -> Request], told' \in [Sessions -> SUBSET Nat],
         OnlyMoves(r), req[r].step # "enqueue",
         req'[r].step = "idle" \/ req'[r].sess \in Sessions,
         RequestActivated(r)'
  PROVE  LInv'
  <1>i. /\ TypeOK /\ RequestsActivated /\ ActivatedInTime /\ NothingBeforeActivation
        /\ GradingFollowsSubmission /\ GradedHasReport /\ MarkHasReport
        /\ SubmittedIsQueued /\ PanelClockWaits
    BY InvParts
  <1>u. /\ now' = now /\ grades' = grades /\ runner' = runner /\ crashes' = crashes /\ stranded' = stranded
        /\ \A s \in Sessions : HasJob(s)' <=> HasJob(s)
        /\ Subject' = Subject /\ session' = session
    BY ElsewhereFacts
  <1>t. now \in Nat /\ session' \in [Sessions -> Row]
    BY <1>i, <1>u, TypeFacts
  <1>1. TypeOK'
    BY <1>i, <1>t, HandlerTypes
  <1>2. RequestsActivated'
    <2>1. RowsAdvance /\ now' \in Nat
      BY <1>u, <1>t DEF RowsAdvance, Status
    <2> QED BY <2>1, <1>i, OthersStayActivated
  <1>3. ActivatedInTime' /\ NothingBeforeActivation' /\ GradingFollowsSubmission'
    BY <1>i, <1>u DEF ActivatedInTime, NothingBeforeActivation, GradingFollowsSubmission, Status
  <1>4. GradedHasReport' /\ MarkHasReport' /\ PanelClockWaits'
    BY <1>i, <1>u DEF GradedHasReport, MarkHasReport, PanelClockWaits, Status
  <1>5. SubmittedIsQueued'
    BY <1>i, <1>u DEF SubmittedIsQueued, Status, At, OnlyMoves
  <1> QED BY <1>1, <1>2, <1>3, <1>4, <1>5 DEF LInv

\* A request that arrives and reads the row of s.
LEMMA BeginStep ==
  ASSUME LInv, NEW r \in Requests, NEW s \in Sessions,
         NEW step \in {"provision", "anchor", "flag", "mark"},
         Arrives(r), Begin(r, s, step), UNCHANGED <<session, told, Elsewhere>>,
         Status(s) # "absent", step = "provision" => OpensAt[s] <= now,
         step # "provision" => Status(s) # "pending"
  PROVE  LInv'
  <1>1. TypeOK /\ step \in Steps
    BY InvParts DEF Steps
  <1>2. /\ req' \in [Requests -> Request] /\ OnlyMoves(r)
        /\ req'[r].step = step /\ req'[r].sess = s
    BY <1>1, RequestBegins DEF OnlyMoves
  <1>3. req[r].step # "enqueue"
    BY DEF Arrives, Idle
  <1>4. told' \in [Sessions -> SUBSET Nat] /\ now' = now
    BY <1>1 DEF TypeOK, Elsewhere
  <1>5. RequestActivated(r)'
    BY <1>2, <1>4 DEF RequestActivated, Status
  <1> QED BY <1>2, <1>3, <1>4, <1>5, RequestOnlyStep

\* A request that ends without writing.
LEMMA FinishStep ==
  ASSUME LInv, NEW r \in Requests, Finish(r), req[r].step # "enqueue",
         UNCHANGED <<session, Elsewhere>>, told' \in [Sessions -> SUBSET Nat]
  PROVE  LInv'
  <1>1. TypeOK
    BY InvParts
  <1>2. req' \in [Requests -> Request] /\ OnlyMoves(r) /\ req'[r].step = "idle"
    BY <1>1, RequestFinishes DEF OnlyMoves
  <1>3. RequestActivated(r)'
    BY <1>2 DEF RequestActivated
  <1> QED BY <1>2, <1>3, RequestOnlyStep

LEMMA ArrivalStep ==
  ASSUME LInv, NEW r \in Requests, NEW s \in Sessions, Arrival(r, s) PROVE LInv'
  <1>t. TypeOK /\ session[s].startedAt \in Nat
    BY InvParts, TypeFacts
  <1>1. CASE ValidateRead(r, s)
    BY <1>1, BeginStep DEF ValidateRead
  <1>2. CASE StartedRead(r, s)
    <2>1. CASE session[s].startedAt = NoTime
      BY <1>2, <2>1, BeginStep DEF StartedRead
    <2>2. CASE session[s].startedAt # NoTime
      <3>1. /\ told' = [told EXCEPT ![s] = @ \union {session[s].startedAt}]
            /\ req' = req /\ UNCHANGED <<session, Elsewhere>> /\ req[r] = Idle
        BY <1>2, <2>2 DEF StartedRead, Arrives
      <3>2. told' \in [Sessions -> SUBSET Nat]
        BY <3>1, <1>t DEF TypeOK
      <3>3. req' \in [Requests -> Request] /\ OnlyMoves(r) /\ req'[r].step = "idle"
        BY <3>1, <1>t DEF TypeOK, OnlyMoves, Idle
      <3>4. RequestActivated(r)' /\ req[r].step # "enqueue"
        BY <3>1, <3>3 DEF RequestActivated
      <3> QED BY <3>1, <3>2, <3>3, <3>4, RequestOnlyStep
    <2> QED BY <2>1, <2>2
  <1>3. CASE InvalidateRead(r, s)
    BY <1>3, BeginStep DEF InvalidateRead
  <1>4. CASE SubmitRead(r, s)
    BY <1>4, BeginStep DEF SubmitRead
  <1> QED BY <1>1, <1>2, <1>3, <1>4 DEF Arrival

LEMMA ValidateFailsStep ==
  ASSUME LInv, NEW r \in Requests, ValidateFails(r) PROVE LInv'
  <1>1. told' \in [Sessions -> SUBSET Nat]
    BY InvParts DEF ValidateFails, TypeOK
  <1> QED BY <1>1, FinishStep DEF ValidateFails, At

LEMMA StartedReplyStep ==
  ASSUME LInv, NEW r \in Requests, StartedReply(r) PROVE LInv'
  <1>1. TypeOK /\ req[r].step = "reread"
    BY InvParts DEF StartedReply, At
  <1>2. /\ req[r].sess \in Sessions /\ req[r].at \in Nat
        /\ session[req[r].sess].startedAt \in Nat
    BY <1>1, TypeFacts
  <1>3. told' \in [Sessions -> SUBSET Nat]
    BY <1>1, <1>2 DEF StartedReply, TypeOK
  <1> QED BY <1>1, <1>3, FinishStep DEF StartedReply

----------------------------------------------------------------------------
(* Steps that write one row of the sessions table. *)

\* The invariant at the row x is all that such a step has to establish.
RowIsSound(x) ==
  /\ Status(x) \notin {"absent", "pending"} => OpensAt[x] <= now
  /\ Status(x) \in {"absent", "pending"} =>
       /\ session[x].startedAt = 0 /\ session[x].flag = NoFlag
       /\ session[x].submittedAt = 0 /\ ~HasJob(x) /\ x \notin grades
  /\ HasJob(x) \/ x \in grades \/ Status(x) \in {"submitted", "graded", "grading_failed"}
       => session[x].submittedAt # 0
  /\ Status(x) = "graded" => x \in grades
  /\ session[x].startedAt # 0 => OpensAt[x] <= session[x].startedAt

LEMMA RowsAreSound ==
  ASSUME LInv, NEW x \in Sessions PROVE RowIsSound(x) /\ now # 0
  BY InvParts DEF RowIsSound, ActivatedInTime, NothingBeforeActivation,
     GradingFollowsSubmission, GradedHasReport, PanelClockWaits, NoTime

LEMMA RowWriteStep ==
  ASSUME LInv, UNCHANGED <<told, Elsewhere>>, NEW x \in Sessions, NEW r, OnlyMoves(r),
         session' \in [Sessions -> Row], req' \in [Requests -> Request],
         \A s \in Sessions : s # x =>
           /\ session'[s].status = session[s].status
           /\ session'[s].startedAt = session[s].startedAt
           /\ session'[s].submittedAt = session[s].submittedAt
           /\ session'[s].flag = session[s].flag,
         r \in Requests => /\ req'[r].step = "idle" \/ req'[r].sess \in Sessions
                           /\ RequestActivated(r)'
                           /\ req[r].step # "enqueue",
         RowsAdvance, RowIsSound(x)',
         Status(x)' = "submitted" /\ Status(x) # "submitted" =>
           r \in Requests /\ At(r, "enqueue")' /\ req'[r].sess = x
  PROVE  LInv'
  <1>i. /\ TypeOK /\ RequestsActivated /\ ActivatedInTime /\ NothingBeforeActivation
        /\ GradingFollowsSubmission /\ GradedHasReport /\ MarkHasReport
        /\ SubmittedIsQueued /\ PanelClockWaits
    BY InvParts
  <1>u. /\ now' = now /\ grades' = grades /\ runner' = runner /\ crashes' = crashes /\ stranded' = stranded
        /\ \A s \in Sessions : HasJob(s)' <=> HasJob(s)
        /\ Subject' = Subject /\ told' = told
    BY ElsewhereFacts
  <1>1. TypeOK'
    <2>1. told' \in [Sessions -> SUBSET Nat]
      BY <1>i, <1>u DEF TypeOK
    <2> QED BY <2>1, <1>i, HandlerTypes
  <1>2. RequestsActivated'
    <2>1. now' \in Nat
      BY <1>u, <1>i, TypeFacts
    <2> QED BY <2>1, <1>i, OthersStayActivated
  <1>3. \A s \in Sessions : RowIsSound(s)'
    <2> SUFFICES ASSUME NEW s \in Sessions, s # x PROVE RowIsSound(s)'
      OBVIOUS
    <2>1. RowIsSound(s)
      BY RowsAreSound
    <2> QED BY <2>1, <1>u DEF RowIsSound, Status
  <1>4. ActivatedInTime' /\ NothingBeforeActivation' /\ GradingFollowsSubmission'
    BY <1>3, <1>i, <1>u DEF RowIsSound, ActivatedInTime, NothingBeforeActivation,
       GradingFollowsSubmission, NoTime
  <1>5. GradedHasReport' /\ MarkHasReport' /\ PanelClockWaits'
    BY <1>3, <1>i, <1>u DEF RowIsSound, GradedHasReport, MarkHasReport, PanelClockWaits, NoTime
  <1>6. SubmittedIsQueued'
    <2> SUFFICES ASSUME NEW s \in Sessions, Status(s)' = "submitted", ~HasJob(s), s \notin stranded
                 PROVE  \E q \in Requests : At(q, "enqueue")' /\ req'[q].sess = s
      BY <1>u DEF SubmittedIsQueued
    <2>1. CASE Status(s) = "submitted"
      <3>1. PICK q \in Requests : At(q, "enqueue") /\ req[q].sess = s
        BY <2>1, <1>i DEF SubmittedIsQueued
      <3>2. q # r
        BY <3>1 DEF At
      <3> QED BY <3>1, <3>2 DEF At, OnlyMoves
    <2>2. CASE Status(s) # "submitted"
      <3>1. s = x
        BY <2>2 DEF Status
      <3> QED BY <3>1, <2>2
    <2> QED BY <2>1, <2>2
  <1> QED BY <1>1, <1>2, <1>4, <1>5, <1>6 DEF LInv

LEMMA CreateStep == ASSUME LInv, NEW s \in Sessions, CreateSession(s) PROVE LInv'
  <1>t. TypeOK /\ now \in Nat /\ session \in [Sessions -> Row]
    BY InvParts, TypeFacts
  <1>1. /\ session' \in [Sessions -> Row]
        /\ \A x \in Sessions :
             /\ session'[x].status = IF x = s THEN "pending" ELSE session[x].status
             /\ session'[x].startedAt = session[x].startedAt
             /\ session'[x].submittedAt = session[x].submittedAt
             /\ session'[x].flag = session[x].flag
    BY <1>t, CreateUpdate DEF CreateSession
  <1>2. /\ Status(s) = "absent" /\ req' = req /\ UNCHANGED <<told, Elsewhere>>
    BY DEF CreateSession
  <1>3. RowsAdvance
    BY <1>t, <1>1, <1>2 DEF RowsAdvance, Status, Elsewhere
  <1>4. RowIsSound(s)'
    BY <1>1, <1>2, RowsAreSound, ElsewhereFacts DEF RowIsSound, Status
  <1>5. req' \in [Requests -> Request] /\ OnlyMoves(NoFlag) /\ NoFlag \notin Requests
    BY <1>t, <1>2, LifecycleAssumption DEF TypeOK, OnlyMoves
  <1>6. Status(s)' # "submitted"
    BY <1>1 DEF Status
  <1> QED BY <1>1, <1>2, <1>3, <1>4, <1>5, <1>6, RowWriteStep

LEMMA ValidateActivateStep ==
  ASSUME LInv, NEW r \in Requests, ValidateActivate(r) PROVE LInv'
  <1>t. /\ TypeOK /\ now \in Nat /\ session \in [Sessions -> Row] /\ req[r].step = "provision"
        /\ req[r].sess \in Sessions /\ RequestActivated(r)
    BY InvParts, TypeFacts DEF ValidateActivate, At, RequestsActivated
  <1>x. PICK x \in Sessions : x = req[r].sess
    BY <1>t
  <1>1. /\ session' \in [Sessions -> Row]
        /\ \A s \in Sessions :
             /\ session'[s].status = IF s = x THEN "active" ELSE session[s].status
             /\ session'[s].startedAt = session[s].startedAt
             /\ session'[s].submittedAt = session[s].submittedAt
             /\ session'[s].flag = session[s].flag
    <2>1. session' = [session EXCEPT ![x].status = "active"] /\ "active" \in Statuses
      BY <1>x DEF ValidateActivate, Statuses
    <2>2. session \in [Sessions -> Row]
      BY <1>t
    <2> QED BY <2>1, <2>2, StatusUpdate, ZenonT(60)
  <1>2. UNCHANGED <<told, Elsewhere>> /\ Finish(r)
    BY DEF ValidateActivate
  <1>3. RowsAdvance
    BY <1>t, <1>1, <1>2, <1>x DEF RowsAdvance, Status, Elsewhere
  <1>4. RowIsSound(x)'
    <2>1. RowIsSound(x) /\ Status(x)' = "active" /\ OpensAt[x] <= now
      BY <1>t, <1>x, <1>1, RowsAreSound DEF RequestActivated, Status
    <2> QED BY <2>1, <1>1, <1>2, ElsewhereFacts DEF RowIsSound, Status
  <1>5. /\ req' \in [Requests -> Request] /\ OnlyMoves(r) /\ req'[r].step = "idle"
    BY <1>t, <1>2, RequestFinishes DEF OnlyMoves
  <1>6. RequestActivated(r)' /\ Status(x)' # "submitted"
    BY <1>1, <1>5 DEF Status, RequestActivated
  <1> QED BY <1>t, <1>1, <1>2, <1>3, <1>4, <1>5, <1>6, RowWriteStep

LEMMA StartedWriteStep ==
  ASSUME LInv, NEW r \in Requests, StartedWrite(r) PROVE LInv'
  <1>t. /\ TypeOK /\ now \in Nat /\ session \in [Sessions -> Row] /\ req[r].step = "anchor"
        /\ req[r].sess \in Sessions /\ RequestActivated(r) /\ now # 0
    BY InvParts, TypeFacts DEF StartedWrite, At, RequestsActivated, ActivatedInTime
  <1>x. PICK x \in Sessions : x = req[r].sess
    BY <1>t
  <1>1. /\ session' \in [Sessions -> Row]
        /\ \A s \in Sessions :
             /\ session'[s].status = session[s].status
             /\ session'[s].startedAt = IF s = x /\ session[s].startedAt = 0
                                          THEN now ELSE session[s].startedAt
             /\ session'[s].submittedAt = session[s].submittedAt
             /\ session'[s].flag = session[s].flag
    BY <1>t, <1>x, StartUpdate DEF StartedWrite
  <1>2. UNCHANGED <<told, Elsewhere>>
    BY DEF StartedWrite
  <1>3. RowsAdvance
    BY <1>t, <1>1, <1>2, <1>x DEF RowsAdvance, Status, Elsewhere
  <1>4. RowIsSound(x)'
    <2>1. RowIsSound(x) /\ Status(x)' = Status(x) /\ Status(x) \notin {"absent", "pending"}
      BY <1>t, <1>x, <1>1, RowsAreSound DEF RequestActivated, Status
    <2> QED BY <2>1, <1>1, <1>2, <1>x, ElsewhereFacts DEF RowIsSound
  <1>5. /\ req' \in [Requests -> Request] /\ OnlyMoves(r)
        /\ req'[r].step = "reread" /\ req'[r].sess = x
    BY <1>t, <1>x, RequestRereads DEF OnlyMoves, StartedWrite
  <1>6. RequestActivated(r)' /\ Status(x)' = Status(x)
    BY <1>t, <1>x, <1>1, <1>5 DEF Status, RequestActivated
  <1> QED BY <1>t, <1>1, <1>2, <1>3, <1>4, <1>5, <1>6, RowWriteStep

LEMMA InvalidateWriteStep ==
  ASSUME LInv, NEW r \in Requests, InvalidateWrite(r) PROVE LInv'
  <1>t. /\ TypeOK /\ now \in Nat /\ session \in [Sessions -> Row] /\ req[r].step = "flag"
        /\ req[r].sess \in Sessions /\ RequestActivated(r)
    BY InvParts, TypeFacts DEF InvalidateWrite, At, RequestsActivated
  <1>x. PICK x \in Sessions : x = req[r].sess
    BY <1>t
  <1>1. /\ session' \in [Sessions -> Row]
        /\ \A s \in Sessions :
             /\ session'[s].status = session[s].status
             /\ session'[s].startedAt = session[s].startedAt
             /\ session'[s].submittedAt = session[s].submittedAt
             /\ session'[s].flag = IF s = x THEN r ELSE session[s].flag
    <2>1. session' = [session EXCEPT ![x].flag = r]
      BY <1>x DEF InvalidateWrite
    <2>2. session \in [Sessions -> Row]
      BY <1>t
    <2> QED BY <2>1, <2>2, FlagUpdate, ZenonT(60)
  <1>2. UNCHANGED <<told, Elsewhere>> /\ Finish(r)
    BY DEF InvalidateWrite
  <1>3. RowsAdvance
    BY <1>t, <1>1, <1>2 DEF RowsAdvance, Status, Elsewhere
  <1>4. RowIsSound(x)'
    <2>1. RowIsSound(x) /\ Status(x)' = Status(x) /\ Status(x) \notin {"absent", "pending"}
      BY <1>t, <1>x, <1>1, RowsAreSound DEF RequestActivated, Status
    <2> QED BY <2>1, <1>1, <1>2, ElsewhereFacts DEF RowIsSound
  <1>5. /\ req' \in [Requests -> Request] /\ OnlyMoves(r) /\ req'[r].step = "idle"
    BY <1>t, <1>2, RequestFinishes DEF OnlyMoves
  <1>6. RequestActivated(r)' /\ Status(x)' = Status(x)
    BY <1>1, <1>5 DEF Status, RequestActivated
  <1> QED BY <1>t, <1>1, <1>2, <1>3, <1>4, <1>5, <1>6, RowWriteStep

LEMMA SubmitWriteStep ==
  ASSUME LInv, NEW r \in Requests, SubmitWrite(r) PROVE LInv'
  <1>t. /\ TypeOK /\ now \in Nat /\ session \in [Sessions -> Row] /\ req[r].step = "mark"
        /\ req[r].sess \in Sessions /\ RequestActivated(r) /\ now # 0
    BY InvParts, TypeFacts DEF SubmitWrite, At, RequestsActivated, ActivatedInTime
  <1>x. PICK x \in Sessions : x = req[r].sess
    BY <1>t
  <1>1. /\ session' \in [Sessions -> Row]
        /\ \A s \in Sessions :
             /\ session'[s].status = IF s = x THEN "submitted" ELSE session[s].status
             /\ session'[s].startedAt = session[s].startedAt
             /\ session'[s].submittedAt = IF s = x THEN now ELSE session[s].submittedAt
             /\ session'[s].flag = session[s].flag
    <2>1. session' = [session EXCEPT ![x] = Submitted(session[x])]
      BY <1>x DEF SubmitWrite
    <2>2. session' = [s \in Sessions |-> IF s \in {x} THEN Submitted(session[s]) ELSE session[s]]
      BY <2>1, <1>t
    <2>3. {x} \in SUBSET Sessions /\ \A s : s \in {x} <=> s = x
      OBVIOUS
    <2> QED BY <2>2, <2>3, <1>t, SubmitUpdate
  <1>2. UNCHANGED <<told, Elsewhere>>
    BY DEF SubmitWrite
  <1>3. RowsAdvance
    BY <1>t, <1>1, <1>2 DEF RowsAdvance, Status, Elsewhere
  <1>4. RowIsSound(x)'
    <2>1. /\ RowIsSound(x) /\ Status(x)' = "submitted" /\ Status(x) \notin {"absent", "pending"}
          /\ session'[x].submittedAt # 0
      BY <1>t, <1>x, <1>1, RowsAreSound DEF RequestActivated, Status
    <2> QED BY <2>1, <1>1, <1>2, ElsewhereFacts DEF RowIsSound
  <1>5. /\ req' \in [Requests -> Request] /\ OnlyMoves(r)
        /\ req'[r].step = "enqueue" /\ req'[r].sess = x
    BY <1>t, <1>x, RequestQueues DEF OnlyMoves, SubmitWrite
  <1>6. RequestActivated(r)' /\ At(r, "enqueue")'
    BY <1>t, <1>1, <1>5 DEF Status, RequestActivated, At
  <1> QED BY <1>t, <1>1, <1>2, <1>3, <1>4, <1>5, <1>6, RowWriteStep

----------------------------------------------------------------------------
(* Steps that change the queue, the worker or the clock. *)

LEMMA Assemble ==
  ASSUME TypeOK', RequestsActivated', now' # 0, \A s \in Sessions : RowIsSound(s)',
         MarkHasReport', SubmittedIsQueued'
  PROVE  LInv'
  <1>1. ActivatedInTime' /\ NothingBeforeActivation' /\ GradingFollowsSubmission'
        /\ GradedHasReport' /\ PanelClockWaits'
    BY DEF RowIsSound, ActivatedInTime, NothingBeforeActivation, GradingFollowsSubmission,
           GradedHasReport, PanelClockWaits, NoTime
  <1> QED BY <1>1 DEF LInv

\* With the requests and the sessions table unchanged.
LEMMA SameRequests ==
  ASSUME TypeOK, RequestsActivated, req' = req, RowsAdvance, now' \in Nat
  PROVE  RequestsActivated'
  <1>1. OnlyMoves(NoFlag) /\ NoFlag \notin Requests
    BY LifecycleAssumption DEF OnlyMoves
  <1> QED BY <1>1, OthersStayActivated

LEMMA SubmitEnqueueStep ==
  ASSUME LInv, NEW r \in Requests, SubmitEnqueue(r) PROVE LInv'
  <1>t. /\ TypeOK /\ QTypeOK /\ now \in Nat /\ req[r].step = "enqueue"
        /\ req[r].sess \in Sessions /\ RequestActivated(r) /\ RequestsActivated
        /\ SubmittedIsQueued /\ MarkHasReport
    BY InvParts, TypeFacts DEF SubmitEnqueue, At, RequestsActivated, TypeOK
  <1>x. PICK x \in Sessions : x = req[r].sess
    BY <1>t
  <1>u. /\ now' = now /\ session' = session /\ grades' = grades /\ told' = told
        /\ runner' = runner /\ crashes' = crashes /\ stranded' = stranded /\ Finish(r)
    BY DEF SubmitEnqueue
  <1>1. /\ QTypeOK' /\ held' = held
        /\ held # 0 => jobs'[held].sess = jobs[held].sess
        /\ \A s \in Sessions : HasJob(s)' <=> HasJob(s) \/ s = x
    <2>1. Enqueue(<<x>>) /\ <<x>> \in Seq(Sessions)
      BY <1>x DEF SubmitEnqueue
    <2>2. \A s : (\E k \in 1..Len(<<x>>) : <<x>>[k] = s) <=> s = x
      OBVIOUS
    <2> QED BY <2>1, <2>2, <1>t, QueueGrows
  <1>2. req' \in [Requests -> Request] /\ OnlyMoves(r) /\ req'[r].step = "idle"
    BY <1>t, <1>u, RequestFinishes DEF OnlyMoves
  <1>3. TypeOK'
    BY <1>t, <1>u, <1>1, <1>2 DEF TypeOK, OnlyMoves
  <1>4. RequestsActivated'
    <2>1. RowsAdvance
      BY <1>t, <1>u DEF RowsAdvance, Status
    <2>2. RequestActivated(r)'
      BY <1>2 DEF RequestActivated
    <2> QED BY <2>1, <2>2, <1>t, <1>u, <1>2, OthersStayActivated
  <1>5. now' # 0
    BY <1>u, <1>x, RowsAreSound
  <1>6. ASSUME NEW s \in Sessions PROVE RowIsSound(s)'
    <2>1. RowIsSound(s)
      BY RowsAreSound
    <2>2. s = x => Status(s) \notin {"absent", "pending"} /\ session[s].submittedAt # 0
      BY <1>t, <1>x DEF RequestActivated
    <2> QED BY <2>1, <2>2, <1>1, <1>u DEF RowIsSound, Status
  <1>7. MarkHasReport'
    <2>1. runner = "mark" => held # 0
      BY <1>t DEF TypeOK
    <2> QED BY <2>1, <1>t, <1>u, <1>1 DEF MarkHasReport, Subject
  <1>8. SubmittedIsQueued'
    <2> SUFFICES ASSUME NEW s \in Sessions, Status(s) = "submitted", s # x, ~HasJob(s),
                        s \notin stranded
                 PROVE  \E q \in Requests : At(q, "enqueue")' /\ req'[q].sess = s
      BY <1>u, <1>1 DEF SubmittedIsQueued, Status
    <2>1. PICK q \in Requests : At(q, "enqueue") /\ req[q].sess = s
      BY <1>t DEF SubmittedIsQueued
    <2>2. q # r
      BY <2>1, <1>x
    <2> QED BY <2>1, <2>2, <1>2 DEF At, OnlyMoves
  <1> QED BY <1>3, <1>4, <1>5, <1>6, <1>7, <1>8, Assemble

\* The worker claims a row, settles it or dies.
LEMMA WorkerQueueStep ==
  ASSUME LInv, Claim \/ Complete \/ Fail \/ WorkerCrash, UNCHANGED <<session, grades, Served>>,
         Claim => runner' = "grading", ~Claim => runner' = "off"
  PROVE  LInv'
  <1>t. TypeOK /\ QTypeOK /\ now \in Nat /\ RequestsActivated /\ SubmittedIsQueued
    BY InvParts, TypeFacts DEF TypeOK
  <1>u. now' = now /\ session' = session /\ grades' = grades /\ told' = told /\ req' = req
        /\ crashes' = crashes /\ stranded' = stranded
    BY DEF Served
  <1>1. QTypeOK' /\ (Claim => held' # 0) /\ (~Claim => held' = 0)
        /\ \A s \in Sessions : HasJob(s)' <=> HasJob(s)
    BY <1>t, QueueRuns
  <1>2. runner' \in {"off", "grading"} /\ (runner' = "off" <=> held' = 0)
    BY <1>1
  <1>3. TypeOK'
    BY <1>t, <1>u, <1>1, <1>2 DEF TypeOK
  <1>4. RequestsActivated'
    BY <1>t, <1>u, SameRequests DEF RowsAdvance, Status
  <1>5. now' # 0
    BY <1>u, InvParts DEF ActivatedInTime
  <1>6. ASSUME NEW s \in Sessions PROVE RowIsSound(s)'
    BY <1>1, <1>u, RowsAreSound DEF RowIsSound, Status
  <1>7. MarkHasReport'
    BY <1>2 DEF MarkHasReport
  <1>8. SubmittedIsQueued'
    BY <1>t, <1>u, <1>1 DEF SubmittedIsQueued, Status, At
  <1> QED BY <1>3, <1>4, <1>5, <1>6, <1>7, <1>8, Assemble

LEMMA WriteGradeStep == ASSUME LInv, WriteGrade PROVE LInv'
  <1>t. /\ TypeOK /\ QTypeOK /\ now \in Nat /\ RequestsActivated /\ SubmittedIsQueued
        /\ held # 0
    BY InvParts, TypeFacts DEF TypeOK, WriteGrade
  <1>u. /\ now' = now /\ session' = session /\ told' = told /\ req' = req /\ crashes' = crashes /\ stranded' = stranded
        /\ jobs' = jobs /\ held' = held /\ runner' = "mark" /\ grades' = grades \union {Subject}
    BY DEF WriteGrade, Served
  <1>1. QTypeOK' /\ Subject' = Subject /\ \A s \in Sessions : HasJob(s)' <=> HasJob(s)
    BY <1>t, <1>u DEF QTypeOK, Subject, HasJob
  <1>2. Subject \in Sessions /\ HasJob(Subject)
    BY <1>t, SubjectFacts
  <1>3. TypeOK'
    BY <1>t, <1>u, <1>1, <1>2 DEF TypeOK
  <1>4. RequestsActivated'
    BY <1>t, <1>u, SameRequests DEF RowsAdvance, Status
  <1>5. now' # 0
    BY <1>u, InvParts DEF ActivatedInTime
  <1>6. ASSUME NEW s \in Sessions PROVE RowIsSound(s)'
    <2>1. RowIsSound(s) /\ (s \in grades' <=> s \in grades \/ s = Subject)
      BY <1>u, RowsAreSound
    <2> QED BY <2>1, <1>u, <1>1, <1>2 DEF RowIsSound, Status
  <1>7. MarkHasReport'
    BY <1>u, <1>1 DEF MarkHasReport
  <1>8. SubmittedIsQueued'
    BY <1>t, <1>u, <1>1 DEF SubmittedIsQueued, Status, At
  <1> QED BY <1>3, <1>4, <1>5, <1>6, <1>7, <1>8, Assemble

\* The grader gives the session it works on its final status.
LEMMA VerdictStep ==
  ASSUME LInv, NEW st \in Statuses, st \in {"graded", "grading_failed"}, held # 0,
         NEW x \in Sessions, x = Subject, HasJob(x),
         session' = [session EXCEPT ![x].status = st],
         st = "graded" => Subject \in grades,
         runner' = "finish", UNCHANGED <<grades, Served, jobs, held>>
  PROVE  LInv'
  <1>t. /\ TypeOK /\ QTypeOK /\ now \in Nat /\ RequestsActivated /\ SubmittedIsQueued
        /\ session \in [Sessions -> Row]
    BY InvParts, TypeFacts DEF TypeOK
  <1>u. /\ now' = now /\ told' = told /\ req' = req /\ crashes' = crashes /\ stranded' = stranded
        /\ jobs' = jobs /\ held' = held /\ runner' = "finish" /\ grades' = grades
    BY DEF Served
  <1>1. QTypeOK' /\ \A s \in Sessions : HasJob(s)' <=> HasJob(s)
    BY <1>t, <1>u DEF QTypeOK, HasJob
  <1>2. /\ session' \in [Sessions -> Row]
        /\ \A s \in Sessions :
             /\ session'[s].status = IF s = x THEN st ELSE session[s].status
             /\ session'[s].startedAt = session[s].startedAt
             /\ session'[s].submittedAt = session[s].submittedAt
             /\ session'[s].flag = session[s].flag
    BY <1>t, StatusUpdate, ZenonT(60)
  <1>3. TypeOK'
    BY <1>t, <1>u, <1>1, <1>2 DEF TypeOK
  <1>4. RequestsActivated'
    <2>1. RowsAdvance
      BY <1>t, <1>u, <1>2 DEF RowsAdvance, Status
    <2> QED BY <2>1, <1>t, <1>u, SameRequests
  <1>5. now' # 0
    BY <1>u, InvParts DEF ActivatedInTime
  <1>6. ASSUME NEW s \in Sessions PROVE RowIsSound(s)'
    <2>1. RowIsSound(s)
      BY RowsAreSound
    <2>2. CASE s = x
      <3>1. Status(s)' = st
        BY <2>2, <1>2 DEF Status
      <3> QED BY <2>1, <2>2, <3>1, <1>u, <1>1, <1>2 DEF RowIsSound, Status
    <2>3. CASE s # x
      BY <2>1, <2>3, <1>u, <1>1, <1>2 DEF RowIsSound, Status
    <2> QED BY <2>2, <2>3
  <1>7. MarkHasReport'
    BY <1>u DEF MarkHasReport
  <1>8. SubmittedIsQueued'
    BY <1>t, <1>u, <1>1, <1>2 DEF SubmittedIsQueued, Status, At
  <1> QED BY <1>3, <1>4, <1>5, <1>6, <1>7, <1>8, Assemble

LEMMA WorkerStep == ASSUME LInv, Worker \/ WorkerDies PROVE LInv'
  <1>t. runner = "off" <=> held = 0
    BY InvParts DEF TypeOK
  <1>1. CASE StartJob
    BY <1>1, WorkerQueueStep DEF StartJob
  <1>2. CASE GradingFails
    <2>1. held # 0 /\ QTypeOK
      BY <1>2, <1>t, InvParts DEF TypeOK, GradingFails
    <2>2. PICK x \in Sessions : x = Subject /\ HasJob(x)
      BY <2>1, SubjectFacts
    <2>3. session' = [session EXCEPT ![x].status = "grading_failed"]
      BY <1>2, <2>2 DEF GradingFails
    <2>4. runner' = "finish" /\ UNCHANGED <<grades, Served, jobs, held>>
      BY <1>2 DEF GradingFails
    <2>5. "grading_failed" \in Statuses
      BY DEF Statuses
    <2> QED BY <2>1, <2>2, <2>3, <2>4, <2>5, VerdictStep
  <1>3. CASE WriteGrade
    BY <1>3, WriteGradeStep
  <1>4. CASE MarkGraded
    <2>1. held # 0 /\ QTypeOK /\ Subject \in grades
      BY <1>4, <1>t, InvParts DEF TypeOK, MarkGraded, MarkHasReport
    <2>2. PICK x \in Sessions : x = Subject /\ HasJob(x)
      BY <2>1, SubjectFacts
    <2>3. session' = [session EXCEPT ![x].status = "graded"]
      BY <1>4, <2>2 DEF MarkGraded
    <2>4. runner' = "finish" /\ UNCHANGED <<grades, Served, jobs, held>>
      BY <1>4 DEF MarkGraded
    <2>5. "graded" \in Statuses
      BY DEF Statuses
    <2> QED BY <2>1, <2>2, <2>3, <2>4, <2>5, VerdictStep
  <1>5. CASE FinishJob
    BY <1>5, WorkerQueueStep DEF FinishJob, Complete, Claim
  <1>6. CASE RunRaises
    BY <1>6, WorkerQueueStep DEF RunRaises, Fail, Claim
  <1>7. CASE WorkerDies
    BY <1>7, WorkerQueueStep DEF WorkerDies, WorkerCrash, Claim
  <1> QED BY <1>1, <1>2, <1>3, <1>4, <1>5, <1>6, <1>7 DEF Worker

LEMMA SweepStep == ASSUME LInv, Sweep PROVE LInv'
  <1> DEFINE ids == {s \in Sessions : Expired(s)}
             idle == {s \in ids : ~HasJob(s)}
  <1>t. /\ TypeOK /\ QTypeOK /\ now \in Nat /\ now # 0 /\ session \in [Sessions -> Row]
        /\ RequestsActivated /\ SubmittedIsQueued /\ MarkHasReport
        /\ runner = "off" <=> held = 0
    BY InvParts, TypeFacts DEF TypeOK, ActivatedInTime
  <1>i. /\ ids \in SUBSET Sessions /\ idle \in SUBSET Sessions
        /\ \A s \in Sessions : s \in idle <=> s \in ids /\ ~HasJob(s)
        /\ \A s \in ids : Status(s) = "active"
    BY DEF Expired
  <1>u. /\ now' = now /\ req' = req /\ told' = told /\ crashes' = crashes /\ stranded' = stranded
        /\ grades' = grades /\ runner' = runner
        /\ session' = [s \in Sessions |-> IF s \in ids THEN Submitted(session[s]) ELSE session[s]]
        /\ \E batch \in Orders(idle) : Enqueue(batch)
    BY DEF Sweep, Served
  <1> HIDE DEF ids, idle
  <1>1. /\ session' \in [Sessions -> Row]
        /\ \A s \in Sessions :
             /\ session'[s].status = IF s \in ids THEN "submitted" ELSE session[s].status
             /\ session'[s].startedAt = session[s].startedAt
             /\ session'[s].submittedAt = IF s \in ids THEN now ELSE session[s].submittedAt
             /\ session'[s].flag = session[s].flag
    BY <1>t, <1>i, <1>u, SubmitUpdate
  <1>2. /\ QTypeOK' /\ held' = held
        /\ held # 0 => jobs'[held].sess = jobs[held].sess
        /\ \A s \in Sessions : HasJob(s)' <=> HasJob(s) \/ s \in idle
    <2>1. PICK batch \in Orders(idle) : Enqueue(batch)
      BY <1>u
    <2>2. /\ batch \in Seq(Sessions)
          /\ \A k \in 1..Len(batch) : batch[k] \in idle
          /\ \A s \in idle : \E k \in 1..Len(batch) : batch[k] = s
      BY <1>i, OrdersFacts
    <2>3. /\ QTypeOK' /\ held' = held
          /\ held # 0 => jobs'[held].sess = jobs[held].sess
          /\ \A s \in Sessions :
               HasJob(s)' <=> HasJob(s) \/ \E k \in 1..Len(batch) : batch[k] = s
      BY <1>t, <2>1, <2>2, QueueGrows
    <2> QED BY <2>2, <2>3
  <1>3. TypeOK'
    BY <1>t, <1>u, <1>1, <1>2 DEF TypeOK
  <1>4. RequestsActivated'
    <2>1. RowsAdvance
      BY <1>t, <1>u, <1>1 DEF RowsAdvance, Status
    <2> QED BY <2>1, <1>t, <1>u, SameRequests
  <1>5. now' # 0
    BY <1>t, <1>u
  <1>6. ASSUME NEW s \in Sessions PROVE RowIsSound(s)'
    <2>1. RowIsSound(s)
      BY RowsAreSound
    <2>2. CASE s \in ids
      BY <2>1, <2>2, <1>t, <1>i, <1>u, <1>1, <1>2 DEF RowIsSound, Status
    <2>3. CASE s \notin ids
      BY <2>1, <2>3, <1>i, <1>u, <1>1, <1>2 DEF RowIsSound, Status
    <2> QED BY <2>2, <2>3
  <1>7. MarkHasReport'
    BY <1>t, <1>u, <1>2 DEF MarkHasReport, Subject
  <1>8. SubmittedIsQueued'
    BY <1>t, <1>i, <1>u, <1>1, <1>2 DEF SubmittedIsQueued, Status, At
  <1> QED BY <1>3, <1>4, <1>5, <1>6, <1>7, <1>8, Assemble

LEMMA ServerCrashStep == ASSUME LInv, ServerCrash PROVE LInv'
  <1>t. /\ TypeOK /\ QTypeOK /\ now \in Nat /\ crashes \in 0..MaxServerCrashes
        /\ ActivatedInTime /\ MarkHasReport /\ SubmittedIsQueued
        /\ \A r \in Requests : At(r, "enqueue") => req[r].sess \in Sessions
    BY InvParts, TypeFacts DEF TypeOK, At
  <1>u. /\ now' = now /\ session' = session /\ grades' = grades /\ told' = told
        /\ jobs' = jobs /\ held' = held /\ runner' = runner
        /\ crashes < MaxServerCrashes /\ crashes' = crashes + 1
        /\ stranded' = stranded \union {req[r].sess : r \in {q \in Requests : At(q, "enqueue")}}
        /\ req' = [r \in Requests |-> Idle]
    BY DEF ServerCrash
  <1>1. QTypeOK' /\ \A s \in Sessions : HasJob(s)' <=> HasJob(s)
    BY <1>t, <1>u DEF QTypeOK, HasJob
  <1>2. req' \in [Requests -> Request] /\ \A r \in Requests : req'[r].step = "idle"
    <2>1. Idle \in Request /\ Idle.step = "idle"
      BY DEF Request, Idle, Steps, NoTime
    <2> QED BY <2>1, <1>u
  <1>c. crashes' \in 0..MaxServerCrashes
    BY <1>t, <1>u, LifecycleAssumption
  <1>d. stranded' \subseteq Sessions
    BY <1>t, <1>u DEF TypeOK
  <1>3. TypeOK'
    BY <1>t, <1>u, <1>1, <1>2, <1>c, <1>d DEF TypeOK
  <1>4. RequestsActivated'
    BY <1>2 DEF RequestsActivated, RequestActivated
  <1>5. now' # 0
    BY <1>t, <1>u DEF ActivatedInTime
  <1>6. ASSUME NEW s \in Sessions PROVE RowIsSound(s)'
    <2>1. RowIsSound(s)
      BY RowsAreSound
    <2> QED BY <2>1, <1>u, <1>1 DEF RowIsSound, Status
  <1>7. MarkHasReport'
    BY <1>t, <1>u DEF MarkHasReport, Subject
  <1>8. SubmittedIsQueued'
    <2> SUFFICES ASSUME NEW s \in Sessions, Status(s) = "submitted", ~HasJob(s)
                 PROVE  s \in stranded'
      BY <1>u, <1>1 DEF SubmittedIsQueued, Status
    <2>1. s \in stranded \/ \E r \in Requests : At(r, "enqueue") /\ req[r].sess = s
      BY <1>t DEF SubmittedIsQueued
    <2> QED BY <2>1, <1>u
  <1> QED BY <1>3, <1>4, <1>5, <1>6, <1>7, <1>8, Assemble

LEMMA TickStep == ASSUME LInv, Tick PROVE LInv'
  <1>t. /\ TypeOK /\ QTypeOK /\ now \in Nat /\ RequestsActivated
        /\ MarkHasReport /\ SubmittedIsQueued
    BY InvParts, TypeFacts DEF TypeOK
  <1>u. /\ now' = now + 1 /\ session' = session /\ grades' = grades /\ told' = told
        /\ jobs' = jobs /\ held' = held /\ runner' = runner
        /\ crashes' = crashes /\ stranded' = stranded /\ req' = req
    BY DEF Tick
  <1>1. QTypeOK' /\ \A s \in Sessions : HasJob(s)' <=> HasJob(s)
    BY <1>t, <1>u DEF QTypeOK, HasJob
  <1>3. TypeOK'
    BY <1>t, <1>u, <1>1 DEF TypeOK
  <1>4. RequestsActivated'
    <2>1. RowsAdvance
      BY <1>t, <1>u DEF RowsAdvance, Status
    <2> QED BY <2>1, <1>t, <1>u, SameRequests
  <1>6. ASSUME NEW s \in Sessions PROVE RowIsSound(s)'
    <2>1. RowIsSound(s) /\ OpensAt[s] \in Nat
      BY RowsAreSound, LifecycleAssumption
    <2> QED BY <2>1, <1>t, <1>u, <1>1 DEF RowIsSound, Status
  <1>7. MarkHasReport'
    BY <1>t, <1>u DEF MarkHasReport, Subject
  <1>8. SubmittedIsQueued'
    BY <1>t, <1>u, <1>1 DEF SubmittedIsQueued, Status, At
  <1> QED BY <1>t, <1>u, <1>3, <1>4, <1>6, <1>7, <1>8, Assemble

LEMMA StutterStep == ASSUME LInv, UNCHANGED vars PROVE LInv'
  <1>u. /\ now' = now /\ session' = session /\ grades' = grades /\ told' = told
        /\ jobs' = jobs /\ held' = held /\ runner' = runner
        /\ crashes' = crashes /\ stranded' = stranded /\ req' = req
    BY DEF vars
  <1>i. TypeOK /\ RequestsActivated /\ MarkHasReport /\ SubmittedIsQueued
    BY InvParts
  <1>1. TypeOK' /\ \A s \in Sessions : HasJob(s)' <=> HasJob(s)
    BY <1>i, <1>u DEF TypeOK, QTypeOK, HasJob
  <1>2. ASSUME NEW s \in Sessions PROVE RowIsSound(s)' /\ now' # 0
    BY <1>u, <1>1, RowsAreSound DEF RowIsSound, Status
  <1>3. RequestsActivated' /\ MarkHasReport' /\ SubmittedIsQueued'
    BY <1>i, <1>u, <1>1 DEF RequestsActivated, RequestActivated, MarkHasReport,
       SubmittedIsQueued, Status, Subject, At
  <1>4. now' # 0
    BY <1>u, InvParts DEF ActivatedInTime
  <1> QED BY <1>1, <1>2, <1>3, <1>4, Assemble

----------------------------------------------------------------------------
(* The theorems *)

LEMMA LInvInit == Init => LInv
  <1> SUFFICES ASSUME Init PROVE LInv
    OBVIOUS
  <1>u. /\ now = 1 /\ session = [s \in Sessions |-> Absent] /\ grades = {}
        /\ req = [r \in Requests |-> Idle] /\ told = [s \in Sessions |-> {}]
        /\ QInit /\ runner = "off" /\ crashes = 0 /\ stranded = {}
    BY DEF Init
  <1>1. /\ Absent \in Row /\ Absent.status = "absent" /\ Absent.startedAt = 0
        /\ Absent.submittedAt = 0 /\ Absent.flag = NoFlag
    BY DEF Absent, Row, Statuses, NoTime
  <1>2. Idle \in Request /\ Idle.step = "idle"
    BY DEF Request, Idle, Steps, NoTime
  <1>3. QTypeOK /\ held = 0 /\ \A s \in Sessions : ~HasJob(s)
    BY <1>u, QInvInit DEF QInv, QInit, NoJob, HasJob
  <1>4. crashes \in 0..MaxServerCrashes
    BY <1>u, LifecycleAssumption
  <1>5. TypeOK
    BY <1>u, <1>1, <1>2, <1>3, <1>4 DEF TypeOK
  <1>6. RequestsActivated
    BY <1>u, <1>2 DEF RequestsActivated, RequestActivated
  <1>7. /\ ActivatedInTime /\ NothingBeforeActivation /\ GradingFollowsSubmission
        /\ GradedHasReport /\ PanelClockWaits
    BY <1>u, <1>1, <1>3 DEF ActivatedInTime, NothingBeforeActivation,
       GradingFollowsSubmission, GradedHasReport, PanelClockWaits, Status, NoTime
  <1>8. MarkHasReport /\ SubmittedIsQueued
    BY <1>u, <1>1 DEF MarkHasReport, SubmittedIsQueued, Status
  <1> QED BY <1>5, <1>6, <1>7, <1>8 DEF LInv

LEMMA ContinueStep ==
  ASSUME LInv, NEW r \in Requests, Continue(r) PROVE LInv'
  BY ValidateActivateStep, ValidateFailsStep, StartedWriteStep, StartedReplyStep,
     InvalidateWriteStep, SubmitWriteStep, SubmitEnqueueStep DEF Continue

LEMMA LInvStep == LInv /\ [Next]_vars => LInv'
  <1> SUFFICES ASSUME LInv, [Next]_vars PROVE LInv'
    OBVIOUS
  <1>1. CASE \E s \in Sessions : CreateSession(s)
    BY <1>1, CreateStep
  <1>2. CASE \E r \in Requests, s \in Sessions : Arrival(r, s)
    BY <1>2, ArrivalStep
  <1>3. CASE \E r \in Requests : Continue(r)
    BY <1>3, ContinueStep
  <1>4. CASE ServerCrash
    BY <1>4, ServerCrashStep
  <1>5. CASE Sweep
    BY <1>5, SweepStep
  <1>6. CASE Worker \/ WorkerDies
    BY <1>6, WorkerStep
  <1>7. CASE Tick
    BY <1>7, TickStep
  <1>8. CASE UNCHANGED vars
    BY <1>8, StutterStep
  <1> QED BY <1>1, <1>2, <1>3, <1>4, <1>5, <1>6, <1>7, <1>8 DEF Next

\* The inductive invariant holds in every reachable state.
THEOREM LifecycleInvariant == Spec => []LInv
  BY LInvInit, LInvStep, PTL DEF Spec

\* Type correctness of the sessions table, the requests and the worker.
THEOREM LifecycleTyped == Spec => []TypeOK
  <1>1. LInv => TypeOK BY DEF LInv
  <1> QED BY LifecycleInvariant, <1>1, PTL

\* Before validate-session activates an interview it has no clock, no flag, no
\* submission, no job and no report (sessions.py:489-593).
THEOREM ActivationComesFirst == Spec => []NothingBeforeActivation
  <1>1. LInv => NothingBeforeActivation BY DEF LInv
  <1> QED BY LifecycleInvariant, <1>1, PTL

\* Whatever the grader has touched was submitted, at a recorded time
\* (submit.py:18-44, worker.py:28-63).
THEOREM OnlySubmittedIsGraded == Spec => []GradingFollowsSubmission
  <1>1. LInv => GradingFollowsSubmission BY DEF LInv
  <1> QED BY LifecycleInvariant, <1>1, PTL

\* A session shown as graded has its report, wherever the worker is killed
\* (grader/runner.py:273-279).
THEOREM GradedIsReported == Spec => []GradedHasReport
  <1>1. LInv => GradedHasReport BY DEF LInv
  <1> QED BY LifecycleInvariant, <1>1, PTL

\* No submitted session is without a job unless the API server died between the
\* two statements of its submission (submit.py:28-34, worker.py:52-63).
THEOREM SubmittedReachesQueue == Spec => []SubmittedIsQueued
  <1>1. LInv => SubmittedIsQueued BY DEF LInv
  <1> QED BY LifecycleInvariant, <1>1, PTL

\* A panel's clock does not start before its scheduled time, although only
\* validate-session looks at that time (sessions.py:515-519).
THEOREM PanelClockRespectsSchedule == Spec => []PanelClockWaits
  <1>1. LInv => PanelClockWaits BY DEF LInv
  <1> QED BY LifecycleInvariant, <1>1, PTL

----------------------------------------------------------------------------
(* The queue is used only as JobQueue allows. *)

LEMMA OneJobIsBatch == ASSUME NEW x \in Sessions PROVE <<x>> \in Batches
  <1>1. Cardinality(Sessions) \in Nat /\ Cardinality(Sessions) # 0
    BY LifecycleAssumption, FS_CardinalityType, FS_EmptySet
  <1>2. 1 \in 1..Cardinality(Sessions) /\ <<x>> \in [1..1 -> Sessions]
    BY <1>1
  <1> QED BY <1>2 DEF Batches

\* The sweep's transaction is one batch, or it inserts nothing.
LEMMA SweepRespectsQueue == ASSUME QTypeOK, Sweep PROVE [QNext]_qvars
  <1> DEFINE idle == {s \in {t \in Sessions : Expired(t)} : ~HasJob(s)}
  <1>1. PICK batch \in Orders(idle) : Enqueue(batch)
    BY DEF Sweep
  <1>2. idle \in SUBSET Sessions
    OBVIOUS
  <1> HIDE DEF idle
  <1> DEFINE n == Cardinality(idle)
  <1>3. /\ batch \in Seq(Sessions) /\ Len(batch) = n /\ n \in 0..Cardinality(Sessions)
        /\ \A k \in 1..Len(batch) : batch[k] \in idle
    BY <1>2, OrdersFacts
  <1>c. Cardinality(Sessions) \in Nat
    BY LifecycleAssumption, FS_CardinalityType
  <1> HIDE DEF n
  <1>4. CASE n = 0
    <2>1. /\ jobs' \in Seq(Job) /\ Len(jobs') = Len(jobs) + Len(batch)
          /\ DOMAIN jobs' = 1..Len(jobs')
          /\ \A i \in DOMAIN jobs : jobs'[i] = jobs[i]
      BY <1>1, <1>3, EnqueueAppends
    <2>2. jobs \in Seq(Job) /\ Len(jobs) \in Nat /\ DOMAIN jobs = 1..Len(jobs)
      BY TableFacts
    <2>3. Len(jobs') = Len(jobs)
      BY <1>3, <1>4, <2>1, <2>2
    <2>4. jobs' = jobs
      BY <2>1, <2>2, <2>3, SeqEqual
    <2> QED BY <2>4, <1>1 DEF Enqueue, qvars
  <1>5. CASE n # 0
    <2>1. n \in 1..Cardinality(Sessions)
      BY <1>3, <1>5, <1>c
    <2>2. batch \in [1..n -> Sessions]
      BY <1>3
    <2>3. batch \in Batches
      BY <2>1, <2>2 DEF Batches
    <2> QED BY <2>3, <1>1 DEF QNext
  <1> QED BY <1>4, <1>5

LEMMA QueueStep == ASSUME LInv, [Next]_vars PROVE [QNext]_qvars
  <1>t. TypeOK /\ QTypeOK
    BY InvParts DEF TypeOK
  <1>1. ASSUME UNCHANGED Elsewhere PROVE UNCHANGED qvars
    BY <1>1 DEF Elsewhere, qvars
  <1>2. CASE \E s \in Sessions : CreateSession(s)
    BY <1>2, <1>1 DEF CreateSession
  <1>3. CASE \E r \in Requests, s \in Sessions : Arrival(r, s)
    BY <1>3, <1>1 DEF Arrival, ValidateRead, StartedRead, InvalidateRead, SubmitRead
  <1>4. ASSUME NEW r \in Requests, Continue(r) PROVE [QNext]_qvars
    <2>1. CASE SubmitEnqueue(r)
      <3>1. req[r].sess \in Sessions /\ Enqueue(<<req[r].sess>>)
        BY <2>1, <1>t, TypeFacts DEF SubmitEnqueue, At
      <3> QED BY <3>1, OneJobIsBatch DEF QNext
    <2>2. CASE ~SubmitEnqueue(r)
      BY <1>4, <2>2, <1>1 DEF Continue, ValidateActivate, ValidateFails, StartedWrite,
         StartedReply, InvalidateWrite, SubmitWrite
    <2> QED BY <2>1, <2>2
  <1>5. CASE ServerCrash
    BY <1>5 DEF ServerCrash, qvars
  <1>6. CASE Sweep
    BY <1>6, <1>t, SweepRespectsQueue
  <1>7. CASE Worker \/ WorkerDies
    BY <1>7 DEF Worker, StartJob, GradingFails, WriteGrade, MarkGraded, FinishJob,
       RunRaises, WorkerDies, QNext, qvars
  <1>8. CASE Tick
    BY <1>8 DEF Tick, qvars
  <1>9. CASE UNCHANGED vars
    BY <1>9 DEF vars, qvars
  <1> QED BY <1>2, <1>3, <1>4, <1>5, <1>6, <1>7, <1>8, <1>9 DEF Next

\* So what the queue promises holds of it here as well.
COROLLARY QueueInLifecycle == Spec => []QInv
  <1>1. Init => QInv
    BY QInvInit DEF Init
  <1>2. LInv /\ QInv /\ [Next]_vars => QInv'
    BY QueueStep, QInvStep
  <1> QED BY <1>1, <1>2, LifecycleInvariant, PTL DEF Spec

----------------------------------------------------------------------------
(* The interview's clock *)

Anchor == [s \in Sessions |-> session[s].startedAt]

\* A step that keeps every start time and tells nobody anything.
LEMMA ClockStands ==
  ASSUME \A s \in Sessions : session'[s].startedAt = session[s].startedAt
  PROVE  Anchor' = Anchor
  BY DEF Anchor

\* What each step of the server and of the worker does to the start times.
LEMMA StartsKept ==
  ASSUME LInv, Next, \A r \in Requests : ~StartedWrite(r)
  PROVE  \A s \in Sessions : session'[s].startedAt = session[s].startedAt
  <1>t. /\ TypeOK /\ QTypeOK /\ now \in Nat /\ session \in [Sessions -> Row]
        /\ runner = "off" <=> held = 0
    BY InvParts, TypeFacts DEF TypeOK
  <1>r. \A r \in Requests : req[r].step # "idle" => req[r].sess \in Sessions
    BY <1>t, TypeFacts
  <1>1. ASSUME NEW s \in Sessions, CreateSession(s)
        PROVE  \A x \in Sessions : session'[x].startedAt = session[x].startedAt
    BY <1>1, <1>t, CreateUpdate DEF CreateSession
  <1>2. ASSUME NEW r \in Requests, ValidateActivate(r)
        PROVE  \A x \in Sessions : session'[x].startedAt = session[x].startedAt
    <2>1. PICK x \in Sessions : x = req[r].sess
      BY <1>2, <1>r DEF ValidateActivate, At
    <2>2. session' = [session EXCEPT ![x].status = "active"] /\ "active" \in Statuses
      BY <1>2, <2>1 DEF ValidateActivate, Statuses
    <2> QED BY <2>2, <1>t, StatusUpdate
  <1>3. ASSUME NEW r \in Requests, InvalidateWrite(r)
        PROVE  \A x \in Sessions : session'[x].startedAt = session[x].startedAt
    <2>1. PICK x \in Sessions : x = req[r].sess
      BY <1>3, <1>r DEF InvalidateWrite, At
    <2>2. session' = [session EXCEPT ![x].flag = r]
      BY <1>3, <2>1 DEF InvalidateWrite
    <2> QED BY <2>2, <1>t, FlagUpdate
  <1>4. ASSUME NEW r \in Requests, SubmitWrite(r)
        PROVE  \A x \in Sessions : session'[x].startedAt = session[x].startedAt
    <2>1. PICK x \in Sessions : x = req[r].sess
      BY <1>4, <1>r DEF SubmitWrite, At
    <2>2. session' = [session EXCEPT ![x] = Submitted(session[x])]
      BY <1>4, <2>1 DEF SubmitWrite
    <2>3. Submitted(session[x]).startedAt = session[x].startedAt
      BY <1>t, SubmittedRow
    <2> QED BY <2>2, <2>3, <1>t
  <1>5. ASSUME Sweep
        PROVE  \A x \in Sessions : session'[x].startedAt = session[x].startedAt
    <2> DEFINE ids == {s \in Sessions : Expired(s)}
    <2>1. /\ ids \in SUBSET Sessions
          /\ session' = [s \in Sessions |-> IF s \in ids THEN Submitted(session[s]) ELSE session[s]]
      BY <1>5 DEF Sweep
    <2> HIDE DEF ids
    <2> QED BY <2>1, <1>t, SubmitUpdate
  <1>6. ASSUME NEW st \in Statuses, held # 0, session' = [session EXCEPT ![Subject].status = st]
        PROVE  \A x \in Sessions : session'[x].startedAt = session[x].startedAt
    <2>1. PICK x \in Sessions : x = Subject
      BY <1>6, <1>t, SubjectFacts
    <2>2. session' = [session EXCEPT ![x].status = st]
      BY <1>6, <2>1
    <2> QED BY <2>2, <1>t, StatusUpdate
  <1>7. CASE GradingFails
    BY <1>7, <1>6, <1>t DEF GradingFails, Statuses
  <1>8. CASE MarkGraded
    BY <1>8, <1>6, <1>t DEF MarkGraded, Statuses
  <1>9. ASSUME session' = session
        PROVE  \A x \in Sessions : session'[x].startedAt = session[x].startedAt
    BY <1>9
  <1>a. CASE \E r \in Requests, s \in Sessions : Arrival(r, s)
    BY <1>a, <1>9 DEF Arrival, ValidateRead, StartedRead, InvalidateRead, SubmitRead
  <1>b. CASE \E r \in Requests : Continue(r)
    BY <1>b, <1>2, <1>3, <1>4, <1>9 DEF Continue, ValidateFails, StartedReply, SubmitEnqueue
  <1>c. CASE (Worker /\ ~GradingFails /\ ~MarkGraded) \/ WorkerDies \/ ServerCrash \/ Tick
    BY <1>c, <1>9 DEF Worker, StartJob, WriteGrade, FinishJob, RunRaises, WorkerDies,
       ServerCrash, Tick
  <1> QED BY <1>1, <1>5, <1>7, <1>8, <1>a, <1>b, <1>c DEF Next, Worker

LEMMA ToldKept ==
  ASSUME Next, \A r \in Requests : ~StartedReply(r),
         \A r \in Requests, s \in Sessions : ~StartedRead(r, s)
  PROVE  told' = told
  BY DEF Next, CreateSession, Arrival, ValidateRead, InvalidateRead, SubmitRead,
     Continue, ValidateActivate, ValidateFails, StartedWrite, InvalidateWrite, SubmitWrite,
     SubmitEnqueue, ServerCrash, Sweep, Worker, StartJob, GradingFails, WriteGrade,
     MarkGraded, FinishJob, RunRaises, WorkerDies, Tick, Served

\* One call sets the clock; the others find it set.
LEMMA StartedWriteClock ==
  ASSUME LInv, NEW r \in Requests, StartedWrite(r)
  PROVE  UNCHANGED <<Anchor, told>> \/ \E s \in Sessions : Clock!Choose(s)
  <1>t. /\ now \in Nat /\ now # 0 /\ session \in [Sessions -> Row] /\ req[r].sess \in Sessions
    BY InvParts, TypeFacts DEF ActivatedInTime, StartedWrite, At
  <1>x. PICK x \in Sessions : x = req[r].sess
    BY <1>t
  <1>1. \A s \in Sessions :
          session'[s].startedAt = IF s = x /\ session[s].startedAt = 0
                                    THEN now ELSE session[s].startedAt
    <2>1. session' = [session EXCEPT ![x].startedAt = IF @ = NoTime THEN now ELSE @]
      BY <1>x DEF StartedWrite
    <2> QED BY <2>1, <1>t, StartUpdate
  <1>2. told' = told
    BY DEF StartedWrite
  <1>3. CASE session[x].startedAt # 0
    <2>1. \A s \in Sessions : session'[s].startedAt = session[s].startedAt
      BY <1>1, <1>3
    <2> QED BY <2>1, <1>2, ClockStands
  <1>4. CASE session[x].startedAt = 0
    <2>1. Anchor' = [s \in Sessions |-> IF s = x THEN now ELSE session[s].startedAt]
      BY <1>1, <1>4 DEF Anchor
    <2>2. Anchor' = [Anchor EXCEPT ![x] = now]
      BY <2>1 DEF Anchor
    <2>3. Anchor[x] = 0 /\ Anchor'[x] = now
      BY <2>1, <1>4 DEF Anchor
    <2>4. Clock!Choose(x)
      BY <1>t, <1>2, <2>2, <2>3 DEF Clock!Choose, Anchor
    <2> QED BY <2>4
  <1> QED BY <1>3, <1>4

\* Every answer is the recorded time.
LEMMA StartedAnswerClock ==
  ASSUME NEW s \in Sessions, session' = session, session[s].startedAt # 0,
         told' = [told EXCEPT ![s] = @ \union {session[s].startedAt}]
  PROVE  Clock!Answer(s)
  <1>1. Anchor' = Anchor /\ Anchor[s] = session[s].startedAt
    BY DEF Anchor
  <1> QED BY <1>1 DEF Clock!Answer, Anchor

LEMMA ClockStep == ASSUME LInv, [Next]_vars PROVE [Clock!Next]_<<Anchor, told>>
  <1>t. /\ RequestsActivated /\ TypeOK
    BY InvParts
  <1>1. CASE \E r \in Requests : StartedWrite(r)
    BY <1>1, StartedWriteClock DEF Clock!Next
  <1>2. CASE \E r \in Requests : StartedReply(r)
    <2>1. PICK r \in Requests : StartedReply(r)
      BY <1>2
    <2>2. PICK s \in Sessions : s = req[r].sess
      BY <2>1, <1>t, TypeFacts DEF StartedReply, At
    <2>3. session[s].startedAt # 0
      BY <2>1, <2>2, <1>t DEF RequestsActivated, RequestActivated, StartedReply, At
    <2>4. session' = session /\ told' = [told EXCEPT ![s] = @ \union {session[s].startedAt}]
      BY <2>1, <2>2, <2>3 DEF StartedReply, NoTime
    <2> QED BY <2>3, <2>4, StartedAnswerClock DEF Clock!Next
  <1>3. CASE \E r \in Requests, s \in Sessions : StartedRead(r, s)
    <2>1. PICK s \in Sessions : \E r \in Requests : StartedRead(r, s)
      BY <1>3
    <2>2. CASE told' = told
      BY <2>1, <2>2 DEF StartedRead, Anchor
    <2>3. CASE told' # told
      <3>1. /\ session' = session /\ session[s].startedAt # 0
            /\ told' = [told EXCEPT ![s] = @ \union {session[s].startedAt}]
        BY <2>1, <2>3 DEF StartedRead, NoTime
      <3> QED BY <3>1, StartedAnswerClock DEF Clock!Next
    <2> QED BY <2>2, <2>3
  <1>4. CASE Next /\ ~(\E r \in Requests : StartedWrite(r) \/ StartedReply(r))
                  /\ ~(\E r \in Requests, s \in Sessions : StartedRead(r, s))
    BY <1>4, StartsKept, ToldKept, ClockStands
  <1>5. CASE UNCHANGED vars
    BY <1>5 DEF vars, Anchor
  <1> QED BY <1>1, <1>2, <1>3, <1>4, <1>5

\* The server implements StartClock: however calls of session-started overlap,
\* the start time is set once and every caller is told that time
\* (sessions.py:635-649).
THEOREM ClockRefinement == Spec => ClockIsWriteOnce
  <1>1. Init => Clock!Init
    <2> SUFFICES ASSUME Init PROVE Clock!Init
      OBVIOUS
    <2>1. Absent.startedAt = 0
      BY DEF Absent, NoTime
    <2> QED BY <2>1 DEF Init, Clock!Init
  <1>2. LInv /\ [Next]_vars => [Clock!Next]_<<Anchor, told>>
    BY ClockStep
  <1> QED BY <1>1, <1>2, LifecycleInvariant, PTL
      DEF Spec, ClockIsWriteOnce, Clock!Spec, Anchor

\* What StartClock promises, carried over to the server: no two callers were
\* ever told different start times.
THEOREM CallersAgree == Spec => []Clock!Agreement
  <1> DEFINE Told == told \in [Sessions -> SUBSET Nat] /\ Anchor \in [Sessions -> Nat]
             Quiet == \A s \in Sessions : Anchor[s] = 0 => told[s] = {}
             Agree == \A s \in Sessions : told[s] \subseteq {Anchor[s]}
             CInv == Told /\ Quiet /\ Agree
  <1>a. Clock!Agreement <=> Agree
    BY DEF Clock!Agreement, Anchor
  <1>1. Init => CInv
    <2>1. Absent.startedAt = 0
      BY DEF Absent, NoTime
    <2> QED BY <2>1 DEF Init, Anchor
  <1>2. ASSUME CInv, [Clock!Next]_<<Anchor, told>> PROVE CInv'
    <2>1. ASSUME NEW x \in Sessions, Clock!Choose(x) PROVE CInv'
      <3>1. /\ Anchor[x] = 0 /\ told' = told /\ told[x] = {}
            /\ Anchor' = [Anchor EXCEPT ![x] = Anchor'[x]] /\ Anchor'[x] \in Nat
        BY <1>2, <2>1 DEF Clock!Choose, Anchor
      <3> HIDE DEF Anchor
      <3> QED BY <3>1, <1>2
    <2>2. ASSUME NEW x \in Sessions, Clock!Answer(x) PROVE CInv'
      <3>1. /\ Anchor[x] # 0 /\ Anchor' = Anchor
            /\ told' = [told EXCEPT ![x] = @ \union {Anchor[x]}]
        BY <2>2 DEF Clock!Answer, Anchor
      <3> QED BY <3>1, <1>2
    <2>3. CASE UNCHANGED <<Anchor, told>>
      BY <1>2, <2>3
    <2> QED BY <1>2, <2>1, <2>2, <2>3 DEF Clock!Next
  <1> QED BY <1>a, <1>1, <1>2, ClockStep, LifecycleInvariant, PTL DEF Spec
=============================================================================
