-------------------------- MODULE SessionLifecycle --------------------------
(***************************************************************************)
(* One row of the `sessions` table per interview, the HTTP handlers that   *)
(* move it (server/vibe/sessions.py, submit.py), the deadline sweep and    *)
(* the grading worker (worker.py, grader/runner.py), on top of the queue   *)
(* of JobQueue, whose variables `jobs` and `held` it shares.               *)
(*                                                                         *)
(* The database is in autocommit mode, so each statement is a step.  Every *)
(* handler starts from a copy of the row that auth.get_session (or the     *)
(* SELECT of validate_session) took, checks that copy, and writes later:   *)
(* `req` keeps where each request in flight is between the two.  What the  *)
(* copy said is implied by the step it is at.                              *)
(***************************************************************************)
EXTENDS JobQueue

CONSTANTS
  Requests,
  NoSession, NoFlag,
  MaxServerCrashes,  \* bound: restarts of the API server
  OpensAt,           \* scheduled_at of a panel session, 0 for the others
  Limit,             \* max_minutes, in ticks
  Grace,             \* UNSTARTED_GRACE_SECONDS, in ticks
  LastCall,          \* bound: requests and new sessions arrive before it
  MaxTime            \* bound: the clock stops there

ASSUME LifecycleAssumption ==
  /\ IsFiniteSet(Sessions)
  /\ NoSession \notin Sessions
  /\ NoFlag \notin Requests
  /\ MaxServerCrashes \in Nat
  /\ OpensAt \in [Sessions -> Nat]
  /\ Limit \in Nat /\ Grace \in Nat
  /\ LastCall \in Nat /\ MaxTime \in Nat

VARIABLES
  now,       \* time.time(), in ticks from 1 (a recorded 0 would read as unset)
  session,   \* the table's rows
  grades,    \* sessions with a row in the grades table
  req,       \* the requests in flight
  told,      \* the start times session-started answered, per session
  runner,    \* where runner.run is, inside the job the worker holds
  crashes,   \* restarts of the API server so far
  stranded   \* history: sessions whose submit died before its INSERT

vars == <<now, session, grades, req, told, jobs, held, runner, crashes, stranded>>

NoTime == 0
Statuses == {"absent", "pending", "active", "submitted", "graded", "grading_failed"}
Row == [status : Statuses, createdAt : Nat, startedAt : Nat, submittedAt : Nat,
        flag : Requests \union {NoFlag}]

\* provision: validate-session awaits GitHub; anchor, reread: session-started
\* before its UPDATE and its second SELECT; flag: invalidate before its UPDATE;
\* mark, enqueue: submit before its UPDATE and its INSERT.
Steps == {"idle", "provision", "anchor", "reread", "flag", "mark", "enqueue"}
Request == [step : Steps, sess : Sessions \union {NoSession}, at : Nat]
Idle == [step |-> "idle", sess |-> NoSession, at |-> NoTime]

Absent == [status |-> "absent", createdAt |-> NoTime, startedAt |-> NoTime,
           submittedAt |-> NoTime, flag |-> NoFlag]

Init ==
  /\ now = 1
  /\ session = [s \in Sessions |-> Absent]
  /\ grades = {}
  /\ req = [r \in Requests |-> Idle]
  /\ told = [s \in Sessions |-> {}]
  /\ QInit
  /\ runner = "off"
  /\ crashes = 0
  /\ stranded = {}

----------------------------------------------------------------------------
(* Helpers *)

\* What no handler touches, and what no worker step touches.
Elsewhere == <<now, grades, jobs, held, runner, crashes, stranded>>
Served == <<now, req, told, crashes, stranded>>

\* A new request reads the row of s and goes on to `step`.
Begin(r, s, step) ==
  req' = [req EXCEPT ![r] = [step |-> step, sess |-> s, at |-> NoTime]]
Finish(r) == req' = [req EXCEPT ![r] = Idle]
Arrives(r) == req[r] = Idle /\ now < LastCall
At(r, step) == req[r].step = step
Status(s) == session[s].status

\* What create_session makes of a row, and what submit and the sweep make of it.
Created(row) == [row EXCEPT !.status = "pending", !.createdAt = now]
Submitted(row) == [row EXCEPT !.status = "submitted", !.submittedAt = now]

----------------------------------------------------------------------------
(* The handlers *)

(* create_session: the row is INSERTed pending; the key is unique.          *)
CreateSession(s) ==
  /\ Status(s) = "absent"
  /\ now < LastCall
  /\ session' = [session EXCEPT ![s] = Created(@)]
  /\ UNCHANGED <<req, told, Elsewhere>>

\* Mutant: the early-start gate forgotten.
ValidateUngated(r, s) ==
  /\ Arrives(r)
  /\ Status(s) = "pending"
  /\ Begin(r, s, "provision")
  /\ UNCHANGED <<session, told, Elsewhere>>

(* validate_session up to the await: not before a panel's scheduled time.   *)
(* On an active row it changes nothing: it only mints a clone token.        *)
ValidateRead(r, s) ==
  /\ Arrives(r)
  /\ Status(s) = "pending"
  /\ OpensAt[s] <= now
  /\ Begin(r, s, "provision")
  /\ UNCHANGED <<session, told, Elsewhere>>

(* ... the branch exists: UPDATE ... SET status='active' WHERE id=?, then   *)
(* the token; when minting fails the answer is 502 and the row stays active.*)
ValidateActivate(r) ==
  /\ At(r, "provision")
  /\ session' = [session EXCEPT ![req[r].sess].status = "active"]
  /\ Finish(r)
  /\ UNCHANGED <<told, Elsewhere>>

(* ... _create_github_branch raised: 502, the row is still pending.         *)
ValidateFails(r) ==
  /\ At(r, "provision")
  /\ Finish(r)
  /\ UNCHANGED <<session, told, Elsewhere>>

(* session_started on a row whose clock runs answers with it; otherwise it  *)
(* goes on to set the clock.                                                *)
StartedRead(r, s) ==
  /\ Arrives(r)
  /\ Status(s) = "active"
  /\ \/ /\ session[s].startedAt # NoTime
        /\ told' = [told EXCEPT ![s] = @ \union {session[s].startedAt}]
        /\ UNCHANGED req
     \/ /\ session[s].startedAt = NoTime
        /\ Begin(r, s, "anchor")
        /\ UNCHANGED told
  /\ UNCHANGED <<session, Elsewhere>>

(* ... UPDATE ... SET started_at=? WHERE id=? AND started_at IS NULL        *)
StartedWrite(r) ==
  /\ At(r, "anchor")
  /\ req' = [req EXCEPT ![r] = [step |-> "reread", sess |-> req[r].sess, at |-> now]]
  /\ session' = [session EXCEPT ![req[r].sess].startedAt = IF @ = NoTime THEN now ELSE @]
  /\ UNCHANGED <<told, Elsewhere>>

\* Mutant: the caller's own time answered without the second SELECT.
StartedReplyOwn(r) ==
  /\ At(r, "reread")
  /\ told' = [told EXCEPT ![req[r].sess] = @ \union {req[r].at}]
  /\ Finish(r)
  /\ UNCHANGED <<session, Elsewhere>>

(* ... the second SELECT: the winner's time is the answer.                  *)
StartedReply(r) ==
  /\ At(r, "reread")
  /\ LET s == req[r].sess
         recorded == session[s].startedAt
     IN told' = [told EXCEPT ![s] = @ \union
                   {IF recorded # NoTime THEN recorded ELSE req[r].at}]
  /\ Finish(r)
  /\ UNCHANGED <<session, Elsewhere>>

(* invalidate_session: active rows without a flag go on to the UPDATE.      *)
InvalidateRead(r, s) ==
  /\ Arrives(r)
  /\ Status(s) = "active"
  /\ session[s].flag = NoFlag
  /\ Begin(r, s, "flag")
  /\ UNCHANGED <<session, told, Elsewhere>>

(* ... UPDATE ... SET invalidated_at=?, invalidation_reason=? WHERE id=?;   *)
(* the request stands for the time and the reason it carries.               *)
InvalidateWrite(r) ==
  /\ At(r, "flag")
  /\ session' = [session EXCEPT ![req[r].sess].flag = r]
  /\ Finish(r)
  /\ UNCHANGED <<told, Elsewhere>>

(* submit: only the copy's status is checked.                               *)
SubmitRead(r, s) ==
  /\ Arrives(r)
  /\ Status(s) = "active"
  /\ Begin(r, s, "mark")
  /\ UNCHANGED <<session, told, Elsewhere>>

(* ... UPDATE ... SET status='submitted', submitted_at=? WHERE id=?         *)
SubmitWrite(r) ==
  /\ At(r, "mark")
  /\ session' = [session EXCEPT ![req[r].sess] = Submitted(@)]
  /\ req' = [req EXCEPT ![r].step = "enqueue"]
  /\ UNCHANGED <<told, Elsewhere>>

(* ... enqueue(session_id), whatever jobs the session already has.          *)
SubmitEnqueue(r) ==
  /\ At(r, "enqueue")
  /\ Enqueue(<<req[r].sess>>)
  /\ Finish(r)
  /\ UNCHANGED <<now, session, grades, told, runner, crashes, stranded>>

(* The API server dies: every request in flight is lost where it stands.    *)
ServerCrash ==
  /\ crashes < MaxServerCrashes
  /\ \E r \in Requests : req[r] # Idle
  /\ crashes' = crashes + 1
  /\ stranded' = stranded \union {req[r].sess : r \in {q \in Requests : At(q, "enqueue")}}
  /\ req' = [r \in Requests |-> Idle]
  /\ UNCHANGED <<now, session, grades, told, jobs, held, runner>>

----------------------------------------------------------------------------
(* The worker process *)

\* Mutant: the sweep looks only at sessions whose clock was started.
ExpiredStarted(s) ==
  /\ Status(s) = "active"
  /\ session[s].startedAt # NoTime
  /\ session[s].startedAt + Limit < now

(* The WHERE clause of auto_submit_sweep.                                   *)
Expired(s) ==
  /\ Status(s) = "active"
  /\ \/ session[s].startedAt # NoTime /\ session[s].startedAt + Limit < now
     \/ session[s].startedAt = NoTime /\ session[s].createdAt + Grace < now

\* The rows of one SELECT, in an order SQLite chooses.
Orders(S) == {q \in [1..Cardinality(S) -> S] :
                \A i, j \in DOMAIN q : q[i] = q[j] => i = j}

\* Mutant: the sweep marks the session but never inserts a job.
SweepNoJob ==
  LET ids == {s \in Sessions : Expired(s)} IN
  /\ ids # {}
  /\ session' = [s \in Sessions |-> IF s \in ids THEN Submitted(session[s]) ELSE session[s]]
  /\ UNCHANGED <<grades, Served, runner, jobs, held>>

(* auto_submit_sweep: one transaction marks every expired session and adds  *)
(* a job for those that have none.                                          *)
Sweep ==
  LET ids == {s \in Sessions : Expired(s)} IN
  /\ ids # {}
  /\ session' = [s \in Sessions |-> IF s \in ids THEN Submitted(session[s]) ELSE session[s]]
  /\ \E batch \in Orders({s \in ids : ~HasJob(s)}) : Enqueue(batch)
  /\ UNCHANGED <<grades, Served, runner>>

Subject == jobs[held].sess

(* drain_grade_queue: a job is claimed and runner.run starts on a clone.    *)
StartJob ==
  /\ Claim
  /\ runner' = "grading"
  /\ UNCHANGED <<session, grades, Served>>

(* The clone or the report fails: UPDATE ... status='grading_failed', and   *)
(* run returns as if it had succeeded.                                      *)
GradingFails ==
  /\ runner = "grading"
  /\ session' = [session EXCEPT ![Subject].status = "grading_failed"]
  /\ runner' = "finish"
  /\ UNCHANGED <<grades, Served, jobs, held>>

\* Mutant: the status first, the report after it.
WriteGradeLate ==
  /\ runner = "grading"
  /\ session' = [session EXCEPT ![Subject].status = "graded"]
  /\ runner' = "mark"
  /\ UNCHANGED <<grades, Served, jobs, held>>

(* INSERT OR REPLACE INTO grades; a stage that failed left a fallback.      *)
WriteGrade ==
  /\ runner = "grading"
  /\ grades' = grades \union {Subject}
  /\ runner' = "mark"
  /\ UNCHANGED <<session, Served, jobs, held>>

(* UPDATE sessions SET status='graded' WHERE id=?                           *)
MarkGraded ==
  /\ runner = "mark"
  /\ session' = [session EXCEPT ![Subject].status = "graded"]
  /\ runner' = "finish"
  /\ UNCHANGED <<grades, Served, jobs, held>>

(* run returned: complete_job.                                              *)
FinishJob ==
  /\ runner = "finish"
  /\ Complete
  /\ runner' = "off"
  /\ UNCHANGED <<session, grades, Served>>

(* An exception leaves run, or complete_job: fail_job.                      *)
RunRaises ==
  /\ runner # "off"
  /\ Fail
  /\ runner' = "off"
  /\ UNCHANGED <<session, grades, Served>>

WorkerDies ==
  /\ WorkerCrash
  /\ runner' = "off"
  /\ UNCHANGED <<session, grades, Served>>

(* Time.  Past LastCall the bounded clock waits for requests in flight, so  *)
(* that every deadline a request can set still lies before MaxTime.         *)
Tick ==
  /\ now < MaxTime
  /\ now < LastCall \/ \A r \in Requests : req[r] = Idle
  /\ now' = now + 1
  /\ UNCHANGED <<session, grades, req, told, jobs, held, runner, crashes, stranded>>

----------------------------------------------------------------------------
Arrival(r, s) ==
  \/ ValidateRead(r, s) \/ StartedRead(r, s) \/ InvalidateRead(r, s) \/ SubmitRead(r, s)
Continue(r) ==
  \/ ValidateActivate(r) \/ ValidateFails(r) \/ StartedWrite(r) \/ StartedReply(r)
  \/ InvalidateWrite(r) \/ SubmitWrite(r) \/ SubmitEnqueue(r)
Worker == StartJob \/ GradingFails \/ WriteGrade \/ MarkGraded \/ FinishJob \/ RunRaises

Next ==
  \/ \E s \in Sessions : CreateSession(s)
  \/ \E r \in Requests, s \in Sessions : Arrival(r, s)
  \/ \E r \in Requests : Continue(r)
  \/ ServerCrash
  \/ Sweep
  \/ Worker
  \/ WorkerDies
  \/ Tick

Spec == Init /\ [][Next]_vars

(* A handler that started runs on, the scheduler keeps firing the sweep and *)
(* the drain loop, and time passes.  Nobody has to send a request.          *)
FairSpec ==
  /\ Spec
  /\ \A r \in Requests : WF_vars(Continue(r))
  /\ WF_vars(Sweep) /\ WF_vars(Worker) /\ WF_vars(Tick)

----------------------------------------------------------------------------
(* Properties *)

TypeOK ==
  /\ now \in Nat
  /\ session \in [Sessions -> Row]
  /\ grades \subseteq Sessions
  /\ req \in [Requests -> Request]
  /\ \A r \in Requests : req[r].step = "idle" \/ req[r].sess \in Sessions
  /\ told \in [Sessions -> SUBSET Nat]
  /\ QTypeOK
  /\ runner \in {"off", "grading", "mark", "finish"}
  /\ runner = "off" <=> held = 0
  /\ crashes \in 0..MaxServerCrashes
  /\ stranded \subseteq Sessions

\* Nothing happens to an interview before validate-session activated it: the
\* clock, the flag, submissions, jobs and grades all wait for it, whatever
\* requests are in flight.
NothingBeforeActivation ==
  \A s \in Sessions : Status(s) \in {"absent", "pending"} =>
    /\ session[s].startedAt = NoTime /\ session[s].flag = NoFlag
    /\ session[s].submittedAt = NoTime
    /\ ~HasJob(s) /\ s \notin grades

\* The grader works only on submitted interviews: a job, a report or a final
\* status implies that a submission was recorded and when.
GradingFollowsSubmission ==
  \A s \in Sessions :
    \/ HasJob(s) \/ s \in grades
    \/ Status(s) \in {"submitted", "graded", "grading_failed"}
    => session[s].submittedAt # NoTime

\* A session shown as graded has a report to show, although the two are
\* written by two statements and the worker may die between them.
GradedHasReport == \A s \in Sessions : Status(s) = "graded" => s \in grades

\* A submitted session has a job, or the request that will insert one is
\* running.  The one way to lose it is the API server's death between submit's
\* two statements: deaths anywhere else, overlapping submissions and the sweep
\* at any moment leave no session without a job.
SubmittedIsQueued ==
  \A s \in Sessions : Status(s) = "submitted" =>
    \/ HasJob(s)
    \/ \E r \in Requests : At(r, "enqueue") /\ req[r].sess = s
    \/ s \in stranded

\* A panel interview's clock never starts before its scheduled time.
PanelClockWaits ==
  \A s \in Sessions : session[s].startedAt # NoTime => OpensAt[s] <= session[s].startedAt

\* The start time is chosen once and every answer agrees (StartClock).
Clock == INSTANCE StartClock WITH anchor <- [s \in Sessions |-> session[s].startedAt]
ClockIsWriteOnce == Clock!Spec

\* An interview nobody finishes is not active forever: the sweep submits it,
\* also when its clock never started.
AbandonedIsReaped ==
  \A s \in Sessions : (Status(s) = "active") ~> (Status(s) # "active")

\* A submission is answered: with a grade, with grading_failed, or with a job
\* that used up its attempts.
Exhausted(s) == \E i \in DOMAIN jobs : jobs[i].sess = s /\ jobs[i].status = "failed"
SubmissionSettles ==
  \A s \in Sessions :
    (Status(s) = "submitted") ~> (Status(s) \in {"graded", "grading_failed"} \/ Exhausted(s))
=============================================================================
