# Verification of the vibe-coding interview platform

TLA+ models of the interview platform under `src/`, TLC runs on small instances, and
theorems checked by TLAPS. Paths below are relative to `src/`.

## The system

A recruiter's portal creates an interview *session*. A candidate opens VS Code with the
extension, enters the session key, gets a branch of a challenge repository on GitHub,
works on it with an AI chat, and submits or runs out of time. A worker grades the branch.

    portal ──create/list/invalidate──► API server (FastAPI) ──► SQLite ◄── worker
    VS Code extension ──validate, started, submit, logs, chat──► API ──► GitHub, LLM, S3
    VS Code extension ──clone, commit, push──► GitHub branch ◄──clone── worker (grader)

| Component | State it keeps | Operations | Interacts through |
|---|---|---|---|
| Sessions (`server/vibe/sessions.py`, `submit.py`) | a row per interview: status, clock, flag, submission time | create, validate, started, invalidate, submit, refresh, reads | the `sessions` and `jobs` tables; GitHub |
| Grading queue (`jobs.py`, `worker.py`) | the `jobs` table | enqueue, claim, complete, fail; the sweep every 120 s, the drain loop | the same tables |
| Grader (`grader/runner.py` and the dimensions) | the `grades` row, a temporary clone | run | clone of the branch, `app_logs`, chat exchanges, LLM |
| Branch provisioning (`sessions.py:830-966`) | one branch per session on GitHub | POST git/refs, forced PATCH | GitHub's REST API |
| Client log (`extension/src/logger.ts`, `server/vibe/app_logs.py`) | buffer, in-flight batch, `globalState`; `app_logs` | log, flush, restore, dispose; ingest, list | POST /api/v1/logs |
| Telemetry (`extension/src/telemetry.ts`, `grader/telemetry_integrity.py`) | `.jivahire/telemetry.jsonl`, the anchor in memory, in `globalState` and in `app_logs` | emit, capture, adopt, re-report; check | the log, the pushed branch |
| Session services (`extension.ts`, `submit.ts`, `timer.ts`, `api.ts`) | git lock, in-flight flags, saved session, timers | clone, auto-commit, submit, refresh token, expire | git, the API, `globalState` |
| AI edit review (`chat/apply.ts`) | hunks with a status per applied block | apply, accept, reject | the editor's documents |
| LLM proxy and budget (`llm_proxy.py`, `budget.py`) | `llm_spent_usd`, chat exchanges | stream a completion, record it | LLM provider |
| Video (`video.py`) | upload tokens, the stored key | init, complete, link | S3 |
| File editor (`repo_files.py`) | none of its own | read, save with one retry | GitHub's contents API |
| Grading dimensions and report (`grader/signals.py`, the rubrics, `report.py`, `engagement.py`) | none | events to signals, signals to rubrics, rubrics to total and band | the telemetry table, the clone, the grade row |
| Test runners (`cpp_runner.py`, `python_runner.py`, `typescript_runner.py`) | a temporary clone | install, run one tag | subprocesses |
| Chat view (`chat/view.ts`) | the conversation, what it waits for | send, stop, take back | the LLM proxy |
| Rate limit (`auth.py`) | recent attempts per address | check | validate-session |

`PROJECT.json` lists every component with its status, the ones left out included.

**What is hard.** The database is in autocommit mode: a handler reads a row, checks the
copy, perhaps awaits GitHub, and writes, and any other handler, the sweep or the grader
may run between two of its statements. The worker is restarted by docker-compose and keeps
nothing; a job it held stays `running`. A branch is created by two GitHub requests, either
of which may fail, time out and still be carried out. The extension host is killed or
reloaded at any time with records in memory, and what the grader concludes rests on two
channels, the log and the pushed branch, with no order between them. In that host one thread
runs everything, but the interval, the countdown, the dialogues and the answers of git and of the
server meet between any two awaits, on one checkout and one saved session. The places are
listed in `PROJECT.json` under `hazards`.

**What makes it correct.** A session that was submitted is graded or given up
explicitly; its clock is set once and every caller is told the same time; the queue is
fair and bounded; a candidate only ever gets a branch without the answer key and never
loses pushed work; what was changed reaches the branch, and a submission is not told to the
server before its work is there; no log record disappears while its host lives; an honest candidate's
telemetry passes and a removed file does not; a bill agrees with its rows; what a grade
says does not depend on how often grading was tried, and good conduct does not lower it;
what a reader is told by several statements is true.

## Modules

| Module | What it models |
|---|---|
| `JobQueue` | the `jobs` table: `Enqueue`, `Claim`, `Complete`, `Fail`, `WorkerCrash` |
| `StartClock` | what session-started promises, abstractly: the start time is chosen once, every answer is that time |
| `SessionLifecycle` | EXTENDS `JobQueue`; the handlers, the sweep and the grading run over it, statement by statement |
| `BranchProvisioning` | the inside of validate-session's await, one interview |
| `ClientLog` | the extension's logger and the server's ingestion |
| `TelemetryAnchor` | EXTENDS `ClientLog`; the anchor, the file, the branch and the grader's verdict |
| `Workspace` | the candidate's window: git lock, auto-commit, submissions, token refresh, saved session, activation |
| `ChatProxy` | the chat view, the proxy's stream and its bill |
| `InterviewVideo` | the upload link, the recording page in several tabs, the three statements of a completion |
| `FileEditor` | two recruiters at one file of a challenge |
| `RateLimit` | `check_rate_limit` |
| `EditReview` | Apply, hunks, decisions and the edits they owe |
| `Dashboard` | the paged list and the detail, read while sessions change |
| `HiddenTests` | the stage of a run that builds and runs the hidden tests, for each backend |
| `CandidateCommits` | the commits a session leaves, and how the grader and the code diff find the base |
| `SumOfSeq` | the sum of a sequence, for the bill and for the scores |
| `Scoring` | signals, rubrics, total and band as operators |
| `GradingRun` | EXTENDS `Scoring`; from the first event to the stored grade |
| `MCServices`, `MCGrading` | compose the parts that share no state: a behaviour is of one part |
| other `MC…` | constants for TLC |
| `SumOfSeqProofs`, `ScoringProofs` | lemmas about sums, and about the rubrics, which other proofs rest on |
| other `…Proofs` | theorems and their proofs |

### JobQueue

A row's id is its position in the sequence `jobs`. `Claim` is `claim_job`'s single UPDATE
of the oldest pending row, `Fail` puts the row back or gives it up depending on the number
of attempts the claim has already counted, `Enqueue(batch)` inserts the rows of one
transaction. `held` is the row the worker process has in hand; `WorkerCrash` forgets it
and leaves the row `running` for good, as the code does.

### SessionLifecycle

`session` is the table. A request is a record `req[r]` with the statement it is about to
execute; between two of them anything may happen. What a handler's stale copy said is
implied by where it stands: a request at `provision` saw `pending`, one at `mark` saw
`active`. `ValidateRead`/`ValidateActivate`/`ValidateFails` are validate_session around its
await, `StartedRead`/`StartedWrite`/`StartedReply` session_started with its conditional UPDATE and
second SELECT, `InvalidateRead`/`InvalidateWrite`, `SubmitRead`/`SubmitWrite`/`SubmitEnqueue`
likewise. Reads that end in an error answer change nothing and are not actions. `Sweep` is
one `immediate_transaction`, hence one step. `StartJob` to `FinishJob` are the drain
loop around `runner.run`: the grade row and the status are separate statements.
`RunRaises` is an exception out of `run`, `GradingFails` the branches in which `run`
records `grading_failed` and returns. `ServerCrash` loses the requests in flight,
`WorkerDies` the worker. `stranded` is history: the sessions whose submission died between its
UPDATE and its INSERT. Time is a counter from 1 in ticks; minutes and the grace period
are small numbers of ticks.

### BranchProvisioning

`Validate`, `Cut` (POST git/refs), `Repoint` (forced PATCH), `Activate` (UPDATE), `Mint`
(clone token). `BreakOff` ends a call at any point; the request it was at may join
`limbo` and be carried out by `Late`. A head is what its history starts from (`none`, the bare
`copy`, or `ready`) and the number of the candidate's commits on top. GitHub is
external: only what the code sees of it (422 for an existing ref, refusal of a push that
is no fast-forward) is modelled. The row's later statuses belong to `SessionLifecycle`, whose
step from `provision` stands for all of this.

### ClientLog and TelemetryAnchor

A record is its position in `logged`. `FlushWith` is `flush` up to the POST, `Deliver(n)` the
insertion of the first n rows of a batch, `PostFails` the catch branch whatever
happened on the server, `LateInsert` a request nobody waits for. `Dispose` and `Crash` are the
two ends of a host, `Activate` the constructor. The writes to `globalState` take effect in the
order they are made, except that a kill may lose the last one of the anchor.
`TelemetryAnchor` numbers the events: an event's number is its id and its time. `AutoCommit` copies the
file to the branch, `RemoveFile` is the candidate, `FreshClone` the re-clone of a missing
or unhealthy checkout, `Verdict` is `telemetry_integrity.check` as a state function, so it
holds for a grading at any moment. The watcher that flags a removal while the window is
open is not in it; the comparison must not depend on it.

### Workspace

One step is what runs between two awaits. The auto-commit awaits each of its git commands, so
it is `AutoTick` (guard, place in the line), `AutoLook` (status, commits not pushed, set-url),
`AutoCommit`, `AutoPush`, `AutoRestore`, with a failure of each; a submission runs git
synchronously, so `SyncGit` is one step with two partial failures. `line` is
the promise chain `_gitLock`: its head holds the lock, the others wait behind it in the order of their
calls. `guard` is `autoCommitInFlight`, which `Deadline` clears while the lock stays taken. A
tree is the number of changes made so far and whether challenge files are left; `tree`,
`local`, `remote` are the folder, HEAD and the branch. The guard against an emptied folder
asks git and says no when git fails, so `AutoCommit` chooses whether it was `answered`; `gone` is
history: a submission, or an auto-commit whose guard got no answer, has committed an emptied folder. `saved` is `globalState`, `config` what
the window holds of it. The submit path is `Submit`/`Confirm`/`Cancel` or
`TimerFires`, then git, `Post`, `Clear`, `Stop`; the answer of the server and the loss of that answer
are both outcomes of `Post`. `ActivateInClone`, `ActivateIdle`, `Anchor`, `AnchorDone`, `AnchorFails`
and `Enter` are the ways a window comes up; `Reload` ends one anywhere and keeps what is on
disk. Simplified: a submission begins in the clone's window only; the folder
is not deleted; git leaves no `index.lock` behind; the synchronous push of a submission ends.

### The services

`ChatProxy`: a request is `gen[r]` with its stage in the proxy: `CheckStatus`, `CheckBudget`,
`StreamChunk`, one of `UpstreamError`, `ClientGone`, `StreamEnds`, then `ReadPrior`, `Pay` and `Insert`, the
three statements of `_record_exchange`. `view` is the conversation; `StreamTimeout`, `TakeBack`, `Fail` and
`Reload` are how it stops waiting, which leaves requests of one session running side by side.
A text counts one token, a price is a natural number; each of the two probes that measure the server's part
of the prompt may fail and then counts 0 (the code keeps the answer of a successful one, the
model lets every count fail afresh); a request that dies with its answer given stays `lost` with
what it had paid, so that the ledger can be stated. `InterviewVideo`: each tab is a page with
its step; `Complete`, `Finalise` and `MarkUsed` are the statements of a completion, and `ServerDies` stops
between two. The code inserts a row of `video_upload_tokens` at every call of browser_link; the model
keeps one link. `FileEditor`: `ReadSha` and `Put` with one more try after a 409. `RateLimit`: the whole check holds a lock,
so it is one step; `recent` is the list of attempts that the check has not dropped, as the numbers of the
attempts, and `admitted` is every attempt ever let in. `EditReview`: a text gives each place its versions, so a document can be
composed and compared without a line difference; `edits` are the `applyEdit` calls whose await has not
returned, each with what the code does after it. VS Code carries such an edit out or refuses it, and the
code does not look which; `refused` is history: the files whose last edit was refused. An `applyEdit` that
throws is not modelled. Saving is the candidate's, and a save no Apply is left to read is left out. `Dashboard`: `Count` and `FetchPage` are the
two statements of an answer; `ReadSession` and `ReadGrade` those of the detail. The reader who asks
for page after page is external, and stops at a short page or at the total.

### The grading run

`HiddenTests` starts from every way the processes of a submission may end. `CandidateCommits` is the branch as
a sequence of commits with subject, author and tree. `Scoring` computes in integers (hundredths of a point)
with Python's rounding of halves, in the order the code rounds. A signal is a set of places of the
rows (the applies, the bursts, those that had a test after them), a count or a sum over them. `GradingRun` appends events as the
tracker does (`RecentApply` is the attribution of an edit to an apply), ingests them, and derives a grade
in `Grade`, where any one stage may raise; between ingestion and grade the worker may be killed
(`RunsAgain`). What `TestsRubric` counts and whether the code changed are chosen at `HandIn`, where
`HiddenTests` and `CandidateCommits` say what they can be. A stage that raised leaves its fallback to the
later ones: without signals no trap is attributed, hence the AI judgment has no score and no weight;
without a build there is no rubric that names the file the bonus reads (`NotesOnly`). The cuts of every band are the code's.

## Runs

| Run | Question | Instance |
|---|---|---|
| `lifecycle_safety` | what the three tables may say together | 1 panel session, 2 requests, both processes may die, 2 tries |
| `lifecycle_live` | abandoned interviews are reaped, submissions settle | 1 session, 1 request at a time, 3 tries, nothing dies |
| `branch_provisioning` | what the candidate clones and may push | 2 calls, 2 of which break off, 2 commits |
| `workspace` | what reaches the branch, with which URL, and that the line moves | automatic and 1 manual submission, 1 change, 2 in line, 1 hang or reload |
| `services` | bill, video, file, rate limit, review, log, list and detail, one part per behaviour | 2 chats; 2 tabs and 2 addresses; 2 editors; 2 admissions in a window of 3; 2 applies on 1 file; 4 records, cap 3; 2 sessions in pages of 1 |
| `grading` | queue, anchor, tests, commits, run, one part per behaviour | 3 rows and 3 tries; 2 events, 2 ends of the host; 2 tags and 3 backends; 4 commits; 2 events in a session, 2 runs |
| `stale_validate` | *violation:* a submitted session is always graded | 2 overlapping validate-session |
| `branch_handed_over` | *violation:* an unprovisioned branch is never handed over | 1 call, 1 break |
| `log_reload` | *violation:* a reload restores what dispose saved | 2 records, 1 reload |
| `telemetry_honest` | *violation:* only a removal is penalised | 2 events, nothing fails |
| `workspace_hung` | *violation:* a hung push times out | as `workspace` |
| `work_floored` | *violation:* real work is never floored | 4 commits |

What the runs of one part show:

- `lifecycle_safety`: `GradedHasReport`, a session shown as graded has its row in grades, whichever process
  dies between two statements. `SubmittedIsQueued`, a submitted session has a job, or a request about to insert one, unless
  its submission died exactly between its two statements, which is the one gap the code leaves. `PanelClockWaits`,
  `ClockIsWriteOnce`: the clock of a panel interview waits for it, and overlapping callers are told one time.
- `branch_provisioning`: `QuietCloneIsReady` and `ReadyCloneCanPush`. `PushedWorkIsKept`: no late or overlapping call
  destroys pushed work on a provisioned branch. It also says where work is lost: on a bare copy that was handed over (finding
  2), by the forced PATCH still owed, once. `RetriesGetThere`.
- `workspace`: `PushHasToken`, `SubmittedWorkIsPushed`, `EditsAreSaved`, `SubmissionEnds`. `WipesHaveACause`: the branch is
  emptied only after a submission committed an emptied folder, or an auto-commit did whose guard failed open.

What the two composed runs show, part by part:

- `LedgerAgrees`: what a session has spent is what its rows cost, but for rows still to be inserted or
  lost with the process, whatever order two exchanges pay in; and no answer the candidate saw to its
  end goes unbilled. `ComposerIsFreed`: no message locks the composer for ever.
- `UsedMeansStored`, `ReplacedOnlyByRacer`: a dead completion leaves the candidate the link; a stored video gives way only to
  a page that was let in before it was stored.
- `ConflictMeansTwoWrites`: the one retry absorbs one other writer. `WindowIsBounded`: no window holds more than the limit.
- `ReportsAddUp`, `ShownIsDecided`, `DecidedReviewEnds`: telemetry, document and end of a review agree with the
  decisions, also with those made while an edit is awaited; the document only unless VS Code refused
  the last edit, which the code does not notice.
- `RecordsAreKept`, `EveryRecordArrives`: the log's order and losses.
- `ReadersAreToldTheTruth`: a reader of all pages sees every session that was there at the start; a detail that says
  graded has the grade. Two exceptions are in it because the code has them: sessions of one second have
  no order between two statements, and who stops at the total of an answer may stop short when the list grew.
- `OldestFirst`, `EveryJobAnswered`: as in the queue's theorems. `HonestPushPasses`, `ReportsAgree`, `RemovalIsNoticed`,
  `AnchorIsRecorded`: what the verdict can conclude from two channels.
- `EachTagOnItsOwn`: a hung or empty tag of the TypeScript backend costs only itself. The other two backends do not
  promise this: there a hung tag counts as code that did not compile.
- `SetupIsToldApart`: the commits that set the branch up are never the candidate's changes or recoveries.
- `MoreTestsNeverHurt`: one more run of the tests, at any moment, never lowers the total.
- `FlooredStaysLow`: a gate that fired is felt in the total whatever stage raised. `RegradeAgrees`: a clean run gives
  the grade of the submission, whatever earlier runs left behind.

**Findings.** Six disagreements between the code and what its comments or documents
say, each with a run that shows it:

1. `sessions.py:553` activates without checking the status again: an overtaken call revives
   a submitted interview, which is then submitted anew and never graded.
2. `sessions.py:870` takes a half-created branch for a provisioned one.
3. `logger.ts:149-154`: a flush saves the emptied buffer before its POST, so the snapshot of `dispose` holds
   nothing of a batch already under way, and the flush `dispose` itself starts (`:230`) empties it.
4. `telemetry_integrity.py:65` calls a branch emptied whose first push never came.
5. `extension.ts:658` frees the guard of a hung auto-commit but not the git lock, so every later
   tick and the submission wait for ever.
6. `git_ops.py:34` takes the submission's own commit for the base, so `engagement.py` sees no change:
   work that no counter saw is floored, though `engagement.py:16-17` says it never is.

More are listed as hazards without a run: the later of two overlapping invalidations replaces
the first flag (`sessions.py:679`), a token refresh or an activation that is answered late brings
back the session a submission has cleared (`extension.ts:807`, `:432`), and a first report lost with
its host cannot be made good (`telemetry_integrity.py:120`). Their steps are in the modules. Read in the
code and not modelled: applying twice over a document that is not saved takes undecided
text for the original (`view.ts:63`, `apply.ts:612`); a late chunk after the timeout still overwrites the
view (`view.ts:560-562`); streams that break off are never billed (`llm_proxy.py:297-323`, in `ChatProxy` as
`UpstreamError` and `ClientGone`); a report says that integrity checks passed even when the check raised
(`report.py:317-336`); fixing a trap by hand can lower the total, since it changes the class of all of them.

**Bounds and why they are enough.** Two requests in flight are the smallest number that
interleave, and the handlers' checks compare a request with the row, not with a third
request. One session is enough for properties of one row; the queue is what sessions share, so
its part has two, and the sweep of several sessions in one transaction is
covered by the theorems, which hold for every set of sessions. Two tries reach both outcomes of
`fail_job`; the queue has the code's three. Times reach every deadline: `LastCall` ends arrivals
and `MaxTime` lies beyond the last deadline a request can set where liveness is asked. In the
log four records with a cap of three drop something while a batch is out, and two
events of the telemetry tell the first from a later one. In the workspace one change tells old work from new, two in
line are a holder and a waiter of either kind, and one mishap is a hung push or a reload at any step;
its safety part was also explored once with two changes and three in line (2.7 million states).
Two chats are what may overlap on one budget; two tabs are a video and its rival, with a link that lives
as long as the window, as in the code; a third editor would only repeat what the second does to a retry. Two applies of
two places give a review and the one it replaces, and two edits under way (`MaxEdits`) a decision, of one hunk
or of a whole file, while an edit is awaited. Two sessions in pages of one
are a page before and after a creation; the part was also explored with three (113,000 states). Four commits are
setup, work and a submission; a clone of depth three cuts the setup off. Two events
in a session are an apply with an edit or a test after it, inside or outside the windows (gaps of one and
four against a window of three), and the added test of `MoreTestsNeverHurt` is a third. The code's counts of three
(tests, rejections) are not all reached by two events; sessions of three were explored
once, without the other parts (979,000 states). Runs say `CHECK_DEADLOCK FALSE` only where the bounded clock, table or
supply of events lets the system rest.

**Fairness.** A handler that started runs on (the event loop serves every coroutine):
weak fairness of its next statement. APScheduler fires the sweep and the drain loop
for ever, and docker-compose restarts the worker (`restart: unless-stopped`): weak
fairness of `Sweep` and of the worker. Time passes. The logger's interval fires, and a POST ends
by its timeout: weak fairness. Strong fairness only of a delivery: a server that is asked
again and again stores a whole batch in the end; without it no log can promise arrival.
The chat's timer and the thread that records an exchange run on (weak fairness); `applyEdit` ends and
the code behind it runs (weak fairness), while nobody is forced to decide a hunk, record a video or read a page.
In the workspace Node runs the interval and the
callbacks of an open window (weak fairness), requests have a time limit, and git and GitHub answer for good now
and then (strong fairness of `AutoLook`, `AutoCommit`, `AutoPush`, which may fail any number of times
in between); nothing forces a hung push to end, a user to confirm or a window to open.
`RetriesGetThere` also assumes a candidate who has no workspace and asks again, which is what the
extension's dialogue does with them; breaks are finitely many. No fairness is assumed of
requests, submissions, pushes, crashes or failures. Where liveness is checked
(`lifecycle_live`) nothing dies: a job held by a killed worker stays `running`, and the
promise is then false, which `EveryJobAnswered` states by exempting that row.

## What is proved

For every set of sessions and requests, every schedule, limit and number of crashes, under
the named assumptions on the constants (natural numbers, finite sets of sessions).

**`SessionLifecycleProofs`.** *The queue.* `QInv` = types, bounded attempts, `OldestFirst`, `HeldIsRunning`, and
`HeldIsYoungestTried`: no row younger than the claimed one has been tried. `OldestFirst` alone is
not inductive, since `Fail` makes a tried row pending again; that is harmless only because
the claimed row is the youngest tried one. `SettledIsFinal` follows from it step by step.

*The life of an interview.* The invariant has the checked ones as conjuncts and three more.
`RequestsActivated`: a request past its first statement, except a validation, is about an
interview that was activated, and a validation about one whose scheduled time has come,
so `NothingBeforeActivation` survives the late writes of handlers. `ActivatedInTime`: an
activated panel interview is past its scheduled time, which is why `PanelClockWaits` holds although session-started never looks at the
schedule. `MarkHasReport`: between the INSERT of the grade and the UPDATE of the status the
report exists, which is what makes `GradedHasReport` survive retries and deaths. On top of it the
life cycle implements `StartClock` (`ClockRefinement`), and
`CallersAgree` follows from the abstract clock. The life cycle is built from `JobQueue`'s own actions, so the
queue's theorems hold of it (a corollary).

**`BranchProofs`.** *Provisioning.* `PushedWorkIsKept` (`PushedWorkStays`) says a forced PATCH without an expected head
destroys no work on a provisioned branch, and on a bare copy only after a call broke off or overlapped
another (`CopyWorkIsDisturbed`). The reason is `OnePatch`: over all calls and the requests in limbo, at
most one PATCH is ever owed, and only while the branch is still the bare copy, because
only the call whose POST created the ref goes on to the PATCH. `BranchStays`: activated
or tokenised implies that the branch exists. `QuietBranch` describes the calls while none broke off
or overlapped, and gives `QuietCloneIsReady`, the precise condition under which finding 2
cannot happen.

*The workspace.* `WInv` has the checked ones as conjuncts and two more.
`TokenWhileWorking`: while the holder of the lock is an auto-commit between its set-url and its
push, origin's URL carries the token; `PushHasToken` alone says nothing of the step before.
`BranchLags`: the branch is never ahead of HEAD, nor HEAD of the folder, which is why nothing that is
pushed later takes back what a submission pushed. `WipesHaveACause` needs only the types. Both rest on `LineOK`, the part of the
type invariant that says what the promise chain is worth: only its head is past its first
step, and the waiting submissions stand in it once each. Appending to, replacing the head of and
leaving the line are lemmas of their own.

**`ServicesProofs`.** Four services, each with its own invariant.
*Rate limit.* The code counts only the attempts it has not dropped; `DroppedAreOld` says that a dropped one is a
whole window old, so those counted are all that can share a window with the next.
*File editor.* `SaveLags` bounds from below how far the file has moved, by where a save is and how often it tried:
a second refusal needs a second write after the second reading.
*Video.* `KeysFrozen`: once a video is stored no upload key is minted, so whatever is still on its way
has a key from before; `StoredIsThere` ties the pages that saw their upload stored to the row.
*Chat.* The ledger is two sums, over the rows and over the requests. A step of one request changes one place of the
second (`OneMoves`), `Insert` moves an amount from there to the end of the first, a death leaves every place
as it was (`AllMove`). `CandidatePaysOwnWords` needs in addition that the count read by `ReadPrior` travels unchanged to the row; it exempts a
row whose count rests on a probe that failed, for which the code charges the server's words too.

**`SumOfSeqProofs`.** What `FoldLeft(+, 0, s)` is after an `Append`, an `EXCEPT` or an insertion, and how two such sums compare
when their parts do, for sequences of any length: proved from the definition of `FoldLeft` by least counterexamples over the
prefixes, which needs no induction theorem.

**`ScoringProofs`.** Every rubric is `NA` or 0 to 1000 (`BandTypes`, `AverageMark`, `ChallengeType`). A weighted average is
no more than its largest part (`AverageBounded`), and raising parts that keep their weight raises it (`AverageMonotone`);
rounding keeps both (`RoundDivMonotone`). `TotalCarried` is the arithmetic of the engagement gate: tests and traps weigh at
most 29 of 66, or 36 of 86 without the assistant, so full marks in both and 5 in the rest stay below 50. The other half is about one more run of the tests: `OneMore` relates the rows to
the rows with a test inserted at a place, `Moved` is where every other place goes, and set by set the signals are carried along. Whatever
is covered by a test stays covered and the denominators do not change (`MovedCovered`), so `MoreTested` holds of the signals, and
`VerificationMonotone`, `DeveloperMonotone` and `JudgmentSame` of the rubrics.

**`GradingProofs`.** `EachTagOnItsOwn` follows from the results and the tags still to run being all tags, and each result being the
tag's own.
`RegradeAgrees` from: a run that had no fault ingested the file as it is.
`GradingTyped` says that every event in the file and in the table is one the rubrics can read, so that the lemmas of `ScoringProofs` hold
of every grade. `FlooredStaysLow` (`FloorsAreFelt`): the floored rubrics have at most 5 of 100, and four of the
rubrics outside tests and traps always have a score, whichever one stage failed (the AI judgment is none of them: it
loses its score with the signals), so what is dropped for want of one cannot carry the total over the gate. `MoreTestsNeverHurt` (`TestingNeverHurts`): the file with one more run of the tests is a `OneMore` of
the file, the counters and the trap's class are the same, and each rubric is raised, before and after the gates. Both hold for
sessions of any length, any hidden tests, severities, scans and answers. `SetupIsToldApart`, for any history and
any depth of the clone, from `SetupFirst` (the setup stays the first two commits, and no later one is the bot's) and
`Untouched` (who did not touch the tree commits the one that was handed over); what the newest commit of a kind
within the clone's depth is, is a lemma.

**`TelemetryProofs`.** `LogInv` says where every record of the first host is: received, dropped by the cap, in the batch under
way or in the buffer (`NoneMissing`), batch and buffer in the order of the numbers (`InOrder`) and after whatever was dropped
(`DroppedFirst`). It rests on lemmas about what concatenating and cutting increasing sequences gives. `AnchorInv` has the log's invariant as a conjunct and adds `FirstsInOrder` (the branch never begins with a younger event than the
workspace), `OneFirst` (an undisturbed interview has one first event wherever it is kept) and `Superseded` (once event 1 is
reported after another event was, no file begins with that other one any more), which is what
`RemovalIsNoticed` needs and is not inductive without.

**`FrontEndProofs`.** The review: `DecisionsShown` relates every place of the document to the edits still queued, in a file whose last edit was not refused,
and `ToldOnce` the count of reports to the edits still owing one; both must hold in the middle of any
number of edits, since the decision is recorded before its edit is applied. The list: `InReach` says that a session due and
not seen has at least as many newer ones before it as were asked for so far, so no page that is still to come begins
after it; it holds because a new row is not older (`Rising`), hence can only push the others back.
`TotalHolds` ties the total of an answer to the table as long as that did not grow.

Some invariants on the way to these (types, `AttemptsBounded`, `HeldIsRunning`, `ActiveHasBranch`, `CallersAgree`,
`ServerPromptIsNotCharged`) are in no run: they hold for all constants by the theorems.
The assumptions are those of the modules; three of them carry weight. `Report \subseteq Body` in `TelemetryAnchor` only
says that a report is a log record. `MaxCommits \in Nat \ 0..1` in `CandidateCommits` leaves room for the
two commits of the setup. `GradingAssumption` gives inputs the ranges the code clamps them to: a part of a scan is 0 to 1000, an answer of a
language model 100 to 1000 or none; the hidden tests are finitely many.

**Model-checked only.** Liveness (`EveryJobAnswered`, `AbandonedIsReaped`, `SubmissionSettles`,
`RetriesGetThere`, `EveryRecordArrives`, `AnchorIsRecorded`, `ComposerIsFreed`, `DecidedReviewEnds`,
`EditsAreSaved`, `SubmissionEnds`), which is out of the prover's reach. Every invariant and every action property of the passing
runs has its theorem. The bounded type of the list (`DashboardTypeOK`) names the bounds of the runs and is
documentation; the list's real types are in `DashboardTypes` of the proof.

## Not modelled

Text, layout and rendering: e-mail, the portal's pages and documentation (`author_docs.py`, `app.js`), the checklist
and the webviews, the catalogue and the sentences of a report, the body of a code diff. The line difference of
`apply.ts` is data (a set of places). What a scan of the code finds and what a language model answers are inputs of
the run, so the prompts of `llm_eval.py`, the classification of prompts and `repo_tokens.py` are not there. Start-up,
settings, request schemas, the backfill of token counts and the retention of `app_logs` are plumbing.
Reads that change nothing (preflight, the challenge list, the hidden tests shown to recruiters) and requests that
are refused are no steps. Of the session services, the dependency dialogue, the meeting
link, a deleted clone folder and commands given in another folder are left out; of the telemetry,
the watcher that flags a removal, and events other than those `Scoring` reads. The grading run does not
start from the anchor's verdict or from the diff of the commits in the same behaviour: each is chosen freely at the
submission, which allows everything the other modules can produce.

## Plan

Done: the queue, the life cycle with the abstract clock, branch creation, the log, the anchor, the
workspace, the services, the list and detail, and the grading run; and a theorem for every invariant and action
property of the runs. What could follow:

1. `Workspace`: an abstract FIFO lock that the line implements.
2. `EditReview`, `Dashboard`: an abstract document and an abstract list.
