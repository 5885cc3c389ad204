----------------------------- MODULE GradingRun -----------------------------
(***************************************************************************)
(* A session from its first event to its grade (server/vibe/grader/        *)
(* runner.py): what the candidate does is written to telemetry.jsonl, a    *)
(* run ingests the file into the telemetry table and the session's         *)
(* counters (grader/telemetry_ingest.py, telemetry_ingest.py), derives the *)
(* rubrics, applies the two gates, and stores the grade.  Every stage of   *)
(* the run may raise, and then its fallback counts; the worker may be      *)
(* killed between the ingestion and the grade; and an interview may be     *)
(* graded again.                                                           *)
(***************************************************************************)
EXTENDS Scoring

CONSTANTS
  EventKinds,   \* which events happen
  EventChars,   \* characters of an edit
  Gaps,         \* time from one event to the next
  SubmitGaps,   \* time from the last event to the submission
  HiddenTags,   \* tags of the hidden tests; each is the tag of one trap
  TrapSeverity, \* severity of each trap
  Scans,        \* what the scan may find in the code, by track
  LlmAnswers,   \* what two calls to a language model give: each a score, NA or Garbled
  MaxRows,      \* bound: events of a session
  MaxRuns       \* bound: grading runs

ASSUME GradingAssumption ==
  /\ EventKinds \subseteq {"open", "typed", "pasted", "applied", "rejected", "test", "debug"}
  /\ {EventChars, MaxRows, MaxRuns} \union Gaps \union SubmitGaps \subseteq Nat
  /\ IsFiniteSet(HiddenTags) /\ TrapSeverity \in [HiddenTags -> Nat]
  /\ Scans \in [{"vibe", "non_ai"} -> SUBSET
       [parts : Seq(0..1000), bonus : [notes : BOOLEAN, feature : BOOLEAN, threadSafe : BOOLEAN]]]
  /\ LlmAnswers \subseteq [1..2 -> 100..1000 \union {NA, Garbled}]

VARIABLES
  track,    \* "vibe" with the assistant, "non_ai" without
  jsonl,    \* telemetry.jsonl on the branch
  emptied,  \* telemetry_integrity will say tampered
  leaves,   \* what else the submission leaves; its time
  db,       \* the session's rows in telemetry, and its counters
  run,      \* where the run is, how many there were, whether this one had no fault
  grade     \* the row of grades

gradingVars == <<track, jsonl, emptied, leaves, db, run, grade>>

NoLeaves == [fixed |-> {}, chats |-> 0, specificChats |-> 0, changed |-> FALSE, submitted |-> NA]
NoGrade == [total |-> NA]
EmptyDb == [rows |-> << >>, typed |-> 0, pasted |-> 0, applied |-> 0]

GradingInit ==
  /\ track \in {"vibe", "non_ai"}
  /\ jsonl = << >> /\ emptied = FALSE
  /\ leaves = NoLeaves
  /\ db = EmptyDb
  /\ run = [stage |-> "working", count |-> 0, clean |-> TRUE]
  /\ grade = NoGrade

LastTime(rows) == IF rows = << >> THEN 0 ELSE Last(rows).ts
Kinds == IF track = "vibe" THEN EventKinds ELSE EventKinds \ {"applied", "rejected"}

\* _recentApplyFor: the apply an edit at time t comes after, within the window.
RecentApply(t) ==
  LET recent == {i \in Places(jsonl, {"applied"}) : t <= jsonl[i].ts + PostApplyWindow}
  IN  IF recent = {} THEN 0 ELSE jsonl[Max(recent)].block

(* The tracker appends an event.                                             *)
Happens(kind, gap) ==
  /\ run.stage = "working" /\ ~emptied
  /\ Len(jsonl) < MaxRows
  /\ LET t == LastTime(jsonl) + gap
         event == [ts |-> t, kind |-> kind, file |-> "code",
                   chars |-> IF kind \in HandEdits \union {"applied"} THEN EventChars ELSE 0,
                   block |-> IF kind = "applied" THEN Len(jsonl) + 1 ELSE 0,
                   of |-> IF kind \in HandEdits THEN RecentApply(t) ELSE 0]
     IN  jsonl' = Append(jsonl, event)
  /\ UNCHANGED <<track, emptied, leaves, db, run, grade>>

(* The file is emptied on the branch, after its first event was reported.    *)
EmptyFile ==
  /\ run.stage = "working" /\ jsonl # << >>
  /\ jsonl' = << >> /\ emptied' = TRUE
  /\ UNCHANGED <<track, leaves, db, run, grade>>

(* The submission: which tags its code passes, how many prompts there were,  *)
(* and whether the diff of engagement.py finds a change (CandidateCommits).  *)
HandIn ==
  /\ run.stage = "working"
  /\ \E fixed \in SUBSET HiddenTags, chats \in 0..(IF track = "vibe" THEN 1 ELSE 0),
       changed \in BOOLEAN, gap \in SubmitGaps :
       leaves' = [fixed |-> fixed, chats |-> chats, specificChats |-> chats, changed |-> changed,
                  submitted |-> LastTime(jsonl) + gap]
  /\ run' = [run EXCEPT !.stage = "queued"]
  /\ UNCHANGED <<track, jsonl, emptied, db, grade>>

----------------------------------------------------------------------------
(* The run *)

(* ingest and apply_events, one transaction: wipe, reset, insert, count.     *)
Ingested(rows) ==
  [rows |-> rows,
   typed |-> Chars(rows, "typed"), pasted |-> Chars(rows, "pasted"), applied |-> Chars(rows, "applied")]

\* Mutant: the rows of an earlier ingestion stay.
IngestOver ==
  /\ run.stage = "queued" /\ run.count < MaxRuns
  /\ \E raises \in BOOLEAN :
       /\ db' = IF raises THEN db ELSE [Ingested(jsonl) EXCEPT !.rows = db.rows \o @]
       /\ run' = [stage |-> "ingested", count |-> run.count + 1, clean |-> ~raises]
  /\ UNCHANGED <<track, jsonl, emptied, leaves, grade>>
(* Stage 2; when it raises, the run goes on with what the tables hold.       *)
Ingest ==
  /\ run.stage = "queued" /\ run.count < MaxRuns
  /\ \E raises \in BOOLEAN :
       /\ db' = IF raises THEN db ELSE Ingested(jsonl)
       /\ run' = [stage |-> "ingested", count |-> run.count + 1, clean |-> ~raises]
  /\ UNCHANGED <<track, jsonl, emptied, leaves, grade>>

(* The worker is killed, and another run begins; or a graded interview is    *)
(* graded again, because its job failed after the grade or by hand.          *)
RunsAgain ==
  /\ run.stage \in {"ingested", "graded"} /\ run.count < MaxRuns
  /\ run' = [run EXCEPT !.stage = "queued"]
  /\ UNCHANGED <<track, jsonl, emptied, leaves, db, grade>>

Stages == {"build", "traps", "attribution", "signals", "llm_eval", "verification_discipline",
           "ai_judgment", "developer_signal", "challenge_specific", "bonuses",
           "engagement", "telemetry_integrity", "report"}

(* evaluate_traps, where a trap is the tag that detects it.                 *)
Severities(tags) ==
  LET trap == SetToSeq(HiddenTags)
  IN  SumOf([i \in DOMAIN trap |-> IF trap[i] \in tags THEN TrapSeverity[trap[i]] ELSE 0])

\* What the rubrics see: the session's row and, of its code, scan and answer.
Seen(data, scan, answer) ==
  [typed |-> data.typed, applied |-> data.applied, chats |-> leaves.chats,
   specificChats |-> leaves.specificChats, submitted |-> leaves.submitted,
   recoveries |-> NA, scan |-> scan, answer |-> answer]

(* Without a rubric.json, of which a failed build stage leaves nothing, the  *)
(* bonus does not know which file to read.                                   *)
NotesOnly(b) == [notes |-> b.notes, feature |-> FALSE, threadSafe |-> FALSE]

(* Stages 3 to 6.5, with the fallback of each stage in `faults`: default     *)
(* signals attribute no trap.                                                *)
Scored(data, seen, faults) ==
  LET or(stage, score) == IF stage \in faults THEN Fallback ELSE score
      passed == IF "build" \in faults THEN {} ELSE leaves.fixed
      detected == IF "traps" \in faults THEN {} ELSE passed
      judged == IF faults \intersect {"attribution", "signals"} # {} THEN {} ELSE detected
      sig == IF "signals" \in faults THEN DefaultSignals ELSE Signals(data.rows, seen)
      arch == or("llm_eval", LlmScore(seen.answer))
      bonus == IF "build" \in faults THEN NotesOnly(seen.scan.bonus) ELSE seen.scan.bonus
  IN  [tests |-> TestsRubric(Cardinality(passed), Cardinality(HiddenTags)),
       traps |-> IF "traps" \in faults THEN 0
                 ELSE TrapsRubric(Severities(detected), Severities(HiddenTags)),
       code_quality |-> or("llm_eval", LlmScore(seen.answer)),
       architectural_reasoning |->
         IF "bonuses" \in faults THEN arch ELSE Boosted(arch, bonus),
       challenge_specific |-> or("challenge_specific", ChallengeScore(seen.scan.parts)),
       llm_communication |-> or("llm_eval", Communication(track, seen.chats, seen.answer)),
       verification_discipline |-> or("verification_discipline", Verification(track, sig)),
       ai_judgment |->
         IF track # "vibe" THEN NA
         ELSE or("ai_judgment", AiJudgment(sig, Cardinality(judged), TrapClass(data.rows, seen))),
       developer_signal |-> or("developer_signal", DeveloperSignal(track, sig))]

(* engagement.assess, from the counters of the session's row.                *)
TakesPart(data) ==
  data.typed + data.pasted + data.applied > MinEngagedChars \/ leaves.chats > 0 \/ leaves.changed

(* Stages 7 and 8: the gates, the total, the band.                           *)
GradeOf(data, seen, faults) ==
  LET noShow == "engagement" \notin faults /\ ~TakesPart(data)
      tampered == "telemetry_integrity" \notin faults /\ emptied
      scored == Scored(data, seen, faults)
      attended == IF noShow THEN FloorDims(scored, NonObjective) ELSE scored
      dims == IF tampered THEN FloorDims(attended, Dimensions) ELSE attended
      total == Total(track, dims)
  IN  [total |-> total, band |-> BandOf(total), noShow |-> noShow, tampered |-> tampered]

(* At most one stage raises in a run; without a report there is no grade.    *)
Grade ==
  /\ run.stage = "ingested"
  /\ \E faults \in {{}} \union {{stage} : stage \in Stages}, scan \in Scans[track], answer \in LlmAnswers :
       IF "report" \in faults
       THEN run' = [run EXCEPT !.stage = "failed"] /\ UNCHANGED grade
       ELSE /\ grade' = GradeOf(db, Seen(db, scan, answer), faults)
            /\ run' = [run EXCEPT !.stage = "graded", !.clean = @ /\ faults = {}]
  /\ UNCHANGED <<track, jsonl, emptied, leaves, db>>

GradingNext ==
  \/ \E kind \in Kinds, gap \in Gaps : Happens(kind, gap)
  \/ EmptyFile \/ HandIn \/ Ingest \/ RunsAgain \/ Grade

GradingSpec == GradingInit /\ [][GradingNext]_gradingVars

----------------------------------------------------------------------------
(* Properties *)

GradingTypeOK ==
  /\ run.stage \in {"working", "queued", "ingested", "graded", "failed"} /\ run.count \in 0..MaxRuns
  /\ grade # NoGrade => grade.total \in 0..100
  /\ Len(db.rows) <= MaxRows

\* The grade a run without a fault gives the submission.
TotalOf(rows, scan, answer) ==
  LET data == Ingested(rows) IN GradeOf(data, Seen(data, scan, answer), {}).total

\* The events with one more run of the tests at time t.
WithTestAt(t) ==
  LET before == {i \in DOMAIN jsonl : jsonl[i].ts <= t}
  IN  InsertAt(jsonl, Cardinality(before) + 1,
               [ts |-> t, kind |-> "test", file |-> "code", chars |-> 0, block |-> 0, of |-> 0])

(* Running the tests once more, at whatever moment of the session, never     *)
(* lowers the grade: no ratio, band, cap or dropped rubric turns it round.   *)
MoreTestsNeverHurt ==
  run.stage = "queued" /\ run.count = 0 =>
    \A t \in 0..leaves.submitted, scan \in Scans[track], answer \in LlmAnswers :
      TotalOf(WithTestAt(t), scan, answer) >= TotalOf(jsonl, scan, answer)

(* A gate that fired is felt in the total, whichever stage failed and        *)
(* however many rubrics have no score: tampering is rejected outright, and   *)
(* who did not take part is not acceptable on the strength of a starter      *)
(* that passes the tests.                                                    *)
FlooredStaysLow ==
  grade # NoGrade =>
    /\ grade.tampered => grade.total <= 5
    /\ grade.noShow => grade.band \in {"weak", "reject"}

(* telemetry_ingest.py:57-58: what is graded again is graded alike.  A run   *)
(* without a fault gives the grade the submission has by itself, whatever    *)
(* earlier runs, dead or failed, left in the tables.                         *)
RegradeAgrees ==
  run.stage = "graded" /\ run.clean =>
    \E scan \in Scans[track], answer \in LlmAnswers : grade.total = TotalOf(jsonl, scan, answer)
=============================================================================
