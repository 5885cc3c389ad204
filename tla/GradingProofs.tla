--------------------------- MODULE GradingProofs ---------------------------
(***************************************************************************)
(* Theorems about what a grading run makes of a submission: the hidden     *)
(* tests, the commits on the branch, and the grade, which is of the        *)
(* submission alone whatever earlier runs did, within its range whatever   *)
(* stage failed, low when a gate fired, and no lower for one more run of   *)
(* the tests.                                                              *)
(***************************************************************************)
EXTENDS HiddenTests, CandidateCommits, GradingRun, ScoringProofs, SequenceTheorems

(* The hidden tests.  A tag has a result or is still to be run; with the     *)
(* TypeScript backend nothing a tag does ends the loop.                      *)

Undisturbed == backend = "typescript" /\ clone.install = "pass" /\ config.metadata

ResultsAreRight == \A t \in DOMAIN results : results[t] = Passed(t)

TestsInv ==
  /\ TestsTypeOK
  /\ step \in {"config", "install"} => results = NoTag
  /\ step \in {"config", "install", "tags"} => ~buildFailed
  /\ step = "install" => todo = Tags
  /\ step = "tags" => DOMAIN results \union todo = Tags
  /\ step = "done" /\ Undisturbed => DOMAIN results = Tags
  /\ ResultsAreRight

LEMMA TestsStart == TestsInit => TestsInv
  BY DEF TestsInit, TestsInv, TestsTypeOK, NoTag, ResultsAreRight

LEMMA TestsStep == TestsInv /\ TestsNext => TestsInv'
  <1> SUFFICES ASSUME TestsInv, TestsNext PROVE TestsInv'
    OBVIOUS
  <1> USE DEF TestsInv, TestsTypeOK, ResultsAreRight, Undisturbed
  <1>1. CASE LoadConfig
    BY <1>1 DEF LoadConfig, Raise, NoTag, Tags, AllTags, Passed
  <1>2. CASE Install
    BY <1>2 DEF Install, Raise, Return, NoTag, Tags, AllTags, Passed
  <1>3. CASE Finish
    BY <1>3 DEF Finish, Return, Tags, AllTags, Passed
  <1>4. ASSUME NEW t \in AllTags, RunTag(t) PROVE TestsInv'
    <2>1. CASE clone.tag[t] = "hang" /\ ~CatchesTimeout
      BY <1>4, <2>1 DEF RunTag, Raise, CatchesTimeout, NoTag, Tags, Passed
    <2>2. CASE ~(clone.tag[t] = "hang" /\ ~CatchesTimeout)
      <3>1. /\ step = "tags" /\ t \in todo /\ todo' = todo \ {t}
            /\ results' = [u \in DOMAIN results \union {t} |-> IF u = t THEN Passed(t) ELSE results[u]]
            /\ UNCHANGED <<step, buildFailed, clone, backend, config>>
        BY <1>4, <2>2 DEF RunTag
      <3> QED BY <1>4, <3>1 DEF Tags, Passed
    <2> QED BY <2>1, <2>2
  <1> QED BY <1>1, <1>2, <1>3, <1>4 DEF TestsNext

(* With the TypeScript backend a hidden test that hangs or runs nothing is   *)
(* answered for by its own tag alone, for every set of tags.                 *)
THEOREM TagsDoNotStallEachOther == TestsSpec => []EachTagOnItsOwn
  <1>1. TestsInv => EachTagOnItsOwn
    BY DEF TestsInv, Undisturbed, ResultsAreRight, EachTagOnItsOwn, Passed
  <1>2. TestsInv /\ [TestsNext]_testVars => TestsInv'
    <2>1. TestsInv /\ UNCHANGED testVars => TestsInv'
      BY DEF TestsInv, TestsTypeOK, ResultsAreRight, Undisturbed, Tags, Passed, testVars
    <2> QED BY <2>1, TestsStep
  <1> QED BY <1>1, <1>2, TestsStart, PTL DEF TestsSpec

----------------------------------------------------------------------------
(* The grade.  A run that ingested without a fault grades the file as it is, *)
(* for the file and what else was handed in do not change any more.          *)

GradingInv ==
  /\ run \in [stage : {"working", "queued", "ingested", "graded", "failed"},
              count : 0..MaxRuns, clean : BOOLEAN]
  /\ run.stage = "ingested" /\ run.clean => db = Ingested(jsonl)
  /\ RegradeAgrees

LEMMA RunsBounded == MaxRuns \in Nat
  BY GradingAssumption DEF GradingAssumption

LEMMA GradingStart == GradingInit => GradingInv
  BY GradingAssumption DEF GradingInit, GradingInv, RegradeAgrees

\* The grade of a submission depends on nothing a run changes.
LEMMA SubmissionStays ==
  ASSUME UNCHANGED <<track, emptied, leaves>>, NEW CONSTANT rows, NEW CONSTANT scan, NEW CONSTANT answer
  PROVE  TotalOf(rows, scan, answer)' = TotalOf(rows, scan, answer)
  <1>1. ASSUME NEW CONSTANT data
        PROVE  /\ Seen(data, scan, answer)' = Seen(data, scan, answer)
               /\ TakesPart(data)' = TakesPart(data)
    BY DEF Seen, TakesPart
  <1>2. ASSUME NEW CONSTANT data, NEW CONSTANT seen
        PROVE  Scored(data, seen, {})' = Scored(data, seen, {})
    BY DEF Scored
  <1>3. ASSUME NEW CONSTANT data, NEW CONSTANT seen
        PROVE  GradeOf(data, seen, {})' = GradeOf(data, seen, {})
    BY <1>1, <1>2 DEF GradeOf
  <1> QED BY <1>1, <1>3 DEF TotalOf

LEMMA GradingStep == GradingInv /\ GradingNext => GradingInv'
  <1> SUFFICES ASSUME GradingInv, GradingNext PROVE GradingInv'
    OBVIOUS
  <1>1. CASE \E kind \in Kinds, gap \in Gaps : Happens(kind, gap)
    BY <1>1 DEF Happens, GradingInv, RegradeAgrees
  <1>2. CASE EmptyFile
    BY <1>2 DEF EmptyFile, GradingInv, RegradeAgrees
  <1>3. CASE HandIn
    BY <1>3 DEF HandIn, GradingInv, RegradeAgrees
  <1>4. CASE Ingest
    <2>1. PICK raises \in BOOLEAN :
               /\ db' = IF raises THEN db ELSE Ingested(jsonl)
               /\ run' = [stage |-> "ingested", count |-> run.count + 1, clean |-> ~raises]
      BY <1>4 DEF Ingest
    <2>2. run.count + 1 \in 0..MaxRuns /\ jsonl' = jsonl
      BY <1>4, RunsBounded DEF Ingest, GradingInv
    <2>3. CASE raises
      BY <2>1, <2>2, <2>3 DEF GradingInv, RegradeAgrees
    <2>4. CASE ~raises
      BY <2>1, <2>2, <2>4 DEF GradingInv, RegradeAgrees
    <2> QED BY <2>3, <2>4
  <1>5. CASE RunsAgain
    BY <1>5 DEF RunsAgain, GradingInv, RegradeAgrees
  <1>6. CASE Grade
    <2>1. PICK faults \in {{}} \union {{stage} : stage \in Stages}, scan \in Scans[track],
               answer \in LlmAnswers :
                 IF "report" \in faults
                 THEN run' = [run EXCEPT !.stage = "failed"] /\ UNCHANGED grade
                 ELSE /\ grade' = GradeOf(db, Seen(db, scan, answer), faults)
                      /\ run' = [run EXCEPT !.stage = "graded", !.clean = @ /\ faults = {}]
      BY <1>6 DEF Grade
    <2>2. run.stage = "ingested" /\ UNCHANGED <<track, jsonl, emptied, leaves, db>>
      BY <1>6 DEF Grade
    <2>3. CASE "report" \in faults
      BY <2>1, <2>2, <2>3 DEF GradingInv, RegradeAgrees
    <2>4. CASE "report" \notin faults
      <3>1. ASSUME run'.clean
            PROVE  grade'.total = TotalOf(jsonl, scan, answer)'
        <4>1. faults = {} /\ db = Ingested(jsonl)
          BY <2>1, <2>2, <2>4, <3>1 DEF GradingInv
        <4>2. grade' = GradeOf(db, Seen(db, scan, answer), {})
          BY <2>1, <2>4, <4>1
        <4>3. grade'.total = TotalOf(jsonl, scan, answer)
          BY <4>1, <4>2 DEF TotalOf
        <4>4. TotalOf(jsonl, scan, answer)' = TotalOf(jsonl, scan, answer)
          BY <2>2, SubmissionStays
        <4> QED BY <4>3, <4>4
      <3> QED BY <2>1, <2>2, <2>4, <3>1 DEF GradingInv, RegradeAgrees
    <2> QED BY <2>3, <2>4
  <1> QED BY <1>1, <1>2, <1>3, <1>4, <1>5, <1>6 DEF GradingNext

(* A run that had no fault gives the grade of the submission alone, whatever *)
(* earlier runs did, for every challenge, scan and answer of the model.      *)
THEOREM GradedAgainAlike == GradingSpec => []RegradeAgrees
  <1>1. GradingInv /\ [GradingNext]_gradingVars => GradingInv'
    <2>1. ASSUME GradingInv, UNCHANGED gradingVars PROVE GradingInv'
      <3>1. UNCHANGED <<track, jsonl, emptied, leaves, db, run, grade>>
        BY <2>1 DEF gradingVars
      <3>2. RegradeAgrees'
        BY <2>1, <3>1, SubmissionStays DEF GradingInv, RegradeAgrees
      <3> QED BY <2>1, <3>1, <3>2 DEF GradingInv
    <2> QED BY <2>1, GradingStep
  <1>2. GradingInv => RegradeAgrees
    BY DEF GradingInv
  <1> QED BY <1>1, <1>2, GradingStart, PTL DEF GradingSpec

----------------------------------------------------------------------------
(* What the rubrics of a run come to. *)

\* What the assumption says, a part at a time.
LEMMA GivenTags == IsFiniteSet(HiddenTags) /\ TrapSeverity \in [HiddenTags -> Nat]
  BY GradingAssumption DEF GradingAssumption
LEMMA GivenRuns == MaxRuns \in Nat /\ MaxRows \in Nat /\ EventChars \in Nat /\ Gaps \subseteq Nat /\ SubmitGaps \subseteq Nat
  BY GradingAssumption DEF GradingAssumption
LEMMA GivenScans ==
  ASSUME NEW side \in Tracks, NEW scan \in Scans[side]
  PROVE  scan.parts \in Seq(Mark)
  <1> DEFINE Scale == 0..1000
             Found == [parts : Seq(Scale), bonus : [notes : BOOLEAN, feature : BOOLEAN, threadSafe : BOOLEAN]]
  <1>1. Scans \in [Tracks -> SUBSET Found]
    BY GradingAssumption DEF GradingAssumption, Tracks
  <1>2. scan \in Found
    <2> HIDE DEF Found
    <2> QED BY <1>1
  <1>3. \A n \in Scale : n \in Mark
    BY DEF Mark
  <1> HIDE DEF Scale
  <1>4. scan.parts \in Seq(Scale)
    BY <1>2
  <1> QED BY <1>3, <1>4, WiderSeq

LEMMA GivenAnswers ==
  ASSUME NEW answer \in LlmAnswers
  PROVE  \A i \in {1, 2} : answer[i] \in 100..1000 \/ answer[i] = NA \/ answer[i] = Garbled
  <1>1. answer \in [1..2 -> 100..1000 \union {NA, Garbled}]
    BY GradingAssumption DEF GradingAssumption
  <1>2. \A i \in {1, 2} : i \in 1..2
    OBVIOUS
  <1> QED BY <1>1, <1>2

LEMMA LlmType ==
  ASSUME NEW answer \in LlmAnswers
  PROVE  LlmScore(answer) \in Mark
  <1> DEFINE final == IF answer[1] = Garbled THEN answer[2] ELSE answer[1]
  <1>1. final \in 100..1000 \/ final = NA \/ final = Garbled
    BY GivenAnswers
  <1>2. Answer(answer) = IF final = Garbled THEN NA ELSE final
    BY DEF Answer
  <1> HIDE DEF final
  <1>3. Answer(answer) # NA => Answer(answer) \in 100..1000
    BY <1>1, <1>2
  <1>4. \A n \in 100..1000 : n \in Mark
    BY DEF Mark
  <1>5. Fallback \in Mark
    BY DEF Fallback, Mark
  <1> QED BY <1>3, <1>4, <1>5 DEF LlmScore

\* The severity of some of the tags.
LEMMA SeveritiesGrow ==
  ASSUME NEW tags, tags \subseteq HiddenTags
  PROVE  /\ Severities(tags) \in Nat /\ Severities(HiddenTags) \in Nat
         /\ Severities(tags) <= Severities(HiddenTags)
  <1> DEFINE trap == SetToSeq(HiddenTags)
             s(T) == [i \in DOMAIN trap |-> IF trap[i] \in T THEN TrapSeverity[trap[i]] ELSE 0]
  <1>1. Cardinality(HiddenTags) \in Nat /\ ExistsBijection(1..Cardinality(HiddenTags), HiddenTags)
    BY GivenTags, FS_CardinalityType
  <1>2. \E f \in [1..Cardinality(HiddenTags) -> HiddenTags] : IsInjective(f)
    BY <1>1 DEF ExistsBijection, Bijection, Injection, IsInjective
  <1>3. trap \in [1..Cardinality(HiddenTags) -> HiddenTags]
    BY <1>2 DEF SetToSeq
  <1> HIDE DEF trap
  <1>4. \A T : s(T) \in [1..Cardinality(HiddenTags) -> Nat]
    BY <1>3, GivenTags
  <1>5. \A T : Severities(T) = SumOf(s(T))
    BY DEF Severities, trap
  <1>6. \A i \in 1..Cardinality(HiddenTags) : s(tags)[i] <= s(HiddenTags)[i]
    <2> SUFFICES ASSUME NEW i \in 1..Cardinality(HiddenTags) PROVE s(tags)[i] <= s(HiddenTags)[i]
      OBVIOUS
    <2>1. trap[i] \in HiddenTags /\ TrapSeverity[trap[i]] \in Nat /\ i \in DOMAIN trap
      BY <1>3, GivenTags
    <2> QED BY <2>1
  <1> HIDE DEF s
  <1>7. \A T : s(T) \in Seq(Nat) /\ Len(s(T)) = Cardinality(HiddenTags) /\ DOMAIN s(T) = 1..Cardinality(HiddenTags)
    BY <1>1, <1>4
  <1>8. \A T : s(T) \in Seq(Int)
    BY <1>7, NaturalsSeq
  <1>9. SumOf(s(tags)) \in Nat /\ SumOf(s(HiddenTags)) \in Nat
    BY <1>7, SumOfNaturals
  <1>10. SumOf(s(tags)) <= SumOf(s(HiddenTags))
    BY <1>6, <1>7, <1>8, SumOfMonotone
  <1> QED BY <1>5, <1>9, <1>10

LEMMA TestsType ==
  ASSUME NEW passed, passed \subseteq HiddenTags
  PROVE  TestsRubric(Cardinality(passed), Cardinality(HiddenTags)) \in Mark
  <1>1. /\ Cardinality(passed) \in Nat /\ Cardinality(HiddenTags) \in Nat
        /\ Cardinality(passed) <= Cardinality(HiddenTags)
    BY GivenTags, FS_Subset, FS_CardinalityType
  <1> QED BY <1>1, ShareIsMark DEF TestsRubric

LEMMA TrapsType ==
  ASSUME NEW detected, detected \subseteq HiddenTags
  PROVE  TrapsRubric(Severities(detected), Severities(HiddenTags)) \in Mark
  BY SeveritiesGrow, ShareIsMark DEF TrapsRubric

(* The grade of what the tables hold, whatever stage failed. *)

Data == [rows : Rows, typed : Nat, pasted : Nat, applied : Nat]
Left == [fixed : SUBSET HiddenTags, chats : Nat, specificChats : Nat, changed : BOOLEAN, submitted : Nat \union {NA}]

LEMMA SeenType ==
  ASSUME leaves \in Left, NEW data \in Data, NEW scan, NEW answer
  PROVE  /\ Seen(data, scan, answer).typed \in Nat /\ Seen(data, scan, answer).applied \in Nat
         /\ Seen(data, scan, answer).chats \in Nat /\ Seen(data, scan, answer).specificChats \in Nat
         /\ Seen(data, scan, answer).scan = scan /\ Seen(data, scan, answer).answer = answer
         /\ data.rows \in Rows
  BY DEF Seen, Data, Left

LEMMA ScoredType ==
  ASSUME track \in Tracks, leaves \in Left, NEW data \in Data, NEW scan \in Scans[track],
         NEW answer \in LlmAnswers, NEW faults
  PROVE  /\ Scorable(Scored(data, Seen(data, scan, answer), faults))
         /\ \A d \in {"code_quality", "architectural_reasoning", "challenge_specific",
                      "developer_signal"} : Scored(data, Seen(data, scan, answer), faults)[d] # NA
  <1> DEFINE seen == Seen(data, scan, answer)
             scored == Scored(data, seen, faults)
             or(stage, score) == IF stage \in faults THEN Fallback ELSE score
             passed == IF "build" \in faults THEN {} ELSE leaves.fixed
             detected == IF "traps" \in faults THEN {} ELSE passed
             judged == IF faults \intersect {"attribution", "signals"} # {} THEN {} ELSE detected
             bonus == IF "build" \in faults THEN NotesOnly(scan.bonus) ELSE scan.bonus
             sig == IF "signals" \in faults THEN DefaultSignals ELSE Signals(data.rows, seen)
  <1>1. passed \subseteq HiddenTags /\ detected \subseteq HiddenTags
    BY DEF Left
  <1>2. SignalsOK(sig)
    <2>1. SignalsOK(Signals(data.rows, seen))
      BY SeenType, SignalsType
    <2> QED BY <2>1, DefaultSignalsType
  <1>3. MoreTested(sig, sig)
    <2>1. Raises(sig.testAfterApply, sig.testAfterApply) /\ Raises(sig.testAfterEdit, sig.testAfterEdit)
      BY <1>2, RaisesSelf DEF SignalsOK
    <2>2. sig.tests <= sig.tests /\ sig.incremental.between <= sig.incremental.between
      BY <1>2 DEF SignalsOK
    <2> HIDE DEF sig
    <2> QED BY <2>1, <2>2 DEF MoreTested
  <1>4. Fallback \in Mark /\ 0 \in Mark /\ 100 \in Mark
    BY DEF Fallback, Mark
  <1>5. LlmScore(answer) \in Mark /\ ChallengeScore(scan.parts) \in Mark
    BY GivenScans, LlmType, ChallengeType
  <1>6. Verification(track, sig) \in Marks /\ DeveloperSignal(track, sig) \in Mark
    BY <1>2, <1>3, VerificationMonotone, DeveloperMonotone
  <1>7. AiJudgment(sig, Cardinality(judged), TrapClass(data.rows, seen)) \in Marks
    BY JudgmentType
  <1>8. seen.scan = scan /\ seen.answer = answer
    BY SeenType
  <1>9. Communication(track, seen.chats, answer) \in Marks
    BY <1>4, <1>5 DEF Communication, Marks
  <1> HIDE DEF sig, judged, bonus, detected, passed, seen
  <1>10. /\ scored["tests"] \in Mark /\ scored["traps"] \in Mark
    <2>1. scored["tests"] = TestsRubric(Cardinality(passed), Cardinality(HiddenTags))
      BY DEF Scored, passed
    <2>2. scored["traps"] = IF "traps" \in faults THEN 0
                            ELSE TrapsRubric(Severities(detected), Severities(HiddenTags))
      BY DEF Scored, passed, detected
    <2> HIDE DEF scored
    <2> QED BY <1>1, <1>4, <2>1, <2>2, TestsType, TrapsType
  <1>11. /\ scored["code_quality"] \in Mark /\ scored["architectural_reasoning"] \in Mark
         /\ scored["challenge_specific"] \in Mark
    <2>1. /\ scored["code_quality"] = or("llm_eval", LlmScore(answer))
          /\ scored["challenge_specific"] = or("challenge_specific", ChallengeScore(scan.parts))
          /\ scored["architectural_reasoning"] =
                IF "bonuses" \in faults THEN or("llm_eval", LlmScore(answer))
                ELSE Boosted(or("llm_eval", LlmScore(answer)), bonus)
      BY <1>8 DEF Scored, bonus
    <2>2. or("llm_eval", LlmScore(answer)) \in Mark /\ or("challenge_specific", ChallengeScore(scan.parts)) \in Mark
      BY <1>4, <1>5
    <2> HIDE DEF scored, or
    <2> QED BY <2>1, <2>2, BoostType
  <1>12. /\ scored["llm_communication"] \in Marks /\ scored["verification_discipline"] \in Marks
         /\ scored["ai_judgment"] \in Marks /\ scored["developer_signal"] \in Mark
    <2>1. /\ scored["llm_communication"] = or("llm_eval", Communication(track, seen.chats, answer))
          /\ scored["verification_discipline"] = or("verification_discipline", Verification(track, sig))
          /\ scored["ai_judgment"] = IF track # "vibe" THEN NA
                ELSE or("ai_judgment", AiJudgment(sig, Cardinality(judged), TrapClass(data.rows, seen)))
          /\ scored["developer_signal"] = or("developer_signal", DeveloperSignal(track, sig))
      BY <1>8 DEF Scored, sig, judged, detected, passed
    <2> HIDE DEF scored
    <2> QED BY <1>4, <1>6, <1>7, <1>9, <2>1, MarksAreScores
  <1> HIDE DEF scored
  <1>13. \A x \in Mark : x \in Marks /\ x # NA
    BY DEF Mark, Marks, NA
  <1>14. Scorable(scored)
    <2> SUFFICES ASSUME NEW d \in Dimensions PROVE scored[d] \in Marks
      BY DEF Scorable
    <2> QED BY <1>10, <1>11, <1>12, <1>13, RubricsAre
  <1>15. \A d \in {"code_quality", "architectural_reasoning", "challenge_specific",
                      "developer_signal"} : scored[d] # NA
    BY <1>11, <1>12, <1>13
  <1> QED BY <1>14, <1>15 DEF scored, seen

\* What the gates make of the total.
LEMMA GradeIsBounded ==
  ASSUME track \in Tracks, leaves \in Left, NEW data \in Data, NEW scan \in Scans[track],
         NEW answer \in LlmAnswers, NEW faults, NEW result,
         result = GradeOf(data, Seen(data, scan, answer), faults)
  PROVE  /\ result.total \in 0..100
         /\ result.tampered => result.total <= 5
         /\ result.noShow => result.band \in {"weak", "reject"}
  <1> DEFINE scored == Scored(data, Seen(data, scan, answer), faults)
             noShow == "engagement" \notin faults /\ ~TakesPart(data)
             tampered == "telemetry_integrity" \notin faults /\ emptied
             attended == IF noShow THEN FloorDims(scored, NonObjective) ELSE scored
             dims == IF tampered THEN FloorDims(attended, Dimensions) ELSE attended
  <1>1. /\ Scorable(scored)
        /\ \A d \in {"code_quality", "architectural_reasoning", "challenge_specific",
                     "developer_signal"} : scored[d] # NA
    BY ScoredType
  <1>2. result = [total |-> Total(track, dims), band |-> BandOf(Total(track, dims)),
                  noShow |-> noShow, tampered |-> tampered]
    BY DEF GradeOf
  <1> HIDE DEF scored, noShow, tampered
  <1>3. /\ {"code_quality", "architectural_reasoning", "challenge_specific", "developer_signal"}
             \subseteq Dimensions
        /\ NonObjective \subseteq Dimensions
    BY RubricsAre
  <1>4. /\ Scorable(attended)
        /\ \A d \in {"code_quality", "architectural_reasoning", "challenge_specific",
                     "developer_signal"} : attended[d] # NA
        /\ noShow => \A d \in NonObjective : attended[d] <= 50
    BY <1>1, <1>3, FlooredType
  <1> HIDE DEF attended
  <1>5. /\ Scorable(dims)
        /\ \A d \in {"code_quality", "architectural_reasoning", "challenge_specific",
                     "developer_signal"} : dims[d] # NA
        /\ noShow => \A d \in NonObjective : dims[d] <= 50
        /\ tampered => \A d \in Dimensions : dims[d] <= 50
    BY <1>3, <1>4, FlooredType
  <1> HIDE DEF dims
  <1>6. Total(track, dims) \in Nat /\ Total(track, dims) <= 100
    <2>1. \A d \in Dimensions : PointOf(dims[d]) <= 100
      BY <1>5, ScorableIs, PointType
    <2>2. 100 \in Nat
      OBVIOUS
    <2> QED BY <1>5, <2>1, <2>2, TotalIs, TotalBounded
  <1>7. ASSUME tampered PROVE Total(track, dims) <= 5
    <2>1. \A d \in Dimensions : PointOf(dims[d]) <= 5
      BY <1>5, <1>7, ScorableIs, PointType
    <2>2. 5 \in Nat
      OBVIOUS
    <2> QED BY <1>5, <2>1, <2>2, TotalBounded
  <1>8. ASSUME noShow PROVE BandOf(Total(track, dims)) \in {"weak", "reject"}
    <2>1. Total(track, dims) <= 49
      BY <1>5, <1>8, TotalCarried
    <2> QED BY <1>6, <2>1, BandIs
  <1> QED BY <1>2, <1>6, <1>7, <1>8

----------------------------------------------------------------------------
(* The grade of a session that ran the tests once more. *)

LEMMA OneMoreIngested ==
  ASSUME NEW rows, NEW more, NEW m, OneMore(rows, more, m)
  PROVE  /\ Ingested(rows) \in Data /\ Ingested(more) \in Data
         /\ Ingested(rows).rows = rows /\ Ingested(more).rows = more
         /\ Ingested(more).typed = Ingested(rows).typed
         /\ Ingested(more).pasted = Ingested(rows).pasted
         /\ Ingested(more).applied = Ingested(rows).applied
  <1>1. rows \in Rows /\ more \in Rows
    BY DEF OneMore
  <1>2. ASSUME NEW kind \in {"typed", "pasted", "applied"}
        PROVE  Chars(more, kind) = Chars(rows, kind)
    <2> DEFINE S == Places(rows, {kind})
    <2>1. Places(more, {kind}) = MovedSet(m, S) /\ S \subseteq DOMAIN rows
      <3>1. S \subseteq DOMAIN rows
        BY DEF Places
      <3>2. "test" \notin {kind}
        OBVIOUS
      <3> QED BY <3>1, <3>2, MovedPlaces
    <2> HIDE DEF S
    <2>2. CharsAt(more, MovedSet(m, S)) = CharsAt(rows, S)
      BY <2>1, MovedChars
    <2> QED BY <2>1, <2>2 DEF Chars, S
  <1>3. \A kind : Chars(rows, kind) \in Nat /\ Chars(more, kind) \in Nat
    BY <1>1, CharsAtType DEF Chars
  <1> QED BY <1>1, <1>2, <1>3 DEF Ingested, Data

LEMMA ScoredRaised ==
  ASSUME track \in Tracks, leaves \in Left, NEW rows, NEW more, NEW m, OneMore(rows, more, m),
         NEW scan \in Scans[track], NEW answer \in LlmAnswers, NEW old, NEW new,
         old = Scored(Ingested(rows), Seen(Ingested(rows), scan, answer), {}),
         new = Scored(Ingested(more), Seen(Ingested(more), scan, answer), {})
  PROVE  \A d \in Dimensions : Raises(old[d], new[d])
  <1> DEFINE data == Ingested(rows)
             then == Ingested(more)
             seen == Seen(data, scan, answer)
             sig == Signals(rows, seen)
             sigs == Signals(more, seen)
             traps == Cardinality(leaves.fixed)
             class == TrapClass(rows, seen)
  <1>1. /\ data \in Data /\ then \in Data /\ data.rows = rows /\ then.rows = more
        /\ then.typed = data.typed /\ then.applied = data.applied
    BY OneMoreIngested
  <1> HIDE DEF data, then
  <1>2. Seen(then, scan, answer) = seen
    BY <1>1 DEF Seen
  <1>3. SignalsOK(sig) /\ SignalsOK(sigs)
    <2>1. /\ seen.typed \in Nat /\ seen.applied \in Nat
          /\ seen.chats \in Nat /\ seen.specificChats \in Nat
      BY <1>1, SeenType
    <2>2. rows \in Rows /\ more \in Rows
      BY DEF OneMore
    <2> HIDE DEF seen
    <2> QED BY <2>1, <2>2, SignalsType
  <1>4. MoreTested(sig, sigs)
    BY OneMoreTest
  <1>5. TrapClass(more, seen) = class
    BY MovedBlocks DEF TrapClass
  <1> HIDE DEF seen, sig, sigs, traps, class
  <1>6. /\ old = Scored(data, seen, {}) /\ new = Scored(then, seen, {})
    BY <1>2 DEF data, then, seen
  <1>7. /\ old["tests"] = new["tests"] /\ old["traps"] = new["traps"]
        /\ old["code_quality"] = new["code_quality"]
        /\ old["architectural_reasoning"] = new["architectural_reasoning"]
        /\ old["challenge_specific"] = new["challenge_specific"]
        /\ old["llm_communication"] = new["llm_communication"]
    BY <1>6 DEF Scored
  <1>8. /\ old["verification_discipline"] = Verification(track, sig)
        /\ new["verification_discipline"] = Verification(track, sigs)
        /\ old["developer_signal"] = DeveloperSignal(track, sig)
        /\ new["developer_signal"] = DeveloperSignal(track, sigs)
    BY <1>1, <1>6 DEF Scored, sig, sigs
  <1>9. /\ old["ai_judgment"] = IF track # "vibe" THEN NA ELSE AiJudgment(sig, traps, class)
        /\ new["ai_judgment"] = IF track # "vibe" THEN NA ELSE AiJudgment(sigs, traps, class)
    BY <1>1, <1>5, <1>6 DEF Scored, sig, sigs, traps, class
  <1>10. old["ai_judgment"] = new["ai_judgment"]
    BY <1>4, <1>9, JudgmentSame
  <1>11. Raises(old["verification_discipline"], new["verification_discipline"])
    BY <1>3, <1>4, <1>8, VerificationMonotone
  <1>12. Raises(old["developer_signal"], new["developer_signal"])
    <2>1. /\ DeveloperSignal(track, sig) \in Mark /\ DeveloperSignal(track, sigs) \in Mark
          /\ DeveloperSignal(track, sig) <= DeveloperSignal(track, sigs)
      BY <1>3, <1>4, DeveloperMonotone
    <2> QED BY <1>8, <2>1 DEF Raises, Mark, NA
  <1>13. \A d \in Dimensions : old[d] \in Scores
    <2>1. Scorable(old)
      BY <1>1, <1>6, ScoredType DEF seen
    <2> QED BY <2>1, ScorableIs
  <1> SUFFICES ASSUME NEW d \in Dimensions PROVE Raises(old[d], new[d])
    OBVIOUS
  <1>14. old[d] = new[d] => Raises(old[d], new[d])
    BY <1>13, RaisesSelf
  <1>15. CASE d \in {"verification_discipline", "developer_signal"}
    BY <1>11, <1>12, <1>15
  <1>16. CASE d \in {"tests", "traps", "code_quality", "architectural_reasoning", "challenge_specific",
                     "ai_judgment", "llm_communication"}
    BY <1>7, <1>10, <1>14, <1>16
  <1> QED BY <1>15, <1>16, RubricsAre

LEMMA TotalRaised ==
  ASSUME track \in Tracks, leaves \in Left, NEW rows, NEW more, NEW m, OneMore(rows, more, m),
         NEW scan \in Scans[track], NEW answer \in LlmAnswers
  PROVE  TotalOf(more, scan, answer) >= TotalOf(rows, scan, answer)
  <1> DEFINE data == Ingested(rows)
             then == Ingested(more)
             old == Scored(data, Seen(data, scan, answer), {})
             new == Scored(then, Seen(then, scan, answer), {})
             noShow == ~TakesPart(data)
             att(scored) == IF noShow THEN FloorDims(scored, NonObjective) ELSE scored
             dims(scored) == IF emptied THEN FloorDims(att(scored), Dimensions) ELSE att(scored)
  <1>1. /\ data \in Data /\ then \in Data
        /\ then.typed = data.typed /\ then.pasted = data.pasted /\ then.applied = data.applied
    BY OneMoreIngested
  <1>2. Scorable(old) /\ Scorable(new)
    <2> HIDE DEF data, then
    <2> QED BY <1>1, ScoredType
  <1>3. \A d \in Dimensions : Raises(old[d], new[d])
    BY ScoredRaised
  <1> HIDE DEF data, then
  <1>4. TakesPart(then) <=> TakesPart(data)
    BY <1>1 DEF TakesPart
  <1>5. /\ TotalOf(rows, scan, answer) = Total(track, dims(old))
        /\ TotalOf(more, scan, answer) = Total(track, dims(new))
    <2>1. TotalOf(rows, scan, answer) = Total(track, dims(old))
      BY DEF TotalOf, GradeOf, data
    <2>2. TotalOf(more, scan, answer) = Total(track, dims(new))
      BY <1>4 DEF TotalOf, GradeOf, then
    <2> QED BY <2>1, <2>2
  <1> HIDE DEF old, new, noShow
  <1>6. /\ Scorable(att(old)) /\ Scorable(att(new))
        /\ \A d \in Dimensions : Raises(att(old)[d], att(new)[d])
    BY <1>2, <1>3, FlooredType, FlooredRaised
  <1> HIDE DEF att
  <1>7. /\ Scorable(dims(old)) /\ Scorable(dims(new))
        /\ \A d \in Dimensions : Raises(dims(old)[d], dims(new)[d])
    BY <1>6, FlooredType, FlooredRaised
  <1> HIDE DEF dims
  <1>8. Total(track, dims(old)) <= Total(track, dims(new))
    BY <1>7, TotalMonotone
  <1>9. Total(track, dims(old)) \in Nat /\ Total(track, dims(new)) \in Nat
    BY <1>7, TotalIs
  <1> QED BY <1>5, <1>8, <1>9

LEMMA InsertAtIs ==
  ASSUME NEW s, NEW i, NEW e
  PROVE  InsertAt(s, i, e) = SubSeq(s, 1, i - 1) \o <<e>> \o SubSeq(s, i, Len(s))
  BY DEF InsertAt

LEMMA Joined ==
  ASSUME NEW S, NEW s \in Seq(S), NEW u \in Seq(S)
  PROVE  /\ s \o u \in Seq(S) /\ Len(s \o u) = Len(s) + Len(u)
         /\ \A k \in 1..Len(s) : (s \o u)[k] = s[k]
         /\ \A k \in 1..Len(u) : (s \o u)[Len(s) + k] = u[k]
  OBVIOUS

\* The elements from one place on.
LEMMA RestIs ==
  ASSUME NEW S, NEW s \in Seq(S), NEW c \in Nat, c <= Len(s)
  PROVE  /\ SubSeq(s, c + 1, Len(s)) \in Seq(S) /\ Len(SubSeq(s, c + 1, Len(s))) = Len(s) - c
         /\ \A k \in 1..(Len(s) - c) : SubSeq(s, c + 1, Len(s))[k] = s[c + k]
  <1>1. Len(s) \in Nat /\ DOMAIN s = 1..Len(s)
    OBVIOUS
  <1>2. c + 1 \in Int /\ Len(s) \in Int /\ \A i \in (c + 1)..Len(s) : s[i] \in S
    BY <1>1, Elements
  <1> DEFINE n == Len(s)
  <1> HIDE DEF n
  <1>3. /\ SubSeq(s, c + 1, n) \in Seq(S)
        /\ Len(SubSeq(s, c + 1, n)) = IF c + 1 <= n THEN n - (c + 1) + 1 ELSE 0
        /\ \A i \in 1..(n - (c + 1) + 1) : SubSeq(s, c + 1, n)[i] = s[c + 1 + i - 1]
    BY <1>2, SubSeqProperties DEF n
  <1>4. n \in Nat /\ c <= n /\ n - (c + 1) + 1 = n - c
    <2>1. n \in Nat /\ c <= n
      BY <1>1 DEF n
    <2> QED BY <2>1
  <1>5. \A i \in 1..(n - c) : c + 1 + i - 1 = c + i
    BY <1>4
  <1>6. c + 1 <= n => n - (c + 1) + 1 = n - c
    BY <1>4
  <1>7. ~(c + 1 <= n) => n - c = 0
    BY <1>4
  <1>8. Len(SubSeq(s, c + 1, n)) = n - c
    BY <1>3, <1>6, <1>7
  <1>9. \A i \in 1..(n - c) : SubSeq(s, c + 1, n)[i] = s[c + i]
    BY <1>3, <1>4, <1>5
  <1> QED BY <1>3, <1>8, <1>9 DEF n

\* What WithTestAt gives is the file with one more run of the tests.
LEMMA InsertedIsOneMore ==
  ASSUME jsonl \in Rows, NEW t \in Nat
  PROVE  OneMore(jsonl, WithTestAt(t), Cardinality({i \in DOMAIN jsonl : jsonl[i].ts <= t}) + 1)
  <1> DEFINE before == {i \in DOMAIN jsonl : jsonl[i].ts <= t}
             c == Cardinality(before)
             n == Len(jsonl)
             event == [ts |-> t, kind |-> "test", file |-> "code", chars |-> 0, block |-> 0, of |-> 0]
             head == SubSeq(jsonl, 1, c)
             tail == SubSeq(jsonl, c + 1, n)
             more == head \o <<event>> \o tail
  <1>1. n \in Nat /\ DOMAIN jsonl = 1..n
    BY RowsAre
  <1> HIDE DEF n
  <1>2. c \in Nat /\ c <= n
    <2>1. before \subseteq 1..n
      BY <1>1
    <2> HIDE DEF before
    <2>2. IsFiniteSet(1..n) /\ Cardinality(1..n) = n
      <3>1. 1 \in Int /\ n \in Int /\ n \in Nat
        BY <1>1
      <3>2. IsFiniteSet(1..n) /\ Cardinality(1..n) = IF 1 > n THEN 0 ELSE n - 1 + 1
        BY <3>1, FS_Interval
      <3> QED BY <3>1, <3>2
    <2>3. IsFiniteSet(before) /\ Cardinality(before) <= Cardinality(1..n)
      BY <2>1, <2>2, FS_Subset
    <2> QED BY <2>2, <2>3, FS_CardinalityType DEF before
  <1> HIDE DEF c
  <1>3. WithTestAt(t) = InsertAt(jsonl, c + 1, event)
    BY DEF WithTestAt, c
  <1>4. event \in Events
    BY DEF Events, EventTypes
  <1>5. event.kind = "test" /\ event.chars = 0
    OBVIOUS
  <1> HIDE DEF event
  <1>6. /\ head \in Rows /\ Len(head) = c /\ \A k \in 1..c : head[k] = jsonl[k]
    <2>1. 1 \in Int /\ c \in Int /\ \A i \in 1..c : jsonl[i] \in Events
      BY <1>1, <1>2, RowsAre
    <2>2. /\ SubSeq(jsonl, 1, c) \in Seq(Events)
          /\ Len(SubSeq(jsonl, 1, c)) = IF 1 <= c THEN c - 1 + 1 ELSE 0
          /\ \A i \in 1..(c - 1 + 1) : SubSeq(jsonl, 1, c)[i] = jsonl[1 + i - 1]
      BY <2>1, SubSeqProperties
    <2>3. c - 1 + 1 = c /\ \A i \in 1..c : 1 + i - 1 = i
      BY <1>2
    <2> QED BY <1>2, <2>2, <2>3 DEF Rows
  <1>7. /\ tail \in Rows /\ Len(tail) = n - c /\ \A k \in 1..(n - c) : tail[k] = jsonl[c + k]
    BY <1>2, RestIs DEF Rows, n
  <1> HIDE DEF head, tail
  <1>8. /\ more \in Rows /\ Len(more) = n + 1
        /\ \A k \in 1..c : more[k] = jsonl[k]
        /\ more[c + 1] = event
        /\ \A k \in (c + 2)..(n + 1) : more[k] = jsonl[k - 1]
    <2> DEFINE one == <<event>>
               first == head \o one
    <2>1. one \in Seq(Events) /\ Len(one) = 1 /\ one[1] = event
      BY <1>4
    <2> HIDE DEF one
    <2>2. /\ first \in Seq(Events) /\ Len(first) = Len(head) + Len(one)
          /\ \A k \in 1..Len(head) : first[k] = head[k]
          /\ \A k \in 1..Len(one) : first[Len(head) + k] = one[k]
      BY <1>6, <2>1, Joined DEF Rows
    <2> HIDE DEF first
    <2>3. /\ first \in Seq(Events) /\ Len(first) = c + 1 /\ first[c + 1] = event
          /\ \A k \in 1..c : first[k] = jsonl[k]
      BY <1>2, <1>6, <2>1, <2>2
    <2>4. /\ more \in Seq(Events) /\ Len(more) = Len(first) + Len(tail)
          /\ \A k \in 1..Len(first) : more[k] = first[k]
          /\ \A k \in 1..Len(tail) : more[Len(first) + k] = tail[k]
      <3>1. tail \in Seq(Events) /\ first \in Seq(Events)
        BY <1>7, <2>3 DEF Rows
      <3>2. /\ first \o tail \in Seq(Events) /\ Len(first \o tail) = Len(first) + Len(tail)
            /\ \A k \in 1..Len(first) : (first \o tail)[k] = first[k]
            /\ \A k \in 1..Len(tail) : (first \o tail)[Len(first) + k] = tail[k]
        BY <3>1, Joined
      <3> QED BY <3>2 DEF first, one
    <2> HIDE DEF more
    <2>5. Len(more) = n + 1 /\ 1 <= c + 1 /\ \A k \in 1..c : k \in 1..(c + 1)
      BY <1>1, <1>2, <1>7, <2>3, <2>4
    <2>6. (\A k \in 1..c : more[k] = jsonl[k]) /\ more[c + 1] = event
      <3>1. c + 1 \in 1..(c + 1)
        BY <1>2
      <3> QED BY <2>3, <2>4, <2>5, <3>1
    <2>7. \A k \in (c + 2)..(n + 1) : more[k] = jsonl[k - 1]
      <3> SUFFICES ASSUME NEW k \in (c + 2)..(n + 1) PROVE more[k] = jsonl[k - 1]
        OBVIOUS
      <3> DEFINE i == k - (c + 1)
      <3>1. i \in 1..(n - c) /\ (c + 1) + i = k /\ c + i = k - 1
        BY <1>1, <1>2
      <3> HIDE DEF i
      <3>2. more[(c + 1) + i] = tail[i] /\ tail[i] = jsonl[c + i]
        BY <1>7, <2>3, <2>4, <3>1
      <3> QED BY <3>1, <3>2
    <2> QED BY <2>4, <2>5, <2>6, <2>7 DEF Rows
  <1>9. WithTestAt(t) = more
    <2>1. (c + 1) - 1 = c
      BY <1>2
    <2>2. InsertAt(jsonl, c + 1, event)
             = SubSeq(jsonl, 1, (c + 1) - 1) \o <<event>> \o SubSeq(jsonl, c + 1, Len(jsonl))
      BY InsertAtIs
    <2> QED BY <1>3, <2>1, <2>2 DEF head, tail, n
  <1> HIDE DEF more
  <1>10. c + 1 \in 1..(n + 1)
    BY <1>1, <1>2
  <1>11. \A k \in DOMAIN jsonl : more[Moved(c + 1, k)] = jsonl[k]
    <2> SUFFICES ASSUME NEW k \in 1..n PROVE more[Moved(c + 1, k)] = jsonl[k]
      BY <1>1
    <2>1. CASE k < c + 1
      BY <1>1, <1>2, <1>8, <2>1 DEF Moved
    <2>2. CASE ~(k < c + 1)
      <3>1. k + 1 \in (c + 2)..(n + 1) /\ (k + 1) - 1 = k
        BY <1>1, <1>2, <2>2
      <3> QED BY <1>8, <2>2, <3>1 DEF Moved
    <2> QED BY <2>1, <2>2
  <1> QED BY <1>5, <1>8, <1>9, <1>10, <1>11 DEF OneMore, c, n

----------------------------------------------------------------------------
(* The states a run can be in.  Every event is one the rubrics can read, so  *)
(* the lemmas above hold of every grade a run gives.                         *)

GradingTyped ==
  /\ track \in Tracks /\ leaves \in Left
  /\ jsonl \in Rows /\ Len(jsonl) <= MaxRows
  /\ db \in Data /\ Len(db.rows) <= MaxRows
  /\ run \in [stage : {"working", "queued", "ingested", "graded", "failed"},
              count : 0..MaxRuns, clean : BOOLEAN]
  /\ grade # NoGrade => grade.total \in 0..100
  /\ FlooredStaysLow

LEMMA TypedStart == GradingInit => GradingTyped
  <1> SUFFICES ASSUME GradingInit PROVE GradingTyped
    OBVIOUS
  <1>1. << >> \in Rows /\ Len(<< >>) = 0
    BY DEF Rows
  <1>2. 0 \in 0..MaxRuns /\ 0 <= MaxRows
    BY GivenRuns
  <1>3. NoLeaves \in Left
    BY DEF NoLeaves, Left, NA
  <1>4. EmptyDb \in Data /\ EmptyDb.rows = << >>
    BY <1>1 DEF EmptyDb, Data
  <1>5. track \in Tracks /\ leaves \in Left
    BY <1>3 DEF GradingInit, Tracks
  <1>6. jsonl = << >> /\ db = EmptyDb /\ grade = NoGrade
        /\ run = [stage |-> "working", count |-> 0, clean |-> TRUE]
    BY DEF GradingInit
  <1> QED BY <1>1, <1>2, <1>4, <1>5, <1>6 DEF GradingTyped, FlooredStaysLow

\* An event the tracker appends is one the rubrics can read.
LEMMA AppendedIsEvent ==
  ASSUME GradingTyped, NEW kind \in Kinds, NEW gap \in Gaps, Happens(kind, gap)
  PROVE  jsonl' \in Rows /\ Len(jsonl') <= MaxRows
  <1> DEFINE t == LastTime(jsonl) + gap
             event == [ts |-> t, kind |-> kind, file |-> "code",
                       chars |-> IF kind \in HandEdits \union {"applied"} THEN EventChars ELSE 0,
                       block |-> IF kind = "applied" THEN Len(jsonl) + 1 ELSE 0,
                       of |-> IF kind \in HandEdits THEN RecentApply(t) ELSE 0]
  <1>1. jsonl \in Rows /\ Len(jsonl) < MaxRows /\ jsonl' = Append(jsonl, event)
    BY DEF GradingTyped, Happens
  <1>2. /\ Len(jsonl) \in Nat /\ DOMAIN jsonl = 1..Len(jsonl)
        /\ \A i \in DOMAIN jsonl : jsonl[i].ts \in Nat /\ jsonl[i].block \in Nat
    <2>1. \A i \in DOMAIN jsonl : jsonl[i] \in Events
      BY <1>1, RowsAre
    <2> QED BY <1>1, <2>1, RowsAre DEF Events
  <1>3. t \in Nat
    <2>1. LastTime(jsonl) \in Nat
      <3>1. CASE jsonl = << >>
        BY <3>1 DEF LastTime
      <3>2. CASE jsonl # << >>
        <4>1. Len(jsonl) \in DOMAIN jsonl
          BY <1>1, <1>2, <3>2 DEF Rows
        <4> QED BY <1>2, <3>2, <4>1 DEF LastTime, Last
      <3> QED BY <3>1, <3>2
    <2> QED BY <2>1, GivenRuns
  <1> HIDE DEF t
  <1>4. RecentApply(t) \in Nat
    <2> DEFINE recent == {i \in Places(jsonl, {"applied"}) : t <= jsonl[i].ts + PostApplyWindow}
    <2>1. RecentApply(t) = IF recent = {} THEN 0 ELSE jsonl[Max(recent)].block
      BY DEF RecentApply
    <2>2. recent \subseteq DOMAIN jsonl /\ recent \subseteq 0..Len(jsonl)
      BY <1>2 DEF Places
    <2> HIDE DEF recent
    <2>3. recent # {} => Max(recent) \in DOMAIN jsonl
      BY <1>2, <2>2, GreatestOf
    <2> QED BY <1>2, <2>1, <2>3
  <1>5. kind \in EventTypes
    BY GradingAssumption DEF GradingAssumption, Kinds, EventTypes
  <1>6. event \in Events
    BY <1>2, <1>3, <1>4, <1>5, GivenRuns DEF Events
  <1> HIDE DEF event
  <1>7. jsonl' \in Rows /\ Len(jsonl') = Len(jsonl) + 1
    BY <1>1, <1>6 DEF Rows
  <1> QED BY <1>1, <1>2, <1>7, GivenRuns

LEMMA TypedStep == GradingTyped /\ GradingNext => GradingTyped'
  <1> SUFFICES ASSUME GradingTyped, GradingNext PROVE GradingTyped'
    OBVIOUS
  <1>1. CASE \E kind \in Kinds, gap \in Gaps : Happens(kind, gap)
    <2>1. PICK kind \in Kinds, gap \in Gaps : Happens(kind, gap)
      BY <1>1
    <2>2. jsonl' \in Rows /\ Len(jsonl') <= MaxRows
      BY <2>1, AppendedIsEvent
    <2>3. UNCHANGED <<track, leaves, db, run, grade>>
      BY <2>1 DEF Happens
    <2> QED BY <2>2, <2>3 DEF GradingTyped, FlooredStaysLow
  <1>2. CASE EmptyFile
    <2>1. << >> \in Rows /\ Len(<< >>) = 0
      BY DEF Rows
    <2>2. jsonl' = << >> /\ UNCHANGED <<track, leaves, db, run, grade>>
      BY <1>2 DEF EmptyFile
    <2> QED BY <2>1, <2>2, GivenRuns DEF GradingTyped, FlooredStaysLow
  <1>3. CASE HandIn
    <2>1. PICK fixed \in SUBSET HiddenTags, chats \in 0..(IF track = "vibe" THEN 1 ELSE 0),
               changed \in BOOLEAN, gap \in SubmitGaps :
             leaves' = [fixed |-> fixed, chats |-> chats, specificChats |-> chats, changed |-> changed,
                        submitted |-> LastTime(jsonl) + gap]
      BY <1>3 DEF HandIn
    <2>2. LastTime(jsonl) \in Nat
      <3>1. jsonl \in Rows
        BY DEF GradingTyped
      <3>2. CASE jsonl = << >>
        BY <3>2 DEF LastTime
      <3>3. CASE jsonl # << >>
        <4>1. Len(jsonl) \in DOMAIN jsonl
          BY <3>1, <3>3 DEF Rows
        <4> QED BY <3>1, <3>3, <4>1, RowsAre DEF LastTime, Last
      <3> QED BY <3>2, <3>3
    <2>3. LastTime(jsonl) + gap \in Nat /\ chats \in Nat
      BY <2>2, GivenRuns
    <2>4. leaves' \in Left
      BY <2>1, <2>3 DEF Left
    <2>5. run' = [run EXCEPT !.stage = "queued"] /\ UNCHANGED <<track, jsonl, db, grade>>
      BY <1>3 DEF HandIn
    <2> QED BY <2>4, <2>5 DEF GradingTyped, FlooredStaysLow
  <1>4. CASE Ingest
    <2>1. PICK raises \in BOOLEAN :
               /\ db' = IF raises THEN db ELSE Ingested(jsonl)
               /\ run' = [stage |-> "ingested", count |-> run.count + 1, clean |-> ~raises]
      BY <1>4 DEF Ingest
    <2>2. Ingested(jsonl) \in Data /\ Ingested(jsonl).rows = jsonl
      <3>1. jsonl \in Rows
        BY DEF GradingTyped
      <3>2. \A kind : Chars(jsonl, kind) \in Nat
        BY <3>1, CharsAtType DEF Chars
      <3> QED BY <3>1, <3>2 DEF Ingested, Data
    <2>3. db' \in Data /\ Len(db'.rows) <= MaxRows
      BY <2>1, <2>2 DEF GradingTyped
    <2>4. run.count + 1 \in 0..MaxRuns /\ UNCHANGED <<track, jsonl, leaves, grade>>
      BY <1>4, GivenRuns DEF Ingest, GradingTyped
    <2>5. run' \in [stage : {"working", "queued", "ingested", "graded", "failed"},
                    count : 0..MaxRuns, clean : BOOLEAN]
      BY <2>1, <2>4
    <2> QED BY <2>3, <2>4, <2>5 DEF GradingTyped, FlooredStaysLow
  <1>5. CASE RunsAgain
    BY <1>5 DEF RunsAgain, GradingTyped, FlooredStaysLow
  <1>6. CASE Grade
    <2>1. PICK faults \in {{}} \union {{stage} : stage \in Stages}, scan \in Scans[track],
               answer \in LlmAnswers :
                 IF "report" \in faults
                 THEN run' = [run EXCEPT !.stage = "failed"] /\ UNCHANGED grade
                 ELSE /\ grade' = GradeOf(db, Seen(db, scan, answer), faults)
                      /\ run' = [run EXCEPT !.stage = "graded", !.clean = @ /\ faults = {}]
      BY <1>6 DEF Grade
    <2>2. UNCHANGED <<track, jsonl, leaves, db>>
      BY <1>6 DEF Grade
    <2>3. CASE "report" \in faults
      BY <2>1, <2>2, <2>3 DEF GradingTyped, FlooredStaysLow
    <2>4. CASE "report" \notin faults
      <3>1. grade' = GradeOf(db, Seen(db, scan, answer), faults)
        BY <2>1, <2>4
      <3>2. /\ grade'.total \in 0..100
            /\ grade'.tampered => grade'.total <= 5
            /\ grade'.noShow => grade'.band \in {"weak", "reject"}
        BY <3>1, GradeIsBounded DEF GradingTyped
      <3>3. run' \in [stage : {"working", "queued", "ingested", "graded", "failed"},
                      count : 0..MaxRuns, clean : BOOLEAN]
        BY <2>1, <2>4 DEF GradingTyped
      <3> QED BY <2>2, <3>2, <3>3 DEF GradingTyped, FlooredStaysLow
    <2> QED BY <2>3, <2>4
  <1> QED BY <1>1, <1>2, <1>3, <1>4, <1>5, <1>6 DEF GradingNext

LEMMA TypedAlways == GradingSpec => []GradingTyped
  <1>1. GradingTyped /\ UNCHANGED gradingVars => GradingTyped'
    BY DEF GradingTyped, FlooredStaysLow, gradingVars
  <1> QED BY <1>1, TypedStart, TypedStep, PTL DEF GradingSpec

(* A grade is 0 to 100 whatever stage of the run failed and however many     *)
(* rubrics had no score, for any weights of the traps and any scan.          *)
THEOREM GradeInRange == GradingSpec => []GradingTypeOK
  <1>1. GradingTyped => GradingTypeOK
    BY DEF GradingTyped, GradingTypeOK
  <1> QED BY <1>1, TypedAlways, PTL

(* The gates are felt in the total: a tampered session has at most 5, and    *)
(* who took no part is weak or rejected, though a stage may have failed and  *)
(* though what has no score does not count.                                  *)
THEOREM FloorsAreFelt == GradingSpec => []FlooredStaysLow
  <1>1. GradingTyped => FlooredStaysLow
    BY DEF GradingTyped
  <1> QED BY <1>1, TypedAlways, PTL

(* One more run of the tests, at any moment of any session, does not lower   *)
(* the grade: each rubric stays or grows and none loses its score.           *)
THEOREM TestingNeverHurts == GradingSpec => []MoreTestsNeverHurt
  <1>1. GradingTyped => MoreTestsNeverHurt
    <2> SUFFICES ASSUME GradingTyped, NEW t \in 0..leaves.submitted, NEW scan \in Scans[track],
                        NEW answer \in LlmAnswers
                 PROVE  TotalOf(WithTestAt(t), scan, answer) >= TotalOf(jsonl, scan, answer)
      BY DEF MoreTestsNeverHurt
    <2>1. track \in Tracks /\ leaves \in Left /\ jsonl \in Rows
      BY DEF GradingTyped
    <2>2. t \in Nat
      BY <2>1 DEF Left, NA
    <2> DEFINE m == Cardinality({i \in DOMAIN jsonl : jsonl[i].ts <= t}) + 1
               more == WithTestAt(t)
    <2>3. OneMore(jsonl, more, m)
      BY <2>1, <2>2, InsertedIsOneMore
    <2> HIDE DEF m, more
    <2>4. TotalOf(more, scan, answer) >= TotalOf(jsonl, scan, answer)
      BY <2>1, <2>3, TotalRaised
    <2> QED BY <2>4 DEF more
  <1> QED BY <1>1, TypedAlways, PTL

----------------------------------------------------------------------------
(* The commits.  The setup stays the first two commits; whoever commits      *)
(* afterwards is a candidate, and one who did not touch the tree commits the *)
(* one that was handed over.                                                 *)

SetupFirst ==
  /\ Len(branch) >= 2 /\ branch[2].subject # "auto" /\ branch[2].tree = HandedTree
  /\ \A i \in DOMAIN branch :
       IF i <= 2 THEN branch[i].email = "bot" ELSE branch[i].email \in {"candidate", "own"}

Untouched ==
  ~touched => /\ desk.tree = HandedTree
              /\ \A i \in 3..Len(branch) : branch[i].tree = HandedTree /\ ~branch[i].large

CommitRecord ==
  [subject : {"import", "provision", "auto", "hand", "submit"},
   email : {"bot", "candidate", "own"}, tree : 0..MaxTree, large : BOOLEAN]

CommitsInv ==
  /\ CommitsTypeOK
  /\ branch \in Seq(CommitRecord)
  /\ desk \in [tree : 0..MaxTree, configured : BOOLEAN]
  /\ SetupFirst /\ Untouched

\* The newest of some commits within reach, or none of them is.
LEMMA NewestWithinReach ==
  ASSUME CommitsInv, NEW C, C \subseteq DOMAIN branch
  PROVE  /\ Newest(C) \in 0..Len(branch)
         /\ Newest(C) # NoCommit => Newest(C) \in C /\ Newest(C) > Len(branch) - Depth
         /\ \A i \in C : i > Len(branch) - Depth => i <= Newest(C)
  <1> DEFINE S == {i \in C : i > Len(branch) - Depth} \union {NoCommit}
  <1>1. Len(branch) \in Nat /\ S \subseteq 0..Len(branch) /\ S # {}
    BY DEF CommitsInv, NoCommit
  <1>2. Max(S) \in S /\ \A i \in S : i <= Max(S)
    <2> HIDE DEF S
    <2> QED BY <1>1, GreatestOf
  <1> QED BY <1>1, <1>2 DEF Newest, NoCommit

LEMMA TreesOf ==
  ASSUME NEW s \in Seq(CommitRecord)
  PROVE  \A i \in DOMAIN s : s[i].tree \in 0..MaxTree
  <1> SUFFICES ASSUME NEW i \in DOMAIN s PROVE s[i].tree \in 0..MaxTree
    OBVIOUS
  <1>1. s[i] \in CommitRecord
    OBVIOUS
  <1> QED BY <1>1 DEF CommitRecord

LEMMA CommitsStart == CommitsInit => CommitsInv
  <1> SUFFICES ASSUME CommitsInit PROVE CommitsInv
    OBVIOUS
  <1>1. /\ branch = <<Commit("import", "bot", ImportTree, FALSE),
                      Commit("provision", "bot", HandedTree, TRUE)>>
        /\ desk = [tree |-> HandedTree, configured |-> FALSE] /\ touched = FALSE
    BY DEF CommitsInit
  <1>2. /\ Commit("import", "bot", ImportTree, FALSE) \in CommitRecord
        /\ Commit("provision", "bot", HandedTree, TRUE) \in CommitRecord
        /\ HandedTree \in 0..MaxTree /\ 2 \in 2..MaxCommits
    BY CommitsAssumption DEF Commit, CommitRecord, ImportTree, HandedTree
  <1>3. /\ branch \in Seq(CommitRecord) /\ Len(branch) = 2
        /\ DOMAIN branch = {1, 2} /\ branch[1].email = "bot" /\ branch[2].email = "bot" /\ branch[2].subject # "auto"
        /\ branch[2].tree = HandedTree
    BY <1>1, <1>2 DEF Commit
  <1>4. SetupFirst /\ Untouched
    <2>1. SetupFirst
      BY <1>3 DEF SetupFirst
    <2>2. 3..Len(branch) = {}
      BY <1>3
    <2> QED BY <1>1, <2>1, <2>2 DEF Untouched
  <1>5. CommitsTypeOK /\ desk \in [tree : 0..MaxTree, configured : BOOLEAN]
    BY <1>1, <1>2, <1>3, TreesOf DEF CommitsTypeOK
  <1> QED BY <1>3, <1>4, <1>5 DEF CommitsInv

\* A commit under another name than the bot's keeps everything.
LEMMA PushKeeps ==
  ASSUME CommitsInv, NEW subject \in {"auto", "hand", "submit"}, NEW email \in {"candidate", "own"},
         Push(subject, email), desk' \in [tree : 0..MaxTree, configured : BOOLEAN],
         desk'.tree = desk.tree, touched' = touched
  PROVE  CommitsInv'
  <1>1. /\ branch \in Seq(CommitRecord) /\ Len(branch) \in 2..MaxCommits /\ desk.tree \in 0..MaxTree
        /\ SetupFirst /\ Untouched
    BY DEF CommitsInv, CommitsTypeOK
  <1>2. PICK large \in {FALSE, desk.tree # Tip.tree} :
             branch' = Append(branch, Commit(subject, email, desk.tree, large))
    BY DEF Push
  <1> DEFINE new == Commit(subject, email, desk.tree, large)
             n == Len(branch)
  <1>3. new \in CommitRecord /\ new.tree = desk.tree /\ new.large = large /\ new.email = email
    BY <1>1 DEF Commit, CommitRecord
  <1>4. n \in Nat /\ n >= 2 /\ n < MaxCommits /\ DOMAIN branch = 1..n
    BY <1>1 DEF Push
  <1> HIDE DEF new
  <1>5. /\ branch' \in Seq(CommitRecord) /\ Len(branch') = n + 1 /\ DOMAIN branch' = 1..(n + 1)
        /\ branch'[n + 1] = new /\ \A i \in 1..n : branch'[i] = branch[i]
    BY <1>1, <1>2, <1>3, <1>4 DEF new
  <1>6. CommitsTypeOK'
    <2>1. n + 1 \in 2..MaxCommits
      BY <1>4, CommitsAssumption
    <2>2. \A i \in DOMAIN branch' : branch'[i].tree \in 0..MaxTree
      BY <1>5, TreesOf
    <2> QED BY <1>5, <2>1, <2>2 DEF CommitsTypeOK
  <1>7. SetupFirst'
    BY <1>1, <1>3, <1>4, <1>5 DEF SetupFirst
  <1>8. Untouched'
    <2> SUFFICES ASSUME ~touched
                 PROVE  /\ desk'.tree = HandedTree
                        /\ \A i \in 3..Len(branch') : branch'[i].tree = HandedTree /\ ~branch'[i].large
      BY DEF Untouched
    <2>1. desk.tree = HandedTree /\ \A i \in 3..n : branch[i].tree = HandedTree /\ ~branch[i].large
      BY <1>1 DEF Untouched
    <2>2. branch[n].tree = HandedTree
      BY <1>1, <1>4, <2>1 DEF SetupFirst
    <2>3. Tip = branch[n]
      BY <1>4 DEF Tip, Last
    <2>4. ~large
      BY <1>2, <2>1, <2>2, <2>3
    <2> QED BY <1>3, <1>4, <1>5, <2>1, <2>4
  <1> QED BY <1>5, <1>6, <1>7, <1>8 DEF CommitsInv

LEMMA CommitsStep == CommitsInv /\ CommitsNext => CommitsInv'
  <1> SUFFICES ASSUME CommitsInv, CommitsNext PROVE CommitsInv'
    OBVIOUS
  <1>1. /\ branch \in Seq(CommitRecord) /\ Len(branch) \in 2..MaxCommits
        /\ desk \in [tree : 0..MaxTree, configured : BOOLEAN]
        /\ SetupFirst /\ Untouched
    BY DEF CommitsInv, CommitsTypeOK
  <1>2. CASE ChangeTree
    BY <1>2 DEF ChangeTree, CommitsInv, CommitsTypeOK, SetupFirst, Untouched
  <1>3. CASE Chat
    BY <1>3 DEF Chat, CommitsInv, CommitsTypeOK, SetupFirst, Untouched
  <1>4. CASE IntervalCommit
    BY <1>1, <1>4, PushKeeps DEF IntervalCommit
  <1>5. CASE HandCommit
    BY <1>1, <1>5, PushKeeps DEF HandCommit
  <1>6. CASE CloneAgain
    <2>1. desk' = [tree |-> Tip.tree, configured |-> FALSE] /\ UNCHANGED <<branch, touched>>
      BY <1>6 DEF CloneAgain
    <2>2. Tip = branch[Len(branch)] /\ Len(branch) \in DOMAIN branch
      BY <1>1 DEF Tip, Last
    <2>3. Tip.tree \in 0..MaxTree
      BY <1>1, <2>2, TreesOf
    <2>4. ~touched => Tip.tree = HandedTree
      BY <1>1, <2>2 DEF SetupFirst, Untouched
    <2> QED BY <2>1, <2>3, <2>4 DEF CommitsInv, CommitsTypeOK, SetupFirst, Untouched
  <1>7. CASE SubmitCommit
    BY <1>1, <1>7, PushKeeps DEF SubmitCommit
  <1>8. CASE SweepSubmits
    BY <1>8 DEF SweepSubmits, CommitsInv, CommitsTypeOK, SetupFirst, Untouched
  <1> QED BY <1>2, <1>3, <1>4, <1>5, <1>6, <1>7, <1>8 DEF CommitsNext

LEMMA ToldApart == CommitsInv => SetupIsToldApart
  <1> SUFFICES ASSUME CommitsInv PROVE SetupIsToldApart
    OBVIOUS
  <1> USE CommitsAssumption
  <1>1. /\ Len(branch) \in Nat /\ Len(branch) >= 2 /\ DOMAIN branch = 1..Len(branch)
        /\ SetupFirst /\ Untouched
    BY DEF CommitsInv, CommitsTypeOK
  <1>2. ASSUME \A i \in DOMAIN branch : branch[i].email # "own", StarterBase # NoCommit
        PROVE  branch[StarterBase].tree = HandedTree
    <2> DEFINE bots == {i \in DOMAIN branch : branch[i].email # "candidate"}
    <2>1. bots = {1, 2}
      BY <1>1, <1>2 DEF SetupFirst
    <2>2. /\ StarterBase \in bots /\ StarterBase > Len(branch) - Depth
          /\ \A i \in bots : i > Len(branch) - Depth => i <= StarterBase
      BY <1>2, NewestWithinReach DEF StarterBase
    <2>3. StarterBase = 2
      BY <1>1, <2>1, <2>2
    <2> QED BY <1>1, <2>3 DEF SetupFirst
  <1>3. ASSUME CandidateBase # NoCommit
        PROVE  CandidateBase \in 2..Len(branch)
    <2> DEFINE works == {i \in DOMAIN branch : branch[i].subject # "auto"}
    <2>1. /\ CandidateBase \in works /\ CandidateBase > Len(branch) - Depth
          /\ \A i \in works : i > Len(branch) - Depth => i <= CandidateBase
      BY <1>3, NewestWithinReach DEF CandidateBase
    <2>2. 2 \in works
      BY <1>1 DEF SetupFirst
    <2>3. CandidateBase \in DOMAIN branch
      BY <2>1
    <2> QED BY <1>1, <2>1, <2>2, <2>3
  <1>4. \A i \in Recoveries : i \in 3..Len(branch) /\ branch[i].large
    BY <1>1, <1>3 DEF Recoveries
  <1>5. \A i \in Recoveries : branch[i].email # "bot"
    BY <1>1, <1>4 DEF SetupFirst
  <1>6. ASSUME ~touched PROVE ~CodeChanged /\ Recoveries = {}
    <2>1. \A i \in 2..Len(branch) : branch[i].tree = HandedTree
      BY <1>1, <1>6 DEF SetupFirst, Untouched
    <2>2. Tip.tree = HandedTree
      BY <1>1, <2>1 DEF Tip, Last
    <2>3. ~CodeChanged
      BY <1>3, <2>1, <2>2 DEF CodeChanged
    <2>4. Recoveries = {}
      BY <1>1, <1>4, <1>6 DEF Untouched
    <2> QED BY <2>3, <2>4
  <1> QED BY <1>2, <1>5, <1>6 DEF SetupIsToldApart

(* Both ways of finding where the candidate's work begins tell the setup     *)
(* apart, for any number of trees and commits and any depth of the clone.    *)
THEOREM SetupStaysApart == CommitsSpec => []SetupIsToldApart
  <1>1. CommitsInv /\ [CommitsNext]_commitVars => CommitsInv'
    <2>1. CommitsInv /\ UNCHANGED commitVars => CommitsInv'
      BY DEF CommitsInv, CommitsTypeOK, SetupFirst, Untouched, commitVars
    <2> QED BY <2>1, CommitsStep
  <1> QED BY <1>1, CommitsStart, ToldApart, PTL DEF CommitsSpec
=============================================================================
