------------------------------ MODULE Scoring ------------------------------
(***************************************************************************)
(* How a session becomes a number (server/vibe/grader): the signals that   *)
(* signals.py derives from the rows of the telemetry table, the rubrics    *)
(* that weigh them, and the total and band of report.py.  Operators only;  *)
(* GradingRun is the run that applies them.                                *)
(*                                                                         *)
(* Scores are in hundredths of a point, ratios in thousandths, mean sizes  *)
(* in tenths of a character, as far as the code rounds them.  Time is in   *)
(* units of half a minute.  What a language model answers is external: a   *)
(* score is given with the session.                                        *)
(***************************************************************************)
EXTENDS SumOfSeq, FiniteSets, FiniteSetsExt

PostApplyWindow == 3
TestAfterEditWindow == 3
EditBurstGap == 2
PreSubmitWindow == 10
Fallback == 500
NearZero == 50
MinEngagedChars == 40

NA == -1
Garbled == -2

\* Python's round: to the nearest, a half to the even one.
RoundDiv(a, b) ==
  LET q == a \div b
      r == a % b
  IN  IF 2 * r < b \/ (2 * r = b /\ q % 2 = 0) THEN q ELSE q + 1

Least(a, b) == IF a < b THEN a ELSE b
\* A ratio in thousandths, or NA when there is nothing to compare with.
Ratio(part, whole) == IF whole = 0 THEN NA ELSE RoundDiv(1000 * part, whole)

\* The score of the first step the value clears.
FirstStep(steps, Clears(_), otherwise) ==
  LET hit == {i \in DOMAIN steps : Clears(steps[i][1])}
  IN  IF hit = {} THEN otherwise ELSE steps[Min(hit)][2]
Over(x, steps, otherwise) == FirstStep(steps, LAMBDA s : x > s, otherwise)
From(x, steps, otherwise) == FirstStep(steps, LAMBDA s : x >= s, otherwise)
Under(x, steps, otherwise) == FirstStep(steps, LAMBDA s : x < s, otherwise)

(* weighted_average: parts without a score do not count.                     *)
WeightedAverage(parts) ==
  LET Weight(i) == IF parts[i][1] = NA THEN 0 ELSE parts[i][2]
      weight == SumOf([i \in DOMAIN parts |-> Weight(i)])
  IN  IF weight = 0 THEN NA
      ELSE RoundDiv(SumOf([i \in DOMAIN parts |-> parts[i][1] * Weight(i)]), weight)

----------------------------------------------------------------------------
(* Signals.  A row is [ts, kind, file, chars, block, of]: `block` is the AI  *)
(* block of an apply, `of` the one an edit was made after.  The rows are in  *)
(* the order of their times.                                                 *)

Places(rows, kinds) == {i \in DOMAIN rows : rows[i].kind \in kinds}
TimesOf(rows, kinds) == {rows[i].ts : i \in Places(rows, kinds)}
CharsAt(rows, places) == SumOf([i \in DOMAIN rows |-> IF i \in places THEN rows[i].chars ELSE 0])
Chars(rows, kind) == CharsAt(rows, Places(rows, {kind}))
HandEdits == {"typed", "pasted"}

\* Those of the places that had a test in the window after them.
Covered(rows, places, window) ==
  {i \in places : \E u \in TimesOf(rows, {"test"}) : u \in rows[i].ts..(rows[i].ts + window)}

\* Mutant: measured against the tests there were.
TestAfterApplyPerTest(rows) ==
  LET applies == Places(rows, {"applied"})
  IN  IF applies = {} THEN NA
      ELSE Least(1000, Ratio(Cardinality(Covered(rows, applies, PostApplyWindow)),
                             Cardinality(Places(rows, {"test"}))))
(* _test_after_apply.                                                        *)
TestAfterApply(rows) ==
  LET applies == Places(rows, {"applied"})
  IN  Ratio(Cardinality(Covered(rows, applies, PostApplyWindow)), Cardinality(applies))

(* _apply_then_edit and _modify_after_apply, which agree when every apply    *)
(* has a block id.                                                           *)
Blocks(rows) == {rows[i].block : i \in Places(rows, {"applied"})}
ReviewedRate(rows) ==
  LET edited == {rows[i].of : i \in Places(rows, HandEdits)}
  IN  Ratio(Cardinality(Blocks(rows) \intersect edited), Cardinality(Blocks(rows)))

\* statistics.mean of the sizes above 0, in tenths: their sum and their number.
MeanTenths(sum, count) == IF count = 0 THEN 0 ELSE RoundDiv(10 * sum, count)

(* _incremental_apply: mean size, and how many neighbours have a test        *)
(* strictly between them.                                                    *)
TestedApart(rows, i, j) == \E u \in TimesOf(rows, {"test"}) : rows[i].ts < u /\ u < rows[j].ts
IncrementalApply(rows) ==
  LET applies == Places(rows, {"applied"})
      Neighbours(i, j) == i < j /\ \A k \in applies : k <= i \/ j <= k
      between == {i \in applies : \E j \in applies : Neighbours(i, j) /\ TestedApart(rows, i, j)}
  IN  IF applies = {} THEN [mean |-> NA, between |-> 0]
      ELSE [mean |-> MeanTenths(Chars(rows, "applied"),
                                Cardinality({i \in applies : rows[i].chars > 0})),
            between |-> IF Cardinality(applies) = 1 THEN 0
                        ELSE Ratio(Cardinality(between), Cardinality(applies) - 1)]

(* _edit_bursts: hand edits with no gap longer than a minute.  A burst is    *)
(* known by the place of its last edit.                                      *)
Bursts(rows) ==
  LET edits == Places(rows, HandEdits)
  IN  {i \in edits : \A j \in edits : i < j => rows[j].ts - rows[i].ts > EditBurstGap}

(* _test_after_edit, _incremental_edit.                                      *)
TestAfterEdit(rows) ==
  LET bursts == Bursts(rows)
  IN  Ratio(Cardinality(Covered(rows, bursts, TestAfterEditWindow)), Cardinality(bursts))
MeanBurst(rows) ==
  LET bursts == Bursts(rows)
      edits == Places(rows, HandEdits)
      InBurst(j, i) == j <= i /\ ~ \E k \in bursts : j <= k /\ k < i
      written == {i \in bursts : \E j \in edits : InBurst(j, i) /\ rows[j].chars > 0}
  IN  IF bursts = {} THEN NA ELSE MeanTenths(CharsAt(rows, edits), Cardinality(written))

(* _ai_output_modified_ratio: characters typed into a file strictly within   *)
(* the window after an apply to it, in hundredths of what was applied.       *)
ReworkRatio(rows) ==
  LET reworked == {i \in Places(rows, {"typed"}) : \E a \in Places(rows, {"applied"}) :
                     /\ rows[a].file = rows[i].file
                     /\ rows[a].ts < rows[i].ts /\ rows[i].ts - rows[a].ts < PostApplyWindow}
      applied == Chars(rows, "applied")
  IN  IF applied = 0 THEN 0 ELSE Least(100, RoundDiv(100 * CharsAt(rows, reworked), applied))

(* _pre_submit_test_run.                                                     *)
TestedBeforeSubmit(rows, submitted) ==
  submitted = NA \/ \E u \in TimesOf(rows, {"test"}) : u \in (submitted - PreSubmitWindow)..submitted

(* build: everything the rubrics read.  The session's counters are read from *)
(* its row, not from the events.                                             *)
Signals(rows, s) ==
  [files |-> Cardinality({rows[i].file : i \in Places(rows, {"open"})}),
   tests |-> Cardinality(Places(rows, {"test"})),
   debugger |-> Places(rows, {"debug"}) # {},
   selfAuthored |-> Ratio(s.typed, s.typed + s.applied),
   rework |-> ReworkRatio(rows),
   chats |-> s.chats,
   specific |-> IF s.chats = 0 THEN NA ELSE RoundDiv(100 * s.specificChats, s.chats),
   testAfterApply |-> TestAfterApply(rows),
   reviewed |-> ReviewedRate(rows),
   applies |-> Cardinality(Blocks(rows)),
   incremental |-> IncrementalApply(rows),
   rejections |-> Cardinality(Places(rows, {"rejected"})),
   testAfterEdit |-> TestAfterEdit(rows),
   meanBurst |-> MeanBurst(rows),
   tested |-> TestedBeforeSubmit(rows, s.submitted),
   recoveries |-> s.recoveries]

(* What a run goes on with when build raised.                                *)
DefaultSignals ==
  [files |-> 0, tests |-> 0, debugger |-> FALSE, selfAuthored |-> NA, rework |-> 0,
   chats |-> 0, specific |-> NA, testAfterApply |-> NA, reviewed |-> NA, applies |-> 0,
   incremental |-> [mean |-> NA, between |-> 0], rejections |-> 0, testAfterEdit |-> NA,
   meanBurst |-> NA, tested |-> TRUE, recoveries |-> NA]

----------------------------------------------------------------------------
(* Rubrics *)

(* _tests_rubric: `run` is 0 when the build failed.                          *)
TestsRubric(passed, run) == IF run = 0 THEN 0 ELSE RoundDiv(1000 * passed, run)
(* _traps_rubric, by severity.                                               *)
TrapsRubric(detected, all) == IF all = 0 THEN 0 ELSE RoundDiv(1000 * detected, all)

(* classify: one class for every trap of the session; `reviewed` and the     *)
(* ratio are trap_attribution's own, derived as above.                       *)
TrapClass(rows, s) ==
  LET self == Ratio(s.typed, s.typed + s.applied) IN
  CASE Blocks(rows) = {} \/ self >= 850 -> "hand-fixed"
    [] Blocks(rows) # {} /\ self < 850 /\ ReviewedRate(rows) >= 300 -> "ai-fixed-reviewed"
    [] OTHER -> "ai-fixed-blind"

TestAfterBand(ratio, neutral) ==
  IF ratio = NA THEN neutral
  ELSE Over(ratio, <<<<800, 950>>, <<500, 700>>, <<300, 500>>, <<0, 300>>>>, 100)
ApplyThenEditBand(rate) ==
  IF rate = NA THEN NA
  ELSE Over(rate, <<<<500, 900>>, <<250, 700>>, <<100, 500>>, <<0, 300>>>>, 200)
SelfAuthoredBand(ratio) ==
  CASE ratio = NA -> NA
    [] ratio \in 400..700 -> 900
    [] ratio \in 300..399 \/ ratio \in 701..850 -> 700
    [] ratio \in 200..299 \/ ratio \in 851..950 -> 500
    [] OTHER -> 300
IncrementalBand(inc) ==
  IF inc.mean = NA THEN NA
  ELSE Least(1000, Under(inc.mean, <<<<2000, 800>>, <<5000, 700>>, <<20000, 500>>>>, 300)
                   + RoundDiv(inc.between, 10))
IncrementalEditBand(mean) ==
  IF mean = NA THEN 700
  ELSE Under(mean, <<<<4000, 800>>, <<12000, 600>>, <<30000, 500>>>>, 300)

(* verification_discipline.score.                                            *)
Verification(track, sig) ==
  LET weighted ==
        IF track = "vibe"
        THEN WeightedAverage(<<<<TestAfterBand(sig.testAfterApply, NA), 40>>,
                               <<ApplyThenEditBand(sig.reviewed), 25>>,
                               <<SelfAuthoredBand(sig.selfAuthored), 20>>,
                               <<IncrementalBand(sig.incremental), 15>>>>)
        ELSE RoundDiv(TestAfterBand(sig.testAfterEdit, 500) * 50 + 900 * 25
                      + IncrementalEditBand(sig.meanBurst) * 25, 100)
  IN  IF weighted = NA \/ sig.tested THEN weighted ELSE Least(weighted, 600)

(* ai_judgment.score; `detected` traps, all of the one class.                *)
AiJudgment(sig, detected, class) ==
  LET engaged == sig.applies > 0 \/ sig.rejections > 0 \/ sig.chats > 0
      rejections == IF ~engaged \/ sig.rejections = 0 THEN NA
                    ELSE From(sig.rejections, <<<<3, 900>>, <<2, 700>>>>, 500)
      modified == IF sig.reviewed = NA THEN NA
                  ELSE From(sig.reviewed, <<<<500, 900>>, <<250, 700>>, <<100, 500>>, <<1, 400>>>>, 300)
      hand == IF detected = 0 THEN NA
              ELSE CASE class = "hand-fixed" -> 900 [] class = "ai-fixed-reviewed" -> 500 [] OTHER -> 300
      recovery == IF sig.recoveries \in {NA, 0} THEN NA
                  ELSE Under(sig.recoveries, <<<<3, 900>>, <<6, 700>>>>, 400)
  IN  WeightedAverage(<<<<rejections, 30>>, <<modified, 30>>, <<hand, 25>>, <<recovery, 15>>>>)

(* developer_signals.score, whose own scale is 0 to 100.                     *)
DeveloperSignal(track, sig) ==
  LET files == Least(sig.files, 5)
      tests == Least(sig.tests, 3)
      debugger == IF sig.debugger THEN 15 ELSE 0
      spec == IF sig.specific = NA THEN 0 ELSE sig.specific
      hundred == IF track = "vibe"
                 THEN RoundDiv(90 * files + 6 * sig.rework + 9 * spec + 100 * tests + 30 * debugger, 30)
                 ELSE RoundDiv(15 * files + 25 * tests + 2 * debugger, 2)
  IN  10 * Least(hundred, 100)

(* challenge_specific.score: what the scan of the code found, feature by     *)
(* feature; a challenge without a handler has no parts.                      *)
TtlCacheParts(f) ==
  <<CASE f.rlock -> 600 [] f.lock /\ ~f.rlock -> 900 [] OTHER -> 200,
    CASE f.monotonic -> IF f.wall THEN 700 ELSE 900 [] f.wall /\ ~f.monotonic -> 300 [] OTHER -> 500,
    IF f.lazy THEN 900 ELSE 400>>
LruCacheParts(f) ==
  <<CASE f.sharedMutex /\ f.sharedLock -> 250
      [] f.mutex /\ ~(f.sharedMutex /\ f.sharedLock) -> 900
      [] f.sharedMutex /\ ~f.sharedLock /\ ~f.mutex -> 700
      [] OTHER -> 200,
    IF f.constSize THEN IF f.mutableMutex THEN 900 ELSE 600
    ELSE IF f.mutableMutex THEN 700 ELSE 400>>
ChallengeScore(parts) ==
  IF parts = << >> THEN Fallback ELSE RoundDiv(SumOf(parts), Len(parts))
(* product_sense_bonus, on top of the architecture score.                    *)
ProductBoost(b) ==
  Least(100, (IF b.notes THEN 50 ELSE 0) + (IF b.feature THEN 25 ELSE 0)
             + (IF b.threadSafe /\ b.feature THEN 25 ELSE 0))
Boosted(arch, b) == IF arch = NA THEN NA ELSE Least(1000, arch + ProductBoost(b))

(* _single_call, twice at most: an answer that is no JSON is asked for again *)
(* once, an error of the call ends it.                                       *)
Answer(tries) ==
  LET final == IF tries[1] = Garbled THEN tries[2] ELSE tries[1]
  IN  IF final = Garbled THEN NA ELSE final
(* _eval_rubric: without an answer the score is the fallback.                *)
LlmScore(tries) == IF Answer(tries) = NA THEN Fallback ELSE Answer(tries)
(* _eval_llm_communication: no chat, no call.                                *)
Communication(track, chats, tries) ==
  CASE track # "vibe" -> NA [] chats = 0 -> 100 [] OTHER -> LlmScore(tries)

----------------------------------------------------------------------------
(* Report *)

Rubrics == <<"tests", "traps", "code_quality", "architectural_reasoning", "challenge_specific",
             "verification_discipline", "ai_judgment", "llm_communication", "developer_signal">>
Dimensions == ToSet(Rubrics)
NonObjective == Dimensions \ {"tests", "traps"}

Weights(track) ==
  IF track = "vibe"
  THEN [tests |-> 18, traps |-> 11, code_quality |-> 13, architectural_reasoning |-> 9,
        challenge_specific |-> 5, verification_discipline |-> 12, ai_judgment |-> 7,
        llm_communication |-> 15, developer_signal |-> 10]
  ELSE [tests |-> 22, traps |-> 14, code_quality |-> 17, architectural_reasoning |-> 14,
        challenge_specific |-> 9, verification_discipline |-> 14, ai_judgment |-> 0,
        llm_communication |-> 0, developer_signal |-> 10]

\* Mutant: a floored dimension is dropped from the total.
FloorDrops(dims, keys) == [d \in Dimensions |-> IF d \in keys THEN NA ELSE dims[d]]
(* _floor_dims: what has no score keeps none.                                *)
FloorDims(dims, keys) ==
  [d \in Dimensions |-> IF d \in keys THEN Least(dims[d], NearZero) ELSE dims[d]]

(* _rubric_entry and _weighted_total: each rubric is rounded to 0..100, and  *)
(* those without a score, or of the other track, do not count.               *)
Total(track, dims) ==
  LET points(d) == IF dims[d] = NA THEN NA ELSE RoundDiv(dims[d], 10)
      average == WeightedAverage([i \in DOMAIN Rubrics |-> <<points(Rubrics[i]), Weights(track)[Rubrics[i]]>>])
  IN  IF average = NA THEN 0 ELSE average

(* _band.                                                                    *)
BandOf(total) ==
  From(total, <<<<90, "outstanding">>, <<70, "good">>, <<50, "acceptable">>, <<30, "weak">>>>, "reject")
=============================================================================
