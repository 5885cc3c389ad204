----------------------------- MODULE MCGrading -----------------------------
(* The queue, the telemetry's anchor, the stages of a grading run and the    *)
(* run as a whole, on small instances in one run: a behaviour is of one      *)
(* part, chosen at the start.                                                *)
EXTENDS JobQueue, TelemetryAnchor, HiddenTests, CandidateCommits, GradingRun

CONSTANTS s1, s2, g1, g2

VARIABLE part

AllReports == Report
TwoSessions == {s1, s2}
OneTag == {g1}
TwoTags == {g1, g2}
OneSeverity == [t \in OneTag |-> 2]
\* A TTL cache with the assistant, an LRU cache without.
TwoScans ==
  [vibe |-> {[parts |-> TtlCacheParts([lock |-> TRUE, rlock |-> FALSE, monotonic |-> FALSE,
                                       wall |-> TRUE, lazy |-> TRUE]),
              bonus |-> [notes |-> TRUE, feature |-> TRUE, threadSafe |-> FALSE]]},
   non_ai |-> {[parts |-> LruCacheParts([mutex |-> TRUE, sharedMutex |-> FALSE, sharedLock |-> FALSE,
                                         constSize |-> FALSE, mutableMutex |-> FALSE]),
                bonus |-> [notes |-> FALSE, feature |-> FALSE, threadSafe |-> FALSE]]}]
AskedAgain == {<<Garbled, 700>>}

vars == <<part, qvars, anchorVars, testVars, commitVars, gradingVars>>

\* The many submissions that TestsInit starts from matter to its own part.
Init ==
  /\ part \in {"queue", "anchor", "tests", "commits", "grading"}
  /\ QInit /\ AnchorInit /\ TestsInit /\ CommitsInit /\ GradingInit
  /\ part # "tests" =>
       /\ clone = [install |-> "pass", tag |-> [t \in AllTags |-> "pass"]] /\ backend = "cpp"
       /\ config = [metadata |-> TRUE, rubric |-> TRUE, traps |-> TRUE]
  /\ part # "grading" => track = "vibe"

QueueOnly == UNCHANGED <<part, anchorVars, testVars, commitVars, gradingVars>>
AnchorOnly == UNCHANGED <<part, qvars, testVars, commitVars, gradingVars>>
TestsOnly == UNCHANGED <<part, qvars, anchorVars, commitVars, gradingVars>>
CommitsOnly == UNCHANGED <<part, qvars, anchorVars, testVars, gradingVars>>
GradingOnly == UNCHANGED <<part, qvars, anchorVars, testVars, commitVars>>

Next ==
  \/ part = "queue" /\ QNext /\ QueueOnly
  \/ part = "anchor" /\ AnchorNext /\ AnchorOnly
  \/ part = "tests" /\ TestsNext /\ TestsOnly
  \/ part = "commits" /\ CommitsNext /\ CommitsOnly
  \/ part = "grading" /\ GradingNext /\ GradingOnly

\* A part that was not chosen never enables what its fairness is about.
Spec == Init /\ [][Next]_vars /\ QFairness /\ AnchorFairness
=============================================================================
