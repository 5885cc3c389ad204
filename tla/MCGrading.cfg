\* Three rows and three tries, as in fail_job; two events and two ends of the
\* host; two tags; four commits in a clone of depth three; two events in a
\* session and two grading runs.
CONSTANTS
  s1 = s1
  s2 = s2
  Sessions <- TwoSessions
  MaxAttempts = 3
  MaxJobs = 3
  WorkerMayCrash = TRUE
  Body <- AllReports
  Cap = 5
  Threshold = 5
  MaxLogged = 3
  MaxEnds = 2
  HostMayCrash = TRUE
  MaxEvents = 2
  MaxFailedWrites = 1
  g1 = g1
  g2 = g2
  TaskTags <- TwoTags
  TrapTags <- OneTag
  MaxTree = 2
  MaxCommits = 4
  Depth = 3
  EventKinds = {"typed", "applied", "rejected", "test"}
  EventChars = 30
  Gaps = {1, 4}
  SubmitGaps = {1, 11}
  HiddenTags <- OneTag
  TrapSeverity <- OneSeverity
  Scans <- TwoScans
  LlmAnswers <- AskedAgain
  MaxRows = 2
  MaxRuns = 2
SPECIFICATION Spec
INVARIANTS OldestFirst HonestPushPasses ReportsAgree RemovalIsNoticed EachTagOnItsOwn
  SetupIsToldApart MoreTestsNeverHurt FlooredStaysLow RegradeAgrees
PROPERTIES EveryJobAnswered AnchorIsRecorded
CHECK_DEADLOCK FALSE
