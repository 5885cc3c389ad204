\* Two overlapping calls of POST /validate-session; nothing dies.
SPECIFICATION FairSpec
CONSTANTS
  s1 = s1
  r1 = r1
  r2 = r2
  Sessions <- OneSession
  Requests <- TwoRequests
  OpensAt <- OpensAlways
  NoSession = NoSession
  NoFlag = NoFlag
  MaxAttempts = 2
  MaxJobs = 5
  WorkerMayCrash = FALSE
  MaxServerCrashes = 0
  Limit = 1
  Grace = 2
  LastCall = 3
  MaxTime = 5
PROPERTIES
  SubmissionSettles
\* The clock stops at MaxTime and every interview comes to rest.
CHECK_DEADLOCK FALSE
