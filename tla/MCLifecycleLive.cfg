\* One interview, requests served one at a time, nothing dies, three tries.
\* The clock runs past every deadline the last request can set.
SPECIFICATION FairSpec
CONSTANTS
  s1 = s1
  r1 = r1
  r2 = r2
  Sessions <- OneSession
  Requests <- OneRequest
  OpensAt <- OpensAlways
  NoSession = NoSession
  NoFlag = NoFlag
  MaxAttempts = 3
  MaxJobs = 4
  WorkerMayCrash = FALSE
  MaxServerCrashes = 0
  Limit = 1
  Grace = 2
  LastCall = 4
  MaxTime = 7
PROPERTIES
  AbandonedIsReaped
  SubmissionSettles
\* The clock stops at MaxTime and every interview comes to rest.
CHECK_DEADLOCK FALSE
