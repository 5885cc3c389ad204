\* One panel interview, two requests in flight, the worker and the API server
\* may die.  Two tries are enough for a retry and for giving up; five rows are
\* more than two request slots can insert.
SPECIFICATION Spec
CONSTANTS
  s1 = s1
  r1 = r1
  r2 = r2
  Sessions <- OneSession
  Requests <- TwoRequests
  OpensAt <- OpensAtTwo
  NoSession = NoSession
  NoFlag = NoFlag
  MaxAttempts = 2
  MaxJobs = 5
  WorkerMayCrash = TRUE
  MaxServerCrashes = 1
  Limit = 1
  Grace = 2
  LastCall = 4
  MaxTime = 4
SYMMETRY RequestSymmetry
INVARIANTS
  GradedHasReport
  SubmittedIsQueued
  PanelClockWaits
PROPERTIES
  ClockIsWriteOnce
\* The clock stops at MaxTime and every interview comes to rest.
CHECK_DEADLOCK FALSE
