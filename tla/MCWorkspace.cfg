SPECIFICATION WLiveSpec
CONSTANTS
  m1 = m1
  Manuals <- OneManual
  Expiry = Expiry
  MaxEdits = 1
  MaxLine = 2
  MaxMishaps = 1
INVARIANTS
  PushHasToken
  WipesHaveACause
  SubmittedWorkIsPushed
\* The interview ends, and edits and reloads are bounded.
CHECK_DEADLOCK FALSE
PROPERTIES
  EditsAreSaved
  SubmissionEnds
