\* Two chats; two tabs and two upload addresses; two editors; two applies on
\* one file of two places; three records in the buffer; two sessions in
\* pages of one.
CONSTANTS
  MaxRequests = 2
  MaxAnswer = 1
  MaxReloads = 1
  ChatModels = {"haiku"}
  Rates <- MCRates
  LlmBudget = 4
  BasePrompt = 1
  RepoPrompt = 1
  ClientPrompt = 1
  AiAssistance = TRUE
  ApiMayDie = TRUE
  t1 = t1
  t2 = t2
  Tabs <- TwoTabs
  MaxInits = 2
  MaxTime = 3
  UploadWindow = 2
  PutTtl = 2
  LinkTtl = 3
  MinDuration = 1
  MaxDuration = 2
  Lag = 0
  e1 = e1
  e2 = e2
  Editors <- TwoEditors
  MaxTexts = 3
  RateLimitMax = 2
  RateLimitWindow = 3
  MaxNow = 6
  f1 = f1
  p1 = p1
  p2 = p2
  Files <- OneFile
  Places <- TwoPlaces
  MaxIds = 2
  MaxApplies = 2
  MaxEdits = 2
  entry = entry
  Body <- OneBody
  Cap = 3
  Threshold = 2
  MaxLogged = 4
  MaxEnds = 1
  HostMayCrash = TRUE
  MaxSessions = 2
  MaxDbNow = 1
  MaxMoves = 4
  MaxPageSize = 1
  AskedLimits = {0, 2}
SPECIFICATION Spec
INVARIANTS ReadersAreToldTheTruth LedgerAgrees UsedMeansStored ConflictMeansTwoWrites
  WindowIsBounded ReportsAddUp ShownIsDecided RecordsAreKept
PROPERTIES ComposerIsFreed ReplacedOnlyByRacer DecidedReviewEnds EveryRecordArrives
CHECK_DEADLOCK FALSE
