SPECIFICATION WLiveSpec
CONSTANTS
  m1 = m1
  Manuals <- OneManual
  Expiry = Expiry
  MaxEdits = 1
  MaxLine = 2
  MaxMishaps = 1

\* The interview ends, and edits and reloads are bounded.
CHECK_DEADLOCK FALSE
PROPERTY NeverSpinsForever
