\* Enough for one edit, one auto-commit and the submission.
CONSTANTS
  MaxTree = 2
  MaxCommits = 4
  Depth = 50
SPECIFICATION CommitsSpec
INVARIANT WorkIsNeverFloored
CHECK_DEADLOCK FALSE
