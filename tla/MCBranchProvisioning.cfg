\* Two calls of validate-session, two of which may break off, two commits.
CONSTANTS
  c1 = c1
  c2 = c2
  Calls <- TwoCalls
  MaxFaults = 2
  MaxWork = 2
SPECIFICATION FairSpec
INVARIANTS QuietCloneIsReady ReadyCloneCanPush
PROPERTIES PushedWorkIsKept RetriesGetThere
