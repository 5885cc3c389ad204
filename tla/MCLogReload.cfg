\* Two records and one reload; the host is never killed and the cap is not met.
CONSTANTS
  Body = {entry}
  Cap = 3
  Threshold = 3
  MaxLogged = 2
  MaxEnds = 1
  HostMayCrash = FALSE
SPECIFICATION LSpec
INVARIANT ReloadLosesNothing
