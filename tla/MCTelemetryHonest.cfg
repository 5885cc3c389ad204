\* No append fails and the host never ends.
CONSTANTS
  Body <- AllReports
  Cap = 5
  Threshold = 5
  MaxLogged = 2
  MaxEnds = 0
  HostMayCrash = FALSE
  MaxEvents = 2
  MaxFailedWrites = 0
SPECIFICATION AnchorSpec
INVARIANT OnlyRemovalIsPenalised
