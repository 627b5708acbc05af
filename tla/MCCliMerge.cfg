CONSTANTS
  GameKey = {g1, g2}
  NULL = NULL
  HeartbeatInterval = 2
  IdleBilled <- MCNoIdle
  Skews <- MCNoSkew
  InboxCapacity = 1
  MaxSessions = 3
  MaxTime = 2
  MaxFailures = 0
  MaxCrashes = 1
  BusReachable <- MCBusUp
  BootMayRace = FALSE
SPECIFICATION MergeSpec
SYMMETRY KeySymmetry
INVARIANTS
  StatsMatchClosedRows
  OneOpenRowPerApplication
