CONSTANTS
  GameKey = {g1, g2}
  NULL = NULL
  HeartbeatInterval = 2
  IdleBilled <- MCIdleBilled
  Skews <- MCNoSkew
  InboxCapacity = 1
  MaxSessions = 2
  MaxTime = 3
  MaxFailures = 1
  MaxCrashes = 1
SPECIFICATION Spec
SYMMETRY KeySymmetry
INVARIANTS
  TypeOK
  StatsMatchClosedRows
  TrackedRowsAreOpen
  OpenRowsAccountedFor
