CONSTANTS
  GameKey = {g1}
  NULL = NULL
  HeartbeatInterval = 1
  IdleBilled <- MCIdleBilled
  Skews <- MCSkews
  InboxCapacity = 1
  MaxSessions = 2
  MaxTime = 2
  MaxFailures = 1
  MaxCrashes = 1
SPECIFICATION Spec
INVARIANTS
  LastPlayedIsAClosedRow
  HeartbeatLag
PROPERTIES
  ImplementsLedger
  CrashIsRecovered
  ShutdownCompletes
