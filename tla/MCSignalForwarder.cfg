SPECIFICATION Spec
CONSTANTS
  Apps = {"a"}
  Tables <- MCTables
  MaxSessions = 3
  MaxBoots = 2
  NotificationCapacity = 2
  Gap = 1
  Day = 4
INVARIANTS
  TypeOK
  TrayShowsTheSession
  ListsShowPlays
PROPERTY
  LossClearsTray
CHECK_DEADLOCK FALSE
