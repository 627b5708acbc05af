SPECIFICATION Spec
CONSTANTS
  Apps = {"a", "b"}
  Tables <- MCTables
  MaxSessions = 3
  MaxBoots = 2
  NotificationCapacity = 2
  Gap = 1
  Day = 4
INVARIANT ReconciliationSeesTheGame
CHECK_DEADLOCK FALSE
