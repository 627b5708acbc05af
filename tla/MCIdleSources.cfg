CONSTANTS
  Second = 2
  MaxTime = 4
  Window = 1
  SetupWatchdog = 2
  Graces = {0, 1}
  Notifier = {"old", "good"}
  MaxStarts = 2
SPECIFICATION Spec
INVARIANTS
  TypeOK
  BillsItsOwnIdleTime
  OneSourceServes
  NoResumeIsLost
PROPERTIES
  SetupSettles
CHECK_DEADLOCK FALSE
