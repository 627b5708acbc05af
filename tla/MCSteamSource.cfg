CONSTANTS
  App = {portal, hades}
  ProcUnreadable = TRUE
  MaxDrain = 3
  MaxWritten = 3
  MaxOther = 1
  MaxRotations = 1
SPECIFICATION Spec
INVARIANTS
  TypeOK
  FollowsSteam
PROPERTY
  UnreadIsRead
CHECK_DEADLOCK FALSE
