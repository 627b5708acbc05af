CONSTANTS
  gui = gui
  hades = hades
  Clients = {gui}
  GameKey = {hades}
  Setting = {"alt_tab_grace", "backup_retention"}
  Values = {0, 1, 2}
  Unreadable = {{}, {"backup_retention", "blocklist"}}
  MaxTime = 2
  MaxCalls = 2
SPECIFICATION Spec
INVARIANTS
  TypeOK
  MirrorsAgree
  SchedulerFollowsConfig
PROPERTIES
  NewestSnapshotKept
  ReloadFollows
  ShutdownEnds
