CONSTANTS
  gui = gui
  hades = hades
  Clients = {gui}
  GameKey = {hades}
  Setting = {"alt_tab_grace", "backup_retention"}
  Values = {1}
  Unreadable = {{}}
  MaxTime = 2
  MaxCalls = 0
SPECIFICATION Spec
PROPERTY
  FailedSnapshotIsNotThere
