CONSTANTS
  ludexd = ludexd
  p1 = p1
  p2 = p2
  p3 = p3
  k1 = k1
  k2 = k2
  Pid <- MCPid
  OwnPid = ludexd
  GamePid <- MCAllGames
  Key = {k1, k2}
  KeyOf <- MCKeys
  PauseSettings <- MCBoth
  MaxQueue = 1
  MaxWatchers = 1
SPECIFICATION Spec
INVARIANTS
  TypeOK
  ToldWhatIsTracked
  TimerIffBackgrounded
PROPERTIES
  WatchedExitStops
  BackgroundIsTransient
