SPECIFICATION IdentifySpec
CONSTANTS
  Chain = 4
  Reaper = 3
  Files <- MCFiles
  Titles <- MCTitles
INVARIANTS
  OneTrackerPerGame
  VerdictIsTheHeuristic
  NamedByTheStrongest
CHECK_DEADLOCK FALSE
