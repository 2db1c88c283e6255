SPECIFICATION FairSpec
CONSTANTS
  a = a
  b = b
  c = c
  Users = {a, b, c}
  Requests = {q1, q2}
  Runs = {1, 2}
  NumGames = 2
  RoomMax = 3
  MaxCuts = 1
  Setups <- MCSetups
INVARIANTS OneActiveRun GamesInOrder Accounted
PROPERTY StalledRunEnds
CHECK_DEADLOCK FALSE
