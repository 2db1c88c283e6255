\* One spectator who registers while the run goes on to its second game.
CONSTANTS
  Spectators = {"s1"}
  Games = 2
  MaxFaults = 0
SPECIFICATION Spec
PROPERTY AlwaysFollows
CHECK_DEADLOCK FALSE
