\* The page of a room and of a user, nothing broken: their entries are swept all the same.
CONSTANTS
  Pages = {"room", "user"}
  Pings = {"user"}
  QueueMax = 1
  Heartbeat = 2
  MaxIdle = 3
  MaxCuts = 0
SPECIFICATION Spec
PROPERTY NeverZombie
CHECK_DEADLOCK FALSE
