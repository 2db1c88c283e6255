\* The instance of Lobby3 with one backend: an accept that commits while the scan cancels.
CONSTANTS
  Users = {u1, u2, u3, u4}
  Creator = u1
  MaxPlayers = 3
  Bet = 5
  Credits = {5, 20}
  Backends = {b1}
  Nobody = nobody
  Starts = {r1}
  MaxCuts = 1
SPECIFICATION Spec
PROPERTY StakesReturned
CHECK_DEADLOCK FALSE
