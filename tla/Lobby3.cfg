\* Two users to invite, two or three seats, two backends; anybody may lack the credit.
CONSTANTS
  Users = {u1, u2, u3}
  Creator = u1
  MaxPlayers = 3
  Bet = 5
  Credits = {5, 20}
  Backends = {b1, b2}
  Nobody = nobody
  Starts = {r1}
  MaxCuts = 1
SPECIFICATION FairSpec
INVARIANTS SeatsInOrder StartedFull
PROPERTY PendingEnds
CHECK_DEADLOCK FALSE
