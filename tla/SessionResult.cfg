\* Two humans and one kick.
CONSTANTS
  N = 2
  CARDS_PER_PLAYER = 2
  Bet = 5
  StartCredit = 20
  Tables = {{0, 1}}
  Users = {0, 1}
  SpecialHands = {}
  MaxKicks = 1
  MaxCrashes = 0
SPECIFICATION Spec
PROPERTY ResultStands
CHECK_DEADLOCK FALSE
