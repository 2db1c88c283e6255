\* Three humans and two kicks: violates LastPlayerWins and WarnedFirst, each checked
\* on its own.
CONSTANTS
  N = 3
  CARDS_PER_PLAYER = 2
  Bet = 5
  StartCredit = 20
  Tables = {{0, 1, 2}}
  Users = {0, 1, 2}
  SpecialHands = {}
  MaxKicks = 2
  MaxCrashes = 0
SPECIFICATION Spec
INVARIANT LastPlayerWins
\* PROPERTY WarnedFirst
CHECK_DEADLOCK FALSE
