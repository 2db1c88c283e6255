\* Three humans, each of whom may be asked to claim and kicked, or one human and two
\* bots, and a scan cut short once.
CONSTANTS
  N = 3
  CARDS_PER_PLAYER = 2
  Bet = 5
  StartCredit = 20
  Tables = {{0, 1, 2}, {0}}
  Users = {0, 1, 2}
  SpecialHands = {0, 1, 2}
  MaxKicks = 3
  MaxCrashes = 1
SPECIFICATION Spec
INVARIANT TurnHasOneHolder
PROPERTY KickedNeverPaid
CHECK_DEADLOCK FALSE
