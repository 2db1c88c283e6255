\* The five line-ups; the constants of CardPlay are those of the click made twice.
CONSTANTS
  Lineup = {"two", "three", "quick", "evaluated", "double"}
  N = 2
  CARDS_PER_PLAYER = 2
  Deck = {0, 1, 8, 10}
  Bet = 5
  StartCredit = 20
  Multiplayer = TRUE
  StepByStep = FALSE
  Req = {"a", "b", "c"}
  SeatOf <- Clicks
  Evaluators = {}
  MaxRetries = 2
SPECIFICATION LineupSpec
PROPERTIES StalledGameEnds EachAnswered NoLostTurn OneClaimWins
CHECK_DEADLOCK FALSE
