\* Three humans with two cards each and two rounds, one request in flight per seat.
CONSTANTS
  N = 3
  CARDS_PER_PLAYER = 2
  Deck = {0, 1, 2, 8, 9, 16}
  Bet = 5
  StartCredit = 20
  Multiplayer = TRUE
  StepByStep = FALSE
  Req = {"a", "b", "c"}
  SeatOf <- OnePerSeat
  Evaluators = {}
  MaxRetries = 3
SPECIFICATION PlayingSpec
INVARIANT SettledOnce
PROPERTIES ImplementsTrickGame GameEnds
CHECK_DEADLOCK FALSE
