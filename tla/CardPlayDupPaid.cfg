\* Two requests in flight for seat 0: a double click, a second tab, a task
\* delivered twice.
CONSTANTS
  N = 2
  CARDS_PER_PLAYER = 2
  Deck = {0, 1, 8, 10}
  Bet = 5
  StartCredit = 20
  Multiplayer = TRUE
  StepByStep = FALSE
  Req = {"a", "b", "c"}
  SeatOf <- TwoForSeat0
  Evaluators = {}
  MaxRetries = 2
SPECIFICATION Spec
INVARIANT SettledOnce
CHECK_DEADLOCK FALSE
