\* Three games, or two of a game, a top-up, an unfreezing and a cash-out, at once.
CONSTANTS
  StartCredits = {1, 4}
  FreeCredit = 2
  PaidCredit = 5
  MaxCuts = 1
  Quick = {q}
  Created = {m}
  Accepted = {a}
  Stake = 1
  TopUps = {t}
  Unfreezes = {u}
  TopUpCredit = 3
  MonthlyCap = 3
  MaxRows = 2
  Requests = {c}
  Amount = 1
  MaxHands = 2
  Loads = {{q, m, a}, {q, t}, {q, u}, {q, c}, {t, u}, {t, c}, {m, c}}
SPECIFICATION FairSpec
INVARIANTS Accounted CreditedOnce ClosedOnce
PROPERTIES BlocksEnd PaidIsApplied
CHECK_DEADLOCK FALSE
