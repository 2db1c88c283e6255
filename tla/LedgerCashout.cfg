\* One cash-out, decided on by the command line and the scheduler.
CONSTANTS
  StartCredits = {1, 4}
  FreeCredit = 2
  PaidCredit = 5
  MaxCuts = 1
  Quick = {q}
  Created = {m}
  Accepted = {a}
  Stake = 1
  TopUps = {t}
  Unfreezes = {u}
  TopUpCredit = 3
  MonthlyCap = 3
  MaxRows = 2
  Requests = {c}
  Amount = 1
  MaxHands = 2
  Loads = {{c}}
SPECIFICATION Spec
INVARIANT LeavesOnce
CHECK_DEADLOCK FALSE
