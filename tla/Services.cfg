\* Each service on its own.
CONSTANTS
  Parts = {"guard", "breaker", "buffer", "limiter", "accounts", "sockets", "pages",
           "watching", "profiles", "boards", "scheduler", "hands"}
  Calls = {1, 2, 3}
  MaxSlips = 2
  Servers = {"s1"}
  MaxRequests = 2
  Window = 2
  Horizon = 5
  Clients = {"c1", "c2"}
  Pseudos = {"ana", "bob"}
  Addresses = {"Ana@x", "ana@x"}
  Mailbox <- LowerCase
  MailQueue = 1
  MaxLinks = 3
  Viewers = {"v1"}
  BoardUsers = {"u1", "u2"}
  MaxChanges = 3
  MaxFaults = 2
  Dealt = {{3, 11, 19, 27, 26}, {6, 14, 22, 30, 31}, {0, 8, 1, 9, 2}, {16, 24, 17, 25, 10},
           {4, 12, 20, 30, 31}, {5, 6, 7, 13, 14}, {21, 22, 23, 29, 15}, {4, 5, 12, 13, 20}}
  Leads = {18, 28}
SPECIFICATION Spec
INVARIANTS OnceWhileKept LimitHolds OneAccountEach StaleOnlyInRaces RulesAgree
PROPERTIES RetryAnswered BreakerCloses EventArrives ClientServed PageServed FollowsRun DueHandled
CHECK_DEADLOCK FALSE
