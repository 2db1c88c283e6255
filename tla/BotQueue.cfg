CONSTANTS
    Games = {"g"}
    N = 2
    Bots = {1}
    ROUNDS = 2
    Slots = {1, 2}
    ChainIds = {1, 2}
    CHAINS = 1
    MaxTries = 1
    MaxFaults = 1
    MaxEarly = 1
SPECIFICATION FairSpec
INVARIANTS BotTurnCarried
PROPERTIES BotTurnPlayed TaskSettles
CHECK_DEADLOCK FALSE
