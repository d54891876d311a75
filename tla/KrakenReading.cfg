\* Two calls of two clients with one retry each while requests and answers are
\* lost or late; a growing ledger that takes back and changes one entry each.
SPECIFICATION ReadingSpec
CONSTANTS
    k1 = k1  k2 = k2
    Clients <- TwoClients
    MaxRetries = 1
    LedgerInterval = 2
    RateLimitBase = 2
    WallClock <- SlowClock
    RetryAfters = {0, 3}
    MaxCalls = 2
    LedgerIds <- FourIds
    Rank <- ByNumber
    InWindow <- OldestOutside
    Unparsable = {3}
    PageSize = 2
    MaxPages = 3
    MaxRemovals = 1
    MaxAmends = 1
INVARIANTS SingleReadExact ConfirmedReadIsASnapshot ConfirmedContentsCurrent RefusedOnlyWhenOvertaken
PROPERTIES RateLimitHonoured EveryCallReturns
CHECK_DEADLOCK FALSE
