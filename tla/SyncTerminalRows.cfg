\* A completed row is overwritten by a request that loaded it earlier.
SPECIFICATION Spec
CONSTANTS
    r1 = r1  r2 = r2  r3 = r3  e1 = e1  e2 = e2  c1 = c1  c2 = c2
    Null = Null
    OccurredAt <- EntryTimes
    InitialStart = 0
    Lookback = 1
    SettlementLag = 1
    Requests <- TwoRequests
    Entries <- OneEntry
    Contents <- OneContent
    Stale = 1
    MaxDelay = 1
    MaxTime = 5
    MaxImports = 0
PROPERTIES CompletedRunsImmutable
CHECK_DEADLOCK FALSE
