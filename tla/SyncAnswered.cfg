\* One entry whose content changes, two other imports; every request is answered.
SPECIFICATION FairSpec
CONSTANTS
    r1 = r1  r2 = r2  r3 = r3  e1 = e1  e2 = e2  c1 = c1  c2 = c2
    Null = Null
    OccurredAt <- EntryTimes
    InitialStart = 0
    Lookback = 1
    SettlementLag = 1
    Requests <- TwoRequests
    Entries <- OneEntry
    Contents <- TwoContents
    Stale = 1
    MaxDelay = 1
    MaxTime = 4
    MaxImports = 2
PROPERTIES EveryRequestReturns ImplementsStore
CHECK_DEADLOCK FALSE
