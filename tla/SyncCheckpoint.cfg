\* Two requests, two entries, one batch from another importer.
SPECIFICATION Spec
CONSTANTS
    r1 = r1  r2 = r2  r3 = r3  e1 = e1  e2 = e2  c1 = c1  c2 = c2
    Null = Null
    OccurredAt <- EntryTimes
    InitialStart = 0
    Lookback = 1
    SettlementLag = 1
    Requests <- TwoRequests
    Entries <- TwoEntries
    Contents <- OneContent
    Stale = 1
    MaxDelay = 2
    MaxTime = 6
    MaxImports = 1
SYMMETRY AnyRequest
INVARIANTS NoGapBehindCheckpoint
PROPERTIES ImplementsCheckpoint RecoveredRunStaysFailed
CHECK_DEADLOCK FALSE
