\* Three calls on one of six small accounts.
CONSTANTS
    q1 = q1
    q2 = q2
    q3 = q3
    Requests <- ThreeRequests
    Accounts <- SmallAccounts
    MaxActive <- SmallActive
    CanonicalKey <- SmallKeys
    Raw <- SmallRaw
    Canonical <- Codes
    Variant <- Variants
    Fiat <- FiatCodes
    QuoteTolerance = 1
    FallbackDistance = 1
    MigrationWindow <- Window
    MigrationDistance = 1
    SelfTransfers <- HistoricalDeposit
    Null = Null
    Absent = Absent
SPECIFICATION Spec
SYMMETRY AnyRequest
INVARIANTS
    ProjectionNeverCollides
    SelectedRecordsDecided
    TradeLegsExplained
    RepeatedRunBooksNothing
PROPERTIES
    ImplementsStore
    StoredRecordsStay
    UndisturbedExchangesBookedWhole
CHECK_DEADLOCK FALSE
