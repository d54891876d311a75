\* The same lots in the runs of two tax years.
SPECIFICATION Spec
CONSTANTS
    Lots = {1, 2, 3, 4}
    Disposals = {11, 12, 13}
    Assets = {"X", "Y", "EUR"}
    NonInventory = {"EUR"}
    Periods <- TwoYears
    Snapshots <- SomeSnapshots
    Share <- HalfEven
    DayLength = 2
    None = None
    Sellable <- TheSales
    NotAsked = NotAsked
    NoBalance = NoBalance
INVARIANTS NoOverallocation
CHECK_DEADLOCK FALSE
