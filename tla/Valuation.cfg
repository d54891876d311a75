\* Two valuation runs and two requests with manual prices, over seven requirements.
SPECIFICATION Spec
CONSTANTS
    v1 = v1  v2 = v2  e1 = e1  e2 = e2  e3 = e3
    None = None  NoData = NoData  Native = Native
    Valuers <- TwoValuers
    Enterers <- TwoEnterers
    Requirement <- SmallTable
    Situations <- SmallSituations
    Methods = {"eur-valuation-v1", "eur-valuation-v2"}
    Legacy = "eur-valuation-v1"
    Contract = "market-chart-range-hourly-v2"
    Mapped = {"BTC"}
    Contents = {"a", "b"}
    FirstListing <- Listed
    StoredPrices <- Old
    Entries <- SomeRows
    Today = 4
    MaxRevisions = 1
    MaxDays = 3
    Retries = 1
    Temporary = {429}
    Permanent = {404}
INVARIANTS PriceHistoryIsAChain FetchCoversPlan PriceRestsOnItsEvidence
PROPERTIES ImplementsHistory ManualPriceWins
CHECK_DEADLOCK FALSE
