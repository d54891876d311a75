\* Suggestions and decisions on them, historical transfers and transformation runs.
SPECIFICATION Spec
CONSTANTS
    h1 = h1  h2 = h2  t1 = t1  t2 = t2  g1 = g1  d1 = d1  d2 = d2  d3 = d3
    None = None
    Resolvers <- TwoResolvers
    Runs <- TwoRuns
    Generators <- OneGenerator
    Deciders <- ThreeDeciders
    Ledger <- SmallLedger
    Row <- SmallRows
    Transfers <- SmallTransfers
    Asks <- SmallAsks
    Situations <- SmallSituations
    Fiat = {"EUR"}
    Proceeds = {"EUR", "USD", "USDC", "USDT"}
    PairWindow = 7
INVARIANTS ConfirmedOnce RejectedNotConfirmed SettledDepositNotReviewed
    BasisCoveredOrListed FeesValued
CHECK_DEADLOCK FALSE
