----------------------------- MODULE MCReviews -----------------------------
(* Small instances of FinancialReviews. *)
EXTENDS FinancialReviews, TLC

CONSTANTS h1, h2, t1, t2, g1, d1, d2, d3

TwoResolvers == {h1, h2}
TwoRuns == {t1, t2}
OneGenerator == {g1}
ThreeDeciders == {d1, d2, d3}

Entry(type, asset, amount, at) ==
    [type |-> type, asset |-> asset, amount |-> amount, fee |-> 0, at |-> at]

\* A withdrawal of EUR, a coin that leaves, two stable coins that could be its
\* proceeds, and a deposit.
Entries == <<Entry("withdrawal", "EUR", -5, 1), Entry("transfer", "XYZ", -4, 1),
             Entry("transfer", "USDT", 5, 3), Entry("transfer", "USDC", 6, 5),
             Entry("deposit", "BTC", 3, 2)>>
SmallLedger == Entries

External(kind, quantity, complete, cost, fee) ==
    [kind |-> kind, quantity |-> quantity, complete |-> complete, cost |-> cost,
     fee |-> fee]

\* A bought coin with a fee, two more without a price, one without a date, and a
\* network fee.
Table == (11 :> External("acquisition", 1, TRUE, TRUE, 1))
      @@ (12 :> External("acquisition", 2, TRUE, FALSE, 0))
      @@ (13 :> External("acquisition", 2, FALSE, FALSE, 0))
      @@ (14 :> External("fee", 0, TRUE, FALSE, 1))
      @@ (15 :> External("other", 0, TRUE, FALSE, 0))
SmallRows == Table

Transfer(sources, target, exact, own, coverage, fee, from) ==
    [sources |-> sources, target |-> target, exact |-> exact, source |-> 3,
     quantity |-> 3, own |-> own, coverage |-> coverage, text |-> "a",
     fee |-> fee, feeFrom |-> from]

Partial == Transfer({11, 14}, 5, TRUE, TRUE, "partial", 0, None)
Complete == Transfer({11, 12}, 5, TRUE, TRUE, "complete", 1, 14)
Undated == Transfer({13}, 5, TRUE, TRUE, "unknown", 0, None)
ForAsks ==
    <<{},
      {Partial, Complete, [Partial EXCEPT !.coverage = "complete"]},
      {Complete, Undated, [Complete EXCEPT !.own = FALSE],
       [Complete EXCEPT !.exact = FALSE, !.fee = 0]},
      {[Complete EXCEPT !.sources = @ \cup {14}], [Complete EXCEPT !.source = 2],
       [Partial EXCEPT !.target = None], [Complete EXCEPT !.feeFrom = 11]}>>
SmallTransfers == ForAsks

Ask(status, type, records, by) ==
    [status |-> status, type |-> type, records |-> records, by |-> by]
Pair(status, in, by) == Ask(status, Delisting, {2, in}, by)

NoAsk == [d \in {d1, d2, d3} |-> {}]
Decisions1 ==
    [NoAsk EXCEPT ![d1] = {Pair("rejected", 3, "a"), Pair("confirmed", 3, "a")},
                  ![d2] = {Pair("confirmed", 3, "b"), Pair("confirmed", 4, "b")},
                  ![d3] = {Pair("confirmed", 3, "c"), Pair("rejected", 3, "c")}]
Decisions2 ==
    [NoAsk EXCEPT ![d1] = {Ask("confirmed", Withdrawal, {1}, "a"),
                           Ask("rejected", Withdrawal, {1}, "a")},
                  ![d2] = {Ask("confirmed", Withdrawal, {1}, "b"),
                           Ask("confirmed", Delisting, {1, 2}, "b")}]
AllAsks == <<Decisions1, Decisions2>>
SmallAsks == AllAsks

OldReviews(records) == {<<r, Ledger[r].type>> : r \in records}
Of(transferAsks, decisionAsks, records, overlap, calls) ==
    [transfers |-> transferAsks, asks |-> decisionAsks, reviewed |-> OldReviews(records),
     fees |-> {}, overlap |-> overlap, calls |-> calls]

SmallSituations ==
    {Of(1, 1, {2, 3}, FALSE, {t1, g1, d1, d2, d3}),
     Of(1, 1, {2, 3, 4}, TRUE, {g1, d1, d2}),
     Of(1, 2, {1}, TRUE, {t1, g1, d1, d2}),
     Of(2, 1, {5}, FALSE, {t1, t2, h1, h2}),
     Of(3, 1, {5}, FALSE, {t1, t2, h1, h2}),
     [Of(4, 1, {}, FALSE, {t1, h1, h2}) EXCEPT !.fees = {14}]}
=============================================================================
