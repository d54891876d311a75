-------------------------- MODULE MCImportPipeline --------------------------
(* Small accounts for ImportPipeline. *)
EXTENDS ImportPipeline, TLC

CONSTANTS q1, q2, q3

ThreeRequests == {q1, q2, q3}
AnyRequest == Permutations(Requests)

FiatCodes == {"EUR"}
Window == 4..6

Entry(key, type, subtype, ref, asset, amount, fee, at) ==
    [key |-> key, source |-> "kraken-ledgers", type |-> type, subtype |-> subtype,
     api |-> Absent, ref |-> ref, asset |-> asset, amount |-> amount, fee |-> fee,
     at |-> at]

Trade(key, base, quote, side, volume, cost, fee, ledgers, at) ==
    [key |-> key, source |-> "kraken-trades", base |-> base, quote |-> quote,
     side |-> side, volume |-> volume, cost |-> cost, consistent |-> TRUE, fee |-> fee,
     ledgers |-> ledgers, at |-> at]

Single(key, type, subtype, asset, amount) ==
    Entry(key, type, subtype, Absent, asset, amount, 0, 1)

\* The records of all accounts.
Table == [
    \* An exchange for ETH, and one for EUR: one reference and one receive each, but
    \* two spends that may belong to it.
    s1 |-> Entry("s1", "spend", Absent, "x", "BTC", -3, 0, 1),
    s2 |-> Entry("s2", "spend", Absent, "x", "BTC", -2, 1, 1),
    r  |-> Entry("r", "receive", Absent, "x", "ETH", 5, 0, 1),
    c1 |-> Entry("c1", "spend", Absent, "x", "BTC", -3, 0, 1),
    c2 |-> Entry("c2", "spend", Absent, "x", "BTC", -2, 1, 1),
    e  |-> Entry("e", "receive", Absent, "x", "EUR", 9, 1, 1),
    \* A reward, a corrected version of it, and another reward.
    w  |-> Entry("w", "earn", "reward", Absent, "ETH", 3, 1, 1),
    w2 |-> Entry("w", "earn", "reward", Absent, "ETH", 4, 1, 1),
    v  |-> Entry("v", "staking", Absent, Absent, "DOT", 2, 0, 2),
    \* Both legs of a migration and of an allocation.
    m1 |-> Entry("m1", "staking", Absent, Absent, "ETH2", -3, 0, 4),
    m2 |-> Entry("m2", "staking", Absent, Absent, "XETH", 3, 0, 5),
    a1 |-> Entry("a1", "transfer", "autoallocation", "y", "DOT", -2, 0, 1),
    a2 |-> Entry("a2", "transfer", "autoallocation", "y", "DOT_F", 2, 0, 1),
    \* A trade, once naming its two entries, once only named by them.
    t  |-> Trade("t", "BTC", "EUR", "sell", 2, 9, 1, {}, 3),
    u  |-> Trade("t", "BTC", "EUR", "sell", 2, 9, 1, {"l1", "l2"}, 3),
    l1 |-> Entry("l1", "trade", Absent, "t", "BTC", -2, 0, 3),
    l2 |-> Entry("l2", "trade", Absent, "t", "EUR", 9, 1, 3),
    \* One entry of every other kind, and trades that are not booked.
    d1 |-> Single("d1", "deposit", Absent, "EUR", 9),
    d2 |-> Single("d2", "deposit", Absent, "BTC", 1),
    d3 |-> Single("d3", "deposit", Absent, "BTC", 2),
    f  |-> Single("f", "transfer", "spottofutures", "BTC", -1),
    g  |-> Single("g", "transfer", "spottostaking", "DOT", -1),
    h  |-> Single("h", "earn", "bonus", "DOT", 1),
    i  |-> Single("i", "earn", "reward", "XYZ", 1),
    o  |-> Single("o", "spend", Absent, "BTC", -1),
    z  |-> Single("z", "mystery", Absent, "BTC", 1),
    k1 |-> Entry("k1", "spend", Absent, "k", "BTC", 1, 0, 1),
    k2 |-> Entry("k2", "receive", Absent, "k", "ETH", 1, 0, 1),
    b1 |-> Entry("b1", "spend", Absent, "b", "EUR", -9, 0, 1),
    b2 |-> Entry("b2", "receive", Absent, "b", "BTC", 1, 0, 1),
    t1 |-> Trade("t1", "BTC", "ETH", "buy", 2, 4, 0, {}, 8),
    t2 |-> Trade("t2", Absent, "ETH", "buy", 2, 4, 0, {}, 8),
    t3 |-> Trade("t3", "BTC", "ETH", "buy", 0, 4, 0, {}, 8),
    t4 |-> Trade("t4", "BTC", "ETH", "buy", 2, 4, 0, {"d1"}, 8)]

KeyTable == [r \in DOMAIN Table |-> Table[r].key]
CodeTable == [BTC |-> "BTC", ETH |-> "ETH", EUR |-> "EUR", ETH2 |-> "ETH", XETH |-> "ETH",
              DOT |-> "DOT", DOT_F |-> "DOT", XYZ |-> Absent]
VariantTable == [a \in DOMAIN CodeTable |-> IF a = "DOT_F" THEN "F" ELSE Absent]

\* What the configuration names.  TLC evaluates the tables once, but a definition
\* that replaces a constant at each use.
SmallRaw == Table
SmallKeys == KeyTable
Codes == CodeTable
Variants == VariantTable
HistoricalDeposit == {"d3"}

\* The records of one batch: the trades, and the ledger entries.
OtherTrades == {"u", "t1", "t2", "t3", "t4"}
OtherEntries == {"l1", "l2", "d1", "d2", "d3", "f", "g", "h", "i", "o", "z", "k1", "k2",
                 "b1", "b2"}

\* Accounts on which two calls race, and accounts on which one call is made after the
\* other.
RacedAccounts ==
    {{{"r"}, {"s1", "r"}, {"s2", "r"}},
     {{"w", "v"}, {"w2"}},
     {{"t"}, {"l1", "l2"}}}
CalmAccounts ==
    {{{"c1", "e"}, {"c2", "e"}},
     {{"m1", "a1"}, {"m2", "a2"}},
     {OtherEntries, OtherTrades}}

AccountTable == RacedAccounts \cup CalmAccounts
SmallAccounts == AccountTable

ActiveTable == [a \in AccountTable |-> IF a \in RacedAccounts THEN 2 ELSE 1]
SmallActive == ActiveTable
=============================================================================
