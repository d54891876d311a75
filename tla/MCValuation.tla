---------------------------- MODULE MCValuation ----------------------------
(* Small instances of Valuation. *)
EXTENDS Valuation

CONSTANTS v1, v2, e1, e2, e3

TwoValuers == {v1, v2}
TwoEnterers == {e1, e2}
OneEnterer == {e1}

Requires(asset, day, native, object) ==
    [asset |-> asset, day |-> day, native |-> native, object |-> object]

Plain == [reward |-> FALSE]
Reward(net, gross, fee, sameAsset) ==
    [reward |-> TRUE, net |-> net, gross |-> gross, fee |-> fee, sameAsset |-> sameAsset]

\* 1 and 3 are two windows apart; 2 is a reward of the same day as 1 whose fee does
\* not add up; 4 is in EUR; 5 is of the day that is not over, and an old reward; 6
\* has no mapping, and the object of 7 is missing.
Table == <<Requires("BTC", 1, FALSE, Reward(4, 5, 1, TRUE)),
           Requires("BTC", 1, FALSE, Reward(4, 5, 2, TRUE)),
           Requires("BTC", 3, FALSE, Plain), Requires("EUR", 1, TRUE, Plain),
           Requires("BTC", 4, FALSE, Reward(4, None, None, FALSE)),
           Requires("XYZ", 1, FALSE, Plain), Requires("BTC", 2, FALSE, None)>>
SmallTable == Table

Situation(database, requirements, requests) ==
    [engine |-> database, open |-> requirements, requests |-> requests]
SmallSituations ==
    {Situation("sqlite", {2, 4, 6, 7}, {v1, v2}),
     Situation("sqlite", {1, 5}, {v1, v2}),
     Situation("sqlite", {1, 3}, {v1, v2, e1}),
     Situation("sqlite", {1}, {v1, e1, e2}),
     Situation("postgresql", {1, 4}, {v1, v2})}

Days == 1..4
Listed == [BTC |-> [d \in Days |-> "a"]]
Old == {Price("BTC", 1, FALSE, "market-chart-range-v1", 1, "a", None)}
Row(day, content) == [asset |-> "BTC", day |-> day, content |-> content]
OneRow == {<<Row(1, "m")>>, <<Row(1, "n")>>}
File == {<<Row(1, "m"), Row(3, "m")>>, <<Row(1, "m"), Row(1, "n")>>, <<Row(5, "m")>>}
SomeRows == OneRow \cup File
=============================================================================
