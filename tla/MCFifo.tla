------------------------------- MODULE MCFifo -------------------------------
(* Small instances of SalePlanner: two tax years of two days each. *)
EXTENDS SalePlanner, TLC

\* Decimal division rounds to the nearest digit, ties to the even one.
HalfEven(amount, quantity, full) ==
    LET quotient == (amount * quantity) \div full
        rest     == (amount * quantity) % full
    IN  IF 2 * rest > full \/ (2 * rest = full /\ quotient % 2 = 1)
        THEN quotient + 1 ELSE quotient

TwoYears == {[start |-> 0, end |-> 1], [start |-> 2, end |-> 3]}

Lot(asset, at, quantity, value, fee) ==
    [asset |-> asset, at |-> at, quantity |-> quantity, value |-> value, fee |-> fee,
     staking |-> FALSE, gross |-> None, deducted |-> 0]

Reward(asset, at, quantity, gross, deducted) ==
    [Lot(asset, at, quantity, 7, 0) EXCEPT !.staking = TRUE, !.gross = gross,
                                           !.deducted = deducted]

Sale(asset, at, quantity, proceeds, fee) ==
    [asset |-> asset, at |-> at, quantity |-> quantity, proceeds |-> proceeds, fee |-> fee]

\* Two lots and three sales of one asset at any of four moments, a lot and
\* a reward of other kinds beside them.
Ordinary ==
    {[lots |-> <<Lot("X", t1, q1, 10, 1), Lot("X", t2, q2, 8, 0),
                 Reward("Y", 1, 1, IF q1 = 1 THEN None ELSE 9, 2), Lot("EUR", 0, 3, 9, 0)>>,
      disposals |-> (11 :> Sale("X", s1, d1, 13, 13))
                 @@ (12 :> Sale("X", s2, d2, 17, 0))
                 @@ (13 :> Sale(IF d1 = d2 THEN "Y" ELSE "X", 2, 1, 6, 0))] :
        t1 \in {0, 2, 6}, t2 \in {0, 3}, q1 \in 1 .. 3, q2 \in {1, 2},
        s1 \in {1, 2, 5}, s2 \in {3, 6}, d1 \in {1, 2}, d2 \in {1, 3}}

\* Too few digits: three shares of 0.6 become 1 each, and 2 has no rest left.
Coarse ==
    {[lots |-> <<Lot("X", 0, 3, 9, 0), Lot("X", 0, 3, 9, 0), Lot("X", 1, 3, 9, 0),
                 Lot("X", 1, 1, 4, 0)>>,
      disposals |-> (11 :> Sale("X", 1, 10, 2, fee))
                 @@ (12 :> Sale("X", 2, 1, 2, 0))
                 @@ (13 :> Sale("EUR", 2, 1, 2, 0))] : fee \in {0, 1}}

Sell1(asset, mode, amount, fee, unvalued, balances) ==
    [asset |-> asset, mode |-> mode, amount |-> amount, price |-> 3, fee |-> fee,
     unvalued |-> unvalued, delisted |-> FALSE, balances |-> balances]

\* The exchange holds two or more, of which one is for an order or staked.
Holding(n) == {[spot |-> TRUE, balance |-> n, available |-> n],
               [spot |-> TRUE, balance |-> 1, available |-> 0],
               [spot |-> FALSE, balance |-> 2, available |-> 2]}

SomeSales ==
    {Sell1("X", "quantity", q, fee, FALSE, NotAsked) : q \in 1 .. 4, fee \in {None, 0, 2}}
      \cup {Sell1("X", "quantity", 2, 1, FALSE, NoBalance),
            Sell1("X", "quantity", 1, 1, TRUE, NotAsked),
            [Sell1("X", "quantity", 1, 1, FALSE, NotAsked) EXCEPT !.delisted = TRUE],
            Sell1("Y", "all_available_inventory", 1, None, FALSE, NotAsked),
            Sell1("EUR", "quantity", 1, None, FALSE, NotAsked)}
      \cup {Sell1("X", "target_eur", eur, 1, FALSE, NotAsked) : eur \in {2, 8, 9}}
      \cup {Sell1("X", mode, 2, 1, FALSE, Holding(n)) : n \in 0 .. 2,
               mode \in {"quantity", "all_available_inventory"}}
      \cup {Sell1("X", "all_available_inventory", 1, 2, FALSE, balances) :
               balances \in {NotAsked, {[spot |-> TRUE, balance |-> 3, available |-> 3]}}}
TheSales == SomeSales

SomeSnapshots == Ordinary \cup Coarse
=============================================================================
