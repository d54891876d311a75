---------------------------- MODULE SalePlanner ----------------------------
(***************************************************************************)
(* core/sale_planner.py and api/sale_proposals.py: what a sale of an asset *)
(* would take from the inventory if it happened now.  The inventory is     *)
(* what calculate_fifo leaves of all lots after all disposals up to now.   *)
(* A simulation only computes; it is a function of a finished run of Fifo, *)
(* of the request, and, for a live one, of what the exchange answers.      *)
(*                                                                         *)
(* Prices, proceeds and fees are integers, as all amounts of Fifo are.     *)
(* Holding periods and warnings are left out.                              *)
(***************************************************************************)
EXTENDS FifoReference

CONSTANTS
    Sellable,      \* the requests; delisted: a confirmed delisting is not yet mapped
    NotAsked,      \* as a request's balances: the exchange is not asked
    NoBalance      \* as a request's balances: the exchange does not tell

\* SaleProposalRequest; the amount is a quantity, a target or not used.
WellFormed(r) ==
    /\ r.mode \in {"quantity", "target_eur", "all_available_inventory"}
    /\ {r.amount, r.price} \subseteq Positive
    /\ r.fee \in Nat \cup {None}
    /\ {r.unvalued, r.delisted} \subseteq BOOLEAN
    /\ r.balances \notin {NotAsked, NoBalance} =>
          /\ IsFiniteSet(r.balances)
          /\ \A b \in r.balances : b.spot \in BOOLEAN /\ {b.balance, b.available} \subseteq Int

ASSUME SellableAssumption == \A r \in Sellable : WellFormed(r)

\* The rounded share of a sale is not negative, as those of Fifo are not; no sale is
\* larger than all lots.
Quantities(s) == 1 .. SumOver(LAMBDA l : s.lots[l].quantity, Lots)
ASSUME SaleShareAssumption ==
    \A r \in Sellable : \A s \in Snapshots : \A p \in Quantities(s) : \A q \in 1 .. p :
        /\ Share(p * r.price, q, p) \in Nat
        /\ r.fee # None => Share(r.fee, q, p) \in Nat

\* A run over everything there is until now; now is the end of its last day.
SnapshotTaken == phase = "idle" /\ period # None /\ period.start = 0

LotsOf(asset) == {l \in Inventory(period) : input.lots[l].asset = asset}
InStock(asset) == {l \in LotsOf(asset) : remaining[l] > 0}

\* A lot with quantity left has cost left, or SaleInventoryLot fails.
StockAccepted == \A l \in Inventory(period) : remaining[l] > 0 => restCost[l] > 0

\* inventory_quantity: an asset's total.
Stock(asset) == SumOver(LAMBDA l : remaining[l], InStock(asset))

\* An object without a valuation, or a disposal beyond what had been acquired.
Incomplete(r) == r.unvalued \/ \E d \in reviews : input.disposals[d].asset = r.asset

-----------------------------------------------------------------------------
(* What the exchange says, if it is asked: for each kind of balance its    *)
(* amount and how much of that is available; only spot can be sold.        *)

TotalBalance(rows) == SumOver(LAMBDA b : b.balance, rows)
Spot(rows) == SumOver(LAMBDA b : b.available, {b \in rows : b.spot})

Bounded(r) == r.balances # NotAsked

\* Nothing is proposed for an asset in doubt, live only if both sides agree.
Permitted(r) ==
    /\ LotsOf(r.asset) # {} /\ r.asset \notin NonInventory
    /\ ~r.delisted /\ ~Incomplete(r)
    /\ Bounded(r) => /\ r.balances # NoBalance
                     /\ TotalBalance(r.balances) = Stock(r.asset)
                     /\ Spot(r.balances) >= 0

-----------------------------------------------------------------------------
(* simulate_sale.                                                          *)

\* MUTANT of Proposed: all that is in stock, available or not.
ProposedStock(r) ==
    IF r.mode = "all_available_inventory" THEN Stock(r.asset)
    ELSE IF r.mode = "target_eur" THEN r.amount \div r.price
    ELSE r.amount

\* The target is reached as far as a quantity without further digits can.
Proposed(r) ==
    IF r.mode = "all_available_inventory"
    THEN IF Bounded(r) THEN Smaller(Stock(r.asset), Spot(r.balances)) ELSE Stock(r.asset)
    ELSE IF r.mode = "target_eur" THEN r.amount \div r.price
    ELSE r.amount

Gross(r) == Proposed(r) * r.price

Feasible(r) ==
    /\ Proposed(r) \in 1 .. Stock(r.asset)
    /\ Bounded(r) => \/ r.mode = "all_available_inventory"
                     \/ Proposed(r) <= Spot(r.balances)
    /\ r.fee # None => r.fee <= Gross(r)

Proposable(r) == StockAccepted /\ Permitted(r) /\ Feasible(r)

\* sorted(..., key=(acquired_at, sequence, hex)): what comes last.
LastLot(S) == CHOOSE l \in S : \A x \in S \ {l} : Precedes(input.lots, x, l)

\* The last piece takes what is left, as in calculate_fifo.
Rest(whole, used, quantity, sale, r) ==
    IF quantity = sale.left THEN whole - used ELSE Share(whole, quantity, Proposed(r))

\* MUTANT of Piece: the cost of a piece is a share of the lot's first cost.
PieceOfFirstCost(sale, l, quantity, r) ==
    [lot |-> l, quantity |-> quantity,
     cost |-> Share(Cost(l), quantity, input.lots[l].quantity),
     proceeds |-> Rest(Gross(r), sale.proceeds, quantity, sale, r),
     fee |-> IF r.fee = None THEN 0 ELSE Rest(r.fee, sale.fee, quantity, sale, r)]

Piece(sale, l, quantity, r) ==
    [lot |-> l, quantity |-> quantity,
     cost |-> IF quantity = remaining[l] THEN restCost[l]
              ELSE Share(restCost[l], quantity, remaining[l]),
     proceeds |-> Rest(Gross(r), sale.proceeds, quantity, sale, r),
     fee |-> IF r.fee = None THEN 0 ELSE Rest(r.fee, sale.fee, quantity, sale, r)]

Sold(sale, piece) ==
    [left |-> sale.left - piece.quantity, pieces |-> sale.pieces \cup {piece},
     proceeds |-> sale.proceeds + piece.proceeds, fee |-> sale.fee + piece.fee]

Sell(sale, l, r) ==
    IF sale.left = 0 THEN sale
    ELSE Sold(sale, Piece(sale, l, Smaller(sale.left, remaining[l]), r))

Unsold(r) == [left |-> Proposed(r), pieces |-> {}, proceeds |-> 0, fee |-> 0]

\* The loop over the lots in stock, oldest first.
Proposal(r) ==
    MapThenFoldSet(LAMBDA l, sale : Sell(sale, l, r), Unsold(r), LAMBDA l : l, LastLot,
                   InStock(r.asset)).pieces

-----------------------------------------------------------------------------
(* Properties.                                                             *)

PieceQuantity(pieces, l) ==
    SumOver(LAMBDA p : p.quantity, {p \in pieces : p.lot = l})

\* The quantity is what the reference definition of FIFO gives a disposal that comes
\* after all others, whatever these have left of which lot; and the amounts add up,
\* also to the cost of the inventory if all of it is sold.
TakenAsByFifo(r, pieces) ==
    LET before == Consumed({d \in Sales(period) : input.disposals[d].asset = r.asset})
    IN  /\ \A l \in LotsOf(r.asset) :
              PieceQuantity(pieces, l)
                = Overlap(before, before + Proposed(r),
                          LotStart(l), LotStart(l) + input.lots[l].quantity)
        /\ SumOver(LAMBDA p : p.proceeds, pieces) = Gross(r)
        /\ r.fee # None => SumOver(LAMBDA p : p.fee, pieces) = r.fee
        /\ Proposed(r) = Stock(r.asset) =>
              SumOver(LAMBDA p : p.cost, pieces)
                = SumOver(LAMBDA l : restCost[l], InStock(r.asset))

\* Whatever is proposed could be sold: FIFO would take it exactly so, and the exchange
\* has it available, neither held nor in another kind of balance.
ProposalsMatchFifo ==
    SnapshotTaken => \A r \in Sellable : Proposable(r) =>
        /\ \E pieces \in {Proposal(r)} : TakenAsByFifo(r, pieces)
        /\ Bounded(r) => Proposed(r) <= Spot(r.balances)
=============================================================================
