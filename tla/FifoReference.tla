---------------------------- MODULE FifoReference ----------------------------
(***************************************************************************)
(* What calculate_fifo computes, said without loops: lay the lots of an    *)
(* asset end to end in the order they were acquired, and the disposals in  *)
(* the order they happened; a disposal takes from a lot what the two have  *)
(* in common.  With it, the properties of Fifo that add amounts up.        *)
(***************************************************************************)
EXTENDS Fifo, FiniteSetsExt

\* tax_inputs delivers finite lists.
ASSUME FiniteAssumption == IsFiniteSet(Lots) /\ IsFiniteSet(Disposals)

SumOver(op(_), S) == MapThenSumSet(op, S)

Calculated == {d \in Disposals : calculations[d] # None}
PartsOf(d) == {a \in allocations : a.disposal = d}
PartsFrom(l) == {a \in allocations : a.lot = l}

Quantity(a) == a.quantity

\* Everything acquired of d's asset until d happened.
Supply(d) ==
    SumOver(LAMBDA l : input.lots[l].quantity,
            {l \in Inventory(period) : /\ input.lots[l].asset = input.disposals[d].asset
                                       /\ input.lots[l].at <= input.disposals[d].at})

\* How much of an asset the disposals in S have taken, in order: never more
\* than had been acquired when they happened.
Consumed(S) ==
    LET taken[T \in SUBSET S] ==
          IF T = {} THEN 0
          ELSE LET last == CHOOSE d \in T :
                              \A x \in T \ {d} : Precedes(input.disposals, x, d)
               IN  Smaller(taken[T \ {last}] + input.disposals[last].quantity, Supply(last))
    IN  taken[S]

Rivals(d) ==
    {x \in Sales(period) : /\ input.disposals[x].asset = input.disposals[d].asset
                           /\ Precedes(input.disposals, x, d)}

Older(l) ==
    {x \in Inventory(period) : /\ input.lots[x].asset = input.lots[l].asset
                               /\ Precedes(input.lots, x, l)}

LotStart(l) == SumOver(LAMBDA x : input.lots[x].quantity, Older(l))

\* The length two intervals have in common.
Overlap(from, to, start, end) ==
    Max({0, Smaller(to, end) - Max({from, start})})

\* However partial takes, late lots and shortages alternate, each disposal ends
\* up with exactly the pieces the reference definition gives it.
AllocationsAreOverlaps ==
    \A d \in Calculated : \A l \in Inventory(period) :
        input.lots[l].asset = input.disposals[d].asset =>
            SumOver(Quantity, PartsOf(d) \cap PartsFrom(l))
              = Overlap(Consumed(Rivals(d)), Consumed(Rivals(d) \cup {d}),
                        LotStart(l), LotStart(l) + input.lots[l].quantity)

\* docs/fifo.md: the sums are exactly the amounts distributed.  For a lot, what
\* its parts cost and what is left; for a disposal allocated in full, the
\* proceeds and fees of its parts.
AmountsConserved ==
    /\ period # None => \A l \in Inventory(period) :
          /\ SumOver(Quantity, PartsFrom(l)) + remaining[l] = input.lots[l].quantity
          /\ SumOver(LAMBDA a : a.cost, PartsFrom(l)) + restCost[l] = Cost(l)
    /\ \A d \in Calculated : calculations[d].resolved =>
          /\ SumOver(LAMBDA a : a.proceeds, PartsOf(d)) = input.disposals[d].proceeds
          /\ SumOver(LAMBDA a : a.fee, PartsOf(d)) = input.disposals[d].fee

\* docs/fifo.md: "keine Überallokation".  All finished runs together.
NoOverallocation ==
    \A l \in Lots :
        SumOver(LAMBDA p : SumOver(Quantity, {a \in reports[p] : a.lot = l}),
                {p \in Periods : reports[p] # None})
          <= input.lots[l].quantity
=============================================================================
