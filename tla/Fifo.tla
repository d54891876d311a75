-------------------------------- MODULE Fifo --------------------------------
(***************************************************************************)
(* core/tax.py, calculate_fifo: the disposals of a reporting period take    *)
(* their quantity from the lots acquired before them, oldest lot first,    *)
(* and carry over cost, proceeds and fees in proportion; the last part of  *)
(* a disposal takes what is left of its proceeds and its fee, the last     *)
(* part of a lot what is left of its cost.                                 *)
(*                                                                         *)
(* One step is one turn of a loop of the function.  Amounts are integers:  *)
(* one is a unit of the last digit the division keeps, so that Share rounds *)
(* and everything else is exact, as exact_decimal_sum and its siblings are. *)
(* The runs of several periods work on the same snapshot one after another. *)
(***************************************************************************)
EXTENDS Integers

CONSTANTS
    Lots,           \* acquisition ids, ordered like the hex form of a UUID
    Disposals,      \* disposal ids
    Assets,
    NonInventory,   \* NON_INVENTORY_ASSETS
    Periods,        \* the reporting periods somebody asks for
    Snapshots,      \* what tax_inputs may deliver
    Share(_, _, _), \* _share(total, quantity, full_quantity)
    DayLength,      \* instants per UTC calendar day
    None

Positive == Nat \ {0}

LotData == [asset: Assets, at: Nat, quantity: Positive, value: Positive, fee: Nat,
            staking: BOOLEAN, gross: Positive \cup {None},
            deducted: Nat]     \* the platform fee, if decided to be deductible
DisposalData == [asset: Assets, at: Nat, quantity: Positive, proceeds: Positive, fee: Nat]
Snapshot == [lots: [Lots -> LotData], disposals: [Disposals -> DisposalData]]
Period == [start: Nat, end: Nat]

ASSUME IdAssumption ==
    /\ Lots \subseteq Nat /\ Disposals \subseteq Nat
    /\ Lots \cap Disposals = {}
    /\ None \notin Nat \cup Periods

ASSUME InputAssumption ==
    /\ Snapshots \subseteq Snapshot
    /\ Periods \subseteq Period
    /\ DayLength \in Positive

\* Rounding a non-negative quotient leaves a non-negative number.
ASSUME ShareAssumption ==
    \A s \in Snapshots :
        /\ \A l \in Lots : \A q \in 1 .. s.lots[l].quantity :
              Share(s.lots[l].value + s.lots[l].fee, q, s.lots[l].quantity) \in Nat
        /\ \A d \in Disposals : \A q \in 1 .. s.disposals[d].quantity :
              /\ Share(s.disposals[d].proceeds, q, s.disposals[d].quantity) \in Nat
              /\ Share(s.disposals[d].fee, q, s.disposals[d].quantity) \in Nat

VARIABLES
    input,          \* the snapshot
    phase,          \* "idle", "working", or "refused" by a ValueError
    period,         \* the period of this run
    remaining,      \* InventoryLot.remaining_quantity
    restCost,       \* InventoryLot.remaining_cost_eur
    pending,        \* disposals of the period the outer loop has not reached
    current,        \* the disposal in hand
    left,           \* the part of its quantity not allocated yet
    eligible,       \* the lots the inner loop has not reached
    total,          \* allocated, costs, proceeds, fees of the disposal in hand
    allocations, calculations, reviews, journal,     \* the lists returned
    reports         \* the allocations each finished run returned

result == <<allocations, calculations, reviews, journal>>
vars == <<input, phase, period, remaining, restCost, pending, current, left,
          eligible, total, result, reports>>

Day(t) == t \div DayLength
Within(t, p) == p.start <= Day(t) /\ Day(t) <= p.end

\* The order of sorted(..., key=(time, id.hex)).
Precedes(data, x, y) == data[x].at < data[y].at \/ (data[x].at = data[y].at /\ x < y)
IsFirst(data, S, x) == x \in S /\ \A y \in S \ {x} : Precedes(data, x, y)

Cost(l) == input.lots[l].value + input.lots[l].fee

\* The lots of a run: whatever was acquired until the end of the period.
Inventory(p) ==
    {l \in Lots : /\ Day(input.lots[l].at) <= p.end
                  /\ input.lots[l].asset \notin NonInventory}

\* The disposals of a run: those within the period, and no earlier ones.
Sales(p) ==
    {d \in Disposals : /\ Within(input.disposals[d].at, p)
                       /\ input.disposals[d].asset \notin NonInventory}

\* MUTANT of Open: lots acquired after the disposal as well.
OpenAtAnyTime(d) ==
    {l \in Inventory(period) : input.lots[l].asset = input.disposals[d].asset}

\* The lots of the run a disposal may draw on: same asset, acquired by then.
Open(d) ==
    {l \in Inventory(period) : /\ input.lots[l].asset = input.disposals[d].asset
                               /\ input.lots[l].at <= input.disposals[d].at}

EntryTypes == {"acquisition", "earn_inflow", "review", "disposal", "fee", "gain_loss"}
Entry == [type: EntryTypes, source: Lots \cup Disposals, lot: Lots \cup {None}, value: Int]
Allocation == [disposal: Disposals, lot: Lots, order: Positive, quantity: Positive,
               cost: Nat, proceeds: Nat, fee: Nat]
Totals == [quantity: Nat, parts: Nat, cost: Nat, proceeds: Nat, fee: Nat]
Calculation == [quantity: Nat, parts: Nat, cost: Nat, proceeds: Nat, fee: Nat,
                resolved: BOOLEAN]

ASSUME NoneAssumption == None \notin Calculation

Gain(x) == x.proceeds - x.fee - x.cost

TypeOK ==
    /\ input \in Snapshots
    /\ phase \in {"idle", "working", "refused"}
    /\ period \in Periods \cup {None}
    /\ phase = "working" => period \in Periods
    /\ remaining \in [Lots -> Nat]
    /\ restCost \in [Lots -> Int]
    /\ pending \subseteq Disposals
    /\ current \in Disposals \cup {None}
    /\ left \in Nat
    /\ eligible \subseteq Lots
    /\ total \in Totals
    /\ allocations \subseteq Allocation
    /\ calculations \in [Disposals -> Calculation \cup {None}]
    /\ reviews \subseteq Disposals
    /\ journal \subseteq Entry
    /\ reports \in [Periods -> (SUBSET Allocation) \cup {None}]

NoTotal == [quantity |-> 0, parts |-> 0, cost |-> 0, proceeds |-> 0, fee |-> 0]

Init ==
    /\ input \in Snapshots
    /\ phase = "idle"
    /\ period = None
    /\ remaining = [l \in Lots |-> 0]
    /\ restCost = [l \in Lots |-> 0]
    /\ pending = {} /\ current = None /\ left = 0 /\ eligible = {}
    /\ total = NoTotal
    /\ allocations = {} /\ reviews = {} /\ journal = {}
    /\ calculations = [d \in Disposals |-> None]
    /\ reports = [p \in Periods |-> None]

-----------------------------------------------------------------------------
(* The journal of acquisitions.                                            *)

Missing(l) == input.lots[l].staking /\ input.lots[l].gross = None

AcquisitionEntry(l) ==
    [type |-> IF Missing(l) THEN "review"
              ELSE IF input.lots[l].staking THEN "earn_inflow" ELSE "acquisition",
     source |-> l, lot |-> None,
     value |-> IF input.lots[l].gross # None THEN input.lots[l].gross
               ELSE IF input.lots[l].staking THEN 0 ELSE Cost(l)]

PlatformFeeEntry(l) ==
    [type |-> "fee", source |-> l, lot |-> None, value |-> input.lots[l].deducted]

AcquisitionJournal(p) ==
    LET acquired == {l \in Inventory(p) : Within(input.lots[l].at, p)} IN
    {AcquisitionEntry(l) : l \in acquired}
        \cup {PlatformFeeEntry(l) : l \in {x \in acquired : input.lots[x].deducted > 0}}

-----------------------------------------------------------------------------
(* The run.  A period whose run has finished is answered from the database. *)

StartRun(p) ==
    /\ phase = "idle"
    /\ reports[p] = None
    /\ phase' = "working"
    /\ period' = p
    /\ remaining' = [l \in Lots |->
                        IF l \in Inventory(p) THEN input.lots[l].quantity ELSE 0]
    /\ restCost' = [l \in Lots |-> IF l \in Inventory(p) THEN Cost(l) ELSE 0]
    /\ pending' = Sales(p)
    /\ current' = None /\ left' = 0 /\ eligible' = {} /\ total' = NoTotal
    /\ allocations' = {} /\ reviews' = {}
    /\ calculations' = [d \in Disposals |-> None]
    /\ journal' = AcquisitionJournal(p)
    /\ UNCHANGED <<input, reports>>

\* The outer loop takes the next disposal in time.
TakeDisposal(d) ==
    /\ phase = "working" /\ current = None
    /\ IsFirst(input.disposals, pending, d)
    /\ current' = d
    /\ pending' = pending \ {d}
    /\ left' = input.disposals[d].quantity
    /\ eligible' = {l \in Open(d) : remaining[l] > 0}
    /\ total' = NoTotal
    /\ UNCHANGED <<input, phase, period, remaining, restCost, result, reports>>

Smaller(a, b) == IF a <= b THEN a ELSE b

\* MUTANT of PartCost: the last part of a lot is a share like the others.
PartCostByShare(l) == Share(Cost(l), Smaller(left, remaining[l]), input.lots[l].quantity)

\* What the part of the disposal in hand costs if lot l provides it.
PartCost(l) ==
    LET quantity == Smaller(left, remaining[l]) IN
    IF quantity = remaining[l] THEN restCost[l]
    ELSE Share(Cost(l), quantity, input.lots[l].quantity)

\* MUTANT of Proportion: the last part is a share like the others.
ProportionByShare(whole, used, quantity, d) ==
    Share(whole, quantity, input.disposals[d].quantity)

\* A proportional part of the disposal's proceeds or fee; the last one takes
\* the remainder.
Proportion(whole, used, quantity, d) ==
    IF quantity = left THEN whole - used
    ELSE Share(whole, quantity, input.disposals[d].quantity)

Part(d, l) ==
    LET quantity == Smaller(left, remaining[l]) IN
    [disposal |-> d, lot |-> l, order |-> total.parts + 1, quantity |-> quantity,
     cost |-> PartCost(l),
     proceeds |-> Proportion(input.disposals[d].proceeds, total.proceeds, quantity, d),
     fee |-> Proportion(input.disposals[d].fee, total.fee, quantity, d)]

GainEntry(part) ==
    [type |-> "gain_loss", source |-> part.disposal, lot |-> part.lot, value |-> Gain(part)]

\* LotAllocation takes no negative amount.
Valid(part) == part.cost >= 0 /\ part.proceeds >= 0 /\ part.fee >= 0

\* MUTANT of NextLot: the youngest lot first.
NextLotYoungest(l) ==
    l \in eligible /\ \A x \in eligible \ {l} : Precedes(input.lots, x, l)

NextLot(l) == IsFirst(input.lots, eligible, l)

\* One turn of the inner loop.
Allocate(l) ==
    /\ phase = "working" /\ current # None /\ left > 0
    /\ NextLot(l)
    /\ LET part == Part(current, l) IN
       /\ Valid(part)
       /\ allocations' = allocations \cup {part}
       /\ remaining' = [remaining EXCEPT ![l] = @ - part.quantity]
       /\ restCost' = [restCost EXCEPT ![l] = @ - part.cost]
       /\ left' = left - part.quantity
       /\ total' = [quantity |-> total.quantity + part.quantity,
                    parts |-> total.parts + 1,
                    cost |-> total.cost + part.cost,
                    proceeds |-> total.proceeds + part.proceeds,
                    fee |-> total.fee + part.fee]
       /\ journal' = journal \cup {GainEntry(part)}
    /\ eligible' = eligible \ {l}
    /\ UNCHANGED <<input, phase, period, pending, current, calculations, reviews, reports>>

\* The ValueError of a part that rounding has made negative: the request fails
\* and nothing of the run is kept.
Refuse(l) ==
    /\ phase = "working" /\ current # None /\ left > 0
    /\ NextLot(l)
    /\ ~Valid(Part(current, l))
    /\ phase' = "refused"
    /\ UNCHANGED <<input, period, remaining, restCost, pending, current, left,
                   eligible, total, result, reports>>

ReviewEntry(d) == [type |-> "review", source |-> d, lot |-> None, value |-> 0]
FeeEntry(d) == [type |-> "fee", source |-> d, lot |-> None, value |-> input.disposals[d].fee]
DisposalEntry(d) == [type |-> "disposal", source |-> d, lot |-> None, value |-> Gain(total)]

\* MUTANT of FullyAllocated: a disposal with some inventory counts as resolved.
PartlyAllocated == total.parts > 0

FullyAllocated == left = 0

\* The inner loop is over: the disposal's calculation, and a review case when
\* the inventory did not suffice.
CloseDisposal ==
    /\ phase = "working" /\ current # None
    /\ left = 0 \/ eligible = {}
    /\ calculations' = [calculations EXCEPT ![current] =
           [quantity |-> total.quantity, parts |-> total.parts, cost |-> total.cost,
            proceeds |-> total.proceeds, fee |-> total.fee, resolved |-> FullyAllocated]]
    /\ reviews' = IF FullyAllocated THEN reviews ELSE reviews \cup {current}
    /\ journal' = journal \cup {DisposalEntry(current)}
          \cup (IF FullyAllocated THEN {} ELSE {ReviewEntry(current)})
          \cup (IF input.disposals[current].fee > 0 THEN {FeeEntry(current)} ELSE {})
    /\ current' = None
    /\ UNCHANGED <<input, phase, period, remaining, restCost, pending, left,
                   eligible, total, allocations, reports>>

\* return FifoResult(...)
ReturnResult ==
    /\ phase = "working" /\ current = None /\ pending = {}
    /\ reports' = [reports EXCEPT ![period] = allocations]
    /\ phase' = "idle"
    /\ UNCHANGED <<input, period, remaining, restCost, pending, current, left,
                   eligible, total, result>>

Next ==
    \/ \E p \in Periods : StartRun(p)
    \/ \E d \in Disposals : TakeDisposal(d)
    \/ \E l \in Lots : Allocate(l) \/ Refuse(l)
    \/ CloseDisposal
    \/ ReturnResult

Spec == Init /\ [][Next]_vars

-----------------------------------------------------------------------------
(* What a run promises at every point.  Further properties, which need sums,  *)
(* are in module FifoReference.                                              *)

\* No lot is touched while an older one of the same asset is not used up, in
\* whatever order lots were acquired and disposals took from them.
OldestFirst ==
    \A a \in allocations : \A l \in Inventory(period) :
        /\ input.lots[l].asset = input.lots[a.lot].asset
        /\ Precedes(input.lots, l, a.lot)
        => remaining[l] = 0

\* A review for missing inventory is raised only if nothing acquired by then is
\* left, and what counts as resolved is allocated in full, with all of its
\* proceeds and fee.
ShortageIsReal ==
    \A d \in Disposals : calculations[d] # None =>
        IF calculations[d].resolved
        THEN /\ d \notin reviews
             /\ calculations[d].quantity = input.disposals[d].quantity
             /\ calculations[d].proceeds = input.disposals[d].proceeds
             /\ calculations[d].fee = input.disposals[d].fee
        ELSE /\ d \in reviews
             /\ calculations[d].quantity < input.disposals[d].quantity
             /\ \A l \in Open(d) : remaining[l] = 0

\* Cost leaves the inventory together with the quantity it belongs to: a lot
\* that is used up has no cost left, an untouched one all of it.
CostFollowsQuantity == period # None =>
    \A l \in Inventory(period) :
        /\ remaining[l] = 0 => restCost[l] = 0
        /\ remaining[l] = input.lots[l].quantity => restCost[l] = Cost(l)
=============================================================================
